------------------------ MODULE SessionStreamProofs -------------------------
(***************************************************************************)
(* What a session may lose of its costs, what it answers to an utterance,  *)
(* and that the audio of each utterance is the one the phone spoke, for    *)
(* any number of frames, utterances, deltas and faults.                    *)
(***************************************************************************)
EXTENDS SessionStream, FiniteSetTheorems, TLAPS

Leaving == {"Closing", "Done"}
\* The handler is neither between a final and its record nor on its way out.
Serving(p) == p \notin {"Recording"} \cup Leaving

\* The usage of the last response, and of it only, is lost.
Lost ==
    /\ usageSeen = recorded + 1
    /\ exit = "exception" /\ (clientGone \/ faults > 0)

\* Inductive: every usage is recorded before the next event is read, so that the
\* way out finds one missing at most.
UsageInv ==
    /\ usageSeen \in Nat /\ recorded \in Nat /\ faults \in Nat
    /\ Serving(pc) => usageSeen = recorded /\ exit = "none"
    /\ pc = "Recording" => usageSeen = recorded + 1 /\ exit = "none"
    /\ pc \in Leaving => usageSeen = recorded \/ Lost

----------------------------------------------------------------------------
LEMMA ReplyGoes ==
    ASSUME NEW frame, NEW next, NEW how, Reply(frame, next, how)
    PROVE  \/ pc' = next /\ exit' = how
           \/ pc' = "Closing" /\ exit' = "exception" /\ clientGone
BY DEF Reply

\* Steps beside the handler: the phone's, OpenAI's and the event loop's.
Beside ==
    /\ UNCHANGED <<usageSeen, recorded, pc, exit>>
    /\ faults' \in {faults, faults + 1}
    /\ clientGone => clientGone'

\* Steps of the handler that see no usage: it goes on serving or leaves.
Serves ==
    /\ Serving(pc) /\ UNCHANGED <<usageSeen, recorded, clientGone>>
    /\ faults' \in {faults, faults + 1}
    /\ \/ Serving(pc') /\ exit' = "none"
       \/ pc' \in Leaving

LEMMA BesideKeeps ==
    ASSUME UsageInv, Beside
    PROVE  UsageInv'
BY DEF UsageInv, Beside, Serving, Leaving, Lost

LEMMA ServesKeeps ==
    ASSUME UsageInv, Serves
    PROVE  UsageInv'
BY DEF UsageInv, Serves, Serving, Leaving, Lost

----------------------------------------------------------------------------
LEMMA ClientBeside == ASSUME Client PROVE Beside
<1>1. CASE ClientLeaves
  BY <1>1 DEF ClientLeaves, Beside, handler
<1>2. ASSUME NEW kind, ClientSends(kind) PROVE Beside
  BY <1>2 DEF ClientSends, Beside, handler
<1> QED BY <1>1, <1>2 DEF Client

LEMMA UpstreamBeside == ASSUME Upstream PROVE Beside
<1>1. ASSUME NEW e, Emit(e), faults' \in {faults, faults + 1} PROVE Beside
  BY <1>1 DEF Emit, Beside, handler, phone
<1>2. CASE EmitDelta
  BY <1>1, <1>2 DEF EmitDelta
<1>3. CASE EmitTextDone
  BY <1>1, <1>3 DEF EmitTextDone
<1>4. ASSUME NEW usage \in BOOLEAN, EmitDone(usage) PROVE Beside
  BY <1>1, <1>4 DEF EmitDone
<1>5. ASSUME NEW u \in transcripts, EmitTranscript(u) PROVE Beside
  BY <1>1, <1>5 DEF EmitTranscript
<1>6. CASE EmitError
  BY <1>1, <1>6 DEF EmitError, Fail
<1>7. ASSUME NEW clean \in BOOLEAN, UpstreamCloses(clean) PROVE Beside
  BY <1>7 DEF UpstreamCloses, Fail, Beside, handler, phone
<1> QED BY <1>2, <1>3, <1>4, <1>5, <1>6, <1>7 DEF Upstream

\* Looking up the session, frames, and the connection to OpenAI.
LEMMA ReceiveServes ==
    ASSUME UsageInv,
           \/ LookupFails \/ \E known \in BOOLEAN : LookupSession(known)
           \/ \E f \in ToSet(inbox) :
                 \/ ReceiveDisconnect(f) \/ ReceiveNotJson(f) \/ ReceiveIgnored(f)
                 \/ ReceiveRejected(f) \/ ReceiveStart(f) \/ ReceiveChunk(f) \/ ReceiveEnd(f)
           \/ Connect \/ ConnectFails
    PROVE  Serves
<1>0. Serving(pc) => exit = "none"
  BY DEF UsageInv
<1>1. CASE LookupFails
  BY <1>0, <1>1 DEF LookupFails, Fail, Serves, Serving, Leaving, handler, phone
<1>2. ASSUME NEW known \in BOOLEAN, LookupSession(known) PROVE Serves
  <2>1. pc = "Lookup" /\ UNCHANGED <<usageSeen, recorded, clientGone, faults>>
    BY <1>2 DEF LookupSession, handler, phone
  <2>2. \/ pc' = "Receive" /\ exit' = exit
        \/ pc' \in Leaving
    BY <1>2, ReplyGoes DEF LookupSession, Leaving
  <2> QED BY <1>0, <2>1, <2>2 DEF Serves, Serving, Leaving
<1>3. ASSUME NEW f, Takes(f),
             UNCHANGED <<usageSeen, recorded>>,
             \/ Serving(pc') /\ exit' = exit
             \/ Serving(pc') /\ exit' = "none"
             \/ pc' \in Leaving
      PROVE  Serves
  <2>1. pc = "Receive" /\ UNCHANGED <<clientGone, faults>>
    BY <1>3 DEF Takes, phone
  <2> QED BY <1>0, <1>3, <2>1 DEF Serves, Serving, Leaving
<1>4. ASSUME NEW f, ReceiveDisconnect(f) \/ ReceiveNotJson(f) PROVE Serves
  BY <1>3, <1>4 DEF ReceiveDisconnect, ReceiveNotJson, Raise, handler, Leaving
<1>5. ASSUME NEW f, ReceiveIgnored(f) \/ ReceiveChunk(f) PROVE Serves
  <2>1. Takes(f) /\ pc' = pc /\ exit' = exit /\ UNCHANGED <<usageSeen, recorded>>
    BY <1>5 DEF ReceiveIgnored, ReceiveChunk, handler
  <2>2. Serving(pc')
    BY <2>1 DEF Takes, Serving, Leaving
  <2> QED BY <1>3, <2>1, <2>2
<1>6. ASSUME NEW f, ReceiveRejected(f) PROVE Serves
  <2>1. Takes(f) /\ UNCHANGED <<usageSeen, recorded>>
    BY <1>6 DEF ReceiveRejected, handler
  <2>2. \/ pc' = "Receive" /\ exit' = "none"
        \/ pc' = "Closing"
    BY <1>6, ReplyGoes DEF ReceiveRejected, RejectFrame
  <2> QED BY <1>3, <2>1, <2>2 DEF Serving, Leaving
<1>7. ASSUME NEW f, ReceiveStart(f) PROVE Serves
  BY <1>3, <1>7 DEF ReceiveStart, handler, Serving, Leaving
<1>8. ASSUME NEW f, ReceiveEnd(f) PROVE Serves
  <2>1. Takes(f) /\ UNCHANGED <<usageSeen, recorded>>
    BY <1>8 DEF ReceiveEnd
  <2>2. \/ pc' = "Appending" /\ exit' = exit
        \/ pc' = "Closing"
    BY <1>8 DEF ReceiveEnd, Raise
  <2> QED BY <1>3, <2>1, <2>2 DEF Serving, Leaving
<1>9. CASE Connect
  <2>1. pc = "Connecting" /\ UNCHANGED <<usageSeen, recorded, clientGone, faults>>
    BY <1>9 DEF Connect, phone
  <2>2. \/ pc' = "Receive" /\ exit' = "none"
        \/ pc' = "Closing"
    BY <1>9, ReplyGoes DEF Connect
  <2> QED BY <2>1, <2>2 DEF Serves, Serving, Leaving
<1>10. CASE ConnectFails
  <2>1. pc = "Connecting" /\ UNCHANGED <<usageSeen, recorded, clientGone>> /\ faults' = faults + 1
    BY <1>10 DEF ConnectFails, Fail, phone, handler
  <2>2. pc' = "Closing"
    BY <1>10, ReplyGoes DEF ConnectFails, TranslatorFails
  <2> QED BY <2>1, <2>2 DEF Serves, Serving, Leaving
<1> QED BY <1>1, <1>2, <1>4, <1>5, <1>6, <1>7, <1>8, <1>9, <1>10

\* The stream of an utterance, but for the event that ends it.
LEMMA RelayServes ==
    ASSUME UsageInv,
           \/ ForwardAudio \/ ForwardFails \/ UpstreamEnds
           \/ \E e \in ToSet(upEvents) :
                 RelayDelta(e) \/ RelayTextDone(e) \/ RelayTranscript(e) \/ RelayError(e)
    PROVE  Serves
<1>0. Serving(pc) => exit = "none"
  BY DEF UsageInv
<1>1. CASE ForwardAudio
  <2>1. pc = "Appending" /\ pc' \in {"Appending", "Relaying"} /\ exit' = exit
        /\ UNCHANGED <<usageSeen, recorded, clientGone, faults>>
    BY <1>1 DEF ForwardAudio, phone
  <2> QED BY <1>0, <2>1 DEF Serves, Serving, Leaving
<1>2. CASE ForwardFails
  <2>1. pc = "Appending" /\ UNCHANGED <<usageSeen, recorded, clientGone, faults>>
    BY <1>2 DEF ForwardFails, phone
  <2>2. pc' = "Closing"
    BY <1>2, ReplyGoes DEF ForwardFails, StreamFails, TranslatorFails
  <2> QED BY <2>1, <2>2 DEF Serves, Serving, Leaving
<1>3. CASE UpstreamEnds
  <2>1. pc = "Relaying" /\ UNCHANGED <<usageSeen, recorded, clientGone, faults>>
    BY <1>3 DEF UpstreamEnds, phone, handler
  <2>2. \/ pc' = "Receive" /\ exit' = "none"
        \/ pc' = "Receive" /\ exit' = exit
        \/ pc' = "Closing"
    BY <1>3, ReplyGoes DEF UpstreamEnds, StreamFails, TranslatorFails
  <2> QED BY <1>0, <2>1, <2>2 DEF Serves, Serving, Leaving
<1>4. ASSUME NEW e, RelayDelta(e) \/ RelayTextDone(e) \/ RelayTranscript(e) \/ RelayError(e)
      PROVE  Serves
  <2>1. Reads(e) /\ usageSeen' = usageSeen
    BY <1>4 DEF RelayDelta, RelayTextDone, RelayTranscript, RelayError
  <2>2. pc = "Relaying" /\ UNCHANGED <<recorded, clientGone, faults>>
    BY <2>1 DEF Reads, phone
  <2>3. \/ pc' = "Relaying" /\ exit' = "none"
        \/ pc' = pc /\ exit' = exit
        \/ pc' = "Closing"
    BY <1>4, ReplyGoes DEF RelayDelta, RelayTextDone, RelayTranscript, RelayError,
                           StreamFails, TranslatorFails
  <2> QED BY <1>0, <2>1, <2>2, <2>3 DEF Serves, Serving, Leaving
<1> QED BY <1>1, <1>2, <1>3, <1>4

\* response.done, the record of its usage, and the way out.
LEMMA DoneKeeps ==
    ASSUME UsageInv, NEW e, RelayDone(e)
    PROVE  UsageInv'
<1>1. Reads(e) /\ pc = "Relaying" /\ UNCHANGED <<recorded, clientGone, faults>>
  BY DEF RelayDone, Reads, phone
<1>2. \/ /\ usageSeen' = usageSeen + 1
         /\ \/ pc' = "Recording" /\ exit' = "none"
            \/ pc' = "Closing" /\ exit' = "exception" /\ clientGone
      \/ /\ usageSeen' = usageSeen
         /\ \/ pc' = "Receive" /\ exit' = "none"
            \/ pc' = "Closing" /\ exit' = "exception" /\ clientGone
  BY ReplyGoes DEF RelayDone
<1> QED BY <1>1, <1>2 DEF UsageInv, Serving, Leaving, Lost

LEMMA RecordKeeps ==
    ASSUME UsageInv, RecordUsage \/ RecordFails
    PROVE  UsageInv'
<1>1. CASE RecordUsage
  <2>1. pc = "Recording" /\ recorded' = recorded + 1 /\ pc' = "Receive"
        /\ UNCHANGED <<usageSeen, exit, faults>>
    BY <1>1 DEF RecordUsage
  <2> QED BY <2>1 DEF UsageInv, Serving, Leaving
<1>2. CASE RecordFails
  <2>1. pc = "Recording" /\ pc' = "Closing" /\ exit' = "exception" /\ faults' = faults + 1
        /\ UNCHANGED <<usageSeen, recorded>>
    BY <1>2 DEF RecordFails, Fail, Raise, handler
  <2> QED BY <2>1 DEF UsageInv, Serving, Leaving, Lost
<1> QED BY <1>1, <1>2

LEMMA FinishKeeps ==
    ASSUME UsageInv, Finish
    PROVE  UsageInv'
<1>1. pc = "Closing" /\ pc' = "Done"
      /\ UNCHANGED <<usageSeen, recorded, exit, clientGone, faults>>
  BY DEF Finish, handler, phone
<1> QED BY <1>1 DEF UsageInv, Serving, Leaving, Lost

LEMMA CloseStreamBeside == ASSUME CloseAbandonedStream PROVE Beside
BY DEF CloseAbandonedStream, Beside, handler, phone

LEMMA StepKeepsUsage == UsageInv /\ [Next]_vars => UsageInv'
<1> SUFFICES ASSUME UsageInv, [Next]_vars PROVE UsageInv'
  OBVIOUS
<1>1. CASE UNCHANGED vars
  <2>1. Beside
    BY <1>1 DEF vars, Beside, handler, phone
  <2> QED BY <2>1, BesideKeeps
<1>2. CASE Client
  BY <1>2, ClientBeside, BesideKeeps
<1>3. CASE Upstream
  BY <1>3, UpstreamBeside, BesideKeeps
<1>4. CASE Handler
  <2>1. CASE CloseAbandonedStream
    BY <2>1, CloseStreamBeside, BesideKeeps
  <2>2. CASE Finish
    BY <2>2, FinishKeeps
  <2>3. CASE RecordUsage \/ RecordFails
    BY <2>3, RecordKeeps
  <2>4. CASE \E e \in ToSet(upEvents) : RelayDone(e)
    BY <2>4, DoneKeeps
  <2>5. CASE Serves
    BY <2>5, ServesKeeps
  <2> QED BY <1>4, <2>1, <2>2, <2>3, <2>4, <2>5, ReceiveServes, RelayServes DEF Handler
<1> QED BY <1>1, <1>2, <1>3, <1>4 DEF Next

LEMMA InitUsage == Init => UsageInv
BY DEF Init, UsageInv, Serving, Leaving

\* "the cost logger has a paper trail per session" (translator.py:371-372): of
\* all responses of a session, however many utterances it has, at most the last
\* is not recorded, and only when the phone had left or redis failed.
THEOREM SessionUsageRecorded == Spec => []UsageRecorded
<1>1. UsageInv => UsageRecorded
  BY DEF UsageInv, UsageRecorded, Serving, Leaving, Lost
<1> QED BY <1>1, InitUsage, StepKeepsUsage, PTL DEF Spec
----------------------------------------------------------------------------
\* The outcomes.

Busy == {"Appending", "Relaying"}

\* Inductive: no frame is of an utterance to come, and while the handler is
\* busy with the last utterance, which has no outcome yet, it has answered those
\* before it, unless the phone has left or the connection to OpenAI is closed.
OutcomeInv ==
    /\ utterance \in Nat
    /\ \E S : outbox \in Seq(S)
    /\ OneOutcome
    /\ \A i \in DOMAIN outbox : outbox[i].of \in 0..utterance
    /\ pc \in {"Lookup", "Connecting"} => ~started
    /\ ~started => utterance = 0
    /\ pc \in Busy => utterance > 0 /\ \A i \in DOMAIN outbox :
          outbox[i].of = utterance => outbox[i].type \notin Outcomes
    /\ pc \notin Leaving /\ ~clientGone /\ upOpen =>
          \A u \in 1..utterance : Answered(u) \/ (u = utterance /\ pc \in Busy)

\* A sequence and one more.
LEMMA OneMore ==
    ASSUME NEW S, NEW s \in Seq(S), NEW x
    PROVE  LET a == Append(s, x) IN
           /\ a \in Seq(S \cup {x}) /\ Len(a) = Len(s) + 1 /\ Len(s) \in Nat
           /\ DOMAIN s = 1..Len(s) /\ DOMAIN a = 1..(Len(s) + 1)
           /\ \A i \in DOMAIN s : a[i] = s[i]
           /\ a[Len(s) + 1] = x
<1>1. s \in Seq(S \cup {x})
  OBVIOUS
<1> QED BY <1>1

\* A step that says nothing to the phone.
Quiet ==
    /\ UNCHANGED <<outbox, utterance, started>>
    /\ clientGone => clientGone'
    /\ upOpen' => upOpen
    /\ \/ pc' = pc \/ pc' \in Leaving
       \/ pc = "Lookup" /\ pc' = "Receive"
       \/ pc = "Receive" /\ pc' = "Connecting" /\ ~started
       \/ pc = "Appending" /\ pc' = "Relaying"
       \/ pc = "Recording" /\ pc' = "Receive"
       \/ pc = "Relaying" /\ pc' = "Receive" /\ ~upOpen

\* A step that says frame f, as far as the phone is still there.
Says(f) ==
    /\ f.of = utterance
    /\ outbox' = Append(outbox, f) \/ (clientGone /\ outbox' = outbox)
    /\ UNCHANGED <<utterance, clientGone>>

\* Frames that are not of an utterance, partials and outcomes.
Speaks ==
    \/ /\ \E f : Says(f) /\ f.type \notin Outcomes \cup {"partial"}
       /\ started' = started /\ (upOpen' => upOpen)
       /\ (pc = "Receive" /\ pc' = "Receive") \/ pc' \in Leaving
    \/ /\ \E f : Says(f) /\ f.type \notin Outcomes \cup {"partial"}
       /\ started' = TRUE /\ pc = "Connecting" /\ pc' \in {"Receive", "Closing"}
    \/ /\ \E f : Says(f) /\ f.type = "partial"
       /\ started' = started /\ (upOpen' => upOpen)
       /\ pc = "Relaying" /\ pc' \in {"Relaying", "Closing"}
    \/ /\ \E f : Says(f) /\ f.type \in Outcomes
       /\ started' = started /\ (upOpen' => upOpen)
       /\ pc \in Busy \cup {"Connecting"} /\ pc' \in {"Recording", "Receive", "Closing"}

LEMMA QuietOutcomes ==
    ASSUME OutcomeInv, Quiet
    PROVE  OutcomeInv'
<1>1. OneOutcome' /\ \A u : Answered(u)' <=> Answered(u)
  BY DEF OutcomeInv, Quiet, OneOutcome, Answered
<1>2. pc' \in {"Lookup", "Connecting"} => ~started'
  BY DEF OutcomeInv, Quiet, Leaving
<1>3. pc' \in Busy => pc \in Busy
  BY DEF Quiet, Busy, Leaving
<1>4. pc' \in Busy => utterance > 0 /\ \A i \in DOMAIN outbox :
          outbox[i].of = utterance => outbox[i].type \notin Outcomes
  BY <1>3 DEF OutcomeInv
<1>5. ASSUME pc' \notin Leaving, ~clientGone', upOpen', NEW u \in 1..utterance
      PROVE  Answered(u) \/ (u = utterance /\ pc' \in Busy)
  <2>1. pc \notin Leaving /\ ~clientGone /\ upOpen
    BY <1>5 DEF Quiet, Leaving
  <2>2. pc \in Busy => pc' \in Busy
    BY <1>5, <2>1 DEF Quiet, Busy, Leaving
  <2> QED BY <2>1, <2>2 DEF OutcomeInv
<1> QED BY <1>1, <1>2, <1>4, <1>5 DEF OutcomeInv, Quiet

\* One frame more keeps what was said before, and answers its utterance if it is
\* an outcome.
LEMMA SaysOutcomes ==
    ASSUME OutcomeInv, NEW f, Says(f),
           \/ f.type \notin Outcomes \cup {"partial"}
           \/ utterance = 0
           \/ \A i \in DOMAIN outbox : outbox[i].of = utterance => outbox[i].type \notin Outcomes
    PROVE  /\ \E S : outbox' \in Seq(S)
           /\ OneOutcome'
           /\ \A i \in DOMAIN outbox' : outbox'[i].of \in 0..utterance
           /\ \A u : Answered(u) => Answered(u)'
           /\ f.type \in Outcomes /\ ~clientGone => Answered(utterance)'
           /\ f.type \notin Outcomes =>
                 ((\A i \in DOMAIN outbox : outbox[i].of = utterance => outbox[i].type \notin Outcomes)
                  => \A i \in DOMAIN outbox' : outbox'[i].of = utterance
                                               => outbox'[i].type \notin Outcomes)
<1>1. CASE outbox' = outbox
  BY <1>1 DEF OutcomeInv, Says, OneOutcome, Answered
<1>2. CASE outbox' = Append(outbox, f)
  <2>1. PICK S : outbox \in Seq(S)
    BY DEF OutcomeInv
  <2>2. /\ outbox' \in Seq(S \cup {f}) /\ Len(outbox) \in Nat
        /\ DOMAIN outbox = 1..Len(outbox) /\ DOMAIN outbox' = 1..(Len(outbox) + 1)
        /\ \A i \in DOMAIN outbox : outbox'[i] = outbox[i]
        /\ outbox'[Len(outbox) + 1] = f
    BY <1>2, <2>1, OneMore
  <2>3. \A i \in DOMAIN outbox' : i \in DOMAIN outbox \/ (i = Len(outbox) + 1 /\ outbox'[i] = f)
    BY <2>2
  <2>4. f.of = utterance /\ utterance' = utterance /\ utterance \in Nat
    BY DEF OutcomeInv, Says
  <2>5. OneOutcome'
    <3> SUFFICES ASSUME NEW i \in DOMAIN outbox', NEW j \in DOMAIN outbox',
                        i < j, outbox'[i].of = outbox'[j].of, outbox'[i].of # 0,
                        outbox'[i].type \in Outcomes
                 PROVE  outbox'[j].type \notin Outcomes \cup {"partial"}
      BY DEF OneOutcome
    <3>1. i \in DOMAIN outbox /\ outbox'[i] = outbox[i]
      BY <2>2
    <3>2. CASE j \in DOMAIN outbox
      BY <2>2, <3>1, <3>2 DEF OutcomeInv, OneOutcome
    <3>3. CASE outbox'[j] = f
      BY <2>4, <3>1, <3>3
    <3> QED BY <2>3, <3>2, <3>3
  <2>6. \A u : Answered(u) => Answered(u)'
    BY <2>2 DEF Answered
  <2>7. f.type \in Outcomes => Answered(utterance)'
    BY <2>2, <2>4 DEF Answered
  <2>8. \A i \in DOMAIN outbox' : outbox'[i].of \in 0..utterance
    BY <2>2, <2>3, <2>4 DEF OutcomeInv
  <2> QED BY <2>2, <2>3, <2>4, <2>5, <2>6, <2>7, <2>8
<1> QED BY <1>1, <1>2 DEF Says

LEMMA SpeaksOutcomes ==
    ASSUME OutcomeInv, Speaks
    PROVE  OutcomeInv'
<1>1. ASSUME NEW f, Says(f), f.type \notin Outcomes \cup {"partial"},
             started' = started, upOpen' => upOpen,
             (pc = "Receive" /\ pc' = "Receive") \/ pc' \in Leaving
      PROVE  OutcomeInv'
  <2>1. UNCHANGED <<utterance, clientGone>>
    BY <1>1 DEF Says
  <2> QED BY <1>1, <2>1, SaysOutcomes DEF OutcomeInv, Leaving, Busy
<1>2. ASSUME NEW f, Says(f), f.type \notin Outcomes \cup {"partial"},
             started' = TRUE, pc = "Connecting", pc' \in {"Receive", "Closing"}
      PROVE  OutcomeInv'
  <2>1. UNCHANGED <<utterance, clientGone>> /\ utterance = 0
    BY <1>2 DEF Says, OutcomeInv
  <2> QED BY <1>2, <2>1, SaysOutcomes DEF OutcomeInv, Leaving, Busy
<1>3. ASSUME NEW f, Says(f), f.type = "partial",
             started' = started, upOpen' => upOpen,
             pc = "Relaying", pc' \in {"Relaying", "Closing"}
      PROVE  OutcomeInv'
  <2>1. UNCHANGED <<utterance, clientGone>> /\ f.type \notin Outcomes
    BY <1>3 DEF Says, Outcomes
  <2> QED BY <1>3, <2>1, SaysOutcomes DEF OutcomeInv, Leaving, Busy
<1>4. ASSUME NEW f, Says(f), f.type \in Outcomes,
             started' = started, upOpen' => upOpen,
             pc \in Busy \cup {"Connecting"}, pc' \in {"Recording", "Receive", "Closing"}
      PROVE  OutcomeInv'
  <2>1. UNCHANGED <<utterance, clientGone>>
    BY <1>4 DEF Says
  <2>2. \/ utterance = 0
        \/ \A i \in DOMAIN outbox : outbox[i].of = utterance => outbox[i].type \notin Outcomes
    BY <1>4 DEF OutcomeInv
  <2> QED BY <1>4, <2>1, <2>2, SaysOutcomes DEF OutcomeInv, Leaving, Busy
<1> QED BY <1>1, <1>2, <1>3, <1>4 DEF Speaks

\* audio.end: the utterances so far are answered, and there is one more.
LEMMA EndOutcomes ==
    ASSUME OutcomeInv, pc = "Receive", started, pc' \in {"Appending", "Closing"},
           utterance' = utterance + 1,
           UNCHANGED <<outbox, started, clientGone, upOpen>>
    PROVE  OutcomeInv'
<1>1. OneOutcome' /\ \A u : Answered(u)' <=> Answered(u)
  BY DEF OutcomeInv, OneOutcome, Answered
<1>2. \A i \in DOMAIN outbox : outbox[i].of \in 0..(utterance + 1) /\ outbox[i].of # utterance + 1
  BY DEF OutcomeInv
<1>3. ASSUME ~clientGone, upOpen, NEW u \in 1..(utterance + 1) PROVE Answered(u) \/ u = utterance + 1
  BY <1>3 DEF OutcomeInv, Leaving, Busy
<1>4. utterance \in Nat /\ \E S : outbox \in Seq(S)
  BY DEF OutcomeInv
<1> QED BY <1>1, <1>2, <1>3, <1>4 DEF OutcomeInv, Leaving, Busy

LEMMA ReplySays ==
    ASSUME NEW type, NEW text, NEW src, NEW next, NEW how,
           Reply(Frame(type, text, src), next, how), UNCHANGED <<utterance, clientGone>>
    PROVE  Says(Frame(type, text, src)) /\ Frame(type, text, src).type = type
           /\ pc' \in {next, "Closing"}
BY DEF Reply, Says, Frame

LEMMA FailsSays ==
    ASSUME TranslatorFails, UNCHANGED <<utterance, clientGone>>
    PROVE  (\E f : Says(f) /\ f.type \in Outcomes) /\ pc' = "Closing"
BY ReplySays DEF TranslatorFails, ErrorFrame, Outcomes

LEMMA BesideQuiet == ASSUME Client \/ Upstream \/ UNCHANGED vars PROVE Quiet
<1>1. CASE UNCHANGED vars
  BY <1>1 DEF vars, phone, handler, upstream, Quiet
<1>2. CASE ClientLeaves
  BY <1>2 DEF ClientLeaves, handler, upstream, Quiet
<1>3. ASSUME NEW kind, ClientSends(kind) PROVE Quiet
  BY <1>3 DEF ClientSends, handler, upstream, Quiet
<1>4. ASSUME NEW e, Emit(e) PROVE Quiet
  BY <1>4 DEF Emit, handler, phone, Quiet
<1>5. ASSUME NEW clean \in BOOLEAN, UpstreamCloses(clean) PROVE Quiet
  BY <1>5 DEF UpstreamCloses, handler, phone, Quiet
<1>6. CASE Upstream
  BY <1>4, <1>5, <1>6 DEF Upstream, EmitDelta, EmitTextDone, EmitDone, EmitTranscript, EmitError
<1> QED BY <1>1, <1>2, <1>3, <1>6 DEF Client

\* Frames of the phone other than audio.end.
LEMMA ReceiveOutcomes ==
    ASSUME OutcomeInv, NEW f,
           \/ ReceiveDisconnect(f) \/ ReceiveNotJson(f) \/ ReceiveIgnored(f)
           \/ ReceiveRejected(f) \/ ReceiveStart(f) \/ ReceiveChunk(f)
    PROVE  Quiet \/ Speaks
<1>1. pc = "Receive" /\ UNCHANGED <<clientGone, upOpen, started, utterance>>
  BY DEF ReceiveDisconnect, ReceiveNotJson, ReceiveIgnored, ReceiveRejected, ReceiveStart,
         ReceiveChunk, Takes, phone, upstream, handler
<1>2. CASE ReceiveRejected(f)
  <2>1. Reply(Frame("invalid_event", <<>>, None), "Receive", "none")
    BY <1>2 DEF ReceiveRejected, RejectFrame, ErrorFrame
  <2>2. "invalid_event" \notin Outcomes \cup {"partial"}
    BY DEF Outcomes
  <2> QED BY <1>1, <2>1, <2>2, ReplySays DEF Speaks, Leaving
<1>3. CASE ReceiveStart(f)
  BY <1>1, <1>3 DEF ReceiveStart, Quiet
<1>4. CASE \/ ReceiveDisconnect(f) \/ ReceiveNotJson(f) \/ ReceiveIgnored(f) \/ ReceiveChunk(f)
  <2>1. outbox' = outbox /\ pc' \in {pc, "Closing"}
    BY <1>4 DEF ReceiveDisconnect, ReceiveNotJson, ReceiveIgnored, ReceiveChunk, Raise
  <2> QED BY <1>1, <2>1 DEF Quiet, Leaving
<1> QED BY <1>2, <1>3, <1>4

\* Looking up the session, connecting and leaving.
LEMMA WayOutcomes ==
    ASSUME OutcomeInv,
           \/ LookupFails \/ \E known \in BOOLEAN : LookupSession(known)
           \/ Connect \/ ConnectFails \/ CloseAbandonedStream \/ Finish
           \/ RecordUsage \/ RecordFails
    PROVE  Quiet \/ Speaks
<1>1. CASE LookupFails
  BY <1>1 DEF LookupFails, Quiet, Leaving, handler, phone, upstream
<1>2. ASSUME NEW known \in BOOLEAN, LookupSession(known) PROVE Quiet \/ Speaks
  <2>1. pc = "Lookup" /\ UNCHANGED <<clientGone, upOpen, started, utterance>>
    BY <1>2 DEF LookupSession, handler, phone, upstream
  <2>2. CASE known
    BY <1>2, <2>1, <2>2 DEF LookupSession, Quiet
  <2>3. CASE ~known
    <3>1. Reply(Frame("session_not_found", <<>>, None), "Done", "notFound")
      BY <1>2, <2>3 DEF LookupSession, ErrorFrame
    <3>2. "session_not_found" \notin Outcomes \cup {"partial"}
      BY DEF Outcomes
    <3> QED BY <2>1, <3>1, <3>2, ReplySays DEF Speaks, Leaving
  <2> QED BY <2>2, <2>3
<1>3. CASE Connect
  <2>1. Reply(Frame("opened", <<>>, None), "Receive", "none")
        /\ pc = "Connecting" /\ started' = TRUE /\ UNCHANGED <<clientGone, utterance>>
    BY <1>3 DEF Connect, phone
  <2>2. "opened" \notin Outcomes \cup {"partial"}
    BY DEF Outcomes
  <2> QED BY <2>1, <2>2, ReplySays DEF Speaks
<1>4. CASE ConnectFails
  <2>1. TranslatorFails /\ pc = "Connecting" /\ UNCHANGED <<clientGone, upOpen, started, utterance>>
    BY <1>4 DEF ConnectFails, handler, phone, upstream
  <2> QED BY <2>1, FailsSays DEF Speaks
<1>5. CASE CloseAbandonedStream
  BY <1>5 DEF CloseAbandonedStream, Quiet, handler, phone, upstream
<1>6. CASE Finish
  BY <1>6 DEF Finish, Quiet, Leaving, handler, phone
<1>7. CASE RecordUsage
  BY <1>7 DEF RecordUsage, Quiet, phone, upstream
<1>8. CASE RecordFails
  BY <1>8 DEF RecordFails, Raise, Quiet, Leaving, handler, phone, upstream
<1> QED BY <1>1, <1>2, <1>3, <1>4, <1>5, <1>6, <1>7, <1>8

\* The stream of an utterance.
LEMMA StreamOutcomes ==
    ASSUME OutcomeInv,
           \/ ForwardAudio \/ ForwardFails \/ UpstreamEnds
           \/ \E e \in ToSet(upEvents) :
                 \/ RelayDelta(e) \/ RelayTextDone(e) \/ RelayTranscript(e)
                 \/ RelayDone(e) \/ RelayError(e)
    PROVE  Quiet \/ Speaks
<1>1. CASE ForwardAudio
  BY <1>1 DEF ForwardAudio, Quiet, phone
<1>2. CASE ForwardFails
  <2>1. TranslatorFails /\ pc = "Appending" /\ UNCHANGED <<clientGone, upOpen, started, utterance>>
    BY <1>2 DEF ForwardFails, StreamFails, phone, upstream
  <2> QED BY <2>1, FailsSays DEF Speaks, Busy
<1>3. ASSUME NEW next, NEW how, Reply(FinalFrame, next, how), next \in {"Receive", "Recording"},
             pc = "Relaying", UNCHANGED <<clientGone, upOpen, started, utterance>>
      PROVE  Speaks
  <2>1. Reply(Frame("final", parts, source), next, how) /\ "final" \in Outcomes
    BY <1>3 DEF FinalFrame, Outcomes
  <2> QED BY <1>3, <2>1, ReplySays DEF Speaks, Busy
<1>4. CASE UpstreamEnds
  <2>1. pc = "Relaying" /\ ~upOpen /\ UNCHANGED <<clientGone, upOpen, started, utterance>>
    BY <1>4 DEF UpstreamEnds, handler, phone, upstream
  <2>2. CASE Reply(FinalFrame, "Receive", "none")
    BY <1>3, <2>1, <2>2
  <2>3. CASE pc' = "Receive" /\ outbox' = outbox
    BY <2>1, <2>3 DEF Quiet
  <2>4. CASE TranslatorFails
    BY <2>1, <2>4, FailsSays DEF Speaks, Busy
  <2> QED BY <1>4, <2>2, <2>3, <2>4 DEF UpstreamEnds, StreamFails
<1>5. ASSUME NEW e, Reads(e) PROVE pc = "Relaying" /\ UNCHANGED <<clientGone, upOpen, started, utterance>>
  BY <1>5 DEF Reads, phone
<1>6. ASSUME NEW e, RelayDelta(e) PROVE Speaks
  <2>1. /\ Reply(Frame("partial", <<<<e.of, e.n>>>>, None), "Relaying", "none") /\ Reads(e)
    BY <1>6 DEF RelayDelta
  <2> QED BY <1>5, <2>1, ReplySays DEF Speaks
<1>7. ASSUME NEW e, RelayTextDone(e) \/ RelayTranscript(e) PROVE Quiet
  BY <1>5, <1>7 DEF RelayTextDone, RelayTranscript, Quiet
<1>8. ASSUME NEW e, RelayDone(e) PROVE Speaks
  BY <1>3, <1>5, <1>8 DEF RelayDone
<1>9. ASSUME NEW e, RelayError(e) PROVE Speaks
  <2>1. TranslatorFails /\ Reads(e)
    BY <1>9 DEF RelayError, StreamFails
  <2> QED BY <1>5, <2>1, FailsSays DEF Speaks, Busy
<1> QED BY <1>1, <1>2, <1>4, <1>6, <1>7, <1>8, <1>9

LEMMA StepKeepsOutcomes == OutcomeInv /\ [Next]_vars => OutcomeInv'
<1> SUFFICES ASSUME OutcomeInv, [Next]_vars PROVE OutcomeInv'
  OBVIOUS
<1>1. CASE Quiet \/ Speaks
  BY <1>1, QuietOutcomes, SpeaksOutcomes
<1>2. ASSUME NEW f, ReceiveEnd(f) PROVE OutcomeInv'
  <2>1. /\ pc = "Receive" /\ started /\ utterance' = utterance + 1
        /\ UNCHANGED <<outbox, started, clientGone, upOpen>>
    BY <1>2 DEF ReceiveEnd, Raise, Takes, phone, upstream
  <2>2. pc' \in {"Appending", "Closing"}
    BY <1>2 DEF ReceiveEnd, Raise
  <2> QED BY <2>1, <2>2, EndOutcomes
<1> QED BY <1>1, <1>2, BesideQuiet, ReceiveOutcomes, WayOutcomes, StreamOutcomes DEF Next, Handler

LEMMA InitOutcomes == Init => OutcomeInv
<1> SUFFICES ASSUME Init PROVE OutcomeInv
  OBVIOUS
<1>1. outbox = <<>> /\ outbox \in Seq({}) /\ DOMAIN outbox = {} /\ utterance = 0 /\ ~started
      /\ pc = "Lookup"
  BY DEF Init
<1> QED BY <1>1 DEF OutcomeInv, OneOutcome, Busy

\* An utterance has one outcome at most, a final after all of its partials or an
\* error, however the frames of the phone, the events of OpenAI and the failures
\* of either interleave (openapi.yaml:47-49).
THEOREM SessionOneOutcome == Spec => []OneOutcome
<1>1. OutcomeInv => OneOutcome
  BY DEF OutcomeInv
<1> QED BY <1>1, InitOutcomes, StepKeepsOutcomes, PTL DEF Spec

\* When the handler is back at receive_json, it has answered every audio.end, of
\* a phone that is there and as long as the connection to OpenAI is open.
THEOREM SessionAnswers == Spec => []AnsweredWhileUpstreamOpen
<1>1. OutcomeInv => AnsweredWhileUpstreamOpen
  BY DEF OutcomeInv, AnsweredWhileUpstreamOpen, Leaving, Busy
<1> QED BY <1>1, InitOutcomes, StepKeepsOutcomes, PTL DEF Spec

----------------------------------------------------------------------------
\* The text of the finals.

\* Inductive: what the handler keeps for the final ends with the partials of the
\* last utterance, as long as the phone gets them.
TextInv ==
    /\ OutcomeInv
    /\ \E S : parts \in Seq(S)
    /\ FinalEndsWithPartials
    /\ ~clientGone => EndsWithPartials(parts, outbox, utterance)

\* A step that keeps the parts and says no partial; a final it says is made of
\* the parts.
Passes ==
    /\ UNCHANGED parts /\ (clientGone => clientGone')
    /\ \/ outbox' = outbox /\ utterance' = utterance
       \/ outbox' = outbox /\ utterance' = utterance + 1
       \/ /\ ~clientGone /\ utterance' = utterance
          /\ \E f : /\ outbox' = Append(outbox, f) /\ f.type # "partial"
                   /\ f.of = utterance /\ (f.type = "final" => f.text = parts)

\* One frame more, which is none of the partials of u, leaves them as they are.
LEMMA PartialsStay ==
    ASSUME NEW S, NEW s \in Seq(S), NEW f, NEW u, f.type # "partial" \/ f.of # u,
           NEW text, EndsWithPartials(text, s, u)
    PROVE  EndsWithPartials(text, Append(s, f), u)
<1> DEFINE a == Append(s, f)
<1>1. /\ Len(s) \in Nat
      /\ DOMAIN s = 1..Len(s) /\ DOMAIN a = 1..(Len(s) + 1)
      /\ \A i \in DOMAIN s : a[i] = s[i]
      /\ a[Len(s) + 1] = f
  BY OneMore
<1> HIDE DEF a
<1>2. \A k : PartialsFrom(a, k, u) = PartialsFrom(s, k, u)
  BY <1>1 DEF PartialsFrom
<1>3. \A k \in PartialsFrom(s, 1, u) : a[k] = s[k]
  BY <1>1 DEF PartialsFrom
<1>4. EndsWithPartials(text, a, u)
  BY <1>2, <1>3 DEF EndsWithPartials
<1> QED BY <1>4 DEF a

LEMMA PassesText ==
    ASSUME TextInv, Passes
    PROVE  FinalEndsWithPartials' /\ (~clientGone' => EndsWithPartials(parts', outbox', utterance'))
<1>0. PICK S : outbox \in Seq(S)
  BY DEF TextInv, OutcomeInv
<1>1. CASE outbox' = outbox /\ utterance' = utterance
  BY <1>1 DEF TextInv, Passes, FinalEndsWithPartials, EndsWithPartials, PartialsFrom
<1>2. CASE outbox' = outbox /\ utterance' = utterance + 1
  <2>1. FinalEndsWithPartials'
    BY <1>2 DEF TextInv, FinalEndsWithPartials, EndsWithPartials, PartialsFrom
  <2>2. PartialsFrom(outbox, 1, utterance + 1) = {}
    BY DEF PartialsFrom, TextInv, OutcomeInv
  <2>3. EndsWithPartials(parts', outbox', utterance')
    BY <1>2, <2>2 DEF EndsWithPartials, PartialsFrom, Passes
  <2> QED BY <2>1, <2>3
<1>3. ASSUME NEW f, ~clientGone, utterance' = utterance, outbox' = Append(outbox, f),
             f.type # "partial", f.of = utterance, f.type = "final" => f.text = parts
      PROVE  FinalEndsWithPartials' /\ (~clientGone' => EndsWithPartials(parts', outbox', utterance'))
  <2>1. \A text, u : EndsWithPartials(text, outbox, u) => EndsWithPartials(text, outbox', u)
    BY <1>0, <1>3, PartialsStay
  <2>2. EndsWithPartials(parts', outbox', utterance')
    BY <1>3, <2>1 DEF TextInv, Passes
  <2>3. ASSUME NEW i \in DOMAIN outbox', outbox'[i].type = "final"
        PROVE  EndsWithPartials(outbox'[i].text, outbox', outbox'[i].of)
    <3>1. i \in DOMAIN outbox \/ (i = Len(outbox) + 1 /\ outbox'[i] = f)
      BY <1>0, <1>3, OneMore
    <3>2. CASE i \in DOMAIN outbox
      <4>1. outbox'[i] = outbox[i]
        BY <1>0, <1>3, <3>2, OneMore
      <4> QED BY <2>1, <2>3, <3>2, <4>1 DEF TextInv, FinalEndsWithPartials
    <3>3. CASE outbox'[i] = f
      BY <1>3, <2>1, <2>3, <3>3 DEF TextInv
    <3> QED BY <3>1, <3>2, <3>3
  <2> QED BY <2>2, <2>3 DEF FinalEndsWithPartials
<1> QED BY <1>1, <1>2, <1>3 DEF Passes

\* A delta is kept and said: it is the last delta of the parts and the last
\* partial, and no final of its utterance was said before.
LEMMA DeltaText ==
    ASSUME TextInv, NEW e \in ToSet(upEvents), RelayDelta(e)
    PROVE  TextInv'
<1> DEFINE p == <<e.of, e.n>>
           f == Frame("partial", <<p>>, None)
<1>0. PICK S : outbox \in Seq(S)
  BY DEF TextInv, OutcomeInv
<1>1. PICK T : parts \in Seq(T)
  BY DEF TextInv
<1>2. parts' = Append(parts, p) /\ pc = "Relaying" /\ UNCHANGED <<clientGone, utterance>>
  BY DEF RelayDelta, Reads, phone
<1>3. outbox' = IF clientGone THEN outbox ELSE Append(outbox, f)
  BY DEF RelayDelta, Reply
<1>4. OutcomeInv'
  BY StreamOutcomes, QuietOutcomes, SpeaksOutcomes DEF TextInv
<1>5. /\ parts' \in Seq(T \cup {p}) /\ Len(parts') = Len(parts) + 1 /\ Len(parts) \in Nat
      /\ \A i \in 1..Len(parts) : parts'[i] = parts[i]
      /\ parts'[Len(parts) + 1] = p
  BY <1>1, <1>2, OneMore
<1>6. f.type = "partial" /\ f.of = utterance /\ f.text = <<p>>
  BY DEF Frame
<1> HIDE DEF f, p
<1>7. CASE clientGone
  <2>1. outbox' = outbox /\ clientGone'
    BY <1>2, <1>3, <1>7
  <2>2. FinalEndsWithPartials'
    BY <2>1 DEF TextInv, FinalEndsWithPartials
  <2> QED BY <1>4, <1>5, <2>1, <2>2 DEF TextInv
<1>8. CASE ~clientGone
  <2>1. outbox' = Append(outbox, f)
    BY <1>3, <1>8
  <2>2. /\ Len(outbox) \in Nat
        /\ DOMAIN outbox = 1..Len(outbox) /\ DOMAIN outbox' = 1..(Len(outbox) + 1)
        /\ \A i \in DOMAIN outbox : outbox'[i] = outbox[i]
        /\ outbox'[Len(outbox) + 1] = f
    BY <1>0, <2>1, OneMore
  <2>3. FinalEndsWithPartials'
    <3> SUFFICES ASSUME NEW i \in DOMAIN outbox', outbox'[i].type = "final"
                 PROVE  EndsWithPartials(outbox'[i].text, outbox', outbox'[i].of)
      BY DEF FinalEndsWithPartials
    <3>1. i \in DOMAIN outbox /\ outbox'[i] = outbox[i]
      BY <1>6, <2>2
    <3>2. outbox[i].of # utterance
      BY <1>2, <3>1 DEF TextInv, OutcomeInv, Busy, Outcomes
    <3>3. EndsWithPartials(outbox[i].text, outbox, outbox[i].of)
      BY <3>1 DEF TextInv, FinalEndsWithPartials
    <3>4. f.of # outbox[i].of
      BY <1>6, <3>2
    <3>5. EndsWithPartials(outbox[i].text, outbox', outbox[i].of)
      BY <1>0, <2>1, <3>3, <3>4, PartialsStay
    <3> QED BY <3>1, <3>5
  <2> DEFINE last == Len(outbox) + 1
             P(k) == PartialsFrom(outbox, k, utterance)
             Q(k) == {j \in 1..last : /\ j >= k /\ outbox'[j].of = utterance
                                      /\ outbox'[j].type = "partial"}
  <2>4. \A k \in 1..last : Q(k) = P(k) \cup {last}
    BY <1>6, <2>2 DEF PartialsFrom
  <2>5. ASSUME NEW k PROVE IsFiniteSet(P(k)) /\ last \notin P(k)
    <3>1. P(k) \subseteq 1..Len(outbox) /\ last \notin 1..Len(outbox)
      BY <2>2 DEF PartialsFrom
    <3>2. IsFiniteSet(1..Len(outbox))
      BY <2>2, FS_Interval
    <3> HIDE DEF P, last
    <3> QED BY <3>1, <3>2, FS_Subset
  <2>6. ASSUME NEW k \in 1..last
        PROVE  Cardinality(Q(k)) = Cardinality(P(k)) + 1 /\ Cardinality(P(k)) \in Nat
    <3> HIDE DEF P, Q, last
    <3>1. Q(k) = P(k) \cup {last} /\ IsFiniteSet(P(k)) /\ last \notin P(k)
      BY <2>4, <2>5
    <3> QED BY <3>1, FS_AddElement, FS_CardinalityType
  <2>7. ASSUME NEW k \in Q(1)
        PROVE  /\ Cardinality(Q(k)) <= Len(parts')
               /\ outbox'[k].text = <<parts'[Len(parts') - Cardinality(Q(k)) + 1]>>
    <3>1. CASE k = last
      <4>1. P(last) = {}
        BY <2>2 DEF PartialsFrom
      <4>2. Cardinality(Q(last)) = 1
        <5>1. Cardinality(Q(last)) = Cardinality(P(last)) + 1
          BY <2>2, <2>6
        <5>2. Cardinality(P(last)) = 0
          BY <4>1, FS_EmptySet
        <5> QED BY <5>1, <5>2
      <4> QED BY <1>5, <1>6, <2>2, <3>1, <4>2
    <3>2. CASE k \in 1..Len(outbox)
      <4>1. k \in P(1) /\ outbox'[k] = outbox[k] /\ k \in 1..last
        BY <2>2, <2>7, <3>2 DEF PartialsFrom
      <4>2. /\ Cardinality(P(k)) <= Len(parts)
            /\ outbox[k].text = <<parts[Len(parts) - Cardinality(P(k)) + 1]>>
        BY <1>8, <4>1 DEF TextInv, EndsWithPartials
      <4>3. k \in P(k)
        BY <2>2, <4>1 DEF PartialsFrom
      <4>4. Cardinality(P(k)) # 0 /\ Cardinality(P(k)) \in Nat
        BY <2>5, <2>6, <4>1, <4>3, FS_EmptySet
      <4>5. Cardinality(Q(k)) = Cardinality(P(k)) + 1
        BY <2>6, <4>1
      <4> DEFINE c == Cardinality(P(k))
                 d == Cardinality(Q(k))
      <4> HIDE DEF c, d
      <4>6. d <= Len(parts') /\ Len(parts') - d + 1 = Len(parts) - c + 1
            /\ Len(parts) - c + 1 \in 1..Len(parts)
        BY <1>5, <4>2, <4>4, <4>5 DEF c, d
      <4> QED BY <1>5, <4>1, <4>2, <4>6 DEF c, d
    <3>3. k = last \/ k \in 1..Len(outbox)
      BY <2>2, <2>7
    <3> HIDE DEF Q, last
    <3> QED BY <3>1, <3>2, <3>3
  <2>8. EndsWithPartials(parts', outbox', utterance')
    <3>1. \A k : PartialsFrom(outbox', k, utterance) = Q(k)
      BY <1>2, <2>2 DEF PartialsFrom
    <3> HIDE DEF Q
    <3> QED BY <1>2, <2>7, <3>1 DEF EndsWithPartials
  <2> QED BY <1>4, <1>5, <2>3, <2>8 DEF TextInv
<1> QED BY <1>7, <1>8

\* What is sent, besides partials.
LEMMA ReplyPasses ==
    ASSUME NEW frame, NEW next, NEW how, Reply(frame, next, how),
           frame.type # "partial", frame.of = utterance, frame.type = "final" => frame.text = parts,
           UNCHANGED <<parts, clientGone, utterance>>
    PROVE  Passes
BY DEF Reply, Passes

LEMMA FailsPasses ==
    ASSUME TranslatorFails, UNCHANGED <<parts, clientGone, utterance>>
    PROVE  Passes
<1> DEFINE f == Frame("translator_error", <<>>, None)
<1>1. Reply(f, "Closing", "translatorError")
  BY DEF TranslatorFails, ErrorFrame
<1>2. f.type = "translator_error" /\ f.of = utterance
  BY DEF Frame
<1> HIDE DEF f
<1> QED BY <1>1, <1>2, ReplyPasses

LEMMA ReceivePasses ==
    ASSUME NEW f,
           \/ ReceiveDisconnect(f) \/ ReceiveNotJson(f) \/ ReceiveIgnored(f)
           \/ ReceiveRejected(f) \/ ReceiveStart(f) \/ ReceiveChunk(f) \/ ReceiveEnd(f)
    PROVE  Passes
<1>1. UNCHANGED <<parts, clientGone>> /\ utterance' \in {utterance, utterance + 1}
  BY DEF ReceiveDisconnect, ReceiveNotJson, ReceiveIgnored, ReceiveRejected, ReceiveStart,
         ReceiveChunk, ReceiveEnd, Takes, phone, handler
<1>2. CASE outbox' = outbox
  BY <1>1, <1>2 DEF Passes
<1>3. CASE ReceiveRejected(f)
  <2> DEFINE g == Frame("invalid_event", <<>>, None)
  <2>1. Reply(g, "Receive", "none") /\ utterance' = utterance
    BY <1>3 DEF ReceiveRejected, RejectFrame, ErrorFrame, handler
  <2>2. g.type = "invalid_event" /\ g.of = utterance
    BY DEF Frame
  <2> HIDE DEF g
  <2> QED BY <1>1, <2>1, <2>2, ReplyPasses
<1> QED BY <1>2, <1>3 DEF ReceiveDisconnect, ReceiveNotJson, ReceiveIgnored, ReceiveStart,
           ReceiveChunk, ReceiveEnd, Raise

LEMMA WayPasses ==
    ASSUME \/ LookupFails \/ \E known \in BOOLEAN : LookupSession(known)
           \/ Connect \/ ConnectFails \/ CloseAbandonedStream \/ Finish
           \/ RecordUsage \/ RecordFails
    PROVE  Passes
<1>1. UNCHANGED <<parts, clientGone, utterance>>
  BY DEF LookupFails, LookupSession, Connect, ConnectFails, CloseAbandonedStream, Finish,
         RecordUsage, RecordFails, phone, handler
<1>2. CASE outbox' = outbox
  BY <1>1, <1>2 DEF Passes
<1>3. ASSUME NEW type, type \notin {"partial", "final"}, NEW next, NEW how,
             Reply(Frame(type, <<>>, None), next, how)
      PROVE  Passes
  <2> DEFINE g == Frame(type, <<>>, None)
  <2>1. g.type = type /\ g.of = utterance /\ Reply(g, next, how)
    BY <1>3 DEF Frame
  <2> HIDE DEF g
  <2> QED BY <1>1, <1>3, <2>1, ReplyPasses
<1>4. ASSUME NEW known \in BOOLEAN, LookupSession(known) PROVE Passes
  BY <1>2, <1>3, <1>4 DEF LookupSession, ErrorFrame
<1>5. CASE Connect
  BY <1>3, <1>5 DEF Connect
<1>6. CASE ConnectFails
  BY <1>1, <1>6, FailsPasses DEF ConnectFails
<1> QED BY <1>2, <1>4, <1>5, <1>6 DEF LookupFails, CloseAbandonedStream, Finish, RecordUsage,
           RecordFails, Raise

\* The stream of an utterance, but for its deltas.
LEMMA StreamPasses ==
    ASSUME \/ ForwardAudio \/ ForwardFails \/ UpstreamEnds
           \/ \E e \in ToSet(upEvents) :
                 RelayTextDone(e) \/ RelayTranscript(e) \/ RelayDone(e) \/ RelayError(e)
    PROVE  Passes
<1>1. UNCHANGED <<parts, clientGone, utterance>>
  BY DEF ForwardAudio, ForwardFails, UpstreamEnds, RelayTextDone, RelayTranscript, RelayDone,
         RelayError, Reads, phone, handler
<1>2. CASE outbox' = outbox
  BY <1>1, <1>2 DEF Passes
<1>3. ASSUME NEW next, NEW how, Reply(FinalFrame, next, how) PROVE Passes
  <2>1. FinalFrame.type = "final" /\ FinalFrame.of = utterance /\ FinalFrame.text = parts
    BY DEF FinalFrame, Frame
  <2> QED BY <1>1, <1>3, <2>1, ReplyPasses
<1>4. CASE TranslatorFails
  BY <1>1, <1>4, FailsPasses
<1>5. CASE UpstreamEnds
  BY <1>2, <1>3, <1>4, <1>5 DEF UpstreamEnds, StreamFails
<1>6. ASSUME NEW e, RelayDone(e) PROVE Passes
  BY <1>3, <1>6 DEF RelayDone
<1> QED BY <1>2, <1>4, <1>5, <1>6 DEF ForwardAudio, ForwardFails, RelayTextDone,
           RelayTranscript, RelayError, StreamFails

LEMMA BesidePasses == ASSUME Client \/ Upstream \/ UNCHANGED vars PROVE Passes
<1>1. ASSUME UNCHANGED <<outbox, parts, utterance>>, clientGone => clientGone' PROVE Passes
  BY <1>1 DEF Passes
<1>2. CASE Client
  BY <1>1, <1>2 DEF Client, ClientLeaves, ClientSends, handler
<1>3. ASSUME NEW e, Emit(e) PROVE Passes
  BY <1>1, <1>3 DEF Emit, handler, phone
<1>4. ASSUME NEW clean \in BOOLEAN, UpstreamCloses(clean) PROVE Passes
  BY <1>1, <1>4 DEF UpstreamCloses, handler, phone
<1>5. CASE Upstream
  BY <1>3, <1>4, <1>5 DEF Upstream, EmitDelta, EmitTextDone, EmitDone, EmitTranscript, EmitError
<1> QED BY <1>1, <1>2, <1>5 DEF vars, phone, handler

LEMMA StepKeepsText == TextInv /\ [Next]_vars => TextInv'
<1> SUFFICES ASSUME TextInv, [Next]_vars PROVE TextInv'
  OBVIOUS
<1>1. OutcomeInv'
  BY StepKeepsOutcomes DEF TextInv
<1>2. CASE Passes
  <2>1. \E S : parts' \in Seq(S)
    BY <1>2 DEF TextInv, Passes
  <2> QED BY <1>1, <1>2, <2>1, PassesText DEF TextInv
<1>3. ASSUME NEW e \in ToSet(upEvents), RelayDelta(e) PROVE TextInv'
  BY <1>3, DeltaText
<1> QED BY <1>2, <1>3, ReceivePasses, WayPasses, StreamPasses, BesidePasses DEF Next, Handler

LEMMA InitText == Init => TextInv
<1> SUFFICES ASSUME Init PROVE TextInv
  OBVIOUS
<1>1. outbox = <<>> /\ DOMAIN outbox = {} /\ parts = <<>> /\ parts \in Seq({}) /\ utterance = 0
  BY DEF Init
<1> QED BY <1>1, InitOutcomes DEF TextInv, FinalEndsWithPartials, EndsWithPartials, PartialsFrom

\* The final of an utterance ends with the partials the phone got of it, in their
\* order and with none missing, whichever utterance of the session it is and
\* however many there are (sessions.py clears the parts of no utterance).
THEOREM SessionFinals == Spec => []FinalEndsWithPartials
<1>1. TextInv => FinalEndsWithPartials
  BY DEF TextInv
<1> QED BY <1>1, InitText, StepKeepsText, PTL DEF Spec

----------------------------------------------------------------------------
\* The audio.

PhoneFrames == [kind : DOMAIN FrameBudget \cup {"disconnect"}, id : Nat]

\* The chunks of utterance u among the frames before frame t.
SpokenBefore(t, u) == {i \in Spoken(u) : i < t}

\* session_stream has taken up the frames before t: what waits for it are the
\* rest of the log and the disconnect of a phone that has left.
RestWaits(t) ==
    LET n == Len(log) + 1 - t IN
    /\ inbox \in Seq(PhoneFrames)
    /\ Len(inbox) = IF clientGone THEN n + 1 ELSE n
    /\ \A i \in 1..n : inbox[i] = log[t + i - 1]
    /\ clientGone => inbox[n + 1].kind = "disconnect"

\* What it knows of them.
TookUp(t) ==
    /\ utterance = Cardinality(Ends(t))
    /\ started <=> Opened(t) /\ pc # "Connecting"
    /\ pc = "Connecting" => Opened(t)

\* Between two audio.end the queue holds what was said so far of the next
\* utterance.
Listening(t) ==
    /\ Len(commits) = utterance /\ appended = <<>>
    /\ Ascending(queue) /\ ToSet(queue) = SpokenBefore(t, utterance + 1)

\* After an audio.end the queue ends with the sentinel, and what was said is
\* partly in the buffer of OpenAI and partly, and later, in the queue; nothing
\* was taken up since.
Forwarding(t) ==
    LET rest == 1..(Len(queue) - 1) IN
    /\ Len(commits) + 1 = utterance
    /\ queue # <<>> /\ queue[Len(queue)] = Sentinel
    /\ \A i \in rest : queue[i] # Sentinel
    /\ Ascending(appended)
    /\ \A i, j \in rest : i < j => queue[i] < queue[j]
    /\ \A i \in DOMAIN appended, j \in rest : appended[i] < queue[j]
    /\ ToSet(appended) \cup {queue[i] : i \in rest} = SpokenBefore(t, utterance)
    /\ SpokenBefore(t, utterance + 1) = {}

AudioAt(t) ==
    /\ RestWaits(t) /\ TookUp(t)
    /\ queue \in Seq(Nat) /\ appended \in Seq(Nat)
    /\ IF pc = "Appending" THEN Forwarding(t) ELSE Listening(t)

\* Inductive.
AudioInv ==
    /\ log \in Seq(PhoneFrames) /\ \A i \in DOMAIN log : log[i].id = i
    /\ commits \in Seq(Seq(Nat))
    /\ AudioIntact
    /\ IF pc \in Leaving THEN exit # "none" ELSE \E t \in 1..(Len(log) + 1) : AudioAt(t)

\* The utterance a frame belongs to: audio.end counts, in the order of the log.
LEMMA EndsCount ==
    ASSUME NEW i \in Nat
    PROVE  IsFiniteSet(Ends(i)) /\ Cardinality(Ends(i)) \in Nat
<1>1. Ends(i) \in SUBSET (1..(i - 1)) /\ IsFiniteSet(1..(i - 1))
  BY FS_Interval DEF Ends
<1> QED BY <1>1, FS_Subset, FS_CardinalityType

LEMMA EndsMonotone ==
    ASSUME NEW i \in Nat, NEW j \in Nat, i <= j
    PROVE  Cardinality(Ends(i)) <= Cardinality(Ends(j))
<1>1. Ends(i) \in SUBSET Ends(j)
  BY DEF Ends
<1> QED BY <1>1, EndsCount, FS_Subset

LEMMA EndsNext ==
    ASSUME NEW i \in Nat \ {0}
    PROVE  /\ log[i].kind = "end" /\ Opened(i) =>
                 Cardinality(Ends(i + 1)) = Cardinality(Ends(i)) + 1
           /\ ~(log[i].kind = "end" /\ Opened(i)) => Ends(i + 1) = Ends(i)
<1>1. Ends(i) \in SUBSET (1..(i - 1))
  BY DEF Ends
<1>2. CASE log[i].kind = "end" /\ Opened(i)
  <2>1. Ends(i + 1) = Ends(i) \cup {i} /\ i \notin Ends(i)
    BY <1>1, <1>2 DEF Ends
  <2> QED BY <1>2, <2>1, EndsCount, FS_AddElement
<1>3. CASE ~(log[i].kind = "end" /\ Opened(i))
  BY <1>3 DEF Ends
<1> QED BY <1>2, <1>3

LEMMA OpenedNext ==
    ASSUME NEW i \in Nat \ {0}
    PROVE  Opened(i + 1) <=> Opened(i) \/ log[i].kind = "start"
BY DEF Opened

LEMMA SpokenNext ==
    ASSUME NEW t \in DOMAIN log, DOMAIN log \subseteq Nat, NEW u
    PROVE  LET said == log[t].kind = "chunk" /\ Opened(t) /\ Cardinality(Ends(t)) = u - 1 IN
           /\ said => SpokenBefore(t + 1, u) = SpokenBefore(t, u) \cup {t}
           /\ ~said => SpokenBefore(t + 1, u) = SpokenBefore(t, u)
<1>1. \A i \in DOMAIN log : i < t + 1 <=> i < t \/ i = t
  OBVIOUS
<1> QED BY <1>1 DEF SpokenBefore, Spoken

\* An utterance is complete at its audio.end: what comes later is not of it.
LEMMA SpokenComplete ==
    ASSUME DOMAIN log \subseteq Nat, NEW t \in Nat, NEW u \in Nat, u <= Cardinality(Ends(t))
    PROVE  SpokenBefore(t, u) = Spoken(u)
<1> SUFFICES ASSUME NEW i \in Spoken(u) PROVE i < t
  BY DEF SpokenBefore
<1>1. i \in Nat /\ Cardinality(Ends(i)) = u - 1
  BY DEF Spoken
<1>2. t <= i => Cardinality(Ends(t)) <= Cardinality(Ends(i))
  BY <1>1, EndsMonotone
<1> QED BY <1>1, <1>2, EndsCount

\* A frame more in the log changes nothing before it.
LEMMA LogGrows ==
    ASSUME NEW f \in PhoneFrames, log \in Seq(PhoneFrames), log' = Append(log, f)
    PROVE  /\ log' \in Seq(PhoneFrames) /\ Len(log') = Len(log) + 1 /\ Len(log) \in Nat
           /\ DOMAIN log = 1..Len(log) /\ DOMAIN log' = 1..(Len(log) + 1)
           /\ \A i \in 1..Len(log) : log'[i] = log[i]
           /\ log'[Len(log) + 1] = f
           /\ \A t \in 1..(Len(log) + 1) : (Opened(t)' <=> Opened(t)) /\ Ends(t)' = Ends(t)
<1>1. /\ log' \in Seq(PhoneFrames) /\ Len(log') = Len(log) + 1 /\ Len(log) \in Nat
      /\ DOMAIN log = 1..Len(log) /\ DOMAIN log' = 1..(Len(log) + 1)
      /\ \A i \in 1..Len(log) : log'[i] = log[i]
      /\ log'[Len(log) + 1] = f
  OBVIOUS
<1>2. \A t \in 1..(Len(log) + 1) : Opened(t)' <=> Opened(t)
  BY <1>1 DEF Opened
<1>3. ASSUME NEW t \in 1..(Len(log) + 1) PROVE Ends(t)' = Ends(t)
  <2>1. \A j \in 1..(t - 1) : j \in 1..Len(log) /\ j \in 1..(Len(log) + 1) /\ log'[j] = log[j]
    BY <1>1
  <2>2. \A j \in 1..(t - 1) : Opened(j)' <=> Opened(j)
    BY <1>2, <2>1
  <2> QED BY <2>1, <2>2 DEF Ends
<1> QED BY <1>1, <1>2, <1>3

LEMMA SpokenGrows ==
    ASSUME NEW f \in PhoneFrames, log \in Seq(PhoneFrames), log' = Append(log, f)
    PROVE  /\ \A u : \A t \in 1..(Len(log) + 1) : SpokenBefore(t, u)' = SpokenBefore(t, u)
           /\ \A u \in Nat : u <= Cardinality(Ends(Len(log) + 1)) => Spoken(u)' = Spoken(u)
<1>1. ASSUME NEW u, NEW i \in 1..Len(log) PROVE i \in Spoken(u)' <=> i \in Spoken(u)
  BY LogGrows DEF Spoken
<1>2. ASSUME NEW t \in 1..(Len(log) + 1), NEW u PROVE SpokenBefore(t, u)' = SpokenBefore(t, u)
  <2>1. \A i \in Spoken(u)' : i \in 1..(Len(log) + 1)
    BY LogGrows DEF Spoken
  <2>2. \A i \in Spoken(u) : i \in 1..Len(log)
    BY LogGrows DEF Spoken
  <2>3. \A i \in 1..(Len(log) + 1) : i < t => i \in 1..Len(log)
    BY LogGrows
  <2> QED BY <1>1, <2>1, <2>2, <2>3 DEF SpokenBefore
<1>3. ASSUME NEW u \in Nat, u <= Cardinality(Ends(Len(log) + 1)) PROVE Spoken(u)' = Spoken(u)
  <2>1. \A i \in Spoken(u)' : i \in 1..(Len(log) + 1) /\ Cardinality(Ends(i)') = u - 1
    BY LogGrows DEF Spoken
  <2>2. \A i \in Spoken(u) : i \in 1..Len(log)
    BY LogGrows DEF Spoken
  <2>3. Len(log) + 1 \notin Spoken(u)'
    <3>1. Len(log) + 1 \in 1..(Len(log) + 1) /\ Len(log) + 1 \in Nat
      BY LogGrows
    <3>2. Cardinality(Ends(Len(log) + 1)) \in Nat
      BY <3>1, EndsCount
    <3> QED BY <1>3, <2>1, <3>1, <3>2, LogGrows
  <2>4. \A i \in 1..(Len(log) + 1) : i \in 1..Len(log) \/ i = Len(log) + 1
    BY LogGrows
  <2> QED BY <1>1, <2>1, <2>2, <2>3, <2>4
<1> QED BY <1>2, <1>3

LEMMA LogStays ==
    ASSUME log' = log
    PROVE  /\ \A t : (Opened(t)' <=> Opened(t)) /\ Ends(t)' = Ends(t)
           /\ \A u : Spoken(u)' = Spoken(u)
           /\ \A t, u : SpokenBefore(t, u)' = SpokenBefore(t, u)
<1>1. \A t : Opened(t)' <=> Opened(t)
  BY DEF Opened
<1>2. \A t : Ends(t)' = Ends(t)
  BY <1>1 DEF Ends
<1>3. \A u : Spoken(u)' = Spoken(u)
  BY <1>1, <1>2 DEF Spoken
<1> QED BY <1>1, <1>2, <1>3 DEF SpokenBefore

\* A step on the way out.
Leaves ==
    /\ UNCHANGED <<log, commits>>
    /\ pc' \in Leaving /\ exit' # "none"

\* A step that touches neither the frames of the phone nor its audio.
Rests ==
    /\ UNCHANGED <<log, clientGone, inbox, queue, utterance, appended, commits>>
    /\ \/ UNCHANGED <<pc, exit, started>>
       \/ /\ pc \notin {"Appending", "Connecting"} \cup Leaving
          /\ pc' \notin {"Appending", "Connecting"} \cup Leaving
          /\ started' = started
       \/ pc = "Connecting" /\ pc' = "Receive" /\ started'

LEMMA IntactStays ==
    ASSUME AudioIntact, UNCHANGED <<log, commits>>
    PROVE  AudioIntact'
BY LogStays DEF AudioIntact, Ascending

LEMMA LeavesAudio ==
    ASSUME AudioInv, Leaves
    PROVE  AudioInv'
BY IntactStays DEF AudioInv, Leaves

LEMMA RestsAudio ==
    ASSUME AudioInv, Rests
    PROVE  AudioInv'
<1>1. AudioIntact' /\ log' \in Seq(PhoneFrames) /\ (\A i \in DOMAIN log' : log'[i].id = i)
      /\ commits' \in Seq(Seq(Nat))
  BY IntactStays DEF AudioInv, Rests
<1>2. CASE pc \in Leaving
  BY <1>1, <1>2 DEF AudioInv, Rests, Leaving
<1>3. CASE pc \notin Leaving
  <2>1. PICK t \in 1..(Len(log) + 1) : AudioAt(t)
    BY <1>3 DEF AudioInv
  <2>2. RestWaits(t)'
    BY <2>1 DEF AudioAt, RestWaits, Rests
  <2>3. TookUp(t)'
    BY <2>1, LogStays DEF AudioAt, TookUp, Rests
  <2>4. pc' \notin Leaving /\ (pc' = "Appending" <=> pc = "Appending")
    BY <1>3 DEF Rests, Leaving
  <2>5. UNCHANGED <<log, queue, utterance, appended, commits>>
    BY DEF Rests
  <2>6. \A u : SpokenBefore(t, u)' = SpokenBefore(t, u)
    BY <2>5, LogStays
  <2>7. AudioAt(t)'
    BY <2>1, <2>2, <2>3, <2>4, <2>5, <2>6 DEF AudioAt, Forwarding, Listening, Ascending
  <2> QED BY <1>1, <2>4, <2>5, <2>7 DEF AudioInv
<1> QED BY <1>2, <1>3

\* The phone sends a frame, or leaves.
LEMMA SendsAudio ==
    ASSUME AudioInv, NEW kind \in DOMAIN FrameBudget, ClientSends(kind)
    PROVE  AudioInv'
<1> DEFINE f == [kind |-> kind, id |-> Len(log) + 1]
<1>1. /\ log' = Append(log, f) /\ inbox' = Append(inbox, f) /\ exit = "none" /\ ~clientGone
      /\ UNCHANGED <<clientGone, pc, exit, queue, utterance, appended, commits, started>>
  BY DEF ClientSends, handler, upstream
<1>2. log \in Seq(PhoneFrames) /\ f \in PhoneFrames
  BY DEF AudioInv, PhoneFrames
<1>3. PICK t \in 1..(Len(log) + 1) : AudioAt(t)
  BY <1>1 DEF AudioInv
<1>4. pc \notin Leaving
  BY <1>1 DEF AudioInv
<1> HIDE DEF f
<1>5. /\ log' \in Seq(PhoneFrames) /\ Len(log') = Len(log) + 1 /\ Len(log) \in Nat
      /\ DOMAIN log = 1..Len(log) /\ DOMAIN log' = 1..(Len(log) + 1)
      /\ \A i \in 1..Len(log) : log'[i] = log[i]
      /\ log'[Len(log) + 1] = f
      /\ \A i \in 1..(Len(log) + 1) : (Opened(i)' <=> Opened(i)) /\ Ends(i)' = Ends(i)
  BY <1>1, <1>2, LogGrows
<1>6. \A i \in DOMAIN log' : log'[i].id = i
  <2>1. f.id = Len(log) + 1
    BY DEF f
  <2>2. \A i \in 1..Len(log) : log[i].id = i
    BY <1>5 DEF AudioInv
  <2>3. \A i \in DOMAIN log' : i \in 1..Len(log) \/ i = Len(log) + 1
    BY <1>5
  <2> QED BY <1>5, <2>1, <2>2, <2>3
<1>7. Len(commits) <= Cardinality(Ends(Len(log) + 1))
  <2>1. Cardinality(Ends(t)) <= Cardinality(Ends(Len(log) + 1))
    BY <1>5, EndsMonotone
  <2>2. Len(commits) <= utterance /\ utterance = Cardinality(Ends(t)) /\ Len(commits) \in Nat
    BY <1>3 DEF AudioAt, TookUp, Forwarding, Listening, AudioInv
  <2>3. Cardinality(Ends(t)) \in Nat /\ Cardinality(Ends(Len(log) + 1)) \in Nat
    BY <1>5, EndsCount
  <2> QED BY <2>1, <2>2, <2>3
<1>8. AudioIntact'
  <2>1. \A u \in DOMAIN commits : u \in Nat /\ u <= Len(commits) /\ Len(commits) \in Nat
    BY DEF AudioInv
  <2>2. Cardinality(Ends(Len(log) + 1)) \in Nat
    BY <1>5, EndsCount
  <2>3. \A u \in DOMAIN commits : Spoken(u)' = Spoken(u)
    BY <1>1, <1>2, <1>7, <2>1, <2>2, SpokenGrows
  <2> QED BY <1>1, <2>3 DEF AudioInv, AudioIntact, Ascending
<1>9. RestWaits(t)'
  <2>1. /\ inbox \in Seq(PhoneFrames) /\ Len(inbox) = Len(log) + 1 - t
        /\ \A i \in 1..(Len(log) + 1 - t) : inbox[i] = log[t + i - 1]
    BY <1>1, <1>3 DEF AudioAt, RestWaits
  <2>2. /\ inbox' \in Seq(PhoneFrames) /\ Len(inbox') = Len(inbox) + 1
        /\ \A i \in 1..Len(inbox) : inbox'[i] = inbox[i]
        /\ inbox'[Len(inbox) + 1] = f
    BY <1>1, <1>2, <2>1
  <2>3. \A i \in 1..Len(inbox) : t + i - 1 \in 1..Len(log)
    BY <1>5, <2>1
  <2>4. t + (Len(inbox) + 1) - 1 = Len(log) + 1 /\ Len(log') + 1 - t = Len(inbox) + 1
    BY <1>5, <2>1
  <2>5. ASSUME NEW i \in 1..(Len(inbox) + 1) PROVE inbox'[i] = log'[t + i - 1]
    <3>1. CASE i = Len(inbox) + 1
      BY <1>5, <2>2, <2>4, <3>1
    <3>2. CASE i \in 1..Len(inbox)
      <4>1. inbox'[i] = inbox[i] /\ log'[t + i - 1] = log[t + i - 1]
        BY <1>5, <2>2, <2>3, <3>2
      <4>2. inbox[i] = log[t + i - 1]
        BY <2>1, <3>2
      <4> QED BY <4>1, <4>2
    <3>3. Len(inbox) \in Nat
      BY <2>1
    <3> QED BY <3>1, <3>2, <3>3
  <2> QED BY <1>1, <2>2, <2>4, <2>5 DEF RestWaits
<1>10. TookUp(t)'
  BY <1>1, <1>3, <1>5 DEF AudioAt, TookUp
<1>11. \A u : SpokenBefore(t, u)' = SpokenBefore(t, u)
  BY <1>1, <1>2, SpokenGrows
<1>12. AudioAt(t)'
  <2>1. /\ UNCHANGED <<pc, queue, utterance, appended, commits>>
        /\ queue \in Seq(Nat) /\ appended \in Seq(Nat)
    BY <1>1, <1>3 DEF AudioAt
  <2>2. CASE pc = "Appending"
    BY <1>3, <1>9, <1>10, <1>11, <2>1, <2>2 DEF AudioAt, Forwarding, Ascending
  <2>3. CASE pc # "Appending"
    BY <1>3, <1>9, <1>10, <1>11, <2>1, <2>3 DEF AudioAt, Listening, Ascending
  <2> QED BY <2>2, <2>3
<1>13. (\E s \in 1..(Len(log) + 1) : AudioAt(s))'
  BY <1>5, <1>12
<1>14. pc' \notin Leaving /\ commits' \in Seq(Seq(Nat))
  BY <1>1, <1>4 DEF AudioInv
<1> QED BY <1>5, <1>6, <1>8, <1>13, <1>14 DEF AudioInv

LEMMA ClientLeavesAudio ==
    ASSUME AudioInv, ClientLeaves
    PROVE  AudioInv'
<1> DEFINE f == [kind |-> "disconnect", id |-> 0]
<1>1. /\ clientGone' /\ inbox' = Append(inbox, f) /\ exit = "none" /\ ~clientGone
      /\ UNCHANGED <<log, pc, exit, queue, utterance, appended, commits, started>>
  BY DEF ClientLeaves, handler, upstream
<1>2. PICK t \in 1..(Len(log) + 1) : AudioAt(t)
  BY <1>1 DEF AudioInv
<1>3. pc \notin Leaving /\ Len(log) \in Nat /\ f \in PhoneFrames /\ f.kind = "disconnect"
  BY <1>1 DEF AudioInv, PhoneFrames
<1> HIDE DEF f
<1>4. AudioIntact'
  BY <1>1, IntactStays DEF AudioInv
<1>5. RestWaits(t)'
  <2>1. /\ inbox \in Seq(PhoneFrames) /\ Len(inbox) = Len(log) + 1 - t
        /\ \A i \in 1..(Len(log) + 1 - t) : inbox[i] = log[t + i - 1]
    BY <1>1, <1>2 DEF AudioAt, RestWaits
  <2>2. /\ inbox' \in Seq(PhoneFrames) /\ Len(inbox') = Len(inbox) + 1
        /\ \A i \in 1..Len(inbox) : inbox'[i] = inbox[i]
        /\ inbox'[Len(inbox) + 1] = f
    BY <1>1, <1>3, <2>1
  <2> QED BY <1>1, <1>3, <2>1, <2>2 DEF RestWaits
<1>6. TookUp(t)'
  BY <1>1, <1>2, LogStays DEF AudioAt, TookUp
<1>7. AudioAt(t)'
  BY <1>1, <1>2, <1>5, <1>6, LogStays DEF AudioAt, Forwarding, Listening, Ascending
<1> QED BY <1>1, <1>2, <1>3, <1>4, <1>7 DEF AudioInv

\* session_stream reads the frame t of the log.
LEMMA TakesNext ==
    ASSUME AudioInv, NEW t \in 1..(Len(log) + 1), RestWaits(t),
           NEW f, Takes(f), f.kind # "disconnect"
    PROVE  /\ t \in DOMAIN log /\ t \in Nat \ {0} /\ t + 1 \in 1..(Len(log) + 1)
           /\ DOMAIN log \subseteq Nat
           /\ f = log[t] /\ f.id = t
           /\ RestWaits(t + 1)'
<1> DEFINE n == Len(log) + 1 - t
<1>1. /\ inbox \in Seq(PhoneFrames) /\ inbox # <<>>
      /\ f = inbox[1] /\ inbox' = Tail(inbox) /\ UNCHANGED <<log, clientGone>>
  BY DEF RestWaits, Takes, phone
<1>2. /\ Len(inbox) = IF clientGone THEN n + 1 ELSE n
      /\ \A i \in 1..n : inbox[i] = log[t + i - 1]
      /\ clientGone => inbox[n + 1].kind = "disconnect"
  BY DEF RestWaits
<1>3. Len(log) \in Nat /\ DOMAIN log = 1..Len(log) /\ \A i \in DOMAIN log : log[i].id = i
  BY DEF AudioInv
<1>4. n \in Nat /\ n > 0
  <2>1. n \in Nat
    BY <1>3
  <2>2. Len(inbox) > 0
    BY <1>1
  <2> HIDE DEF n
  <2>3. n = 0 => FALSE
    BY <1>1, <1>2, <2>2
  <2> QED BY <2>1, <2>3
<1>5. t \in DOMAIN log /\ t \in Nat \ {0} /\ t + 1 \in 1..(Len(log) + 1)
  BY <1>3, <1>4
<1>6. f = log[t]
  <2>1. t + 1 - 1 = t /\ 1 \in 1..n
    BY <1>3, <1>4
  <2> HIDE DEF n
  <2> QED BY <1>1, <1>2, <2>1
<1>7. RestWaits(t + 1)'
  <2>1. /\ inbox' \in Seq(PhoneFrames) /\ Len(inbox') = Len(inbox) - 1
        /\ \A i \in 1..(Len(inbox) - 1) : inbox'[i] = inbox[i + 1]
    BY <1>1
  <2>2. Len(log) + 1 - (t + 1) = n - 1
    BY <1>3
  <2>3. \A i \in 1..(n - 1) : t + (i + 1) - 1 = (t + 1) + i - 1
    BY <1>3
  <2>4. Len(inbox') = IF clientGone THEN n ELSE n - 1
    <3> HIDE DEF n
    <3> QED BY <1>2, <1>4, <2>1
  <2>5. \A i \in 1..(n - 1) : inbox'[i] = log[(t + 1) + i - 1]
    <3> HIDE DEF n
    <3> SUFFICES ASSUME NEW i \in 1..(n - 1) PROVE inbox'[i] = log[(t + 1) + i - 1]
      OBVIOUS
    <3>1. i \in 1..(Len(inbox) - 1) /\ i + 1 \in 1..n
      BY <1>2, <1>4
    <3>2. inbox'[i] = inbox[i + 1] /\ inbox[i + 1] = log[t + (i + 1) - 1]
      BY <1>2, <2>1, <3>1
    <3> QED BY <2>3, <3>2
  <2>6. clientGone => inbox'[n].kind = "disconnect"
    <3> HIDE DEF n
    <3> QED BY <1>2, <1>4, <2>1
  <2>7. (n - 1) + 1 = n
    BY <1>4
  <2> HIDE DEF n
  <2> QED BY <1>1, <2>1, <2>2, <2>4, <2>5, <2>6, <2>7 DEF RestWaits
<1> QED BY <1>3, <1>5, <1>6, <1>7

\* A frame that the handler ignores, rejects, or waits for OpenAI upon.
LEMMA PassesAudio ==
    ASSUME AudioInv, NEW f, Takes(f), f.kind # "disconnect",
           \/ f.kind \notin {"start", "chunk", "end"}
           \/ f.kind \in {"chunk", "end"} /\ ~started
           \/ f.kind = "start",
           UNCHANGED <<log, clientGone, started, queue, utterance, appended, commits>>,
           pc' = IF f.kind = "start" /\ ~started THEN "Connecting" ELSE "Receive"
    PROVE  AudioInv'
<1>1. pc = "Receive"
  BY DEF Takes
<1>2. PICK t \in 1..(Len(log) + 1) : AudioAt(t)
  BY <1>1 DEF AudioInv, Leaving
<1>3. /\ t \in DOMAIN log /\ t \in Nat \ {0} /\ t + 1 \in 1..(Len(log) + 1)
      /\ DOMAIN log \subseteq Nat
      /\ f = log[t] /\ RestWaits(t + 1)'
  BY <1>2, TakesNext DEF AudioAt
<1>4. started <=> Opened(t)
  BY <1>1, <1>2 DEF AudioAt, TookUp
<1>5. Ends(t + 1) = Ends(t)
  BY <1>3, <1>4, EndsNext
<1>6. \A u : SpokenBefore(t + 1, u) = SpokenBefore(t, u)
  BY <1>3, <1>4, SpokenNext
<1>7. Opened(t + 1) <=> Opened(t) \/ f.kind = "start"
  BY <1>3, OpenedNext
<1> DEFINE s == t + 1
<1> HIDE DEF s
<1>8. RestWaits(s)' /\ Ends(s) = Ends(t) /\ s \in 1..(Len(log) + 1)
      /\ (\A u : SpokenBefore(s, u) = SpokenBefore(t, u))
      /\ (Opened(s) <=> Opened(t) \/ f.kind = "start")
  BY <1>3, <1>5, <1>6, <1>7 DEF s
<1>9. (Opened(s)' <=> Opened(s)) /\ Ends(s)' = Ends(s)
      /\ \A u : SpokenBefore(s, u)' = SpokenBefore(s, u)
  BY LogStays
<1>10. TookUp(s)'
  BY <1>1, <1>2, <1>4, <1>8, <1>9 DEF AudioAt, TookUp
<1>11. AudioAt(s)'
  BY <1>1, <1>2, <1>8, <1>9, <1>10 DEF AudioAt, Listening, Ascending
<1>12. AudioIntact' /\ pc' \notin Leaving
  BY IntactStays DEF AudioInv, Leaving
<1> QED BY <1>8, <1>11, <1>12 DEF AudioInv

LEMMA ChunkAudio ==
    ASSUME AudioInv, NEW f, ReceiveChunk(f)
    PROVE  AudioInv'
<1>1. /\ Takes(f) /\ pc = "Receive" /\ pc' = pc /\ f.kind = "chunk" /\ started
      /\ queue' = Append(queue, f.id)
      /\ UNCHANGED <<log, clientGone, started, utterance, appended, commits>>
  BY DEF ReceiveChunk, Takes, phone, upstream
<1>2. PICK t \in 1..(Len(log) + 1) : AudioAt(t)
  BY <1>1 DEF AudioInv, Leaving
<1>3. /\ t \in DOMAIN log /\ t \in Nat \ {0} /\ t + 1 \in 1..(Len(log) + 1)
      /\ DOMAIN log \subseteq Nat
      /\ f = log[t] /\ f.id = t /\ RestWaits(t + 1)'
  BY <1>1, <1>2, TakesNext DEF AudioAt
<1>4. Opened(t) /\ utterance = Cardinality(Ends(t)) /\ utterance \in Nat
  BY <1>1, <1>2, <1>3, EndsCount DEF AudioAt, TookUp
<1>5. Ends(t + 1) = Ends(t)
  BY <1>1, <1>3, EndsNext
<1>6. SpokenBefore(t + 1, utterance + 1) = SpokenBefore(t, utterance + 1) \cup {t}
  BY <1>1, <1>3, <1>4, SpokenNext
<1>7. Opened(t + 1)
  BY <1>3, <1>4, OpenedNext
<1> DEFINE s == t + 1
<1> HIDE DEF s
<1>8. RestWaits(s)' /\ Ends(s) = Ends(t) /\ s \in 1..(Len(log) + 1) /\ Opened(s)
      /\ SpokenBefore(s, utterance + 1) = SpokenBefore(t, utterance + 1) \cup {t}
  BY <1>3, <1>5, <1>6, <1>7 DEF s
<1>9. (Opened(s)' <=> Opened(s)) /\ Ends(s)' = Ends(s)
      /\ \A u : SpokenBefore(s, u)' = SpokenBefore(s, u)
  BY <1>1, LogStays
<1>10. TookUp(s)'
  BY <1>1, <1>4, <1>8, <1>9 DEF TookUp
<1>11. Listening(t) /\ queue \in Seq(Nat) /\ appended \in Seq(Nat)
  BY <1>1, <1>2 DEF AudioAt
<1>12. Ascending(queue') /\ ToSet(queue') = ToSet(queue) \cup {t} /\ queue' \in Seq(Nat)
  <2>1. /\ queue' \in Seq(Nat) /\ DOMAIN queue = 1..Len(queue) /\ Len(queue) \in Nat
        /\ DOMAIN queue' = 1..(Len(queue) + 1)
        /\ \A i \in DOMAIN queue : queue'[i] = queue[i]
        /\ queue'[Len(queue) + 1] = t
    BY <1>1, <1>3, <1>11
  <2>2. \A i \in DOMAIN queue : queue[i] < t
    BY <1>11 DEF Listening, ToSet, SpokenBefore
  <2>3. \A i \in DOMAIN queue' : i \in DOMAIN queue \/ i = Len(queue) + 1
    BY <2>1
  <2>4. Ascending(queue')
    <3> SUFFICES ASSUME NEW i \in DOMAIN queue', NEW j \in DOMAIN queue', i < j
                 PROVE  queue'[i] < queue'[j]
      BY DEF Ascending
    <3>1. i \in DOMAIN queue
      BY <2>1
    <3>2. CASE j \in DOMAIN queue
      BY <1>11, <2>1, <3>1, <3>2 DEF Listening, Ascending
    <3>3. CASE j = Len(queue) + 1
      BY <2>1, <2>2, <3>1, <3>3
    <3> QED BY <2>3, <3>2, <3>3
  <2>5. ToSet(queue') = ToSet(queue) \cup {t}
    BY <2>1, <2>3 DEF ToSet
  <2> QED BY <2>1, <2>4, <2>5
<1>13. Listening(s)'
  BY <1>1, <1>8, <1>9, <1>11, <1>12 DEF Listening
<1>14. AudioAt(s)'
  BY <1>1, <1>8, <1>10, <1>11, <1>12, <1>13 DEF AudioAt
<1>15. AudioIntact' /\ pc' \notin Leaving
  BY <1>1, IntactStays DEF AudioInv, Leaving
<1> QED BY <1>1, <1>8, <1>14, <1>15 DEF AudioInv

LEMMA EndAudio ==
    ASSUME AudioInv, NEW f, ReceiveEnd(f)
    PROVE  AudioInv'
<1>1. /\ Takes(f) /\ pc = "Receive" /\ f.kind = "end" /\ started
      /\ queue' = Append(queue, 0) /\ utterance' = utterance + 1
      /\ UNCHANGED <<log, clientGone, started, appended, commits>>
      /\ pc' = "Appending" \/ (pc' = "Closing" /\ exit' = "exception")
  BY DEF ReceiveEnd, Raise, Takes, phone, upstream, Sentinel, None
<1>2. CASE pc' = "Closing" /\ exit' = "exception"
  BY <1>1, <1>2, LeavesAudio DEF Leaves, Leaving
<1>3. CASE pc' = "Appending"
  <2>2. PICK t \in 1..(Len(log) + 1) : AudioAt(t)
    BY <1>1 DEF AudioInv, Leaving
  <2>1. DOMAIN log \subseteq Nat \ {0}
    BY DEF AudioInv
  <2>3. /\ t \in DOMAIN log /\ t \in Nat \ {0} /\ t + 1 \in 1..(Len(log) + 1)
        /\ f = log[t] /\ f.id = t /\ RestWaits(t + 1)'
    BY <1>1, <2>2, TakesNext DEF AudioAt
  <2>4. Opened(t) /\ utterance = Cardinality(Ends(t)) /\ utterance \in Nat
    BY <1>1, <2>2, <2>3, EndsCount DEF AudioAt, TookUp
  <2>5. Cardinality(Ends(t + 1)) = utterance + 1
    BY <1>1, <2>3, <2>4, EndsNext
  <2>6. SpokenBefore(t + 1, utterance + 1) = SpokenBefore(t, utterance + 1)
    BY <1>1, <2>1, <2>3, <2>4, SpokenNext
  <2>7. Opened(t + 1)
    BY <2>3, <2>4, OpenedNext
  <2> DEFINE s == t + 1
  <2> HIDE DEF s
  <2>8. RestWaits(s)' /\ Cardinality(Ends(s)) = utterance + 1
        /\ s \in 1..(Len(log) + 1) /\ Opened(s)
        /\ SpokenBefore(s, utterance + 1) = SpokenBefore(t, utterance + 1)
    BY <2>3, <2>5, <2>6, <2>7 DEF s
  <2>9. (Opened(s)' <=> Opened(s)) /\ Ends(s)' = Ends(s)
        /\ \A u : SpokenBefore(s, u)' = SpokenBefore(s, u)
    BY <1>1, LogStays
  <2>10. TookUp(s)'
    BY <1>1, <1>3, <2>8, <2>9 DEF TookUp
  <2>11. Listening(t) /\ queue \in Seq(Nat) /\ appended = <<>>
    BY <1>1, <2>2 DEF AudioAt, Listening
  <2>12. /\ queue' \in Seq(Nat) /\ Len(queue) \in Nat /\ DOMAIN queue = 1..Len(queue)
         /\ Len(queue') = Len(queue) + 1 /\ queue' # <<>>
         /\ \A i \in 1..Len(queue) : queue'[i] = queue[i]
         /\ queue'[Len(queue')] = 0
    BY <1>1, <2>11
  <2>13. \A i \in 1..Len(queue) : queue[i] # 0
    <3>1. \A i \in 1..Len(queue) : queue[i] \in SpokenBefore(t, utterance + 1)
      BY <2>11, <2>12 DEF Listening, ToSet
    <3>2. SpokenBefore(t, utterance + 1) \subseteq Nat \ {0}
      BY <2>1 DEF SpokenBefore, Spoken
    <3> QED BY <3>1, <3>2
  <2>14. Len(queue') - 1 = Len(queue)
    BY <2>12
  <2>15. ToSet(appended') = {}
    BY <1>1, <2>11 DEF ToSet
  <2>16. {queue'[i] : i \in 1..Len(queue)} = SpokenBefore(s, utterance + 1)
    <3>1. {queue'[i] : i \in 1..Len(queue)} = {queue[i] : i \in 1..Len(queue)}
      BY <2>12
    <3>2. {queue[i] : i \in 1..Len(queue)} = ToSet(queue)
      BY <2>12 DEF ToSet
    <3> QED BY <2>8, <2>11, <3>1, <3>2 DEF Listening
  <2>17. Forwarding(s)'
    <3>1. ToSet(appended') \cup {queue'[i] : i \in 1..Len(queue)} = SpokenBefore(s, utterance)'
      BY <1>1, <2>9, <2>15, <2>16
    <3>2. \A i, j \in 1..Len(queue) : i < j => queue'[i] < queue'[j]
      BY <2>11, <2>12 DEF Listening, Ascending
    <3>3. Ascending(appended') /\ DOMAIN appended' = {}
      BY <1>1, <2>11 DEF Ascending
    <3>4. Len(commits') + 1 = utterance'
      BY <1>1, <2>11 DEF Listening
    <3>5. SpokenBefore(s, utterance + 2) = {}
      <4>1. \A i \in DOMAIN log : i < t + 1 => Cardinality(Ends(i)) <= utterance
        BY <2>1, <2>3, <2>4, EndsMonotone
      <4>2. \A i \in DOMAIN log : i < t + 1 => Cardinality(Ends(i)) # (utterance + 2) - 1
        BY <2>1, <2>3, <2>4, <4>1, EndsCount
      <4> QED BY <4>2 DEF SpokenBefore, Spoken, s
    <3>6. SpokenBefore(s, utterance + 1)' = {}
      BY <1>1, <2>4, <2>9, <3>5
    <3> QED BY <2>12, <2>13, <2>14, <3>1, <3>2, <3>3, <3>4, <3>6 DEF Forwarding, Sentinel, None
  <2>18. AudioAt(s)'
    BY <1>1, <1>3, <2>8, <2>10, <2>11, <2>12, <2>17 DEF AudioAt
  <2>19. AudioIntact' /\ pc' \notin Leaving
    BY <1>1, <1>3, IntactStays DEF AudioInv, Leaving
  <2> QED BY <1>1, <2>8, <2>18, <2>19 DEF AudioInv
<1> QED BY <1>1, <1>2, <1>3

\* A chunk on its way to OpenAI.
LEMMA AppendAudio ==
    ASSUME AudioInv, ForwardAudio, Head(queue) # Sentinel
    PROVE  AudioInv'
<1>1. /\ pc = "Appending" /\ pc' = pc /\ queue # <<>>
      /\ queue' = Tail(queue) /\ appended' = Append(appended, Head(queue))
      /\ UNCHANGED <<log, clientGone, inbox, started, utterance, commits>>
  BY DEF ForwardAudio, phone
<1>2. PICK t \in 1..(Len(log) + 1) : AudioAt(t)
  BY <1>1 DEF AudioInv, Leaving
<1>3. Forwarding(t) /\ queue \in Seq(Nat) /\ appended \in Seq(Nat)
  BY <1>1, <1>2 DEF AudioAt
<1>4. RestWaits(t)' /\ TookUp(t)'
  BY <1>1, <1>2, LogStays DEF AudioAt, RestWaits, TookUp
<1>5. \A u : SpokenBefore(t, u)' = SpokenBefore(t, u)
  BY <1>1, LogStays
<1> DEFINE n == Len(queue) - 1
<1>6. n \in Nat /\ n > 0 /\ Len(queue) = n + 1 /\ queue[1] # Sentinel /\ queue[1] \in Nat
  <2>1. Len(queue) \in Nat /\ Len(queue) > 0 /\ Head(queue) = queue[1] /\ queue[1] \in Nat
    BY <1>1, <1>3
  <2>2. queue[Len(queue)] = Sentinel
    BY <1>3 DEF Forwarding
  <2>3. queue[1] # Sentinel
    BY <2>1
  <2>4. Len(queue) # 1
    BY <2>2, <2>3
  <2>5. \A k \in Nat : k > 0 /\ k # 1 => k - 1 \in Nat /\ k - 1 > 0 /\ k = (k - 1) + 1
    OBVIOUS
  <2>6. n \in Nat /\ n > 0 /\ Len(queue) = n + 1
    BY <2>1, <2>4, <2>5
  <2> QED BY <2>1, <2>3, <2>6
<1>7. /\ queue[n + 1] = Sentinel
      /\ \A i \in 1..n : queue[i] # Sentinel
      /\ Ascending(appended)
      /\ \A i, j \in 1..n : i < j => queue[i] < queue[j]
      /\ \A i \in DOMAIN appended, j \in 1..n : appended[i] < queue[j]
      /\ ToSet(appended) \cup {queue[i] : i \in 1..n} = SpokenBefore(t, utterance)
  BY <1>3, <1>6 DEF Forwarding
<1> HIDE DEF n
<1>8. /\ queue' \in Seq(Nat) /\ Len(queue') = n /\ queue' # <<>>
      /\ \A i \in 1..n : queue'[i] = queue[i + 1]
  <2>1. /\ queue' \in Seq(Nat) /\ Len(queue') = Len(queue) - 1
        /\ \A i \in 1..(Len(queue) - 1) : queue'[i] = queue[i + 1]
    BY <1>1, <1>3
  <2>2. Len(queue) - 1 = n
    BY <1>6
  <2> QED BY <1>6, <2>1, <2>2
<1>9. /\ appended' \in Seq(Nat) /\ Len(appended) \in Nat /\ DOMAIN appended = 1..Len(appended)
      /\ DOMAIN appended' = 1..(Len(appended) + 1)
      /\ \A i \in DOMAIN appended : appended'[i] = appended[i]
      /\ appended'[Len(appended) + 1] = queue[1]
  BY <1>1, <1>3, <1>6
<1>10. \A i \in 1..(n - 1) : queue'[i] = queue[i + 1] /\ i + 1 \in 1..n /\ 1 < i + 1 /\ 1 \in 1..n
  BY <1>6, <1>8
<1>11. \A i \in DOMAIN appended' : i \in DOMAIN appended \/ i = Len(appended) + 1
  BY <1>9
<1>12. Ascending(appended')
  <2> SUFFICES ASSUME NEW i \in DOMAIN appended', NEW j \in DOMAIN appended', i < j
               PROVE  appended'[i] < appended'[j]
    BY DEF Ascending
  <2>1. i \in DOMAIN appended
    BY <1>9
  <2>2. CASE j \in DOMAIN appended
    BY <1>7, <1>9, <2>1, <2>2 DEF Ascending
  <2>3. CASE j = Len(appended) + 1
    <3>1. appended[i] < queue[1]
      BY <1>6, <1>7, <2>1
    <3> QED BY <1>9, <2>1, <2>3, <3>1
  <2> QED BY <1>11, <2>2, <2>3
<1>13. \A i, j \in 1..(n - 1) : i < j => queue'[i] < queue'[j]
  <2> SUFFICES ASSUME NEW i \in 1..(n - 1), NEW j \in 1..(n - 1), i < j
               PROVE  queue'[i] < queue'[j]
    OBVIOUS
  <2>1. i + 1 < j + 1 /\ i + 1 \in 1..n /\ j + 1 \in 1..n
    BY <1>6
  <2>2. queue[i + 1] < queue[j + 1]
    BY <1>7, <2>1
  <2> QED BY <1>10, <2>2
<1>14. ASSUME NEW i \in DOMAIN appended', NEW j \in 1..(n - 1)
       PROVE  appended'[i] < queue'[j]
  <2>1. CASE i \in DOMAIN appended
    BY <1>7, <1>9, <1>10, <2>1
  <2>2. CASE i = Len(appended) + 1
    BY <1>7, <1>9, <1>10, <2>2
  <2> QED BY <1>11, <2>1, <2>2
<1>15. ToSet(appended') \cup {queue'[i] : i \in 1..(n - 1)}
       = ToSet(appended) \cup {queue[i] : i \in 1..n}
  <2>1. ToSet(appended') = ToSet(appended) \cup {queue[1]}
    <3>1. ToSet(appended) \cup {queue[1]} \subseteq ToSet(appended')
      BY <1>9 DEF ToSet
    <3>2. ToSet(appended') \subseteq ToSet(appended) \cup {queue[1]}
      BY <1>9, <1>11 DEF ToSet
    <3> QED BY <3>1, <3>2
  <2>2. ASSUME NEW j \in 1..n, j # 1 PROVE j - 1 \in 1..(n - 1) /\ queue[j] = queue'[j - 1]
    <3>1. j - 1 \in 1..(n - 1) /\ (j - 1) + 1 = j
      BY <1>6, <2>2
    <3> QED BY <1>10, <3>1
  <2>3. {queue[i] : i \in 1..n} = {queue[1]} \cup {queue'[i] : i \in 1..(n - 1)}
    BY <1>6, <1>10, <2>2
  <2> QED BY <2>1, <2>3
<1>16. Forwarding(t)'
  <2>1. queue'[n] = Sentinel /\ \A i \in 1..(n - 1) : queue'[i] # Sentinel
    BY <1>6, <1>7, <1>8, <1>10
  <2>2. ToSet(appended') \cup {queue'[i] : i \in 1..(n - 1)} = SpokenBefore(t, utterance)'
    BY <1>1, <1>5, <1>7, <1>15
  <2>3. Len(commits') + 1 = utterance' /\ SpokenBefore(t, utterance + 1)' = {}
    BY <1>1, <1>3, <1>5 DEF Forwarding
  <2> QED BY <1>8, <1>12, <1>13, <1>14, <2>1, <2>2, <2>3 DEF Forwarding, Sentinel
<1>17. AudioAt(t)'
  BY <1>1, <1>4, <1>8, <1>9, <1>16 DEF AudioAt
<1>18. AudioIntact' /\ pc' \notin Leaving
  BY <1>1, IntactStays DEF AudioInv, Leaving
<1> QED BY <1>1, <1>17, <1>18 DEF AudioInv

\* The sentinel: the buffer holds all of the utterance.
LEMMA CommitAudio ==
    ASSUME AudioInv, ForwardAudio, Head(queue) = Sentinel
    PROVE  AudioInv'
<1>1. /\ pc = "Appending" /\ pc' = "Relaying" /\ queue # <<>>
      /\ queue' = Tail(queue) /\ commits' = Append(commits, appended) /\ appended' = <<>>
      /\ UNCHANGED <<log, clientGone, inbox, started, utterance>>
  BY DEF ForwardAudio, phone
<1>2. PICK t \in 1..(Len(log) + 1) : AudioAt(t)
  BY <1>1 DEF AudioInv, Leaving
<1>3. Forwarding(t) /\ queue \in Seq(Nat) /\ appended \in Seq(Nat)
  BY <1>1, <1>2 DEF AudioAt
<1>4. RestWaits(t)'
  BY <1>1, <1>2 DEF AudioAt, RestWaits
<1>5. TookUp(t)'
  BY <1>1, <1>2, LogStays DEF AudioAt, TookUp
<1>6. \A u : SpokenBefore(t, u)' = SpokenBefore(t, u)
  BY <1>1, LogStays
<1>7. Len(queue) = 1
  <2>1. Len(queue) \in Nat /\ Len(queue) > 0 /\ Head(queue) = queue[1]
    BY <1>1, <1>3
  <2>2. queue[1] = Sentinel
    BY <2>1
  <2>3. \A i \in 1..(Len(queue) - 1) : queue[i] # Sentinel
    BY <1>3 DEF Forwarding
  <2>4. ~(1 \in 1..(Len(queue) - 1))
    BY <2>2, <2>3
  <2>5. \A n \in Nat : n > 0 /\ ~(1 \in 1..(n - 1)) => n = 1
    OBVIOUS
  <2> QED BY <2>1, <2>4, <2>5
<1>8. queue' = <<>> /\ queue' \in Seq(Nat)
  <2>1. queue' \in Seq(Nat) /\ Len(queue') = Len(queue) - 1
    BY <1>1, <1>3
  <2>2. Len(queue') = 0
    BY <1>7, <2>1
  <2> QED BY <2>1, <2>2
<1>9. /\ commits \in Seq(Seq(Nat)) /\ log \in Seq(PhoneFrames) /\ AudioIntact
      /\ DOMAIN log \subseteq Nat /\ t \in Nat
  BY <1>2 DEF AudioInv
<1>10. utterance = Cardinality(Ends(t)) /\ utterance \in Nat /\ Len(commits) + 1 = utterance
  BY <1>2, <1>3, <1>9, EndsCount DEF AudioAt, TookUp, Forwarding
<1>11. Ascending(appended) /\ ToSet(appended) = Spoken(utterance)
  <2>1. ToSet(appended) = SpokenBefore(t, utterance)
    <3>1. 1..(Len(queue) - 1) = {}
      BY <1>7
    <3>2. {queue[i] : i \in 1..(Len(queue) - 1)} = {}
      BY <3>1
    <3>3. ToSet(appended) \cup {queue[i] : i \in 1..(Len(queue) - 1)} = SpokenBefore(t, utterance)
      BY <1>3 DEF Forwarding
    <3> QED BY <3>2, <3>3
  <2>2. SpokenBefore(t, utterance) = Spoken(utterance)
    BY <1>9, <1>10, SpokenComplete
  <2> QED BY <1>3, <2>1, <2>2 DEF Forwarding
<1>12. /\ commits' \in Seq(Seq(Nat)) /\ Len(commits') = utterance
       /\ DOMAIN commits' = 1..utterance /\ DOMAIN commits = 1..(utterance - 1)
       /\ \A u \in DOMAIN commits : commits'[u] = commits[u]
       /\ commits'[utterance] = appended
  <2>1. /\ commits' \in Seq(Seq(Nat)) /\ Len(commits') = Len(commits) + 1
        /\ Len(commits) \in Nat
        /\ DOMAIN commits' = 1..(Len(commits) + 1) /\ DOMAIN commits = 1..Len(commits)
        /\ \A u \in DOMAIN commits : commits'[u] = commits[u]
        /\ commits'[Len(commits) + 1] = appended
    <3>1. commits' \in Seq(Seq(Nat))
      BY <1>1, <1>3, <1>9
    <3> QED BY <1>1, <1>9, <3>1, OneMore
  <2>2. Len(commits) = utterance - 1
    BY <1>10, <2>1
  <2> QED BY <1>10, <2>1, <2>2
<1>13. AudioIntact'
  <2>1. \A u : Spoken(u)' = Spoken(u)
    BY <1>1, LogStays
  <2>2. \A u \in DOMAIN commits' : u \in DOMAIN commits \/ u = utterance
    BY <1>10, <1>12
  <2>3. ASSUME NEW u \in DOMAIN commits'
        PROVE  Ascending(commits'[u]) /\ ToSet(commits'[u]) = Spoken(u)
    <3>1. CASE u \in DOMAIN commits
      BY <1>9, <1>12, <3>1 DEF AudioIntact
    <3>2. CASE u = utterance
      BY <1>11, <1>12, <3>2
    <3> QED BY <2>2, <3>1, <3>2
  <2> QED BY <2>1, <2>3 DEF AudioIntact, Ascending
<1>14. Listening(t)'
  <2>1. Ascending(queue') /\ ToSet(queue') = {}
    BY <1>8 DEF Ascending, ToSet
  <2>2. SpokenBefore(t, utterance + 1)' = {}
    BY <1>1, <1>3, <1>6 DEF Forwarding
  <2> QED BY <1>1, <1>12, <2>1, <2>2 DEF Listening
<1>15. AudioAt(t)' /\ pc' \notin Leaving
  <2>1. appended' \in Seq(Nat) /\ pc' # "Appending" /\ pc' \notin Leaving
    BY <1>1 DEF Leaving
  <2> QED BY <1>4, <1>5, <1>8, <1>14, <2>1 DEF AudioAt
<1> QED BY <1>1, <1>2, <1>12, <1>13, <1>15 DEF AudioInv

----------------------------------------------------------------------------
LEMMA FailsLeaves ==
    ASSUME TranslatorFails, UNCHANGED <<log, commits>>
    PROVE  Leaves
BY ReplyGoes DEF TranslatorFails, Leaves, Leaving

LEMMA ReceiveAudio ==
    ASSUME AudioInv, NEW f,
           \/ ReceiveDisconnect(f) \/ ReceiveNotJson(f) \/ ReceiveIgnored(f)
           \/ ReceiveRejected(f) \/ ReceiveStart(f)
    PROVE  AudioInv'
<1>1. /\ pc = "Receive" /\ Takes(f)
      /\ UNCHANGED <<log, clientGone, started, queue, utterance, appended, commits>>
  BY DEF ReceiveDisconnect, ReceiveNotJson, ReceiveIgnored, ReceiveRejected, ReceiveStart,
         Takes, phone, upstream, handler
<1>2. CASE ReceiveDisconnect(f) \/ ReceiveNotJson(f)
  <2>1. Leaves
    BY <1>1, <1>2 DEF ReceiveDisconnect, ReceiveNotJson, Raise, Leaves, Leaving
  <2> QED BY <2>1, LeavesAudio
<1>3. CASE ReceiveIgnored(f)
  <2>1. f.kind \in {"metrics", "serverFrame"} /\ pc' = "Receive"
    BY <1>1, <1>3 DEF ReceiveIgnored
  <2> QED BY <1>1, <2>1, PassesAudio
<1>4. CASE ReceiveStart(f)
  <2>1. f.kind = "start" /\ ~started /\ pc' = "Connecting"
    BY <1>4 DEF ReceiveStart
  <2> QED BY <1>1, <2>1, PassesAudio
<1>5. CASE ReceiveRejected(f)
  <2>1. \/ pc' = "Receive"
        \/ pc' = "Closing" /\ exit' = "exception"
    BY <1>5, ReplyGoes DEF ReceiveRejected, RejectFrame
  <2>2. CASE pc' = "Closing" /\ exit' = "exception"
    BY <1>1, <2>2, LeavesAudio DEF Leaves, Leaving
  <2>3. CASE pc' = "Receive"
    <3>1. Rejected(f)
      BY <1>5 DEF ReceiveRejected
    <3>2. f.kind # "disconnect" /\ ~(f.kind = "start" /\ ~started)
      BY <3>1 DEF Rejected
    <3>3. \/ f.kind \notin {"start", "chunk", "end"}
          \/ f.kind \in {"chunk", "end"} /\ ~started
          \/ f.kind = "start"
      BY <3>1 DEF Rejected
    <3> QED BY <1>1, <2>3, <3>2, <3>3, PassesAudio
  <2> QED BY <2>1, <2>2, <2>3
<1> QED BY <1>2, <1>3, <1>4, <1>5

\* The steps of the handler that read no frame and forward no audio.
LEMMA WayAudio ==
    ASSUME AudioInv,
           \/ LookupFails \/ \E known \in BOOLEAN : LookupSession(known)
           \/ Connect \/ ConnectFails \/ CloseAbandonedStream \/ Finish
           \/ RecordUsage \/ RecordFails
    PROVE  Rests \/ Leaves
<1>1. CASE LookupFails
  BY <1>1 DEF LookupFails, Leaves, Leaving, phone, upstream
<1>2. ASSUME NEW known \in BOOLEAN, LookupSession(known) PROVE Rests \/ Leaves
  <2>1. pc = "Lookup"
        /\ UNCHANGED <<log, clientGone, inbox, started, queue, utterance, appended, commits>>
    BY <1>2 DEF LookupSession, handler, phone, upstream
  <2>2. CASE known
    BY <1>2, <2>1, <2>2 DEF LookupSession, Rests, Leaving
  <2>3. CASE ~known
    BY <1>2, <2>1, <2>3, ReplyGoes DEF LookupSession, Leaves, Leaving
  <2> QED BY <2>2, <2>3
<1>3. CASE Connect
  <2>1. pc = "Connecting" /\ started'
        /\ UNCHANGED <<log, clientGone, inbox, queue, utterance, appended, commits>>
    BY <1>3 DEF Connect, phone
  <2>2. pc' = "Receive" \/ (pc' = "Closing" /\ exit' = "exception")
    BY <1>3, ReplyGoes DEF Connect
  <2> QED BY <2>1, <2>2 DEF Rests, Leaves, Leaving
<1>4. CASE ConnectFails
  BY <1>4, FailsLeaves DEF ConnectFails, phone, upstream
<1>5. CASE CloseAbandonedStream
  BY <1>5 DEF CloseAbandonedStream, Rests, handler, phone, upstream
<1>6. CASE Finish
  BY <1>6 DEF Finish, Leaves, Leaving, AudioInv, handler, phone
<1>7. CASE RecordUsage
  BY <1>7 DEF RecordUsage, Rests, Leaving, phone, upstream
<1>8. CASE RecordFails
  BY <1>8 DEF RecordFails, Raise, Leaves, Leaving, phone, upstream
<1> QED BY <1>1, <1>2, <1>3, <1>4, <1>5, <1>6, <1>7, <1>8

LEMMA StreamAudio ==
    ASSUME AudioInv,
           \/ ForwardFails \/ UpstreamEnds
           \/ \E e \in ToSet(upEvents) :
                 \/ RelayDelta(e) \/ RelayTextDone(e) \/ RelayTranscript(e)
                 \/ RelayDone(e) \/ RelayError(e)
    PROVE  Rests \/ Leaves
<1>1. CASE ForwardFails
  BY <1>1, FailsLeaves DEF ForwardFails, StreamFails, phone, upstream
<1>2. ASSUME pc = "Relaying",
             UNCHANGED <<log, clientGone, inbox, started, queue, utterance, appended, commits>>,
             \/ pc' \in {"Relaying", "Receive", "Recording"}
             \/ pc' = "Closing" /\ exit' = "exception"
             \/ TranslatorFails
      PROVE  Rests \/ Leaves
  BY <1>2, FailsLeaves DEF Rests, Leaves, Leaving
<1>3. CASE UpstreamEnds
  <2>1. pc = "Relaying"
        /\ UNCHANGED <<log, clientGone, inbox, started, queue, utterance, appended, commits>>
    BY <1>3 DEF UpstreamEnds, handler, phone, upstream
  <2>2. \/ pc' = "Receive"
        \/ pc' = "Closing" /\ exit' = "exception"
        \/ TranslatorFails
    BY <1>3, ReplyGoes DEF UpstreamEnds, StreamFails
  <2> QED BY <1>2, <2>1, <2>2
<1>4. ASSUME NEW e, RelayDelta(e) \/ RelayTextDone(e) \/ RelayTranscript(e)
                    \/ RelayDone(e) \/ RelayError(e)
      PROVE  Rests \/ Leaves
  <2>1. Reads(e)
    BY <1>4 DEF RelayDelta, RelayTextDone, RelayTranscript, RelayDone, RelayError
  <2>2. pc = "Relaying"
        /\ UNCHANGED <<log, clientGone, inbox, started, queue, utterance, appended, commits>>
    BY <2>1 DEF Reads, phone
  <2>3. CASE RelayTextDone(e) \/ RelayTranscript(e)
    BY <1>2, <2>2, <2>3 DEF RelayTextDone, RelayTranscript
  <2>4. CASE RelayDelta(e)
    BY <1>2, <2>2, <2>4, ReplyGoes DEF RelayDelta
  <2>5. CASE RelayDone(e)
    <3>1. \/ Reply(FinalFrame, "Recording", "none")
          \/ Reply(FinalFrame, "Receive", "none")
      BY <2>5 DEF RelayDone
    <3> QED BY <1>2, <2>2, <3>1, ReplyGoes
  <2>6. CASE RelayError(e)
    BY <1>2, <2>2, <2>6 DEF RelayError, StreamFails
  <2> QED BY <1>4, <2>3, <2>4, <2>5, <2>6
<1> QED BY <1>1, <1>3, <1>4

LEMMA UpstreamRests == ASSUME Upstream \/ UNCHANGED vars PROVE Rests
<1>1. CASE UNCHANGED vars
  BY <1>1 DEF vars, phone, handler, upstream, Rests
<1>2. ASSUME NEW e, Emit(e) PROVE Rests
  BY <1>2 DEF Emit, handler, phone, Rests
<1>3. ASSUME NEW clean \in BOOLEAN, UpstreamCloses(clean) PROVE Rests
  BY <1>3 DEF UpstreamCloses, handler, phone, Rests
<1> QED BY <1>1, <1>2, <1>3 DEF Upstream, EmitDelta, EmitTextDone, EmitDone, EmitTranscript, EmitError

LEMMA StepKeepsAudio == AudioInv /\ [Next]_vars => AudioInv'
<1> SUFFICES ASSUME AudioInv, [Next]_vars PROVE AudioInv'
  OBVIOUS
<1>1. CASE Rests \/ Leaves
  BY <1>1, RestsAudio, LeavesAudio
<1>2. CASE Client
  BY <1>2, SendsAudio, ClientLeavesAudio DEF Client
<1>3. CASE ForwardAudio
  BY <1>3, AppendAudio, CommitAudio
<1>4. ASSUME NEW f,
             \/ ReceiveDisconnect(f) \/ ReceiveNotJson(f) \/ ReceiveIgnored(f)
             \/ ReceiveRejected(f) \/ ReceiveStart(f) \/ ReceiveChunk(f) \/ ReceiveEnd(f)
      PROVE  AudioInv'
  BY <1>4, ReceiveAudio, ChunkAudio, EndAudio
<1> QED BY <1>1, <1>2, <1>3, <1>4, WayAudio, StreamAudio, UpstreamRests DEF Next, Handler

LEMMA InitAudio == Init => AudioInv
<1> SUFFICES ASSUME Init PROVE AudioInv
  OBVIOUS
<1>1. /\ log = <<>> /\ inbox = <<>> /\ queue = <<>> /\ appended = <<>> /\ commits = <<>>
      /\ ~clientGone /\ pc = "Lookup" /\ utterance = 0 /\ ~started
  BY DEF Init
<1>2. /\ log \in Seq(PhoneFrames) /\ inbox \in Seq(PhoneFrames) /\ queue \in Seq(Nat)
      /\ appended \in Seq(Nat) /\ commits \in Seq(Seq(Nat))
      /\ DOMAIN log = {} /\ DOMAIN commits = {} /\ DOMAIN queue = {}
      /\ Len(log) = 0 /\ Len(inbox) = 0 /\ Len(commits) = 0
  BY <1>1
<1>3. RestWaits(1)
  BY <1>1, <1>2 DEF RestWaits
<1>4. Ends(1) = {} /\ ~Opened(1) /\ \A u : SpokenBefore(1, u) = {}
  BY <1>2 DEF Ends, Opened, SpokenBefore, Spoken
<1>5. TookUp(1)
  BY <1>1, <1>4, FS_EmptySet DEF TookUp
<1>6. Listening(1)
  BY <1>1, <1>2, <1>4 DEF Listening, Ascending, ToSet
<1>7. AudioAt(1) /\ 1 \in 1..(Len(log) + 1)
  BY <1>1, <1>2, <1>3, <1>5, <1>6 DEF AudioAt
<1> QED BY <1>1, <1>2, <1>7 DEF AudioInv, AudioIntact, Leaving

\* "the backend forwards bytes verbatim" (ws-events.schema.json:35): the audio of
\* each utterance reaches OpenAI whole, in order and in the utterance it was
\* spoken in, for a phone that may send any frame at any time.
THEOREM SessionAudioIntact == Spec => []AudioIntact
<1>1. AudioInv => AudioIntact
  BY DEF AudioInv
<1> QED BY <1>1, InitAudio, StepKeepsAudio, PTL DEF Spec
=============================================================================
