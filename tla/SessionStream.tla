---------------------------- MODULE SessionStream ----------------------------
(***************************************************************************)
(* One WebSocket session of the backend: session_stream with its audio     *)
(* queue (backend/app/api/sessions.py) and the Translator it drives        *)
(* (backend/app/services/translator.py), between a phone that may send any *)
(* frame at any time, or leave, and the OpenAI Realtime connection.        *)
(*                                                                         *)
(* Utterances are numbered by the audio.end frames the handler takes up.   *)
(* Audio chunks and text deltas are identities: a chunk is its position    *)
(* among the phone's frames, a delta is <<utterance, position>>.           *)
(***************************************************************************)
EXTENDS Naturals, Sequences, SequencesExt

CONSTANTS
    FrameBudget,    \* bound: frames of each kind the phone sends
    MaxFrames,      \* bound: frames the phone sends
    MaxPending,     \* bound: frames waiting in the receive queue
    MaxDeltas,      \* bound: text deltas of one response
    UpstreamFaults, \* what may go wrong upstream
    MaxFaults       \* bound: how often it does

ASSUME SessionConstants ==
    /\ FrameBudget \in [{"start", "chunk", "badChunk", "end", "metrics",
                         "serverFrame", "invalid", "notJson"} -> Nat]
    /\ MaxFrames \in Nat /\ MaxPending \in Nat /\ MaxDeltas \in Nat /\ MaxFaults \in Nat
    /\ UpstreamFaults \subseteq {"connect", "error", "closeOk", "closeError", "redis"}

VARIABLES
    \* the phone and its socket
    log,        \* the frames it sent
    inbox,      \* frames the server received and session_stream has not read
    outbox,     \* frames the phone received
    clientGone, \* the phone has closed the socket
    \* session_stream
    pc,         \* where the coroutine is
    exit,       \* how it ended
    started,    \* session.opened was sent
    queue,      \* the asyncio.Queue of the audio iterator
    parts,      \* translated_parts
    source,     \* source_text: the utterance it is of, 0 for None
    utterance,  \* audio.end frames taken up
    usageSeen,  \* response.done events with usage that were consumed
    recorded,   \* calls of cost_logger.record that succeeded
    \* Translator
    connected,  \* _ws is not None
    streaming,  \* _streaming
    abandoned,  \* a translate_stream left by break is still to be closed
    textDone,   \* output_text_done
    \* OpenAI
    upOpen, upClean, \* its end of the connection; whether it closed with 1000
    upEvents,   \* events under way to the translator
    appended,   \* audio in its input buffer
    commits,    \* the audio of each committed utterance
    response,   \* the response being produced: its utterance (0: none) and its deltas so far
    transcripts,\* utterances whose transcription is not reported yet
    faults

phone == <<log, clientGone>>
handler == <<started, queue, parts, source, utterance, usageSeen, recorded>>
translator == <<connected, streaming, abandoned, textDone>>
upstream == <<upOpen, upClean, upEvents, appended, commits, response, transcripts>>
vars == <<phone, inbox, outbox, pc, exit, handler, translator, upstream, faults>>

None == 0
Sentinel == None    \* _SENTINEL in the audio queue; chunks are positive
NoResponse == [of |-> 0, deltas |-> 0, textDone |-> FALSE]

Init ==
    /\ log = <<>> /\ clientGone = FALSE /\ inbox = <<>> /\ outbox = <<>>
    /\ pc = "Lookup" /\ exit = "none"
    /\ started = FALSE /\ queue = <<>> /\ parts = <<>> /\ source = None
    /\ utterance = 0 /\ usageSeen = 0 /\ recorded = 0
    /\ connected = FALSE /\ streaming = FALSE /\ abandoned = FALSE /\ textDone = FALSE
    /\ upOpen = FALSE /\ upClean = FALSE /\ upEvents = <<>> /\ appended = <<>>
    /\ commits = <<>> /\ response = NoResponse /\ transcripts = {} /\ faults = 0

CanFail(f) == f \in UpstreamFaults /\ faults < MaxFaults
Fail == faults' = faults + 1

----------------------------------------------------------------------------
\* The phone.  Once session_stream waits for a frame the event loop closes an
\* abandoned stream before it can deliver one.

ClientSends(kind) ==
    /\ ~clientGone /\ exit = "none"
    /\ Len(log) < MaxFrames /\ Len(inbox) < MaxPending
    /\ Len(SelectSeq(log, LAMBDA f : f.kind = kind)) < FrameBudget[kind]
    /\ abandoned => inbox # <<>>
    /\ LET f == [kind |-> kind, id |-> Len(log) + 1] IN
       log' = Append(log, f) /\ inbox' = Append(inbox, f)
    /\ UNCHANGED <<clientGone, outbox, pc, exit, handler, translator, upstream, faults>>

ClientLeaves ==
    /\ ~clientGone /\ exit = "none"
    /\ abandoned => inbox # <<>>
    /\ clientGone' = TRUE
    /\ inbox' = Append(inbox, [kind |-> "disconnect", id |-> 0])
    /\ UNCHANGED <<log, outbox, pc, exit, handler, translator, upstream, faults>>

----------------------------------------------------------------------------
\* Sending and leaving.

\* await websocket.send_json(frame), then go on at next.  When the phone has
\* left, the frame is lost, and the send raises if the server knows already.
Reply(frame, next, how) ==
    \/ /\ outbox' = IF clientGone THEN outbox ELSE Append(outbox, frame)
       /\ pc' = next /\ exit' = how
    \/ /\ clientGone
       /\ pc' = "Closing" /\ exit' = "exception"
       /\ UNCHANGED outbox

Frame(type, text, src) == [type |-> type, of |-> utterance, text |-> text, source |-> src]
ErrorFrame(code) == Frame(code, <<>>, None)

RejectFrame == Reply(ErrorFrame("invalid_event"), "Receive", "none")

\* except TranslatorError: an error frame, close 1011, return.
TranslatorFails == Reply(ErrorFrame("translator_error"), "Closing", "translatorError")

Raise == pc' = "Closing" /\ exit' = "exception" /\ UNCHANGED outbox

----------------------------------------------------------------------------
\* session_stream.

LookupSession(known) ==
    /\ pc = "Lookup"
    /\ \/ known /\ pc' = "Receive" /\ UNCHANGED <<outbox, exit>>
       \/ ~known /\ Reply(ErrorFrame("session_not_found"), "Done", "notFound")
    /\ UNCHANGED <<phone, inbox, handler, translator, upstream, faults>>

\* hgetall raises; translator is still None.
LookupFails ==
    /\ pc = "Lookup" /\ CanFail("redis") /\ Fail
    /\ pc' = "Done" /\ exit' = "exception"
    /\ UNCHANGED <<phone, inbox, outbox, handler, translator, upstream>>

\* receive_json returned frame f.
Takes(f) ==
    /\ pc = "Receive" /\ inbox # <<>>
    /\ f = Head(inbox) /\ inbox' = Tail(inbox)
    /\ UNCHANGED <<phone, upstream, faults>>

\* Mutant: the receive loop goes on after a disconnect.
ReceiveDisconnectContinues(f) ==
    /\ Takes(f) /\ f.kind = "disconnect"
    /\ UNCHANGED <<outbox, pc, exit, handler, translator>>

ReceiveDisconnect(f) ==
    /\ Takes(f) /\ f.kind = "disconnect"
    /\ pc' = "Closing" /\ exit' = "disconnect"
    /\ UNCHANGED <<outbox, handler, translator>>

\* receive_json raises on a frame that is not JSON; nothing catches it.
ReceiveNotJson(f) ==
    /\ Takes(f) /\ f.kind = "notJson"
    /\ Raise
    /\ UNCHANGED <<handler, translator>>

\* metrics, and a frame of the server's own kinds, which the schema allows
\* and no branch handles.
ReceiveIgnored(f) ==
    /\ Takes(f)
    /\ f.kind = "metrics" \/ (f.kind = "serverFrame" /\ started)
    /\ UNCHANGED <<outbox, pc, exit, handler, translator>>

\* A frame the schema rejects, one before session.start, a second
\* session.start, and audio that is not base64.
Rejected(f) ==
    \/ f.kind = "invalid"
    \/ f.kind \in {"chunk", "badChunk", "end", "serverFrame"} /\ ~started
    \/ f.kind = "start" /\ started
    \/ f.kind = "badChunk"

ReceiveRejected(f) ==
    /\ Takes(f) /\ Rejected(f)
    /\ RejectFrame
    /\ UNCHANGED <<handler, translator>>

ReceiveStart(f) ==
    /\ Takes(f) /\ f.kind = "start" /\ ~started
    /\ pc' = "Connecting"
    /\ UNCHANGED <<outbox, exit, handler, translator>>

\* Translator.__aenter__ connected and configured the session.
Connect ==
    /\ pc = "Connecting"
    /\ connected' = TRUE /\ upOpen' = TRUE /\ started' = TRUE
    /\ Reply(Frame("opened", <<>>, None), "Receive", "none")
    /\ UNCHANGED <<phone, inbox, queue, parts, source, utterance, usageSeen, recorded,
                   streaming, abandoned, textDone, upClean, upEvents, appended,
                   commits, response, transcripts, faults>>

ConnectFails ==
    /\ pc = "Connecting" /\ CanFail("connect") /\ Fail
    /\ TranslatorFails
    /\ UNCHANGED <<phone, inbox, handler, translator, upstream>>

\* Mutant: a queue that hands out the newest chunk first.
ReceiveChunkLifo(f) ==
    /\ Takes(f) /\ f.kind = "chunk" /\ started
    /\ queue' = <<f.id>> \o queue
    /\ UNCHANGED <<outbox, pc, exit, started, parts, source, utterance, usageSeen,
                   recorded, translator>>

ReceiveChunk(f) ==
    /\ Takes(f) /\ f.kind = "chunk" /\ started
    /\ queue' = Append(queue, f.id)
    /\ UNCHANGED <<outbox, pc, exit, started, parts, source, utterance, usageSeen,
                   recorded, translator>>

\* audio.end: the sentinel ends the audio, and translate_stream starts, or
\* raises RuntimeError while another stream of this translator is not closed.
ReceiveEnd(f) ==
    /\ Takes(f) /\ f.kind = "end" /\ started
    /\ queue' = Append(queue, Sentinel)
    /\ utterance' = utterance + 1
    /\ \/ /\ ~streaming
          /\ streaming' = TRUE /\ textDone' = FALSE
          /\ pc' = "Appending" /\ UNCHANGED <<exit, outbox>>
       \/ /\ streaming
          /\ Raise /\ UNCHANGED <<streaming, textDone>>
    /\ UNCHANGED <<started, parts, source, usageSeen, recorded, connected, abandoned>>

----------------------------------------------------------------------------
\* translate_stream.

\* An exception in it closes it and reaches session_stream as TranslatorError.
StreamFails == streaming' = FALSE /\ TranslatorFails

\* It forwards the audio up to the sentinel, then commits the buffer and asks
\* for a response.  Sending on a connection that has closed raises.
ForwardAudio ==
    /\ pc = "Appending" /\ queue # <<>> /\ upOpen
    /\ queue' = Tail(queue)
    /\ \/ /\ Head(queue) # Sentinel
          /\ appended' = Append(appended, Head(queue))
          /\ UNCHANGED <<pc, commits, response, transcripts>>
       \/ /\ Head(queue) = Sentinel
          /\ commits' = Append(commits, appended) /\ appended' = <<>>
          /\ response' = [NoResponse EXCEPT !.of = Len(commits) + 1]
          /\ transcripts' = transcripts \cup {Len(commits) + 1}
          /\ pc' = "Relaying"
    /\ UNCHANGED <<phone, inbox, outbox, exit, started, parts, source, utterance,
                   usageSeen, recorded, translator, upOpen, upClean, upEvents, faults>>

ForwardFails ==
    /\ pc = "Appending" /\ queue # <<>> /\ ~upOpen
    /\ queue' = Tail(queue)
    /\ StreamFails
    /\ UNCHANGED <<phone, inbox, started, parts, source, utterance, usageSeen,
                   recorded, connected, abandoned, textDone, upstream, faults>>

\* The next upstream event is e.
Reads(e) ==
    /\ pc = "Relaying" /\ upEvents # <<>>
    /\ e = Head(upEvents) /\ upEvents' = Tail(upEvents)
    /\ UNCHANGED <<phone, inbox, started, queue, utterance, recorded, connected, upOpen,
                   upClean, appended, commits, response, transcripts, faults>>

RelayDelta(e) ==
    /\ Reads(e) /\ e.type = "delta"
    /\ parts' = Append(parts, <<e.of, e.n>>)
    /\ Reply(Frame("partial", <<<<e.of, e.n>>>>, None), "Relaying", "none")
    /\ UNCHANGED <<source, usageSeen, streaming, abandoned, textDone>>

\* Mutant: the buffer is cleared when the text is done, before the final.
RelayTextDoneClears(e) ==
    /\ Reads(e) /\ e.type = "textDone"
    /\ textDone' = TRUE /\ parts' = <<>>
    /\ UNCHANGED <<outbox, pc, exit, source, usageSeen, streaming, abandoned>>

RelayTextDone(e) ==
    /\ Reads(e) /\ e.type = "textDone"
    /\ textDone' = TRUE
    /\ UNCHANGED <<outbox, pc, exit, parts, source, usageSeen, streaming, abandoned>>

RelayTranscript(e) ==
    /\ Reads(e) /\ e.type = "transcript"
    /\ source' = e.of
    /\ UNCHANGED <<outbox, pc, exit, parts, usageSeen, streaming, abandoned, textDone>>

FinalFrame == Frame("final", parts, source)

\* break leaves the stream suspended at its last yield.  The event loop closes
\* it as soon as it runs: at once when no frame is waiting for the handler.
LeaveStream == abandoned' = (inbox # <<>>) /\ streaming' = abandoned'

\* Mutant: the final is sent and the usage forgotten.
RelayDoneUnrecorded(e) ==
    /\ Reads(e) /\ e.type = "done"
    /\ usageSeen' = IF e.usage THEN usageSeen + 1 ELSE usageSeen
    /\ Reply(FinalFrame, "Receive", "none")
    /\ LeaveStream
    /\ UNCHANGED <<parts, source, textDone>>

\* Mutant: the loop is not left, so the end of the connection is answered too.
RelayDoneGoesOn(e) ==
    /\ Reads(e) /\ e.type = "done"
    /\ Reply(FinalFrame, "Relaying", "none")
    /\ UNCHANGED <<parts, source, usageSeen, streaming, abandoned, textDone>>

\* response.done: the final frame, then the record of its usage, then break.
RelayDone(e) ==
    /\ Reads(e) /\ e.type = "done"
    /\ \/ /\ e.usage
          /\ usageSeen' = usageSeen + 1
          /\ Reply(FinalFrame, "Recording", "none")
          /\ UNCHANGED <<streaming, abandoned>>
       \/ /\ ~e.usage
          /\ Reply(FinalFrame, "Receive", "none")
          /\ LeaveStream
          /\ UNCHANGED usageSeen
    /\ UNCHANGED <<parts, source, textDone>>

\* Mutant: an upstream error ends the utterance without a word.
RelayErrorSilent(e) ==
    /\ Reads(e) /\ e.type = "error"
    /\ streaming' = FALSE /\ pc' = "Receive"
    /\ UNCHANGED <<outbox, exit, parts, source, usageSeen, abandoned, textDone>>

RelayError(e) ==
    /\ Reads(e) /\ e.type = "error"
    /\ StreamFails
    /\ UNCHANGED <<parts, source, usageSeen, abandoned, textDone>>

\* The connection closed.  After output_text.done the stream still ends with
\* a final delta; before it, it just ends, and so does the async for.
UpstreamEnds ==
    /\ pc = "Relaying" /\ upEvents = <<>> /\ ~upOpen
    /\ \/ /\ upClean /\ textDone
          /\ Reply(FinalFrame, "Receive", "none")
          /\ LeaveStream
       \/ /\ upClean /\ ~textDone
          /\ streaming' = FALSE /\ pc' = "Receive"
          /\ UNCHANGED <<outbox, exit, abandoned>>
       \/ /\ ~upClean
          /\ StreamFails /\ UNCHANGED abandoned
    /\ UNCHANGED <<phone, inbox, handler, connected, textDone, upstream, faults>>

\* cost_logger.record awaits redis.
RecordUsage ==
    /\ pc = "Recording"
    /\ recorded' = recorded + 1
    /\ LeaveStream
    /\ pc' = "Receive"
    /\ UNCHANGED <<phone, inbox, outbox, exit, started, queue, parts, source, utterance,
                   usageSeen, connected, textDone, upstream, faults>>

RecordFails ==
    /\ pc = "Recording" /\ CanFail("redis") /\ Fail
    /\ Raise
    /\ UNCHANGED <<phone, inbox, handler, translator, upstream>>

\* The event loop runs aclose() of the stream that was left by break.
CloseAbandonedStream ==
    /\ abandoned
    /\ abandoned' = FALSE /\ streaming' = FALSE
    /\ UNCHANGED <<phone, inbox, outbox, pc, exit, handler, connected, textDone,
                   upstream, faults>>

\* finally: Translator.__aexit__ closes the connection.
Finish ==
    /\ pc = "Closing"
    /\ pc' = "Done"
    /\ connected' = FALSE /\ streaming' = FALSE /\ abandoned' = FALSE
    /\ upOpen' = (upOpen /\ ~connected)
    /\ UNCHANGED <<phone, inbox, outbox, exit, handler, textDone, upClean, upEvents,
                   appended, commits, response, transcripts, faults>>
----------------------------------------------------------------------------
\* OpenAI Realtime, as far as the translator depends on it: a response is some
\* text deltas, output_text.done (which a failed response lacks) and
\* response.done with or without usage.  The transcription of an utterance is
\* produced beside its response and may be reported after it.  What OpenAI
\* does once the handler has stopped listening does not matter.

Emit(e) ==
    /\ upOpen /\ exit = "none"
    /\ upEvents' = Append(upEvents, e)
    /\ UNCHANGED <<phone, inbox, outbox, pc, exit, handler, translator, upOpen, upClean,
                   appended, commits>>

EmitDelta ==
    /\ response.of # 0 /\ ~response.textDone /\ response.deltas < MaxDeltas
    /\ response' = [response EXCEPT !.deltas = @ + 1]
    /\ Emit([type |-> "delta", of |-> response.of, n |-> response.deltas + 1, usage |-> FALSE])
    /\ UNCHANGED <<transcripts, faults>>

EmitTextDone ==
    /\ response.of # 0 /\ ~response.textDone
    /\ response' = [response EXCEPT !.textDone = TRUE]
    /\ Emit([type |-> "textDone", of |-> response.of, n |-> 0, usage |-> FALSE])
    /\ UNCHANGED <<transcripts, faults>>

EmitDone(usage) ==
    /\ response.of # 0
    /\ response' = NoResponse
    /\ Emit([type |-> "done", of |-> response.of, n |-> 0, usage |-> usage])
    /\ UNCHANGED <<transcripts, faults>>

EmitTranscript(u) ==
    /\ transcripts' = transcripts \ {u}
    /\ Emit([type |-> "transcript", of |-> u, n |-> 0, usage |-> FALSE])
    /\ UNCHANGED <<response, faults>>

\* An error event, or one the translator cannot decode.
EmitError ==
    /\ CanFail("error") /\ Fail
    /\ Emit([type |-> "error", of |-> 0, n |-> 0, usage |-> FALSE])
    /\ UNCHANGED <<response, transcripts>>

UpstreamCloses(clean) ==
    /\ upOpen /\ exit = "none"
    /\ CanFail(IF clean THEN "closeOk" ELSE "closeError") /\ Fail
    /\ upOpen' = FALSE /\ upClean' = clean
    /\ UNCHANGED <<phone, inbox, outbox, pc, exit, handler, translator, upEvents, appended,
                   commits, response, transcripts>>

Upstream ==
    \/ EmitDelta \/ EmitTextDone \/ \E usage \in BOOLEAN : EmitDone(usage)
    \/ \E u \in transcripts : EmitTranscript(u)
    \/ EmitError \/ \E clean \in BOOLEAN : UpstreamCloses(clean)

----------------------------------------------------------------------------
Handler ==
    \/ LookupFails \/ \E known \in BOOLEAN : LookupSession(known)
    \/ \E f \in ToSet(inbox) :
          \/ ReceiveDisconnect(f) \/ ReceiveNotJson(f) \/ ReceiveIgnored(f)
          \/ ReceiveRejected(f) \/ ReceiveStart(f) \/ ReceiveChunk(f) \/ ReceiveEnd(f)
    \/ Connect \/ ConnectFails \/ ForwardAudio \/ ForwardFails
    \/ \E e \in ToSet(upEvents) :
          \/ RelayDelta(e) \/ RelayTextDone(e) \/ RelayTranscript(e)
          \/ RelayDone(e) \/ RelayError(e)
    \/ UpstreamEnds \/ RecordUsage \/ RecordFails \/ CloseAbandonedStream \/ Finish

Client == ClientLeaves \/ \E kind \in DOMAIN FrameBudget : ClientSends(kind)

Next == Handler \/ Upstream \/ Client

Spec == Init /\ [][Next]_vars

\* The event loop runs the coroutine whenever what it awaits is there, and
\* OpenAI completes every response it started or closes the connection.
FairSpec ==
    /\ Spec
    /\ WF_vars(Handler)
    /\ WF_vars(\E usage \in BOOLEAN : EmitDone(usage))

----------------------------------------------------------------------------
Chunks == 1..MaxFrames

\* The phone's frames i that session_stream takes up: those after session.start.
Opened(i) == \E j \in 1..(i - 1) : log[j].kind = "start"
\* The audio.end frames before frame i.
Ends(i) == {j \in 1..(i - 1) : log[j].kind = "end" /\ Opened(j)}

\* What the phone said during utterance u: the chunks after u - 1 audio.end.
Spoken(u) == {i \in DOMAIN log : /\ log[i].kind = "chunk" /\ Opened(i)
                                 /\ Cardinality(Ends(i)) = u - 1}

Ascending(s) == \A i, j \in DOMAIN s : i < j => s[i] < s[j]

\* "the backend forwards bytes verbatim" (ws-events.schema.json:35): each
\* commit holds the audio of its own utterance, all of it, in order, whatever
\* bad frames came in between and whatever became of earlier utterances.
AudioIntact == \A u \in DOMAIN commits : Ascending(commits[u]) /\ ToSet(commits[u]) = Spoken(u)

Outcomes == {"final", "translator_error"}

\* An utterance is closed by at most one final, after all of its partials, and
\* answered by a final or an error but never both (openapi.yaml:47-49).
OneOutcome ==
    \A i, j \in DOMAIN outbox :
        /\ i < j /\ outbox[i].of = outbox[j].of /\ outbox[i].of # 0
        /\ outbox[i].type \in Outcomes
        => outbox[j].type \notin Outcomes \cup {"partial"}

\* The partials of utterance u among the frames, from frame k on.
PartialsFrom(frames, k, u) ==
    {j \in DOMAIN frames : j >= k /\ frames[j].of = u /\ frames[j].type = "partial"}

\* The text ends with the partials of utterance u, each a text of one delta: the
\* last partial is its last delta, the one before it its last but one, and so on.
EndsWithPartials(text, frames, u) ==
    \A k \in PartialsFrom(frames, 1, u) :
        LET left == Cardinality(PartialsFrom(frames, k, u)) IN
        left <= Len(text) /\ frames[k].text = <<text[Len(text) - left + 1]>>

\* What a second utterance on a socket may rely on: its final ends with its own
\* partials.
FinalEndsWithPartials ==
    \A i \in DOMAIN outbox :
        outbox[i].type = "final" => EndsWithPartials(outbox[i].text, outbox, outbox[i].of)

Answered(u) == \E i \in DOMAIN outbox : outbox[i].of = u /\ outbox[i].type \in Outcomes

\* The same while the connection to OpenAI is open.
AnsweredWhileUpstreamOpen ==
    pc = "Receive" /\ ~clientGone /\ upOpen => \A u \in 1..utterance : Answered(u)

\* "the cost logger has a paper trail per session" (translator.py:371-372):
\* the usage of at most one response of a session is not recorded, and only
\* when an exception ended the handler on the way to redis: the phone had left
\* when the final was sent, or redis failed.
UsageRecorded ==
    recorded # usageSeen =>
        /\ usageSeen = recorded + 1
        /\ pc = "Recording" \/ (exit = "exception" /\ (clientGone \/ faults > 0))

\* Once the phone has left, the handler ends and lets go of its connection to
\* OpenAI.
ReleasedAfterClientLeaves == clientGone ~> (pc = "Done" /\ ~connected /\ ~upOpen)

\* An audio.end the handler took up is answered, or the phone has left, or the
\* connection to OpenAI has closed.
EventuallyAnswered ==
    \A u \in Chunks :
        (utterance >= u) ~> (Answered(u) \/ clientGone \/ ~upOpen)
=============================================================================
