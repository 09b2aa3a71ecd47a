---------------------------- MODULE BenchmarkRun -----------------------------
(***************************************************************************)
(* The benchmark run of the translate screen: a catalogue of phrases, each *)
(* shown until its utterance is acknowledged by the glasses, fails or      *)
(* times out, and the trace the latency logger keeps of it.                *)
(*                                                                         *)
(* A press is a coroutine (chains) that connects and starts the recorder;  *)
(* teardowns are coroutines too.  Here each of their awaits that logs      *)
(* something or decides on the state of push-to-talk is a step; PushToTalk *)
(* has all of them.  Timers carry no durations: a press may fall before or *)
(* after the advance of a run (1.5 s), the cooldown (0.5 s) or a timeout.  *)
(***************************************************************************)
EXTENDS LatencyLogger, FiniteSets

CONSTANTS
    Phrases,        \* length of the catalogue
    MaxPresses,     \* bound: touches of the button
    MaxFaults,      \* bound: failures of a start or of a socket
    MaxClears       \* bound: starts of a run, and uses of "clear rows"

ASSUME BenchmarkConstants == Phrases \in Nat \ {0} /\ {MaxPresses, MaxFaults, MaxClears} \subseteq Nat

VARIABLES
    ptt,        \* _ptt
    chains,     \* presses whose _onPressDown awaits
    tearing,    \* calls of _teardownPtt that have not ended
    releasing,  \* _onPressUp awaits the end of the recording
    socket,     \* the press whose text stream is listened to, or 0
    ended,      \* endUtterance was sent on it
    cooldown,   \* _cooldownTimer is active
    finger,     \* the button is touched
    presses,    \* touches so far; a press is named by its number
    run,        \* active, index, and the two timers
    sent,       \* traces active when subtitle 1, 2 ... was sent; _bleSeq is its length
    acks,       \* Ok acks on their way
    log,        \* the LatencyLogger
    faults, clears

pttVars == <<ptt, chains, tearing, releasing, socket, ended, cooldown>>
vars == <<pttVars, finger, presses, run, sent, acks, log, faults, clears>>

NoRun == [active |-> FALSE, index |-> 0, timeout |-> FALSE, advance |-> FALSE]
bleSeq == Len(sent)

\* _currentRunPhrase, 0 without a run.
CurrentPhrase == IF run.active /\ run.index < Phrases THEN run.index + 1 ELSE 0

Init ==
    /\ ptt = "idle" /\ chains = {} /\ tearing = 0 /\ releasing = FALSE
    /\ socket = 0 /\ ended = FALSE /\ cooldown = FALSE
    /\ finger = FALSE /\ presses = 0 /\ run = NoRun
    /\ sent = <<>> /\ acks = {} /\ log = EmptyLog
    /\ faults = 0 /\ clears = 0

----------------------------------------------------------------------------
\* The run.

\* _armRunPhrase
Armed(r) == IF r.index < Phrases THEN [r EXCEPT !.timeout = TRUE]
            ELSE [r EXCEPT !.active = FALSE, !.timeout = FALSE]

\* _scheduleRunAdvance
Advancing(r) == IF ~r.active THEN r ELSE [r EXCEPT !.timeout = FALSE, !.advance = TRUE]

\* The pattern of every handler that ends a trace: if it returned a row, the
\* run moves on.
Ends(error) ==
    /\ log' = Closed(log, error)
    /\ run' = IF Commits(log, log') THEN Advancing(run) ELSE run

\* _startRun
StartRun ==
    /\ ~run.active /\ clears < MaxClears
    /\ clears' = clears + 1
    /\ log' = EmptyLog
    /\ run' = Armed([NoRun EXCEPT !.active = TRUE])
    /\ UNCHANGED <<pttVars, finger, presses, sent, acks, faults>>

\* _runAdvance
RunAdvances ==
    /\ run.advance
    /\ run' = Armed([run EXCEPT !.advance = FALSE, !.index = @ + 1])
    /\ UNCHANGED <<pttVars, finger, presses, sent, acks, log, faults, clears>>

\* _runTimeout: 30 s without a release, an answer or a failure.
RunTimesOut ==
    /\ run.timeout
    /\ log' = Closed(log, "timeout")
    /\ tearing' = IF ptt # "idle" THEN tearing + 1 ELSE tearing
    /\ run' = Advancing(run)
    /\ UNCHANGED <<ptt, chains, releasing, socket, ended, cooldown,
                   finger, presses, sent, acks, faults, clears>>

\* _clearE2e
ClearRows ==
    /\ clears < MaxClears
    /\ clears' = clears + 1
    /\ log' = EmptyLog
    /\ UNCHANGED <<pttVars, finger, presses, run, sent, acks, faults>>

----------------------------------------------------------------------------
\* The button.

\* _onPressDown until its first await.  A press that is ignored is a touch too,
\* and its release calls _onPressUp.
PressDown ==
    /\ ~finger /\ presses < MaxPresses
    /\ finger' = TRUE
    /\ presses' = presses + 1
    /\ IF ptt # "idle" \/ cooldown THEN UNCHANGED <<ptt, chains, log>>
       ELSE /\ ptt' = "starting"
            /\ chains' = chains \cup {[press |-> presses', at |-> "connect"]}
            /\ log' = IF CurrentPhrase = 0 THEN log
                      ELSE Started(log, presses', CurrentPhrase)
    /\ UNCHANGED <<tearing, releasing, socket, ended, cooldown, run, sent, acks, faults, clears>>

\* createSession returns to a press that is over.
PressIsOver(c) ==
    /\ c.at = "connect" /\ ptt # "starting"
    /\ chains' = chains \ {c}
    /\ UNCHANGED <<ptt, tearing, releasing, socket, ended, cooldown,
                   finger, presses, run, sent, acks, log, faults, clears>>

\* connect returns: session.opened is stamped before the press looks whether it
\* is still wanted.
Connected(c) ==
    /\ c.at = "connect" /\ socket = 0
    /\ log' = Mark(log, "opened")
    /\ IF ptt # "starting"
       THEN /\ chains' = chains \ {c}
            /\ UNCHANGED <<socket, ended>>
       ELSE /\ chains' = (chains \ {c}) \cup {[c EXCEPT !.at = "recorder"]}
            /\ socket' = c.press
            /\ ended' = FALSE
    /\ UNCHANGED <<ptt, tearing, releasing, cooldown,
                   finger, presses, run, sent, acks, faults, clears>>

\* recorder.start returns.
RecorderStarted(c) ==
    /\ c.at = "recorder"
    /\ chains' = chains \ {c}
    /\ IF ptt # "starting"
       THEN ptt' = ptt /\ socket' = 0 /\ ended' = FALSE
       ELSE ptt' = "recording" /\ UNCHANGED <<socket, ended>>
    /\ UNCHANGED <<tearing, releasing, cooldown, finger, presses, run, sent, acks, log, faults, clears>>

\* createSession, connect or start throws, the second also when a socket is
\* connected already.
StartFails(c) ==
    /\ IF c.at = "connect" /\ socket # 0 THEN faults' = faults
       ELSE faults < MaxFaults /\ faults' = faults + 1
    /\ chains' = chains \ {c}
    /\ Ends("start_error")
    /\ tearing' = tearing + 1
    /\ UNCHANGED <<ptt, releasing, socket, ended, cooldown, finger, presses, sent, acks, clears>>

\* _onPressUp within 100 ms of the press.
ShortPress ==
    /\ ptt \notin {"idle", "ending"}
    /\ log' = Closed(log, "short_press")
    /\ ptt' = "aborting"
    /\ tearing' = tearing + 1
    /\ UNCHANGED releasing

\* _onPressUp of a press that was held: it stamps the release before it looks
\* at the state.
Release ==
    /\ ptt # "idle"
    /\ log' = Mark(log, "released")
    /\ ptt' = CASE ptt = "starting" -> "aborting" [] ptt = "recording" -> "ending"
              [] OTHER -> ptt
    /\ tearing' = IF ptt = "starting" THEN tearing + 1 ELSE tearing
    /\ releasing' = (releasing \/ ptt = "recording")

PressUp ==
    /\ finger /\ finger' = FALSE
    /\ \/ ptt = "idle" /\ UNCHANGED <<ptt, tearing, releasing, log, run>>
       \/ (ShortPress \/ Release) /\ run' = [run EXCEPT !.timeout = FALSE]
    /\ UNCHANGED <<chains, socket, ended, cooldown, presses, sent, acks, faults, clears>>

\* _onPressUp after the recorder has stopped.
EndUtterance ==
    /\ releasing /\ releasing' = FALSE
    /\ IF socket = 0 THEN tearing' = tearing + 1 /\ ended' = ended
       ELSE ended' = TRUE /\ tearing' = tearing
    /\ UNCHANGED <<ptt, chains, socket, cooldown, finger, presses, run, sent, acks, log, faults, clears>>

\* _teardownPtt, which ends by making the screen idle, whoever uses it.
TeardownEnds ==
    /\ tearing > 0
    /\ tearing' = tearing - 1
    /\ ptt' = "idle" /\ socket' = 0 /\ ended' = FALSE /\ cooldown' = TRUE
    /\ UNCHANGED <<chains, releasing, finger, presses, run, sent, acks, log, faults, clears>>

CooldownElapses ==
    /\ cooldown /\ cooldown' = FALSE
    /\ UNCHANGED <<ptt, chains, tearing, releasing, socket, ended,
                   finger, presses, run, sent, acks, log, faults, clears>>

----------------------------------------------------------------------------
\* Answers.

\* _onTextDelta, the first partial.
PartialText ==
    /\ ended /\ socket # 0
    /\ log' = MarkFirst(log, "first") /\ log' # log
    /\ UNCHANGED <<pttVars, finger, presses, run, sent, acks, faults, clears>>

\* _sendToBle: the subtitle is numbered; its write may fail, its ack be lost.
SendToBle ==
    /\ sent' = Append(sent, log.trace.id)
    /\ acks' \in {acks, acks \cup {bleSeq + 1}}

\* Mutant: a final without glasses leaves the trace open.
WithoutGlassesOpen == log' = Mark(log, "final") /\ UNCHANGED run

\* Nobody will acknowledge: the trace ends here.
WithoutGlasses ==
    /\ log' = Closed(Mark(log, "final"), "ble_unavailable")
    /\ run' = IF InProgress(log) THEN Advancing(run) ELSE run

\* _onTextDelta, the final.
FinalText ==
    /\ ended /\ socket # 0
    /\ \/ SendToBle /\ log' = Mark(log, "final") /\ UNCHANGED run
       \/ WithoutGlasses /\ UNCHANGED <<sent, acks>>
    /\ socket' = 0 /\ ended' = FALSE
    /\ tearing' = tearing + 1
    /\ UNCHANGED <<ptt, chains, releasing, cooldown, finger, presses, faults, clears>>

\* _onWsError
WsError ==
    /\ socket # 0 /\ faults < MaxFaults
    /\ faults' = faults + 1
    /\ Ends("ws_error")
    /\ socket' = 0 /\ ended' = FALSE
    /\ tearing' = tearing + 1
    /\ UNCHANGED <<ptt, chains, releasing, cooldown, finger, presses, sent, acks, clears>>

\* Mutant: any ack finalises.
AcksLastAny(seq) == TRUE

\* An ack is matched with the last number sent, not with the trace.
AcksLast(seq) == seq = bleSeq

\* _onBleAck
BleAck(seq) ==
    /\ acks' = acks \ {seq}
    /\ IF AcksLast(seq)
       THEN /\ log' = Closed(MarkAck(log, seq), Clean)
            /\ run' = IF InProgress(log) THEN Advancing(run) ELSE run
       ELSE UNCHANGED <<log, run>>
    /\ UNCHANGED <<pttVars, finger, presses, sent, faults, clears>>

----------------------------------------------------------------------------
Answers == PartialText \/ FinalText \/ WsError \/ \E seq \in acks : BleAck(seq)
Chain(c) == PressIsOver(c) \/ Connected(c) \/ RecorderStarted(c) \/ StartFails(c)
Button == PressDown \/ PressUp \/ EndUtterance \/ TeardownEnds \/ CooldownElapses
Run == StartRun \/ RunAdvances \/ RunTimesOut \/ ClearRows
Next == Run \/ Button \/ Answers \/ \E c \in chains : Chain(c)

Spec == Init /\ [][Next]_vars

\* The event loop runs what is due, and platform, backend and glasses answer or
\* fail; an ack that is not on its way is lost.  Nothing makes the user press,
\* release or start a run.
Fairness ==
    /\ WF_vars(EndUtterance) /\ WF_vars(TeardownEnds) /\ WF_vars(CooldownElapses)
    /\ WF_vars(RunAdvances) /\ WF_vars(RunTimesOut)
    /\ WF_vars(FinalText \/ WsError)
    /\ \A seq \in 1..MaxPresses : WF_vars(seq \in acks /\ BleAck(seq))
    /\ \A p \in 1..MaxPresses :
          WF_vars(\E c \in chains : c.press = p /\ Chain(c))

FairSpec == Spec /\ Fairness

----------------------------------------------------------------------------
\* A phrase does not time out while the run moves on, and no timer outlives its
\* run: _scheduleRunAdvance and _armRunPhrase between them cancel what they must.
OneTimer ==
    /\ ~(run.timeout /\ run.advance)
    /\ run.timeout \/ run.advance => run.active

\* "A stage that did not complete ... leaves its column empty and errorCode
\* describes the failure" (latency_logger.dart:111): a row without an error has
\* the stages the report takes its latency from.
CleanRowsAreMeasured ==
    \A row \in log.rows : row.error = Clean => {"released", "final"} \subseteq Stages(row)

\* "For each phrase, displays the prompt, waits for PTT cycle or timeout, records
\* e2e trace, advances" (docs/codex/S1_TASKS.md:346): an utterance that was
\* recorded to its end, while nothing of an earlier press is under way, closes
\* its trace, unless the glasses never answer.
Utterance(p) ==
    log.trace.id = p /\ ptt = "ending" /\ socket = p /\ tearing = 0 /\ chains = {}
Unanswered(p) == \E seq \in DOMAIN sent : sent[seq] = p /\ seq \notin acks
UtteranceIsClosed ==
    \A p \in 1..MaxPresses : Utterance(p) ~> log.trace.id # p \/ Unanswered(p)
=============================================================================
