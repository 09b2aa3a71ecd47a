----------------------------- MODULE PushToTalk -----------------------------
(***************************************************************************)
(* The push-to-talk life cycle of the translate screen                     *)
(* (mobile/lib/screens/translate_screen.dart): pressing, releasing, the    *)
(* final or an error from the server, and the teardown, as asynchronous    *)
(* functions that share the state of the screen, one TranslatorWs and one  *)
(* AudioRecorder.                                                          *)
(*                                                                         *)
(* A press is the number of the accepted press; a text subscription is the *)
(* press that made it and the controller it listens to.                    *)
(***************************************************************************)
EXTENDS TranslatorWs, AudioRecorder

CONSTANTS
    MaxPresses,     \* bound: presses accepted
    MaxRunTimeouts  \* bound: times the 30 s of a benchmark phrase run out

ASSUME ScreenAssumption == {MaxPresses, MaxRunTimeouts} \subseteq Nat

VARIABLE scr

vars == <<tasks, ws, faults, rec, micFaults, scr>>
NoSub == [press |-> 0, text |-> 0]

Init ==
    /\ tasks = [t \in TaskIds |-> <<>>]
    /\ WsInit /\ RecInit
    /\ scr = [ptt      |-> "idle",      \* _ptt
              session  |-> FALSE,       \* _sessionId is known
              wsConn   |-> FALSE,       \* _isWsConnected
              textSub  |-> NoSub,       \* _wsTextSub
              audioSub |-> 0,           \* _audioSub: the press that made it
              age      |-> "none",      \* of _pressDownTsMicros
              cooldown |-> FALSE,       \* _cooldownTimer is active
              finger   |-> "up",
              presses  |-> 0,
              audible  |-> {},          \* chunk streams somebody listened to
              timeouts |-> 0]

----------------------------------------------------------------------------
\* _onPressDown, after it was accepted.  x is the press.

\* _sessionId ??= await createSession() awaits only the first time.
Press(t) ==
    /\ At(t, "press", "start")
    /\ IF scr.session THEN Enter(t, "connect", "connected") ELSE Go(t, "creating", Top(t).x)
    /\ UNCHANGED <<ws, rec, scr>>

PressSessionCreated(t) ==
    /\ At(t, "press", "created")
    /\ IF scr.ptt # "starting" THEN Return(t, 0) ELSE Enter(t, "connect", "connected")
    /\ scr' = [scr EXCEPT !.session = TRUE]
    /\ UNCHANGED <<ws, rec>>

\* Mutant: the orphaned socket is left open.
PressConnectedReturns(t) ==
    /\ At(t, "press", "connected")
    /\ IF scr.ptt # "starting"
       THEN Return(t, 0) /\ UNCHANGED <<ws, scr>>
       ELSE LET sub == [press |-> Top(t).x, text |-> ws.text] IN
            /\ ws' = [ws EXCEPT !.listeners = @ \cup {sub}]
            /\ scr' = [scr EXCEPT !.textSub = sub, !.wsConn = TRUE]
            /\ Enter(t, "recStart", "recorder")
    /\ UNCHANGED rec

\* The second checkpoint: a socket opened for nothing is closed.
PressConnected(t) ==
    /\ At(t, "press", "connected")
    /\ IF scr.ptt # "starting"
       THEN Enter(t, "disconnect", "end") /\ UNCHANGED <<ws, scr>>
       ELSE LET sub == [press |-> Top(t).x, text |-> ws.text] IN
            /\ ws' = [ws EXCEPT !.listeners = @ \cup {sub}]
            /\ scr' = [scr EXCEPT !.textSub = sub, !.wsConn = TRUE]
            /\ Enter(t, "recStart", "recorder")
    /\ UNCHANGED rec

\* Mutant: the last checkpoint is missing.
PressRecorderUnchecked(t) ==
    /\ At(t, "press", "recorder")
    /\ scr' = [scr EXCEPT !.ptt = "recording", !.audioSub = Top(t).x,
                          !.audible = @ \cup {Top(t).val}]
    /\ Return(t, 0)
    /\ UNCHANGED <<ws, rec>>

\* The recorder runs.  Listening to a chunk stream for the second time throws.
PressRecorder(t) ==
    /\ At(t, "press", "recorder")
    /\ \/ /\ scr.ptt # "starting"
          /\ Enter(t, "recStop", "stopped") /\ UNCHANGED scr
       \/ /\ scr.ptt = "starting" /\ Top(t).val \in scr.audible
          /\ Enter(t, "teardown", "end") /\ UNCHANGED scr
       \/ /\ scr.ptt = "starting" /\ Top(t).val \notin scr.audible
          /\ scr' = [scr EXCEPT !.ptt = "recording", !.audioSub = Top(t).x,
                                !.audible = @ \cup {Top(t).val}]
          /\ Return(t, 0)
    /\ UNCHANGED <<ws, rec>>

PressStopped(t) ==
    /\ At(t, "press", "stopped")
    /\ Enter(t, "disconnect", "end") /\ UNCHANGED <<ws, rec, scr>>

PressFails(t) ==
    /\ \E pc \in {"creating", "connected", "recorder", "stopped"} : Caught(t, "press", pc)
    /\ Enter(t, "teardown", "end") /\ UNCHANGED <<ws, rec, scr>>

\* The last await of press, release or teardown returned.
Ends(t) ==
    /\ \E fn \in {"press", "release"} : At(t, fn, "end")
    /\ Return(t, 0) /\ UNCHANGED <<ws, rec, scr>>

----------------------------------------------------------------------------
\* _onPressUp of a recording press: the end of the utterance.

Release(t) ==
    /\ At(t, "release", "start")
    /\ Go(t, "cancelled", 0) /\ UNCHANGED <<ws, rec, scr>>

ReleaseStopsRecorder(t) ==
    /\ At(t, "release", "cancelled")
    /\ scr' = [scr EXCEPT !.audioSub = 0]
    /\ Enter(t, "recStop", "stopped") /\ UNCHANGED <<ws, rec>>

ReleaseEndsUtterance(t) ==
    /\ At(t, "release", "stopped")
    /\ IF scr.wsConn /\ ws.connected /\ ws.socket # None
       THEN /\ ws' = [ws EXCEPT !.server[ws.socket] = IF @ = "opened" THEN "ended" ELSE @]
            /\ Return(t, 0)
       ELSE Enter(t, "teardown", "end") /\ UNCHANGED ws
    /\ UNCHANGED <<rec, scr>>

----------------------------------------------------------------------------
\* _teardownPtt.

Teardown(t) ==
    /\ At(t, "teardown", "start")
    /\ Go(t, "cancelled", 0) /\ UNCHANGED <<ws, rec, scr>>

TeardownStopsRecorder(t) ==
    /\ At(t, "teardown", "cancelled")
    /\ scr' = [scr EXCEPT !.audioSub = 0]
    /\ Enter(t, "recStop", "stopped") /\ UNCHANGED <<ws, rec>>

TeardownCancelsText(t) ==
    /\ At(t, "teardown", "stopped")
    /\ ws' = [ws EXCEPT !.listeners = @ \ {scr.textSub}]
    /\ Go(t, "unheard", 0) /\ UNCHANGED <<rec, scr>>

TeardownDisconnects(t) ==
    /\ At(t, "teardown", "unheard")
    /\ scr' = [scr EXCEPT !.textSub = NoSub]
    /\ Enter(t, "disconnect", "disconnected") /\ UNCHANGED <<ws, rec>>

TeardownEnds(t) ==
    /\ At(t, "teardown", "disconnected")
    /\ scr' = [scr EXCEPT !.wsConn = FALSE, !.ptt = "idle", !.age = "none",
                          !.cooldown = TRUE]
    /\ Return(t, 0) /\ UNCHANGED <<ws, rec>>

\* _onTextDelta for a final, _onWsError: what the text stream delivers to the
\* screen tears push-to-talk down.  A cancelled subscription gets nothing.
DeliverText ==
    LET e == Head(ws.pending) IN
    /\ ws.pending # <<>> /\ \A t \in TaskIds : ~Entering(t)
    /\ e.to \in ws.listeners => CanSpawn
    /\ ws' = [ws EXCEPT !.pending = Tail(@)]
    /\ IF e.to \in ws.listeners
       THEN /\ tasks' = Spawns(tasks, "teardown", 0)
            /\ scr' = IF e.kind = "error" THEN [scr EXCEPT !.wsConn = FALSE] ELSE scr
       ELSE UNCHANGED <<tasks, scr>>
    /\ UNCHANGED <<faults, rec, micFaults>>

ScreenStep(t) ==
    \/ Press(t) \/ PressSessionCreated(t) \/ PressConnected(t) \/ PressRecorder(t)
    \/ PressStopped(t) \/ PressFails(t) \/ Ends(t)
    \/ Release(t) \/ ReleaseStopsRecorder(t) \/ ReleaseEndsUtterance(t)
    \/ Teardown(t) \/ TeardownStopsRecorder(t) \/ TeardownCancelsText(t)
    \/ TeardownDisconnects(t) \/ TeardownEnds(t)

----------------------------------------------------------------------------
\* Events: the user, the timers, and the answer to createSession.

Accepts == scr.ptt = "idle" /\ ~scr.cooldown

PressDown ==
    /\ scr.finger = "up"
    /\ IF Accepts
       THEN /\ scr.presses < MaxPresses /\ CanSpawn
            /\ scr' = [scr EXCEPT !.finger = "down", !.ptt = "starting", !.age = "short",
                                  !.presses = @ + 1]
            /\ tasks' = Spawns(tasks, "press", scr.presses + 1)
       ELSE scr' = [scr EXCEPT !.finger = "down"] /\ UNCHANGED tasks
    /\ UNCHANGED <<ws, faults, rec, micFaults>>

PressUp ==
    /\ scr.finger = "down"
    /\ LET short == scr.age = "short"
           to(ptt) == scr' = [scr EXCEPT !.finger = "up", !.ptt = ptt] IN
       \/ /\ scr.ptt = "idle" \/ (~short /\ scr.ptt \in {"aborting", "ending"})
          /\ to(scr.ptt) /\ UNCHANGED tasks
       \/ /\ scr.ptt # "idle" /\ (short \/ scr.ptt = "starting") /\ CanSpawn
          /\ to("aborting") /\ tasks' = Spawns(tasks, "teardown", 0)
       \/ /\ scr.ptt = "recording" /\ ~short /\ CanSpawn
          /\ to("ending") /\ tasks' = Spawns(tasks, "release", 0)
    /\ UNCHANGED <<ws, faults, rec, micFaults>>

\* 100 ms after the press was accepted.
PressAges ==
    /\ scr.age = "short"
    /\ scr' = [scr EXCEPT !.age = "long"]
    /\ UNCHANGED <<tasks, ws, faults, rec, micFaults>>

SessionAnswered(t) ==
    /\ At(t, "press", "creating")
    /\ \/ Go(t, "created", Top(t).x) /\ UNCHANGED faults
       \/ Fail /\ tasks' = [tasks EXCEPT ![t][1].exc = "session"]
    /\ UNCHANGED <<ws, rec, micFaults, scr>>

CooldownElapses ==
    /\ scr.cooldown /\ scr.age # "short"
    /\ scr' = [scr EXCEPT !.cooldown = FALSE]
    /\ UNCHANGED <<tasks, ws, faults, rec, micFaults>>

\* The 30 s of a benchmark phrase; a release stops that timer.
RunTimesOut ==
    /\ scr.timeouts < MaxRunTimeouts /\ scr.finger = "down"
    /\ scr.ptt # "idle" /\ CanSpawn
    /\ scr' = [scr EXCEPT !.timeouts = @ + 1]
    /\ tasks' = Spawns(tasks, "teardown", 0)
    /\ UNCHANGED <<ws, faults, rec, micFaults>>

----------------------------------------------------------------------------
\* Everything that can go on goes on before the loop takes the next event.
Step ==
    \/ \E t \in {u \in TaskIds : MayRun(u)} :
          \/ WsStep(t) /\ UNCHANGED <<faults, rec, micFaults, scr>>
          \/ RecStep(t) /\ UNCHANGED <<ws, faults, micFaults, scr>>
          \/ ScreenStep(t) /\ UNCHANGED <<faults, micFaults>>
    \/ \E t \in TaskIds : InputClosed(t) /\ UNCHANGED <<ws, faults, micFaults, scr>>
    \/ DeliverText

Idle == NoneReady /\ ws.pending = <<>> /\ \A t \in TaskIds : ~InputCloses(t)

Event ==
    /\ Idle
    /\ \/ WsEvent /\ UNCHANGED <<rec, micFaults, scr>>
       \/ RecEvent /\ UNCHANGED <<ws, faults, scr>>
       \/ \E t \in TaskIds : SessionAnswered(t)
       \/ PressDown \/ PressUp \/ PressAges \/ CooldownElapses \/ RunTimesOut

Next == Step \/ Event

Spec == Init /\ [][Next]_vars

\* The event loop runs what can run, timers go off, and the platform, the
\* network and the server answer.
Answers(t) ==
    \/ (SocketReady(t) \/ SocketFails(t) \/ BackoffElapses(t) \/ SocketClosed(t))
          /\ UNCHANGED <<rec, micFaults, scr>>
    \/ (PermissionAnswered(t) \/ RecorderOpened(t)
        \/ RecorderReleased(t) \/ RecorderReleaseFails(t))
          /\ UNCHANGED <<ws, faults, scr>>
    \/ SessionAnswered(t)

Serves(s) ==
    (ReceiveOpened(s) \/ ReceiveFinal(s) \/ ReceiveError(s) \/ SocketEnds(s))
        /\ UNCHANGED <<rec, micFaults, scr>>

Fairness ==
    /\ WF_vars(Step)
    /\ \A t \in TaskIds : WF_vars(Idle /\ Answers(t))
    /\ \A s \in Sockets : WF_vars(Idle /\ Serves(s))

FairSpec == Spec /\ Fairness

----------------------------------------------------------------------------
\* Nothing is under way: no call is alive and no event is on its way.
Quiet == (\A t \in TaskIds : ~Alive(t)) /\ ws.pending = <<>>

OpenSockets == (1..ws.opens) \ (ws.shut \cup {s \in Sockets : ws.server[s] = "gone"})

\* The fields hold what their types say; an exception is on its way only out
\* of the running call; sockets and recorders are used after they are made, a
\* recorder that is closed does not record.
TypeOK ==
    /\ \A t \in TaskIds : \A i \in DOMAIN tasks[t] : tasks[t][i].exc = "none" \/ i = 1
    /\ scr.ptt \in {"idle", "starting", "recording", "ending", "aborting"}
    /\ scr.age \in {"none", "short", "long"} /\ scr.audioSub \in 0..scr.presses
    /\ {ws.socket, ws.completer, ws.sub} \subseteq 0..ws.opens
    /\ ws.heard \cup ws.shut \subseteq 1..ws.opens
    /\ ws.completed \in {"no", "ok", "transport", "translatorWs"}
    /\ {rec.recorder, rec.input, rec.sub} \subseteq 0..rec.opened
    /\ rec.mic \subseteq (1..rec.opened) \ rec.released

\* A platform recorder refused to stop or to close.  Nobody catches that, and
\* the screen stays in the state it is in.
Stuck == rec.unreleased # {}

\* A screen that waits for the final is served: the socket it wrote audio.end
\* to is open and heard, and what comes of it will reach the screen.  (The
\* release stops the recorder between two awaits while the socket may fail.)
EndingIsServed ==
    scr.ptt = "ending" /\ Quiet /\ ~Stuck =>
        /\ scr.textSub \in ws.listeners /\ scr.textSub.text = ws.text /\ ws.textOpen
        /\ ws.connected /\ ws.socket \in ws.heard
        /\ ws.server[ws.socket] \in {"ended", "opened"}

\* A screen that shows "recording" does record, on an open connection whose
\* failure it would hear of, whatever failed while the press was starting.
RecordingIsServed ==
    scr.ptt = "recording" /\ Quiet /\ ~Stuck =>
        /\ rec.recording /\ rec.mic # {}
        /\ scr.textSub \in ws.listeners /\ scr.textSub.text = ws.text /\ ws.textOpen
        /\ ws.connected /\ ws.server[ws.socket] = "opened"

\* A screen that is idle with nothing under way holds no microphone, socket or
\* subscription.
IdleHoldsNothing ==
    scr.ptt = "idle" /\ Quiet =>
        rec.mic = {} /\ OpenSockets = {} /\ scr.textSub = NoSub

\* As long as the network, the server and the recorder's stop do not fail,
\* wherever between its awaits a press is released, teardown and the checkpoints
\* of _onPressDown give everything back.
ReleasedPressHoldsNothing ==
    faults = 0 /\ scr.timeouts = 0 /\ ~Stuck => IdleHoldsNothing

\* A released button does not leave the screen in starting, recording, ending
\* or aborting for good, whatever else fails than the recorder's stop.
PressEnds == (scr.ptt # "idle" /\ scr.finger = "up") ~> (scr.ptt = "idle" \/ Stuck)
=============================================================================
