---------------------------- MODULE TranslatorWs ----------------------------
(***************************************************************************)
(* The phone's WebSocket client (mobile/lib/services/translator_ws.dart):  *)
(* connect with its retries, disconnect, the clean finish, and the         *)
(* handlers of the socket, all on the fields of one object, which a press  *)
(* of the button shares with the next.                                     *)
(*                                                                         *)
(* A socket and the completer made with it are the number of the attempt;  *)
(* a text controller is its generation.                                    *)
(***************************************************************************)
EXTENDS DartTasks, SequencesExt

CONSTANTS
    MaxAttempts,    \* _maxConnectAttempts
    MaxSockets,     \* bound: sockets opened
    MaxFaults       \* bound: failures of the network and of the server

ASSUME WsAssumption == {MaxAttempts, MaxSockets, MaxFaults} \subseteq Nat

VARIABLES ws, faults

Sockets == 1..MaxSockets
None == 0

WsInit ==
    /\ faults = 0
    /\ ws = [connected |-> FALSE,   \* _isConnected
             closing   |-> FALSE,   \* _closingCleanly
             completer |-> None,    \* _openedCompleter
             completed |-> "no",    \* how that completer was completed
             socket    |-> None,    \* _socket
             sub       |-> None,    \* _socketSubscription
             heard     |-> {},      \* sockets with a listener
             text      |-> 1,       \* _textController
             textOpen  |-> TRUE,
             listeners |-> {},      \* of text controllers
             pending   |-> <<>>,    \* text events not delivered yet
             opens     |-> 0,       \* sockets created
             shut      |-> {},      \* sockets this side has closed
             server    |-> [s \in Sockets |-> "none"]]

Fail == faults < MaxFaults /\ faults' = faults + 1

----------------------------------------------------------------------------
\* connect.  x counts the attempts.

Connect(t) ==
    /\ At(t, "connect", "start")
    /\ IF ws.connected \/ ws.completer # None
       THEN Throw(t, "state") /\ UNCHANGED ws
       ELSE /\ ws' = IF ws.textOpen THEN ws
                     ELSE [ws EXCEPT !.text = @ + 1, !.textOpen = TRUE]
            /\ Enter(t, "openOnce", "returned")

ConnectReturns(t) ==
    /\ At(t, "connect", "returned")
    /\ Return(t, 0) /\ UNCHANGED ws

\* Whatever went wrong, the socket is given up before the next attempt; a
\* TranslatorWsError is not retried.
ConnectFails(t) ==
    /\ Caught(t, "connect", "returned")
    /\ Enter(t, "reset", IF Top(t).exc = "translatorWs" THEN "rethrow" ELSE "retry")
    /\ UNCHANGED ws

ConnectGivesUp(t) ==
    /\ \/ At(t, "connect", "rethrow")
       \/ At(t, "connect", "retry") /\ Top(t).x = MaxAttempts - 1
    /\ Throw(t, "translatorWs") /\ UNCHANGED ws

ConnectBacksOff(t) ==
    /\ At(t, "connect", "retry") /\ Top(t).x < MaxAttempts - 1
    /\ Go(t, "delay", Top(t).x + 1) /\ UNCHANGED ws

ConnectAgain(t) ==
    /\ At(t, "connect", "again")
    /\ Enter(t, "openOnce", "returned") /\ UNCHANGED ws

----------------------------------------------------------------------------
\* _openOnce.  x is its socket, or the completer it waits for.

OpenSocket(t) ==
    /\ At(t, "openOnce", "start") /\ ws.opens < MaxSockets
    /\ ws' = [ws EXCEPT !.opens = @ + 1, !.server[ws.opens + 1] = "connecting"]
    /\ Go(t, "created", ws.opens + 1)

KeepSocket(t) ==
    /\ At(t, "openOnce", "created")
    /\ ws' = [ws EXCEPT !.socket = Top(t).x, !.completer = Top(t).x, !.completed = "no"]
    /\ Go(t, "ready", Top(t).x)

\* The socket is ready: listen, send session.start (which throws on a closed
\* sink), then wait for whatever _openedCompleter is by now.
ListenAndStart(t) ==
    LET s == Top(t).x IN
    /\ At(t, "openOnce", "listen")
    /\ ws' = [ws EXCEPT !.heard = @ \cup {s}, !.sub = s,
                        !.server[s] = IF @ = "ready" THEN "started" ELSE @]
    /\ \/ /\ s \in ws.shut \/ ws.completer = None \/ ws.completed \notin {"no", "ok"}
          /\ Throw(t, IF s \notin ws.shut /\ ws.completer # None
                      THEN ws.completed ELSE "state")
       \/ /\ s \notin ws.shut /\ ws.completer # None /\ ws.completed \in {"no", "ok"}
          /\ Go(t, IF ws.completed = "ok" THEN "done" ELSE "opened", ws.completer)

OpenDone(t) ==
    /\ At(t, "openOnce", "done")
    /\ ws' = [ws EXCEPT !.completer = None]
    /\ Return(t, 0)

----------------------------------------------------------------------------
\* disconnect, _finishStreamCleanly and _resetSocketForRetry.

Closers == {"disconnect", "finish", "reset"}

StartClose(t, fn) ==
    /\ At(t, fn, "start")
    /\ ws' = [ws EXCEPT !.closing = (@ \/ fn # "reset"), !.connected = FALSE,
                        !.completer = IF fn = "finish" THEN @ ELSE None,
                        !.heard = @ \ {ws.sub}]
    /\ Go(t, "cancelled", 0)

CloseSocket(t, fn) ==
    /\ At(t, fn, "cancelled")
    /\ IF ws.socket = None
       THEN ws' = [ws EXCEPT !.sub = None] /\ Go(t, "closed", 0)
       ELSE /\ ws' = [ws EXCEPT !.sub = None, !.socket = None, !.shut = @ \cup {ws.socket},
                                !.server[ws.socket] = "gone"]
            /\ Go(t, "closing", ws.socket)

\* The text controller is closed too, whichever it is by now, except before a
\* retry.
CloseText(t, fn) ==
    /\ At(t, fn, "closed")
    /\ IF fn = "reset"
       THEN Return(t, 0) /\ UNCHANGED ws
       ELSE ws' = [ws EXCEPT !.textOpen = FALSE] /\ Go(t, "end", 0)

EndClose(t, fn) ==
    /\ At(t, fn, "end")
    /\ ws' = [ws EXCEPT !.closing = FALSE,
                        !.completer = IF fn = "finish" THEN None ELSE @]
    /\ Return(t, 0)

WsStep(t) ==
    \/ Connect(t) \/ ConnectReturns(t) \/ ConnectFails(t) \/ ConnectGivesUp(t)
    \/ ConnectBacksOff(t) \/ ConnectAgain(t)
    \/ OpenSocket(t) \/ KeepSocket(t) \/ ListenAndStart(t) \/ OpenDone(t)
    \/ \E fn \in Closers : StartClose(t, fn) \/ CloseSocket(t, fn)
                           \/ CloseText(t, fn) \/ EndClose(t, fn)

----------------------------------------------------------------------------
\* What the awaits wait for.

SocketReady(t) ==
    /\ At(t, "openOnce", "ready")
    /\ ws' = [ws EXCEPT !.server[Top(t).x] = IF @ = "connecting" THEN "ready" ELSE @]
    /\ Go(t, "listen", Top(t).x)
    /\ UNCHANGED faults

SocketFails(t) ==
    /\ At(t, "openOnce", "ready")
    /\ IF Top(t).x \in ws.shut THEN UNCHANGED faults ELSE Fail
    /\ ws' = [ws EXCEPT !.server[Top(t).x] = "gone"]
    /\ Throw(t, "transport")

BackoffElapses(t) ==
    /\ At(t, "connect", "delay")
    /\ Go(t, "again", Top(t).x) /\ UNCHANGED <<ws, faults>>

SocketClosed(t) ==
    /\ \E fn \in Closers : At(t, fn, "closing")
    /\ Go(t, "closed", 0) /\ UNCHANGED <<ws, faults>>

----------------------------------------------------------------------------
\* The handlers of a socket that has a listener.

\* Completing the completer of the connection being opened lets the call that
\* awaits it go on.
Awaits(t, c) == At(t, "openOnce", "opened") /\ Top(t).x = c

Completed(ts, how) ==
    IF ws.completer = None \/ ws.completed # "no" THEN ts
    ELSE [t \in TaskIds |->
             IF ~Awaits(t, ws.completer) THEN ts[t]
             ELSE IF how = "ok" THEN GoesTo(ts, t, "done", ws.completer)[t]
             ELSE Throws(ts, t, how)[t]]

Completion(how) == IF ws.completer = None \/ ws.completed # "no" THEN ws.completed ELSE how

\* Mutant: errors are completed, not added to the text stream.
EmittedFinals(kind) ==
    IF ~ws.textOpen \/ kind = "error" THEN ws.pending
    ELSE ws.pending \o SetToSeq({[to |-> l, kind |-> kind] :
                                    l \in {k \in ws.listeners : k.text = ws.text}})

\* An event on the text controller, for those that listen to it.
Emitted(kind) ==
    IF ~ws.textOpen THEN ws.pending
    ELSE ws.pending \o SetToSeq({[to |-> l, kind |-> kind] :
                                    l \in {k \in ws.listeners : k.text = ws.text}})

ReceiveOpened(s) ==
    /\ s \in ws.heard /\ ws.server[s] = "started"
    /\ ws' = [ws EXCEPT !.server[s] = "opened", !.connected = TRUE,
                        !.completed = Completion("ok")]
    /\ tasks' = Completed(tasks, "ok")
    /\ UNCHANGED faults

\* translation.final; adding to a closed controller throws, and then the
\* socket is not finished.
ReceiveFinal(s) ==
    /\ s \in ws.heard /\ ws.server[s] = "ended" /\ CanSpawn
    /\ ws' = [ws EXCEPT !.server[s] = "answered", !.pending = Emitted("final")]
    /\ tasks' = IF ws.textOpen THEN Spawns(tasks, "finish", 0) ELSE tasks
    /\ UNCHANGED faults

\* An error frame, or one that cannot be decoded: _failProtocol.
ReceiveError(s) ==
    /\ s \in ws.heard /\ ws.server[s] \in {"started", "opened", "ended"} /\ CanSpawn
    /\ Fail
    /\ ws' = [ws EXCEPT !.server[s] = "failed", !.connected = FALSE,
                        !.pending = Emitted("error"), !.completed = Completion("translatorWs")]
    /\ tasks' = Spawns(Completed(tasks, "translatorWs"), "finish", 0)

\* Mutant: a socket that ends in the middle of an utterance is not reported.
SocketEndsSilently(s) ==
    /\ s \in ws.heard /\ CanSpawn
    /\ IF s \in ws.shut THEN UNCHANGED faults ELSE Fail
    /\ ws' = [ws EXCEPT !.server[s] = "gone", !.heard = @ \ {s}, !.connected = FALSE,
                        !.completed = IF ws.connected THEN @ ELSE Completion("transport")]
    /\ tasks' = IF ws.connected THEN Spawns(tasks, "finish", 0)
                ELSE Completed(tasks, "transport")

\* The socket ends, by itself or with an error.
SocketEnds(s) ==
    /\ s \in ws.heard /\ CanSpawn
    /\ IF s \in ws.shut THEN UNCHANGED faults ELSE Fail
    /\ LET gone == [ws EXCEPT !.server[s] = "gone", !.heard = @ \ {s}] IN
       \/ /\ ws.closing
          /\ ws' = gone /\ UNCHANGED tasks
       \/ /\ ~ws.closing /\ ~ws.connected
          /\ ws' = [gone EXCEPT !.completed = Completion("transport")]
          /\ tasks' = Completed(tasks, "transport")
       \/ /\ ~ws.closing /\ ws.connected
          /\ ws' = [gone EXCEPT !.connected = FALSE, !.pending = Emitted("error")]
          /\ tasks' = Spawns(tasks, "finish", 0)

WsEvent ==
    \/ \E t \in TaskIds : SocketReady(t) \/ SocketFails(t) \/ BackoffElapses(t)
                          \/ SocketClosed(t)
    \/ \E s \in Sockets : ReceiveOpened(s) \/ ReceiveFinal(s) \/ ReceiveError(s)
                          \/ SocketEnds(s)
=============================================================================
