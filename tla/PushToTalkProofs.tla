-------------------------- MODULE PushToTalkProofs --------------------------
(***************************************************************************)
(* What push-to-talk never does, however the user, the network, the server *)
(* and the microphone interleave, for any number of tasks, attempts,       *)
(* sockets, failures and time-outs: the types, and that the first press of *)
(* the screen is served or torn down.                                      *)
(***************************************************************************)
EXTENDS PushToTalk, FiniteSetTheorems, SequenceTheorems, WellFoundedInduction, TLAPS

----------------------------------------------------------------------------
\* The stacks of calls.

Fns == {"press", "release", "teardown", "connect", "openOnce", "disconnect", "finish",
        "reset", "recStart", "recStop", "drvStart", "drvStop"}

Pcs == {"start", "creating", "created", "connected", "recorder", "stopped", "end",
        "cancelled", "unheard", "disconnected", "returned", "rethrow", "retry", "delay",
        "again", "ready", "listen", "opened", "done", "closing", "closed", "started",
        "failed", "permission", "granted", "opening", "recording", "failing", "stopping",
        "released", "inputClose"}

Excs == {"state", "transport", "translatorWs", "type", "recorder", "session"}

CallFrames == [fn : Fns, pc : Pcs, x : Nat, val : Nat, exc : Excs \cup {"none"}]

\* What x and val are, when there were p presses, o sockets and r recorders.
FrameOK(f, p, o, r) ==
    /\ f.fn = "press" => f.x \in 1..p
    /\ f.fn = "openOnce" /\ f.pc \in {"created", "ready", "listen"} => f.x \in 1..o
    /\ f.fn = "drvStart" /\ f.pc \in {"opening", "recording", "failing"} => f.x \in 1..r
    /\ f.fn = "drvStop" /\ f.pc = "stopping" => f.x \in 1..r
    /\ f.fn = "recStart" /\ f.pc = "started" => f.val \in 0..r

Frames(p, o, r) == {f \in CallFrames : FrameOK(f, p, o, r)}

\* The call that a call of fn returns to.
Over(fn, g) ==
    \/ fn = "connect" /\ g.fn = "press" /\ g.pc = "connected"
    \/ fn = "openOnce" /\ g.fn = "connect" /\ g.pc = "returned"
    \/ fn = "reset" /\ g.fn = "connect" /\ g.pc \in {"retry", "rethrow"}
    \/ fn = "recStart" /\ g.fn = "press" /\ g.pc = "recorder"
    \/ fn = "drvStart" /\ g.fn = "recStart" /\ g.pc = "started"
    \/ fn = "drvStop" /\ g.fn = "drvStart" /\ g.pc = "failed"
    \/ fn = "drvStop" /\ g.fn = "recStop" /\ g.pc = "stopped"
    \/ fn = "recStop" /\ g.fn \in {"press", "release", "teardown"} /\ g.pc = "stopped"
    \/ fn = "disconnect" /\ g.fn = "press" /\ g.pc = "end"
    \/ fn = "disconnect" /\ g.fn = "teardown" /\ g.pc = "disconnected"
    \/ fn = "teardown" /\ g.fn \in {"press", "release"} /\ g.pc = "end"

Bottoms == {"press", "release", "teardown", "finish"}

\* A stack of frames of F: each call waits for the one above it, and only the
\* running call can have caught an exception.
Stack(s, F) ==
    /\ s \in Seq(F)
    /\ \A i \in 1..(Len(s) - 1) : Over(s[i].fn, s[i + 1]) /\ s[i + 1].exc = "none"
    /\ s # <<>> => s[Len(s)].fn \in Bottoms

Stacks(ts, F) ==
    /\ ts = [t \in TaskIds |-> ts[t]]
    /\ \A t \in TaskIds : Stack(ts[t], F)

----------------------------------------------------------------------------
\* The types.

Subs == [press : Nat, text : Nat]
TextEvents == [to : Subs, kind : {"final", "error"}]
Completions == {"no", "ok", "transport", "translatorWs"}
ServerStates == {"none", "connecting", "ready", "started", "opened", "ended", "answered",
                 "failed", "gone"}

WsRecords ==
    [connected : BOOLEAN, closing : BOOLEAN, completer : Nat, completed : Completions,
     socket : Nat, sub : Nat, heard : SUBSET Nat, text : Nat, textOpen : BOOLEAN,
     listeners : SUBSET Subs, pending : Seq(TextEvents), opens : Nat, shut : SUBSET Nat,
     server : [Sockets -> ServerStates]]

RecRecords ==
    [recording : BOOLEAN, chunks : Nat, made : Nat, recorder : Nat, input : Nat,
     opened : Nat, sub : Nat, listened : SUBSET Nat, cancelled : SUBSET Nat,
     released : SUBSET Nat, unreleased : SUBSET Nat, mic : SUBSET Nat]

ScrRecords ==
    [ptt : {"idle", "starting", "recording", "ending", "aborting"}, session : BOOLEAN,
     wsConn : BOOLEAN, textSub : Subs, audioSub : Nat, age : {"none", "short", "long"},
     cooldown : BOOLEAN, finger : {"up", "down"}, presses : Nat, audible : SUBSET Nat,
     timeouts : Nat]

WsOK ==
    /\ ws \in WsRecords /\ IsFiniteSet(ws.listeners)
    /\ ws.opens <= MaxSockets
    /\ {ws.socket, ws.completer, ws.sub} \subseteq 0..ws.opens
    /\ ws.heard \cup ws.shut \subseteq 1..ws.opens

RecOK ==
    /\ rec \in RecRecords
    /\ {rec.recorder, rec.input, rec.sub} \subseteq 0..rec.opened
    /\ rec.mic \subseteq (1..rec.opened) \ rec.released

ScrOK == scr \in ScrRecords /\ scr.audioSub \in 0..scr.presses

\* Inductive.
TypeInv ==
    /\ Stacks(tasks, Frames(scr.presses, ws.opens, rec.opened))
    /\ WsOK /\ RecOK /\ ScrOK /\ faults \in Nat /\ micFaults \in Nat

----------------------------------------------------------------------------
\* The first press.  What an earlier press left behind, a teardown or the clean
\* finish of its socket, can run into a later one and close the text it listens to.

\* The calls on a stack.
On(s) == {s[i] : i \in DOMAIN s}

\* A teardown is running, or will be because its exception reaches the press.
IsDoom(f) ==
    \/ f.fn = "teardown"
    \/ f.fn = "connect" /\ (f.pc = "rethrow" \/ f.exc = "translatorWs")
    \/ f.fn = "press" /\ f.exc # "none"

HasDoom(ts) == \E t \in TaskIds : \E f \in On(ts[t]) : IsDoom(f)

\* An event is on its way to the screen.
Pends == \E i \in DOMAIN ws.pending : ws.pending[i].to \in ws.listeners

\* The screen is being torn down, or will be once an event reaches it.
Doomed == HasDoom(tasks) \/ Pends

\* The calls of a press that starts, and of a release, when nothing fails for
\* good.
IsStart(f) ==
    /\ \/ f.fn \in {"openOnce", "reset", "recStart", "drvStart", "drvStop"}
       \/ f.fn = "connect" /\ f.pc # "rethrow"
       \/ f.fn = "press" /\ f.pc \in {"start", "creating", "created", "connected", "recorder"}
    /\ \/ f.exc = "none"
       \/ f.fn = "connect" /\ f.pc = "returned" /\ f.exc # "translatorWs"
       \/ f.fn = "recStart" /\ f.pc = "started"

IsEnd(f) ==
    \/ f.fn \in {"recStop", "drvStop"}
    \/ f.fn = "release" /\ f.pc \in {"start", "cancelled", "stopped"}

\* Nobody closes the connection or has closed the text; a socket has no listener
\* yet; one has, and its session is in one of the states; the screen hears of it.
Undisturbed == ~ws.closing /\ ws.textOpen /\ ws.pending = <<>>
Unheard == ws.listeners = {} /\ ws.heard = {} /\ ~ws.connected
Connected(states) ==
    /\ ws.connected /\ ws.socket # None /\ ws.heard = {ws.socket}
    /\ ws.server[ws.socket] \in states
Subscribed ==
    ws.listeners = {scr.textSub} /\ scr.textSub.text = ws.text /\ scr.wsConn

\* What the running call f of a press that starts finds of the connection ...
IsOpen(f) ==
    /\ f.exc = "none"
    /\ \/ f.fn = "openOnce" /\ f.pc = "done"
       \/ f.fn = "connect" /\ f.pc = "returned"
       \/ f.fn = "press" /\ f.pc = "connected"
IsLater(f) == f.fn \in {"recStart", "drvStart", "drvStop"} \/ (f.fn = "press" /\ f.pc = "recorder")
IsWaiting(f) == f.fn = "openOnce" /\ f.pc = "opened"

\* The socket that f opens is the one the client has kept ...
Attempting(f) ==
    /\ f.fn = "openOnce" /\ f.pc \in {"created", "ready", "listen"} =>
          /\ f.x \notin ws.shut
          /\ ws.server[f.x] = IF f.pc = "listen" THEN "ready" ELSE "connecting"
    /\ f.fn = "openOnce" /\ f.pc \in {"ready", "listen"} =>
          ws.socket = f.x /\ ws.completer = f.x /\ ws.completed = "no"

\* ... and listens to once session.start was sent; f waits for its completer.
Waiting(f) ==
    /\ ~ws.connected /\ ws.listeners = {} /\ ws.socket # None /\ ws.heard = {ws.socket}
    /\ ws.server[ws.socket] = "started"
    /\ f.x = ws.completer /\ ws.completer # None /\ ws.completed = "no"

WsStarts(f) ==
    /\ IsOpen(f) => Connected({"opened"}) /\ ws.listeners = {}
    /\ IsLater(f) => Connected({"opened"}) /\ Subscribed
    /\ IsWaiting(f) => Waiting(f)
    /\ ~IsOpen(f) /\ ~IsLater(f) /\ ~IsWaiting(f) => Unheard /\ Attempting(f)

\* ... and of the microphone.
RecStarts(f) ==
    /\ IF f.fn = "press" /\ f.pc = "recorder" THEN rec.recording /\ rec.mic # {} ELSE ~rec.recording
    /\ f.exc = "none" /\ <<f.fn, f.pc>> \in {<<"drvStart", "recording">>, <<"recStart", "started">>}
          => rec.mic # {}

Alone(t) == \A u \in TaskIds \ {t} : tasks[u] = <<>>

InOrder(f) == Undisturbed /\ WsStarts(f) /\ RecStarts(f)

\* Only t is alive, and it runs the press, which still may succeed.
Starting(t) ==
    /\ Alone(t) /\ Alive(t) /\ \A f \in On(tasks[t]) : IsStart(f)
    /\ InOrder(tasks[t][1])

OnTheWay == Doomed \/ \E t \in TaskIds : Starting(t)

NoTask == \A t \in TaskIds : tasks[t] = <<>>

Recording == NoTask /\ Undisturbed /\ Connected({"opened"}) /\ Subscribed
             /\ rec.recording /\ rec.mic # {}

\* Only t is alive, if anything: it runs the release.
Releasing(t) == Alone(t) /\ \A f \in On(tasks[t]) : IsEnd(f)

Ending ==
    /\ Undisturbed /\ Connected({"opened", "ended"}) /\ Subscribed
    /\ \E t \in TaskIds : Releasing(t)

\* What shows on the screen is true, or it is being torn down.
Served ==
    /\ scr.ptt = "starting" => OnTheWay
    /\ scr.ptt = "recording" => Doomed \/ Recording
    /\ scr.ptt = "ending" => Doomed \/ Ending

Unpressed == scr.ptt = "idle" /\ NoTask /\ Undisturbed /\ Unheard /\ ~rec.recording

\* Inductive.
ServedInv ==
    /\ scr.presses = 0 => Unpressed
    /\ scr.presses = 1 => Served \/ Stuck

----------------------------------------------------------------------------
\* Stacks.

LEMMA StackGoes ==
    ASSUME NEW F, NEW s, Stack(s, F), s # <<>>, NEW c \in F, c.fn = s[1].fn
    PROVE  Stack(<<c>> \o Tail(s), F)
<1> DEFINE n == <<c>> \o Tail(s)
<1>1. s \in Seq(F) /\ Len(s) \in Nat /\ Len(s) >= 1
  BY DEF Stack
<1>2. /\ n \in Seq(F) /\ Len(n) = Len(s) /\ n[1] = c
      /\ \A i \in 2..Len(s) : n[i] = s[i]
  BY <1>1
<1> HIDE DEF n
<1>3. n[Len(n)].fn = s[Len(s)].fn
  BY <1>1, <1>2
<1>4. ASSUME NEW i \in 1..(Len(s) - 1)
      PROVE  Over(n[i].fn, n[i + 1]) /\ n[i + 1].exc = "none"
  <2>1. n[i].fn = s[i].fn
    BY <1>1, <1>2
  <2>2. n[i + 1] = s[i + 1]
    BY <1>1, <1>2
  <2> QED BY <2>1, <2>2 DEF Stack
<1>5. Stack(n, F)
  BY <1>1, <1>2, <1>3, <1>4 DEF Stack
<1> QED BY <1>5 DEF n

LEMMA StackCalls ==
    ASSUME NEW F, NEW s, Stack(s, F), s # <<>>, NEW c \in F, NEW d \in F,
           d.fn = s[1].fn, d.exc = "none", Over(c.fn, d)
    PROVE  Stack(<<c, d>> \o Tail(s), F)
<1> DEFINE n == <<c, d>> \o Tail(s)
<1>1. s \in Seq(F) /\ Len(s) \in Nat /\ Len(s) >= 1
  BY DEF Stack
<1>2. /\ n \in Seq(F) /\ Len(n) = Len(s) + 1 /\ n[1] = c /\ n[2] = d
      /\ \A i \in 2..Len(s) : n[i + 1] = s[i]
  BY <1>1
<1> HIDE DEF n
<1>3. n[Len(n)].fn = s[Len(s)].fn
  BY <1>1, <1>2
<1>4. ASSUME NEW i \in 1..Len(s)
      PROVE  Over(n[i].fn, n[i + 1]) /\ n[i + 1].exc = "none"
  <2>1. CASE i = 1
    BY <1>2, <2>1
  <2>2. CASE i >= 2
    <3>1. n[i].fn = s[i - 1].fn
      <4>1. CASE i = 2
        BY <1>2, <4>1
      <4>2. CASE i > 2
        <5>1. i - 1 \in 2..Len(s) /\ (i - 1) + 1 = i
          BY <1>1, <4>2
        <5> QED BY <1>2, <5>1
      <4> QED BY <2>2, <4>1, <4>2
    <3>2. n[i + 1] = s[i] /\ i - 1 \in 1..(Len(s) - 1) /\ (i - 1) + 1 = i
      BY <1>1, <1>2, <2>2
    <3> QED BY <3>1, <3>2 DEF Stack
  <2> QED BY <2>1, <2>2
<1>5. n # <<>> /\ Len(n) - 1 = Len(s)
  BY <1>1, <1>2
<1>6. Stack(n, F)
  BY <1>1, <1>2, <1>3, <1>4, <1>5 DEF Stack
<1> QED BY <1>6 DEF n

LEMMA StackPops ==
    ASSUME NEW F, NEW s, Stack(s, F), s # <<>>, NEW d,
           Tail(s) # <<>> => d \in F /\ d.fn = s[2].fn
    PROVE  Stack(IF Tail(s) = <<>> THEN <<>> ELSE <<d>> \o Tail(Tail(s)), F)
<1>1. s \in Seq(F) /\ Len(s) \in Nat /\ Len(s) >= 1
  BY DEF Stack
<1>2. CASE Tail(s) = <<>>
  <2>1. Len(<<>>) = 0 /\ <<>> \in Seq(F)
    OBVIOUS
  <2> QED BY <1>2, <2>1 DEF Stack
<1>3. CASE Tail(s) # <<>>
  <2> DEFINE n == <<d>> \o Tail(Tail(s))
  <2>1. Len(s) >= 2
    BY <1>1, <1>3
  <2>2. /\ n \in Seq(F) /\ Len(n) = Len(s) - 1 /\ n[1] = d
        /\ \A i \in 2..(Len(s) - 1) : n[i] = s[i + 1]
    BY <1>1, <1>3, <2>1
  <2> HIDE DEF n
  <2>3. n[Len(n)].fn = s[Len(s)].fn
    <3>1. CASE Len(s) = 2
      BY <1>3, <2>2, <3>1
    <3>2. CASE Len(s) > 2
      BY <1>1, <2>2, <3>2
    <3>3. \A m \in Nat : m >= 2 => m = 2 \/ m > 2
      OBVIOUS
    <3> QED BY <1>1, <2>1, <3>1, <3>2, <3>3
  <2>4. ASSUME NEW i \in 1..(Len(s) - 2)
        PROVE  Over(n[i].fn, n[i + 1]) /\ n[i + 1].exc = "none"
    <3>1. n[i].fn = s[i + 1].fn
      <4>1. CASE i = 1
        BY <1>3, <2>2, <4>1
      <4>2. CASE i >= 2
        BY <1>1, <2>2, <4>2
      <4> QED BY <4>1, <4>2
    <3>2. n[i + 1] = s[(i + 1) + 1] /\ i + 1 \in 1..(Len(s) - 1)
      BY <1>1, <2>2
    <3> QED BY <3>1, <3>2 DEF Stack
  <2>5. Len(n) - 1 = Len(s) - 2
    BY <1>1, <2>2
  <2>6. Stack(n, F)
    BY <1>1, <2>2, <2>3, <2>4, <2>5 DEF Stack
  <2> QED BY <1>3, <2>6 DEF n
<1> QED BY <1>2, <1>3

LEMMA StackStarts ==
    ASSUME NEW F, NEW c \in F, c.fn \in Bottoms
    PROVE  Stack(<<c>>, F)
BY DEF Stack

LEMMA StackWidens ==
    ASSUME NEW F, NEW G, F \subseteq G, NEW s, Stack(s, F)
    PROVE  Stack(s, G)
BY DEF Stack

----------------------------------------------------------------------------
\* What the tasks do to their stacks.

LEMMA SmallestIsIn ==
    ASSUME NEW S, S \subseteq Nat, S # {}
    PROVE  Min(S) \in S
<1> DEFINE R == OpToRel(<, Nat)
<1>1. IsWellFoundedOn(R, Nat)
  BY NatLessThanWellFounded
<1>2. PICK x \in S : \A y \in S : <<y, x>> \notin R
  <2> HIDE DEF R
  <2> QED BY <1>1, WFMin
<1>3. \A y \in S : ~(y < x)
  BY <1>2 DEF OpToRel
<1>4. \A y \in S : x <= y
  BY <1>3
<1> QED BY <1>4 DEF Min

LEMMA FreeIdIsFree ==
    ASSUME CanSpawn
    PROVE  Min(FreeIds) \in TaskIds /\ tasks[Min(FreeIds)] = <<>>
<1>1. FreeIds \subseteq Nat
  BY TasksAssumption DEF FreeIds, TaskIds
<1>2. Min(FreeIds) \in FreeIds
  BY <1>1, SmallestIsIn DEF CanSpawn
<1> QED BY <1>2 DEF FreeIds, Alive

\* The stack of task t becomes s.
Puts(t, s) == tasks' = [tasks EXCEPT ![t] = s]

\* Going on, calling, returning and throwing.
Gone(s, pc, x) == <<Call(s[1].fn, pc, x)>> \o Tail(s)
Called(s, fn, pc) == <<Call(fn, "start", 0), Call(s[1].fn, pc, s[1].x)>> \o Tail(s)
Popped(s, d) == IF Tail(s) = <<>> THEN <<>> ELSE <<d>> \o Tail(Tail(s))

LEMMA GoPuts ==
    ASSUME NEW t, NEW pc, NEW x, Go(t, pc, x), tasks[t] # <<>>, NEW F, tasks[t] \in Seq(F),
           t \in DOMAIN tasks
    PROVE  Puts(t, Gone(tasks[t], pc, x))
<1>1. Head(tasks[t]) = tasks[t][1]
  OBVIOUS
<1> QED BY <1>1 DEF Go, GoesTo, Puts, Gone

LEMMA EnterPuts ==
    ASSUME NEW t, NEW fn, NEW pc, Enter(t, fn, pc), tasks[t] # <<>>, NEW F, tasks[t] \in Seq(F),
           t \in DOMAIN tasks
    PROVE  Puts(t, Called(tasks[t], fn, pc))
<1>1. Head(tasks[t]) = tasks[t][1]
  OBVIOUS
<1> QED BY <1>1 DEF Enter, Calls, Puts, Called

LEMMA ReturnPuts ==
    ASSUME NEW t, NEW val, Return(t, val), t \in DOMAIN tasks
    PROVE  Puts(t, Popped(tasks[t], [tasks[t][2] EXCEPT !.val = val]))
BY DEF Return, Returns, Puts, Popped

LEMMA ThrowPuts ==
    ASSUME NEW t, NEW exc, Throw(t, exc), t \in DOMAIN tasks
    PROVE  Puts(t, Popped(tasks[t], [tasks[t][2] EXCEPT !.exc = exc]))
BY DEF Throw, Throws, Puts, Popped

LEMMA SpawnPuts ==
    ASSUME NEW fn, NEW x, CanSpawn, tasks' = Spawns(tasks, fn, x)
    PROVE  \E t \in TaskIds : tasks[t] = <<>> /\ Puts(t, <<Call(fn, "start", x)>>)
BY FreeIdIsFree DEF Spawns, Puts

LEMMA PutsStacks ==
    ASSUME NEW F, Stacks(tasks, F), NEW t \in TaskIds, NEW s, Puts(t, s), Stack(s, F)
    PROVE  Stacks(tasks', F)
BY DEF Stacks, Puts

LEMMA CallFields ==
    ASSUME NEW fn, NEW pc, NEW x
    PROVE  /\ Call(fn, pc, x).fn = fn /\ Call(fn, pc, x).pc = pc /\ Call(fn, pc, x).x = x
           /\ Call(fn, pc, x).val = 0 /\ Call(fn, pc, x).exc = "none"
BY DEF Call

LEMMA LoneCall ==
    ASSUME NEW F, NEW s \in Seq(F), s # <<>>, Tail(s) = <<>>
    PROVE  Len(s) = 1
<1>1. Tail(s) \in Seq(F) /\ Len(Tail(s)) = Len(s) - 1
  BY HeadTailProperties, Zenon
<1>2. Len(Tail(s)) = 0
  BY <1>1, EmptySeq, Zenon
<1>3. Len(s) \in Nat
  BY LenProperties, Zenon
<1>4. \A n \in Nat : n - 1 = 0 => n = 1
  OBVIOUS
<1> QED BY <1>1, <1>2, <1>3, <1>4, Zenon

\* The running call of a task that is alive, and the one below it.
LEMMA TopIs ==
    ASSUME NEW F, Stacks(tasks, F), NEW t \in TaskIds, Alive(t)
    PROVE  /\ t \in DOMAIN tasks /\ Stack(tasks[t], F) /\ tasks[t] # <<>> /\ tasks[t] \in Seq(F)
           /\ Top(t) = tasks[t][1] /\ Top(t) \in F
           /\ Tail(tasks[t]) = <<>> => Top(t).fn \in Bottoms
           /\ Tail(tasks[t]) # <<>> => /\ tasks[t][2] \in F
                                       /\ Over(Top(t).fn, tasks[t][2])
                                       /\ tasks[t][2].exc = "none"
<1>1. /\ t \in DOMAIN tasks /\ Stack(tasks[t], F) /\ tasks[t] # <<>>
      /\ tasks[t] \in Seq(F)
  BY DEF Stacks, Stack, Alive
<1> DEFINE s == tasks[t]
<1>2. Top(t) = s[1] /\ s[1] \in F
  BY <1>1 DEF Top
<1>3. CASE Tail(s) = <<>>
  <2>1. Len(s) = 1
    BY <1>1, <1>3, LoneCall
  <2> QED BY <1>1, <1>2, <1>3, <2>1 DEF Stack
<1>4. CASE Tail(s) # <<>>
  <2>1. Len(s) >= 2 /\ Len(s) \in Nat
    BY <1>1, <1>4
  <2>2. s[2] \in F /\ 1 \in 1..(Len(s) - 1) /\ 1 + 1 = 2
    BY <1>1, <2>1
  <2> QED BY <1>1, <1>2, <1>4, <2>2 DEF Stack
<1> QED BY <1>1, <1>2, <1>3, <1>4

LEMMA GoKeeps ==
    ASSUME NEW F, Stacks(tasks, F), NEW t \in TaskIds, Alive(t),
           NEW pc, NEW x, Go(t, pc, x), Call(Top(t).fn, pc, x) \in F
    PROVE  Stacks(tasks', F)
<1>1. Stack(Gone(tasks[t], pc, x), F)
  BY TopIs, StackGoes, CallFields DEF Gone
<1> QED BY <1>1, TopIs, GoPuts, PutsStacks

LEMMA EnterKeeps ==
    ASSUME NEW F, Stacks(tasks, F), NEW t \in TaskIds, Alive(t),
           NEW fn, NEW pc, Enter(t, fn, pc),
           Call(fn, "start", 0) \in F, Call(Top(t).fn, pc, Top(t).x) \in F,
           Over(fn, Call(Top(t).fn, pc, Top(t).x))
    PROVE  Stacks(tasks', F)
<1>1. Stack(Called(tasks[t], fn, pc), F)
  BY TopIs, StackCalls, CallFields DEF Called
<1> QED BY <1>1, TopIs, EnterPuts, PutsStacks

LEMMA ReturnKeeps ==
    ASSUME NEW F, Stacks(tasks, F), NEW t \in TaskIds, Alive(t), NEW val, Return(t, val),
           \A g \in F : Over(Top(t).fn, g) =>
               [g EXCEPT !.val = val] \in F /\ [g EXCEPT !.val = val].fn = g.fn
    PROVE  Stacks(tasks', F)
<1> DEFINE d == [tasks[t][2] EXCEPT !.val = val]
<1>1. Tail(tasks[t]) # <<>> => d \in F /\ d.fn = tasks[t][2].fn
  BY TopIs
<1>2. Stack(tasks[t], F) /\ tasks[t] # <<>>
  BY TopIs
<1> HIDE DEF d
<1>3. Stack(Popped(tasks[t], d), F)
  BY <1>1, <1>2, StackPops DEF Popped
<1> QED BY <1>3, TopIs, ReturnPuts, PutsStacks DEF d

LEMMA ThrowKeeps ==
    ASSUME NEW F, Stacks(tasks, F), NEW t \in TaskIds, Alive(t), NEW exc, Throw(t, exc),
           \A g \in F : Over(Top(t).fn, g) =>
               [g EXCEPT !.exc = exc] \in F /\ [g EXCEPT !.exc = exc].fn = g.fn
    PROVE  Stacks(tasks', F)
<1> DEFINE d == [tasks[t][2] EXCEPT !.exc = exc]
<1>1. Tail(tasks[t]) # <<>> => d \in F /\ d.fn = tasks[t][2].fn
  BY TopIs
<1>2. Stack(tasks[t], F) /\ tasks[t] # <<>>
  BY TopIs
<1> HIDE DEF d
<1>3. Stack(Popped(tasks[t], d), F)
  BY <1>1, <1>2, StackPops DEF Popped
<1> QED BY <1>3, TopIs, ThrowPuts, PutsStacks DEF d

LEMMA SpawnKeeps ==
    ASSUME NEW F, Stacks(tasks, F), NEW fn \in Bottoms, NEW x, CanSpawn,
           tasks' = Spawns(tasks, fn, x), Call(fn, "start", x) \in F
    PROVE  Stacks(tasks', F)
<1>1. PICK t \in TaskIds : Puts(t, <<Call(fn, "start", x)>>)
  BY SpawnPuts
<1>2. Stack(<<Call(fn, "start", x)>>, F)
  BY StackStarts, CallFields
<1> QED BY <1>1, <1>2, PutsStacks

----------------------------------------------------------------------------
\* Types of the stacks.

\* Where a call of fn may be with x in its local variable.
Place(fn, pc, x, p, o, r) ==
    /\ fn \in Fns /\ pc \in Pcs /\ x \in Nat
    /\ fn = "press" => x \in 1..p
    /\ fn = "openOnce" /\ pc \in {"created", "ready", "listen"} => x \in 1..o
    /\ fn = "drvStart" /\ pc \in {"opening", "recording", "failing"} => x \in 1..r
    /\ fn = "drvStop" /\ pc = "stopping" => x \in 1..r

LEMMA PlaceIsFrame ==
    ASSUME NEW p \in Nat, NEW o \in Nat, NEW r \in Nat,
           NEW fn, NEW pc, NEW x, Place(fn, pc, x, p, o, r)
    PROVE  Call(fn, pc, x) \in Frames(p, o, r)
<1>1. Call(fn, pc, x) \in CallFrames
  BY DEF Call, CallFrames, Place
<1>2. FrameOK(Call(fn, pc, x), p, o, r)
  BY CallFields DEF FrameOK, Place
<1> QED BY <1>1, <1>2 DEF Frames

LEMMA FrameFields ==
    ASSUME NEW p, NEW o, NEW r, NEW f \in Frames(p, o, r)
    PROVE  f \in CallFrames /\ f.fn \in Fns /\ f.pc \in Pcs /\ f.x \in Nat /\ f.val \in Nat
           /\ f.exc \in Excs \cup {"none"} /\ FrameOK(f, p, o, r)
BY DEF Frames, CallFrames

LEMMA FrameGetsVal ==
    ASSUME NEW f \in CallFrames, NEW v \in Nat
    PROVE  LET g == [f EXCEPT !.val = v] IN
           /\ g \in CallFrames
           /\ g.fn = f.fn /\ g.pc = f.pc /\ g.x = f.x /\ g.val = v /\ g.exc = f.exc
BY DEF CallFrames

LEMMA FrameGetsExc ==
    ASSUME NEW f \in CallFrames, NEW e \in Excs
    PROVE  LET g == [f EXCEPT !.exc = e] IN
           /\ g \in CallFrames
           /\ g.fn = f.fn /\ g.pc = f.pc /\ g.x = f.x /\ g.val = f.val /\ g.exc = e
BY DEF CallFrames

LEMMA GoTyped ==
    ASSUME NEW p \in Nat, NEW o \in Nat, NEW r \in Nat, Stacks(tasks, Frames(p, o, r)),
           NEW t \in TaskIds, Alive(t), NEW pc, NEW x, Go(t, pc, x),
           Place(Top(t).fn, pc, x, p, o, r)
    PROVE  Stacks(tasks', Frames(p, o, r))
BY PlaceIsFrame, GoKeeps

LEMMA EnterTyped ==
    ASSUME NEW p \in Nat, NEW o \in Nat, NEW r \in Nat, Stacks(tasks, Frames(p, o, r)),
           NEW t \in TaskIds, Alive(t), NEW fn, NEW pc, Enter(t, fn, pc),
           Over(fn, Call(Top(t).fn, pc, 0))
    PROVE  Stacks(tasks', Frames(p, o, r))
<1>1. Top(t) \in Frames(p, o, r)
  BY TopIs
<1>2. Top(t).x \in Nat /\ (Top(t).fn = "press" => Top(t).x \in 1..p)
  BY <1>1, FrameFields DEF FrameOK
<1>3. Over(fn, Call(Top(t).fn, pc, Top(t).x))
  BY CallFields DEF Over
<1>4. Place(fn, "start", 0, p, o, r)
  BY <1>3 DEF Over, Place, Fns, Pcs
<1>5. Place(Top(t).fn, pc, Top(t).x, p, o, r)
  BY <1>2, <1>3, CallFields DEF Over, Place, Fns, Pcs
<1>6. Call(fn, "start", 0) \in Frames(p, o, r)
  BY <1>4, PlaceIsFrame
<1>7. Call(Top(t).fn, pc, Top(t).x) \in Frames(p, o, r)
  BY <1>5, PlaceIsFrame
<1> QED BY <1>3, <1>6, <1>7, EnterKeeps

LEMMA ReturnTyped ==
    ASSUME NEW p \in Nat, NEW o \in Nat, NEW r \in Nat, Stacks(tasks, Frames(p, o, r)),
           NEW t \in TaskIds, Alive(t), NEW val \in Nat, Return(t, val),
           Top(t).fn = "drvStart" => val \in 0..r
    PROVE  Stacks(tasks', Frames(p, o, r))
<1>1. ASSUME NEW g \in Frames(p, o, r), Over(Top(t).fn, g)
      PROVE  [g EXCEPT !.val = val] \in Frames(p, o, r) /\ [g EXCEPT !.val = val].fn = g.fn
  <2> DEFINE h == [g EXCEPT !.val = val]
  <2>1. /\ h \in CallFrames /\ h.fn = g.fn /\ h.pc = g.pc /\ h.x = g.x /\ h.val = val
    BY FrameFields, FrameGetsVal
  <2>2. FrameOK(g, p, o, r)
    BY FrameFields
  <2>3. g.fn = "recStart" /\ g.pc = "started" => Top(t).fn = "drvStart"
    BY <1>1 DEF Over
  <2> HIDE DEF h
  <2>4. FrameOK(h, p, o, r)
    BY <2>1, <2>2, <2>3 DEF FrameOK
  <2>5. h \in Frames(p, o, r) /\ h.fn = g.fn
    BY <2>1, <2>4 DEF Frames
  <2> QED BY <2>5 DEF h
<1> QED BY <1>1, ReturnKeeps

LEMMA ThrowTyped ==
    ASSUME NEW p \in Nat, NEW o \in Nat, NEW r \in Nat, Stacks(tasks, Frames(p, o, r)),
           NEW t \in TaskIds, Alive(t), NEW exc \in Excs, Throw(t, exc)
    PROVE  Stacks(tasks', Frames(p, o, r))
<1>1. ASSUME NEW g \in Frames(p, o, r), Over(Top(t).fn, g)
      PROVE  [g EXCEPT !.exc = exc] \in Frames(p, o, r) /\ [g EXCEPT !.exc = exc].fn = g.fn
  <2> DEFINE h == [g EXCEPT !.exc = exc]
  <2>1. /\ h \in CallFrames /\ h.fn = g.fn /\ h.pc = g.pc /\ h.x = g.x /\ h.val = g.val
    BY FrameFields, FrameGetsExc
  <2>2. FrameOK(g, p, o, r)
    BY FrameFields
  <2> HIDE DEF h
  <2>3. FrameOK(h, p, o, r)
    BY <2>1, <2>2 DEF FrameOK
  <2>4. h \in Frames(p, o, r) /\ h.fn = g.fn
    BY <2>1, <2>3 DEF Frames
  <2> QED BY <2>4 DEF h
<1> QED BY <1>1, ThrowKeeps

LEMMA SpawnTyped ==
    ASSUME NEW p \in Nat, NEW o \in Nat, NEW r \in Nat, Stacks(tasks, Frames(p, o, r)),
           NEW fn \in Bottoms, NEW x \in Nat, CanSpawn, tasks' = Spawns(tasks, fn, x),
           fn = "press" => x \in 1..p
    PROVE  Stacks(tasks', Frames(p, o, r))
<1>1. Place(fn, "start", x, p, o, r)
  BY DEF Place, Bottoms, Fns, Pcs
<1> QED BY <1>1, PlaceIsFrame, SpawnKeeps

LEMMA CountsGrow ==
    ASSUME NEW p \in Nat, NEW o \in Nat, NEW r \in Nat, NEW ts, Stacks(ts, Frames(p, o, r)),
           NEW pp \in Nat, NEW oo \in Nat, NEW rr \in Nat, p <= pp, o <= oo, r <= rr
    PROVE  Stacks(ts, Frames(pp, oo, rr))
<1>1. Frames(p, o, r) \subseteq Frames(pp, oo, rr)
  BY DEF Frames, FrameOK
<1> QED BY <1>1, StackWidens DEF Stacks

----------------------------------------------------------------------------
\* Types of the connection.

Keeps == Stacks(tasks', Frames(scr.presses, ws.opens, rec.opened))

LEMMA CountsTyped ==
    ASSUME TypeInv
    PROVE  scr.presses \in Nat /\ ws.opens \in Nat /\ rec.opened \in Nat
BY DEF TypeInv, WsOK, RecOK, ScrOK, WsRecords, RecRecords, ScrRecords

LEMMA TopTyped ==
    ASSUME TypeInv, NEW t \in TaskIds, Alive(t)
    PROVE  /\ Top(t) \in CallFrames /\ Top(t).fn \in Fns /\ Top(t).x \in Nat /\ Top(t).val \in Nat
           /\ FrameOK(Top(t), scr.presses, ws.opens, rec.opened)
BY TopIs, FrameFields DEF TypeInv

\* Going on at a place where x is any number.
LEMMA GoKeepsTypes ==
    ASSUME TypeInv, NEW t \in TaskIds, Alive(t), NEW pc \in Pcs, NEW x \in Nat, Go(t, pc, x),
           \/ Top(t).fn \notin {"press", "openOnce", "drvStart", "drvStop"}
           \/ Place(Top(t).fn, pc, x, scr.presses, ws.opens, rec.opened)
    PROVE  Keeps
<1>1. Place(Top(t).fn, pc, x, scr.presses, ws.opens, rec.opened)
  BY TopTyped DEF Place
<1> QED BY <1>1, GoTyped, CountsTyped DEF TypeInv, Keeps

LEMMA EnterKeepsTypes ==
    ASSUME TypeInv, NEW t \in TaskIds, Alive(t), NEW fn, NEW pc, Enter(t, fn, pc),
           Over(fn, Call(Top(t).fn, pc, 0))
    PROVE  Keeps
BY EnterTyped, CountsTyped DEF TypeInv, Keeps

LEMMA ReturnKeepsTypes ==
    ASSUME TypeInv, NEW t \in TaskIds, Alive(t), NEW val \in Nat, Return(t, val),
           Top(t).fn = "drvStart" => val \in 0..rec.opened
    PROVE  Keeps
BY ReturnTyped, CountsTyped DEF TypeInv, Keeps

LEMMA ThrowKeepsTypes ==
    ASSUME TypeInv, NEW t \in TaskIds, Alive(t), NEW exc \in Excs, Throw(t, exc)
    PROVE  Keeps
BY ThrowTyped, CountsTyped DEF TypeInv, Keeps

LEMMA SpawnKeepsTypes ==
    ASSUME TypeInv, NEW fn \in Bottoms \ {"press"}, CanSpawn, tasks' = Spawns(tasks, fn, 0)
    PROVE  Keeps
BY SpawnTyped, CountsTyped DEF TypeInv, Keeps

LEMMA WsFields ==
    ASSUME NEW w \in WsRecords
    PROVE  /\ w.connected \in BOOLEAN /\ w.closing \in BOOLEAN /\ w.completer \in Nat
           /\ w.completed \in Completions /\ w.socket \in Nat /\ w.sub \in Nat
           /\ w.heard \in SUBSET Nat /\ w.text \in Nat /\ w.textOpen \in BOOLEAN
           /\ w.listeners \in SUBSET Subs /\ w.pending \in Seq(TextEvents) /\ w.opens \in Nat
           /\ w.shut \in SUBSET Nat /\ w.server \in [Sockets -> ServerStates]
BY DEF WsRecords

\* What WsOK says of the numbers of sockets.
LEMMA WsIs ==
    ASSUME TypeInv
    PROVE  /\ ws \in WsRecords /\ IsFiniteSet(ws.listeners)
           /\ ws.opens \in Nat /\ ws.opens <= MaxSockets
           /\ ws.socket \in 0..ws.opens /\ ws.completer \in 0..ws.opens /\ ws.sub \in 0..ws.opens
           /\ ws.heard \subseteq 1..ws.opens /\ ws.shut \subseteq 1..ws.opens
           /\ 1..ws.opens \subseteq Sockets
<1>1. ws \in WsRecords /\ ws.opens \in Nat /\ ws.opens <= MaxSockets
  BY WsFields DEF TypeInv, WsOK
<1>2. 1..ws.opens \subseteq Sockets
  BY <1>1, WsAssumption DEF Sockets
<1> QED BY <1>1, <1>2 DEF TypeInv, WsOK

LEMMA WsBecomes ==
    ASSUME TypeInv, ws' \in WsRecords, ws'.opens = ws.opens, ws'.listeners = ws.listeners,
           ws'.socket \in 0..ws.opens, ws'.completer \in 0..ws.opens, ws'.sub \in 0..ws.opens,
           ws'.heard \subseteq 1..ws.opens, ws'.shut \subseteq 1..ws.opens
    PROVE  WsOK'
BY WsIs DEF WsOK

LEMMA NewTextTyped ==
    ASSUME NEW w \in WsRecords
    PROVE  [w EXCEPT !.text = @ + 1, !.textOpen = TRUE] \in WsRecords
<1> DEFINE n == w.text + 1
<1>1. n \in Nat
  BY WsFields
<1>2. \A m \in Nat : [w EXCEPT !.text = m, !.textOpen = TRUE] \in WsRecords
  BY DEF WsRecords
<1> HIDE DEF n
<1>3. [w EXCEPT !.text = n, !.textOpen = TRUE] \in WsRecords
  BY <1>1, <1>2
<1> QED BY <1>3 DEF n

LEMMA NewSocketTyped ==
    ASSUME NEW w \in WsRecords, w.opens + 1 \in Sockets
    PROVE  [w EXCEPT !.opens = @ + 1, !.server[w.opens + 1] = "connecting"] \in WsRecords
<1> DEFINE n == w.opens + 1
           f == [w.server EXCEPT ![w.opens + 1] = "connecting"]
<1>1. n \in Nat /\ f \in [Sockets -> ServerStates]
  BY WsFields DEF ServerStates
<1>2. \A m \in Nat, g \in [Sockets -> ServerStates] :
         [w EXCEPT !.opens = m, !.server = g] \in WsRecords
  BY DEF WsRecords
<1>3. [w EXCEPT !.opens = @ + 1].server = w.server
  BY DEF WsRecords
<1>4. [w EXCEPT !.opens = n, !.server = f] \in WsRecords
  <2> HIDE DEF n, f
  <2> QED BY <1>1, <1>2
<1> QED BY <1>3, <1>4

LEMMA ConnectKeepsTypes ==
    ASSUME TypeInv, NEW t \in TaskIds,
           \/ Connect(t) \/ ConnectReturns(t) \/ ConnectFails(t) \/ ConnectGivesUp(t)
           \/ ConnectBacksOff(t) \/ ConnectAgain(t)
    PROVE  Keeps /\ WsOK' /\ ws'.opens = ws.opens
<1>1. CASE Connect(t)
  <2>1. Alive(t) /\ Top(t).fn = "connect"
    BY <1>1 DEF Connect, At
  <2>2. CASE Throw(t, "state") /\ UNCHANGED ws
    BY <2>1, <2>2, ThrowKeepsTypes DEF Excs, TypeInv, WsOK
  <2>3. CASE /\ ws' = IF ws.textOpen THEN ws
                      ELSE [ws EXCEPT !.text = @ + 1, !.textOpen = TRUE]
             /\ Enter(t, "openOnce", "returned")
    <3>1. Over("openOnce", Call("connect", "returned", 0))
      BY CallFields DEF Over
    <3>2. Keeps
      BY <2>1, <2>3, <3>1, EnterKeepsTypes
    <3>3. CASE ws.textOpen
      BY <2>3, <3>2, <3>3 DEF TypeInv, WsOK
    <3>4. CASE ~ws.textOpen
      <4>1. ws' = [ws EXCEPT !.text = @ + 1, !.textOpen = TRUE]
        BY <2>3, <3>4
      <4>0. ws \in WsRecords
        BY WsIs
      <4>2. ws' \in WsRecords
        BY <4>0, <4>1, NewTextTyped
      <4>3. /\ ws'.opens = ws.opens /\ ws'.listeners = ws.listeners /\ ws'.socket = ws.socket
            /\ ws'.completer = ws.completer /\ ws'.sub = ws.sub /\ ws'.heard = ws.heard
            /\ ws'.shut = ws.shut
        BY <4>0, <4>1 DEF WsRecords
      <4> QED BY <3>2, <4>2, <4>3, WsIs, WsBecomes
    <3> QED BY <3>3, <3>4
  <2>4. \/ Throw(t, "state") /\ UNCHANGED ws
        \/ /\ ws' = IF ws.textOpen THEN ws
                    ELSE [ws EXCEPT !.text = @ + 1, !.textOpen = TRUE]
           /\ Enter(t, "openOnce", "returned")
    BY <1>1 DEF Connect
  <2> QED BY <2>2, <2>3, <2>4
<1>2. CASE ConnectReturns(t)
  <2>1. Alive(t) /\ Top(t).fn = "connect" /\ Return(t, 0) /\ UNCHANGED ws
    BY <1>2 DEF ConnectReturns, At
  <2> QED BY <2>1, ReturnKeepsTypes DEF TypeInv, WsOK
<1>3. CASE ConnectFails(t)
  <2>1. /\ Alive(t) /\ Top(t).fn = "connect" /\ UNCHANGED ws
        /\ Enter(t, "reset", "rethrow") \/ Enter(t, "reset", "retry")
    BY <1>3 DEF ConnectFails, Caught
  <2>2. \A pc \in {"rethrow", "retry"} : Over("reset", Call("connect", pc, 0))
    BY CallFields DEF Over
  <2> QED BY <2>1, <2>2, EnterKeepsTypes DEF TypeInv, WsOK
<1>4. CASE ConnectGivesUp(t)
  <2>1. Alive(t) /\ Throw(t, "translatorWs") /\ UNCHANGED ws
    BY <1>4 DEF ConnectGivesUp, At
  <2> QED BY <2>1, ThrowKeepsTypes DEF Excs, TypeInv, WsOK
<1>5. CASE ConnectBacksOff(t)
  <2>1. Alive(t) /\ Top(t).fn = "connect" /\ Go(t, "delay", Top(t).x + 1) /\ UNCHANGED ws
    BY <1>5 DEF ConnectBacksOff, At
  <2>2. Top(t).x + 1 \in Nat
    BY <2>1, TopTyped
  <2> QED BY <2>1, <2>2, GoKeepsTypes DEF Pcs, TypeInv, WsOK
<1>6. CASE ConnectAgain(t)
  <2>1. Alive(t) /\ Top(t).fn = "connect" /\ Enter(t, "openOnce", "returned") /\ UNCHANGED ws
    BY <1>6 DEF ConnectAgain, At
  <2>2. Over("openOnce", Call("connect", "returned", 0))
    BY CallFields DEF Over
  <2> QED BY <2>1, <2>2, EnterKeepsTypes DEF TypeInv, WsOK
<1> QED BY <1>1, <1>2, <1>3, <1>4, <1>5, <1>6

LEMMA OpenSocketKeepsTypes ==
    ASSUME TypeInv, NEW t \in TaskIds, OpenSocket(t)
    PROVE  /\ Stacks(tasks', Frames(scr.presses, ws.opens + 1, rec.opened)) /\ WsOK'
           /\ ws'.opens = ws.opens + 1
<1> DEFINE o == ws.opens + 1
<1>0. scr.presses \in Nat /\ ws.opens \in Nat /\ rec.opened \in Nat /\ o \in Nat /\ ws.opens <= o
  BY CountsTyped
<1>1. /\ Alive(t) /\ Top(t).fn = "openOnce" /\ ws.opens < MaxSockets
      /\ ws' = [ws EXCEPT !.opens = @ + 1, !.server[ws.opens + 1] = "connecting"]
      /\ Go(t, "created", o)
  BY DEF OpenSocket, At
<1>2. o \in Sockets /\ o \in 1..o /\ o <= MaxSockets /\ 1..ws.opens \subseteq 1..o
      /\ 0..ws.opens \subseteq 0..o
  BY <1>0, <1>1, WsAssumption DEF Sockets
<1>3. ws \in WsRecords /\ ws' \in WsRecords
  <2>1. ws \in WsRecords
    BY WsIs
  <2> QED BY <1>1, <1>2, <2>1, NewSocketTyped
<1>4. /\ ws'.opens = o /\ ws'.listeners = ws.listeners /\ ws'.socket = ws.socket
      /\ ws'.completer = ws.completer /\ ws'.sub = ws.sub /\ ws'.heard = ws.heard
      /\ ws'.shut = ws.shut
  BY <1>1, WsIs DEF WsRecords
<1>5. WsOK'
  BY <1>2, <1>3, <1>4, WsIs DEF WsOK
<1> HIDE DEF o
<1>6. Stacks(tasks, Frames(scr.presses, o, rec.opened))
  BY <1>0, CountsGrow DEF TypeInv
<1>7. Place(Top(t).fn, "created", o, scr.presses, o, rec.opened)
  BY <1>0, <1>1, <1>2 DEF Place, Fns, Pcs
<1>8. Stacks(tasks', Frames(scr.presses, o, rec.opened))
  BY <1>0, <1>1, <1>6, <1>7, GoTyped
<1> QED BY <1>4, <1>5, <1>8 DEF o

LEMMA KeepSocketKeepsTypes ==
    ASSUME TypeInv, NEW t \in TaskIds, KeepSocket(t)
    PROVE  Keeps /\ WsOK' /\ ws'.opens = ws.opens
<1> DEFINE s == Top(t).x
<1>1. /\ Alive(t) /\ Top(t).fn = "openOnce" /\ Top(t).pc = "created" /\ Go(t, "ready", s)
      /\ ws' = [ws EXCEPT !.socket = s, !.completer = s, !.completed = "no"]
  BY DEF KeepSocket, At
<1>2. s \in 1..ws.opens
  BY <1>1, TopTyped DEF FrameOK
<1>3. s \in Nat /\ s \in 0..ws.opens
  BY <1>2, WsIs
<1> HIDE DEF s
<1>4. Place(Top(t).fn, "ready", s, scr.presses, ws.opens, rec.opened)
  BY <1>1, <1>2, <1>3 DEF Place, Fns, Pcs
<1>5. Keeps
  BY <1>1, <1>3, <1>4, GoKeepsTypes DEF Pcs
<1>6. ws' \in WsRecords
  BY <1>1, <1>3, WsIs DEF WsRecords, Completions
<1>7. /\ ws'.opens = ws.opens /\ ws'.listeners = ws.listeners /\ ws'.socket = s
      /\ ws'.completer = s /\ ws'.sub = ws.sub /\ ws'.heard = ws.heard /\ ws'.shut = ws.shut
  BY <1>1, WsIs DEF WsRecords
<1> QED BY <1>3, <1>5, <1>6, <1>7, WsIs, WsBecomes

LEMMA ListenKeepsTypes ==
    ASSUME TypeInv, NEW t \in TaskIds, ListenAndStart(t)
    PROVE  Keeps /\ WsOK' /\ ws'.opens = ws.opens
<1> DEFINE s == Top(t).x
           n == IF ws.server[s] = "ready" THEN "started" ELSE ws.server[s]
           h == ws.heard \cup {s}
<1>1. Alive(t) /\ Top(t).fn = "openOnce" /\ Top(t).pc = "listen"
  BY DEF ListenAndStart, At
<1>2. ws' = [ws EXCEPT !.heard = h, !.sub = s, !.server[s] = n]
  BY DEF ListenAndStart
<1>3. \/ ws.completed \notin {"no", "ok"} /\ Throw(t, ws.completed)
      \/ Throw(t, "state")
      \/ Go(t, "done", ws.completer)
      \/ Go(t, "opened", ws.completer)
  BY DEF ListenAndStart
<1>4. s \in 1..ws.opens /\ s \in Sockets /\ s \in Nat /\ s \in 0..ws.opens
  BY <1>1, TopTyped, WsIs DEF FrameOK
<1>5. h \subseteq 1..ws.opens /\ h \in SUBSET Nat /\ n \in ServerStates
  BY <1>4, WsIs, WsFields DEF ServerStates
<1> HIDE DEF s, n, h
<1>6. ws.completed \in Completions /\ ws.completer \in Nat
  BY WsIs, WsFields
<1>7. Place(Top(t).fn, "done", ws.completer, scr.presses, ws.opens, rec.opened)
      /\ Place(Top(t).fn, "opened", ws.completer, scr.presses, ws.opens, rec.opened)
  BY <1>1, <1>6 DEF Place, Fns, Pcs
<1>8. ASSUME ws.completed \notin {"no", "ok"} /\ Throw(t, ws.completed)
      PROVE  Keeps
  <2>1. ws.completed \in Excs
    BY <1>6, <1>8 DEF Completions, Excs
  <2> QED BY <1>1, <1>8, <2>1, ThrowKeepsTypes
<1>9. ASSUME Throw(t, "state")
      PROVE  Keeps
  BY <1>1, <1>9, ThrowKeepsTypes DEF Excs
<1>10. ASSUME Go(t, "done", ws.completer) \/ Go(t, "opened", ws.completer)
       PROVE  Keeps
  BY <1>1, <1>6, <1>7, <1>10, GoKeepsTypes DEF Pcs
<1>11. Keeps
  BY <1>3, <1>8, <1>9, <1>10
<1>12. ws' \in WsRecords
  BY <1>2, <1>4, <1>5, WsIs DEF WsRecords
<1>13. /\ ws'.opens = ws.opens /\ ws'.listeners = ws.listeners /\ ws'.socket = ws.socket
       /\ ws'.completer = ws.completer /\ ws'.sub = s /\ ws'.heard = h /\ ws'.shut = ws.shut
  BY <1>2, WsIs DEF WsRecords
<1> QED BY <1>4, <1>5, <1>11, <1>12, <1>13, WsIs, WsBecomes

LEMMA OpenDoneKeepsTypes ==
    ASSUME TypeInv, NEW t \in TaskIds, OpenDone(t)
    PROVE  Keeps /\ WsOK' /\ ws'.opens = ws.opens
<1>1. Alive(t) /\ Top(t).fn = "openOnce" /\ Return(t, 0) /\ ws' = [ws EXCEPT !.completer = None]
  BY DEF OpenDone, At
<1>2. Keeps
  BY <1>1, ReturnKeepsTypes
<1>3. ws' \in WsRecords
  BY <1>1, WsIs DEF WsRecords, None
<1>4. /\ ws'.opens = ws.opens /\ ws'.listeners = ws.listeners /\ ws'.socket = ws.socket
      /\ ws'.completer = 0 /\ ws'.sub = ws.sub /\ ws'.heard = ws.heard /\ ws'.shut = ws.shut
  BY <1>1, WsIs DEF WsRecords, None
<1> QED BY <1>2, <1>3, <1>4, WsIs, WsBecomes

----------------------------------------------------------------------------
\* Closing the connection.

LEMMA StartCloseKeepsTypes ==
    ASSUME TypeInv, NEW t \in TaskIds, NEW fn \in Closers, StartClose(t, fn)
    PROVE  Keeps /\ WsOK' /\ ws'.opens = ws.opens
<1> DEFINE b == (ws.closing \/ fn # "reset")
           n == IF fn = "finish" THEN ws.completer ELSE None
           h == ws.heard \ {ws.sub}
<1>1. Alive(t) /\ Top(t).fn = fn /\ Go(t, "cancelled", 0)
  BY DEF StartClose, At
<1>2. ws' = [ws EXCEPT !.closing = b, !.connected = FALSE, !.completer = n, !.heard = h]
  BY DEF StartClose
<1>3. Top(t).fn \notin {"press", "openOnce", "drvStart", "drvStop"}
  BY <1>1 DEF Closers
<1>4. Keeps
  BY <1>1, <1>3, GoKeepsTypes DEF Pcs
<1>5. b \in BOOLEAN /\ n \in 0..ws.opens /\ n \in Nat /\ h \subseteq 1..ws.opens /\ h \in SUBSET Nat
  BY WsIs, WsFields DEF None
<1> HIDE DEF b, n, h
<1>6. ws \in WsRecords
  BY WsIs
<1>7. ws' \in WsRecords
  BY <1>2, <1>5, <1>6 DEF WsRecords
<1>8. /\ ws'.opens = ws.opens /\ ws'.listeners = ws.listeners /\ ws'.socket = ws.socket
      /\ ws'.completer = n /\ ws'.sub = ws.sub /\ ws'.heard = h /\ ws'.shut = ws.shut
  BY <1>2, <1>6 DEF WsRecords
<1> QED BY <1>4, <1>5, <1>7, <1>8, WsIs, WsBecomes

LEMMA CloseSocketKeepsTypes ==
    ASSUME TypeInv, NEW t \in TaskIds, NEW fn \in Closers, CloseSocket(t, fn)
    PROVE  Keeps /\ WsOK' /\ ws'.opens = ws.opens
<1>1. /\ Alive(t) /\ Top(t).fn \notin {"press", "openOnce", "drvStart", "drvStop"}
      /\ Go(t, "closed", 0) \/ Go(t, "closing", ws.socket)
  BY DEF CloseSocket, At, Closers
<1>2. Keeps
  BY <1>1, GoKeepsTypes, WsIs DEF Pcs
<1>3. CASE ws.socket = None
  <2>1. ws' = [ws EXCEPT !.sub = None]
    BY <1>3 DEF CloseSocket
  <2>2. ws \in WsRecords
    BY WsIs
  <2>3. ws' \in WsRecords
    BY <2>1, <2>2 DEF WsRecords, None
  <2>4. /\ ws'.opens = ws.opens /\ ws'.listeners = ws.listeners /\ ws'.socket = ws.socket
        /\ ws'.completer = ws.completer /\ ws'.sub = 0 /\ ws'.heard = ws.heard
        /\ ws'.shut = ws.shut
    BY <2>1, <2>2 DEF WsRecords, None
  <2> QED BY <1>2, <2>3, <2>4, WsIs, WsBecomes
<1>4. CASE ws.socket # None
  <2> DEFINE f == [ws.server EXCEPT ![ws.socket] = "gone"]
             d == ws.shut \cup {ws.socket}
  <2>1. ws \in WsRecords /\ ws.socket \in 1..ws.opens
    BY <1>4, WsIs DEF None
  <2>2. ws' = [ws EXCEPT !.sub = None, !.socket = None, !.shut = d, !.server = f]
    <3>1. ws' = [ws EXCEPT !.sub = None, !.socket = None, !.shut = @ \cup {ws.socket},
                           !.server[ws.socket] = "gone"]
      BY <1>4 DEF CloseSocket
    <3> QED BY <2>1, <3>1 DEF WsRecords
  <2>3. f \in [Sockets -> ServerStates] /\ d \in SUBSET Nat /\ d \subseteq 1..ws.opens
    BY <2>1, WsIs, WsFields DEF ServerStates
  <2> HIDE DEF f, d
  <2>4. ws' \in WsRecords
    BY <2>1, <2>2, <2>3 DEF WsRecords, None
  <2>5. /\ ws'.opens = ws.opens /\ ws'.listeners = ws.listeners /\ ws'.socket = 0
        /\ ws'.completer = ws.completer /\ ws'.sub = 0 /\ ws'.heard = ws.heard
        /\ ws'.shut = d
    BY <2>1, <2>2 DEF WsRecords, None
  <2> QED BY <1>2, <2>3, <2>4, <2>5, WsIs, WsBecomes
<1> QED BY <1>3, <1>4

LEMMA CloseTextKeepsTypes ==
    ASSUME TypeInv, NEW t \in TaskIds, NEW fn \in Closers, CloseText(t, fn)
    PROVE  Keeps /\ WsOK' /\ ws'.opens = ws.opens
<1>1. Alive(t) /\ Top(t).fn \notin {"press", "openOnce", "drvStart", "drvStop"}
  BY DEF CloseText, At, Closers
<1>2. CASE Return(t, 0) /\ UNCHANGED ws
  BY <1>1, <1>2, ReturnKeepsTypes DEF TypeInv, WsOK
<1>3. CASE ws' = [ws EXCEPT !.textOpen = FALSE] /\ Go(t, "end", 0)
  <2>1. Keeps
    BY <1>1, <1>3, GoKeepsTypes DEF Pcs
  <2>2. ws \in WsRecords
    BY WsIs
  <2>3. ws' \in WsRecords
    BY <1>3, <2>2 DEF WsRecords
  <2>4. /\ ws'.opens = ws.opens /\ ws'.listeners = ws.listeners /\ ws'.socket = ws.socket
        /\ ws'.completer = ws.completer /\ ws'.sub = ws.sub /\ ws'.heard = ws.heard
        /\ ws'.shut = ws.shut
    BY <1>3, <2>2 DEF WsRecords
  <2> QED BY <2>1, <2>3, <2>4, WsIs, WsBecomes
<1>4. \/ Return(t, 0) /\ UNCHANGED ws
      \/ ws' = [ws EXCEPT !.textOpen = FALSE] /\ Go(t, "end", 0)
  BY DEF CloseText
<1> QED BY <1>2, <1>3, <1>4

LEMMA EndCloseKeepsTypes ==
    ASSUME TypeInv, NEW t \in TaskIds, NEW fn \in Closers, EndClose(t, fn)
    PROVE  Keeps /\ WsOK' /\ ws'.opens = ws.opens
<1> DEFINE n == IF fn = "finish" THEN None ELSE ws.completer
<1>1. Alive(t) /\ Top(t).fn = fn /\ Return(t, 0)
  BY DEF EndClose, At
<1>2. ws' = [ws EXCEPT !.closing = FALSE, !.completer = n]
  BY DEF EndClose
<1>3. Keeps
  BY <1>1, ReturnKeepsTypes DEF Closers
<1>4. ws \in WsRecords /\ n \in 0..ws.opens /\ n \in Nat
  BY WsIs, WsFields DEF None
<1> HIDE DEF n
<1>5. ws' \in WsRecords
  BY <1>2, <1>4 DEF WsRecords
<1>6. /\ ws'.opens = ws.opens /\ ws'.listeners = ws.listeners /\ ws'.socket = ws.socket
      /\ ws'.completer = n /\ ws'.sub = ws.sub /\ ws'.heard = ws.heard
      /\ ws'.shut = ws.shut
  BY <1>2, <1>4 DEF WsRecords
<1> QED BY <1>3, <1>4, <1>5, <1>6, WsIs, WsBecomes

LEMMA WsStepKeepsTypes ==
    ASSUME TypeInv, NEW t \in TaskIds, WsStep(t), UNCHANGED <<faults, rec, micFaults, scr>>
    PROVE  TypeInv'
<1>1. ASSUME Keeps, WsOK', ws'.opens = ws.opens
      PROVE  TypeInv'
  BY <1>1 DEF TypeInv, Keeps, RecOK, ScrOK
<1>2. ASSUME OpenSocket(t)
      PROVE  TypeInv'
  BY <1>2, OpenSocketKeepsTypes DEF TypeInv, RecOK, ScrOK
<1> QED BY <1>1, <1>2, ConnectKeepsTypes, KeepSocketKeepsTypes, ListenKeepsTypes,
           OpenDoneKeepsTypes, StartCloseKeepsTypes, CloseSocketKeepsTypes,
           CloseTextKeepsTypes, EndCloseKeepsTypes DEF WsStep

----------------------------------------------------------------------------
\* Types: what the connection waits for, and its handlers.

LEMMA SetToSeqIsSeq ==
    ASSUME NEW S, IsFiniteSet(S)
    PROVE  SetToSeq(S) \in Seq(S) /\ Len(SetToSeq(S)) = Cardinality(S)
<1>1. Cardinality(S) \in Nat /\ ExistsBijection(1..Cardinality(S), S)
  BY FS_CardinalityType
<1>2. \E f \in [1..Cardinality(S) -> S] : IsInjective(f)
  BY <1>1 DEF ExistsBijection, Bijection, Injection
<1>3. SetToSeq(S) \in [1..Cardinality(S) -> S]
  BY <1>2 DEF SetToSeq
<1> QED BY <1>1, <1>3

\* The events that an event of some kind is for the listeners l of L.
Heard(L, kind) == {[to |-> l, kind |-> kind] : l \in L}

LEMMA HeardIsFinite ==
    ASSUME NEW L, IsFiniteSet(L), NEW kind
    PROVE  IsFiniteSet(Heard(L, kind))
<1> DEFINE T == Heard(L, kind)
           f == [l \in L |-> [to |-> l, kind |-> kind]]
<1>1. f \in [L -> T] /\ IsInjective(f)
  BY DEF IsInjective, Heard
<1>2. \A e \in T : \E l \in L : f[l] = e
  BY DEF Heard
<1>3. f \in Bijection(L, T)
  BY <1>1, <1>2 DEF Bijection, Injection, Surjection, IsInjective
<1>4. ExistsBijection(L, T)
  BY <1>3 DEF ExistsBijection
<1> QED BY <1>4, FS_Bijection

LEMMA EmittedIs ==
    ASSUME TypeInv, NEW kind \in {"final", "error"}
    PROVE  Emitted(kind) \in Seq(TextEvents)
<1> DEFINE L == {k \in ws.listeners : k.text = ws.text}
<1>1. ws.listeners \in SUBSET Subs /\ ws.pending \in Seq(TextEvents)
  BY WsIs, WsFields
<1>2. IsFiniteSet(L) /\ L \subseteq Subs
  BY <1>1, WsIs, FS_Subset
<1>3. Heard(L, kind) \subseteq TextEvents
  BY <1>2 DEF Heard, TextEvents
<1>4. SetToSeq(Heard(L, kind)) \in Seq(TextEvents)
  BY <1>2, <1>3, HeardIsFinite, SetToSeqIsSeq
<1>5. Emitted(kind) = IF ~ws.textOpen THEN ws.pending ELSE ws.pending \o SetToSeq(Heard(L, kind))
  BY DEF Emitted, Heard
<1> QED BY <1>1, <1>4, <1>5

LEMMA GoneIsStack ==
    ASSUME NEW F, Stacks(tasks, F), NEW t \in TaskIds, Alive(t), NEW pc, NEW x,
           Call(Top(t).fn, pc, x) \in F
    PROVE  Stack(GoesTo(tasks, t, pc, x)[t], F)
<1>1. Stack(Gone(tasks[t], pc, x), F)
  BY TopIs, StackGoes, CallFields DEF Gone
<1>2. Head(tasks[t]) = tasks[t][1] /\ t \in DOMAIN tasks
  BY TopIs
<1>3. GoesTo(tasks, t, pc, x)[t] = Gone(tasks[t], pc, x)
  BY <1>2 DEF GoesTo, Gone
<1> QED BY <1>1, <1>3

LEMMA ThrownIsStack ==
    ASSUME NEW F, Stacks(tasks, F), NEW t \in TaskIds, Alive(t), NEW exc,
           \A g \in F : Over(Top(t).fn, g) =>
               [g EXCEPT !.exc = exc] \in F /\ [g EXCEPT !.exc = exc].fn = g.fn
    PROVE  Stack(Throws(tasks, t, exc)[t], F)
<1> DEFINE d == [tasks[t][2] EXCEPT !.exc = exc]
<1>1. Tail(tasks[t]) # <<>> => d \in F /\ d.fn = tasks[t][2].fn
  BY TopIs
<1>2. Stack(tasks[t], F) /\ tasks[t] # <<>> /\ t \in DOMAIN tasks
  BY TopIs
<1>3. Throws(tasks, t, exc)[t] = Popped(tasks[t], d)
  BY <1>2 DEF Throws, Popped
<1> HIDE DEF d
<1> QED BY <1>1, <1>2, <1>3, StackPops DEF Popped

LEMMA ExcTyped ==
    ASSUME NEW p \in Nat, NEW o \in Nat, NEW r \in Nat, NEW exc \in Excs, NEW g \in Frames(p, o, r)
    PROVE  [g EXCEPT !.exc = exc] \in Frames(p, o, r) /\ [g EXCEPT !.exc = exc].fn = g.fn
<1> DEFINE h == [g EXCEPT !.exc = exc]
<1>1. /\ h \in CallFrames /\ h.fn = g.fn /\ h.pc = g.pc /\ h.x = g.x /\ h.val = g.val
  BY FrameFields, FrameGetsExc
<1>2. FrameOK(g, p, o, r)
  BY FrameFields
<1> HIDE DEF h
<1>3. FrameOK(h, p, o, r)
  BY <1>1, <1>2 DEF FrameOK
<1>4. h \in Frames(p, o, r) /\ h.fn = g.fn
  BY <1>1, <1>3 DEF Frames
<1> QED BY <1>4 DEF h

LEMMA CompletedTyped ==
    ASSUME TypeInv, NEW how \in {"ok", "transport", "translatorWs"}
    PROVE  Stacks(Completed(tasks, how), Frames(scr.presses, ws.opens, rec.opened))
<1> DEFINE F == Frames(scr.presses, ws.opens, rec.opened)
           new(t) == IF ~Awaits(t, ws.completer) THEN tasks[t]
                     ELSE IF how = "ok" THEN GoesTo(tasks, t, "done", ws.completer)[t]
                     ELSE Throws(tasks, t, how)[t]
<1>0. scr.presses \in Nat /\ ws.opens \in Nat /\ rec.opened \in Nat
  BY CountsTyped
<1>1. Stacks(tasks, F)
  BY DEF TypeInv
<1>2. ASSUME NEW t \in TaskIds
      PROVE  Stack(new(t), F)
  <2>1. CASE ~Awaits(t, ws.completer)
    BY <1>1, <2>1 DEF Stacks
  <2>2. CASE Awaits(t, ws.completer)
    <3>1. Alive(t) /\ Top(t).fn = "openOnce"
      BY <2>2 DEF Awaits, At
    <3>2. CASE how = "ok"
      <4>1. Place(Top(t).fn, "done", ws.completer, scr.presses, ws.opens, rec.opened)
        BY <3>1, WsIs, WsFields DEF Place, Fns, Pcs
      <4>2. Call(Top(t).fn, "done", ws.completer) \in F
        BY <1>0, <4>1, PlaceIsFrame
      <4>3. new(t) = GoesTo(tasks, t, "done", ws.completer)[t]
        BY <2>2, <3>2
      <4> HIDE DEF F, new
      <4> QED BY <1>1, <3>1, <4>2, <4>3, GoneIsStack
    <3>3. CASE how # "ok"
      <4>1. how \in Excs
        BY <3>3 DEF Excs
      <4>2. \A g \in F : [g EXCEPT !.exc = how] \in F /\ [g EXCEPT !.exc = how].fn = g.fn
        BY <1>0, <4>1, ExcTyped
      <4>3. new(t) = Throws(tasks, t, how)[t]
        BY <2>2, <3>3
      <4> HIDE DEF F, new
      <4> QED BY <1>1, <3>1, <4>2, <4>3, ThrownIsStack
    <3> QED BY <3>2, <3>3
  <2> QED BY <2>1, <2>2
<1>3. CASE ws.completer = None \/ ws.completed # "no"
  BY <1>1, <1>3 DEF Completed
<1>4. CASE ~(ws.completer = None \/ ws.completed # "no")
  <2>1. Completed(tasks, how) = [t \in TaskIds |-> new(t)]
    BY <1>4 DEF Completed
  <2> HIDE DEF F, new
  <2> DEFINE C == [t \in TaskIds |-> new(t)]
  <2>2. C = [t \in TaskIds |-> C[t]] /\ \A t \in TaskIds : Stack(C[t], F)
    BY <1>2
  <2>3. Stacks(C, F)
    BY <2>2 DEF Stacks
  <2> QED BY <2>1, <2>3 DEF F
<1> QED BY <1>3, <1>4

LEMMA CompletionTyped ==
    ASSUME TypeInv, NEW how \in {"ok", "transport", "translatorWs"}
    PROVE  Completion(how) \in Completions
BY WsIs, WsFields DEF Completion, Completions

LEMMA SpawnsStacks ==
    ASSUME NEW F, NEW ts, Stacks(ts, F), NEW fn \in Bottoms, NEW x, CanSpawn, Call(fn, "start", x) \in F
    PROVE  Stacks(Spawns(ts, fn, x), F)
<1>1. Stack(<<Call(fn, "start", x)>>, F)
  BY StackStarts, CallFields
<1> QED BY <1>1, FreeIdIsFree DEF Stacks, Spawns

LEMMA ServerTyped ==
    ASSUME TypeInv, NEW s, s \in 1..ws.opens \/ s \in Sockets, NEW x \in ServerStates
    PROVE  [ws.server EXCEPT ![s] = x] \in [Sockets -> ServerStates]
BY WsIs, WsFields

\* The fields an event of a socket sets.
LEMMA WsHears ==
    ASSUME TypeInv,
           NEW f \in [Sockets -> ServerStates], NEW h \in SUBSET ws.heard, NEW c \in BOOLEAN,
           NEW d \in Completions, NEW p \in Seq(TextEvents),
           ws' = [ws EXCEPT !.server = f, !.heard = h, !.connected = c, !.completed = d,
                            !.pending = p]
    PROVE  WsOK' /\ ws'.opens = ws.opens
<1>1. ws \in WsRecords /\ h \in SUBSET Nat
  BY WsIs, WsFields
<1>2. ws' \in WsRecords
  BY <1>1 DEF WsRecords
<1>3. /\ ws'.opens = ws.opens /\ ws'.listeners = ws.listeners /\ ws'.socket = ws.socket
      /\ ws'.completer = ws.completer /\ ws'.sub = ws.sub /\ ws'.heard = h
      /\ ws'.shut = ws.shut
  BY <1>1 DEF WsRecords
<1> QED BY <1>2, <1>3, WsIs, WsBecomes

LEMMA FailTyped ==
    ASSUME TypeInv, Fail \/ UNCHANGED faults
    PROVE  faults' \in Nat
BY DEF Fail, TypeInv

LEMMA SocketAwaitsKeepTypes ==
    ASSUME TypeInv, NEW t \in TaskIds,
           SocketReady(t) \/ SocketFails(t) \/ BackoffElapses(t) \/ SocketClosed(t)
    PROVE  Keeps /\ WsOK' /\ ws'.opens = ws.opens /\ faults' \in Nat
<1>0. ws \in WsRecords
  BY WsIs
<1>1. CASE SocketReady(t) \/ SocketFails(t)
  <2> DEFINE x == Top(t).x
             n == ws'.server[x]
  <2>1. /\ Alive(t) /\ Top(t).fn = "openOnce" /\ Top(t).pc = "ready"
        /\ \/ Go(t, "listen", x) \/ Throw(t, "transport")
        /\ Fail \/ UNCHANGED faults
    BY <1>1 DEF SocketReady, SocketFails, At
  <2>2. x \in 1..ws.opens /\ x \in Nat /\ x \in Sockets
    BY <2>1, TopTyped, WsIs DEF FrameOK
  <2>3. \E s \in ServerStates : ws' = [ws EXCEPT !.server = [ws.server EXCEPT ![x] = s]]
    <3>1. CASE SocketReady(t)
      <4> DEFINE s == IF ws.server[x] = "connecting" THEN "ready" ELSE ws.server[x]
      <4>1. ws' = [ws EXCEPT !.server = [ws.server EXCEPT ![x] = s]]
        BY <3>1 DEF SocketReady
      <4>2. s \in ServerStates
        BY <1>0, <2>2, WsFields DEF ServerStates
      <4> QED BY <4>1, <4>2
    <3>2. CASE SocketFails(t)
      BY <3>2 DEF SocketFails, ServerStates
    <3> QED BY <1>1, <3>1, <3>2
  <2>4. PICK f \in [Sockets -> ServerStates] : ws' = [ws EXCEPT !.server = f]
    BY <2>2, <2>3, ServerTyped
  <2> HIDE DEF x, n
  <2>5. ws' \in WsRecords
    BY <1>0, <2>4 DEF WsRecords
  <2>6. /\ ws'.opens = ws.opens /\ ws'.listeners = ws.listeners /\ ws'.socket = ws.socket
        /\ ws'.completer = ws.completer /\ ws'.sub = ws.sub /\ ws'.heard = ws.heard
        /\ ws'.shut = ws.shut
    BY <1>0, <2>4 DEF WsRecords
  <2>7. WsOK'
    BY <2>5, <2>6, WsIs, WsBecomes
  <2>8. ASSUME Go(t, "listen", x)
        PROVE  Keeps
    <3>1. Place(Top(t).fn, "listen", x, scr.presses, ws.opens, rec.opened)
      BY <2>1, <2>2 DEF Place, Fns, Pcs
    <3> QED BY <2>1, <2>2, <2>8, <3>1, GoKeepsTypes DEF Pcs
  <2>9. ASSUME Throw(t, "transport")
        PROVE  Keeps
    BY <2>1, <2>9, ThrowKeepsTypes DEF Excs
  <2> QED BY <2>1, <2>6, <2>7, <2>8, <2>9, FailTyped
<1>2. CASE BackoffElapses(t) \/ SocketClosed(t)
  <2>1. /\ Alive(t) /\ Top(t).fn \notin {"press", "openOnce", "drvStart", "drvStop"}
        /\ Go(t, "again", Top(t).x) \/ Go(t, "closed", 0)
        /\ UNCHANGED <<ws, faults>>
    BY <1>2 DEF BackoffElapses, SocketClosed, At, Closers
  <2>2. Top(t).x \in Nat
    BY <2>1, TopTyped
  <2>3. Keeps
    BY <2>1, <2>2, GoKeepsTypes DEF Pcs
  <2> QED BY <2>1, <2>3 DEF TypeInv, WsOK
<1> QED BY <1>1, <1>2

LEMMA ReceiveKeepsTypes ==
    ASSUME TypeInv, NEW s \in Sockets,
           ReceiveOpened(s) \/ ReceiveFinal(s) \/ ReceiveError(s) \/ SocketEnds(s)
    PROVE  Keeps /\ WsOK' /\ ws'.opens = ws.opens /\ faults' \in Nat
<1> DEFINE F == Frames(scr.presses, ws.opens, rec.opened)
           sets(f, h, c, d, p) ==
               ws' = [ws EXCEPT !.server = f, !.heard = h, !.connected = c, !.completed = d,
                                !.pending = p]
<1>0. ws \in WsRecords /\ Stacks(tasks, F)
  BY WsIs DEF TypeInv
<1>1. /\ ws.connected \in BOOLEAN /\ ws.completed \in Completions
      /\ ws.pending \in Seq(TextEvents) /\ ws.heard \in SUBSET ws.heard
      /\ ws.heard \ {s} \in SUBSET ws.heard
  BY <1>0, WsFields
<1>2. \A x \in ServerStates : [ws.server EXCEPT ![s] = x] \in [Sockets -> ServerStates]
  BY ServerTyped
<1>3. {"opened", "answered", "failed", "gone"} \subseteq ServerStates
  BY DEF ServerStates
<1>4. \A how \in {"ok", "transport", "translatorWs"} :
         Completion(how) \in Completions /\ Stacks(Completed(tasks, how), F)
  BY CompletionTyped, CompletedTyped
<1>5. \A kind \in {"final", "error"} : Emitted(kind) \in Seq(TextEvents)
  BY EmittedIs
<1>6. ASSUME CanSpawn, NEW ts, Stacks(ts, F)
      PROVE  Stacks(Spawns(ts, "finish", 0), F)
  <2>1. Place("finish", "start", 0, scr.presses, ws.opens, rec.opened)
    BY DEF Place, Fns, Pcs
  <2>2. Call("finish", "start", 0) \in F
    BY <2>1, CountsTyped, PlaceIsFrame
  <2> HIDE DEF F
  <2> QED BY <1>6, <2>2, SpawnsStacks DEF Bottoms
<1> HIDE DEF F
<1>7. CASE ReceiveOpened(s)
  <2>1. sets([ws.server EXCEPT ![s] = "opened"], ws.heard, TRUE, Completion("ok"), ws.pending)
    <3>1. ws' = [ws EXCEPT !.server[s] = "opened", !.connected = TRUE,
                           !.completed = Completion("ok")]
      BY <1>7 DEF ReceiveOpened
    <3> QED BY <1>0, <3>1 DEF WsRecords
  <2>2. WsOK' /\ ws'.opens = ws.opens
    BY <1>1, <1>2, <1>3, <1>4, <2>1, WsHears
  <2>3. Stacks(tasks', F) /\ faults' \in Nat
    BY <1>4, <1>7 DEF ReceiveOpened, TypeInv
  <2> QED BY <2>2, <2>3 DEF Keeps, F
<1>8. CASE ReceiveFinal(s)
  <2>1. sets([ws.server EXCEPT ![s] = "answered"], ws.heard, ws.connected, ws.completed,
             Emitted("final"))
    <3>1. ws' = [ws EXCEPT !.server[s] = "answered", !.pending = Emitted("final")]
      BY <1>8 DEF ReceiveFinal
    <3> QED BY <1>0, <3>1 DEF WsRecords
  <2>2. WsOK' /\ ws'.opens = ws.opens
    BY <1>1, <1>2, <1>3, <1>5, <2>1, WsHears
  <2>3. Stacks(tasks', F) /\ faults' \in Nat
    BY <1>0, <1>6, <1>8 DEF ReceiveFinal, TypeInv
  <2> QED BY <2>2, <2>3 DEF Keeps, F
<1>9. CASE ReceiveError(s)
  <2>1. sets([ws.server EXCEPT ![s] = "failed"], ws.heard, FALSE, Completion("translatorWs"),
             Emitted("error"))
    <3>1. ws' = [ws EXCEPT !.server[s] = "failed", !.connected = FALSE,
                        !.pending = Emitted("error"), !.completed = Completion("translatorWs")]
      BY <1>9 DEF ReceiveError
    <3> QED BY <1>0, <3>1 DEF WsRecords
  <2>2. WsOK' /\ ws'.opens = ws.opens
    BY <1>1, <1>2, <1>3, <1>4, <1>5, <2>1, WsHears
  <2>3. Stacks(tasks', F) /\ faults' \in Nat
    BY <1>4, <1>6, <1>9, FailTyped DEF ReceiveError
  <2> QED BY <2>2, <2>3 DEF Keeps, F
<1>10. CASE SocketEnds(s)
  <2> DEFINE gone == [ws EXCEPT !.server[s] = "gone", !.heard = @ \ {s}]
             f == [ws.server EXCEPT ![s] = "gone"]
             h == ws.heard \ {s}
  <2>1. /\ CanSpawn
        /\ Fail \/ UNCHANGED faults
        /\ \/ ws' = gone /\ UNCHANGED tasks
           \/ /\ ws' = [gone EXCEPT !.completed = Completion("transport")]
              /\ tasks' = Completed(tasks, "transport")
           \/ /\ ws' = [gone EXCEPT !.connected = FALSE, !.pending = Emitted("error")]
              /\ tasks' = Spawns(tasks, "finish", 0)
    BY <1>10 DEF SocketEnds
  <2>2. faults' \in Nat /\ f \in [Sockets -> ServerStates] /\ h \in SUBSET ws.heard
    BY <1>1, <1>2, <1>3, <2>1, FailTyped
  <2>3. gone = [ws EXCEPT !.server = f, !.heard = h]
    BY <1>0 DEF WsRecords
  <2> HIDE DEF gone, f, h
  <2>4. CASE ws' = gone /\ UNCHANGED tasks
    <3>1. sets(f, h, ws.connected, ws.completed, ws.pending)
      BY <1>0, <2>3, <2>4 DEF WsRecords
    <3>2. WsOK' /\ ws'.opens = ws.opens
      BY <1>1, <2>2, <3>1, WsHears
    <3> QED BY <1>0, <2>2, <2>4, <3>2 DEF Keeps, F
  <2>5. CASE /\ ws' = [gone EXCEPT !.completed = Completion("transport")]
             /\ tasks' = Completed(tasks, "transport")
    <3>1. sets(f, h, ws.connected, Completion("transport"), ws.pending)
      BY <1>0, <2>3, <2>5 DEF WsRecords
    <3>2. WsOK' /\ ws'.opens = ws.opens
      BY <1>1, <1>4, <2>2, <3>1, WsHears
    <3> QED BY <1>4, <2>2, <2>5, <3>2 DEF Keeps, F
  <2>6. CASE /\ ws' = [gone EXCEPT !.connected = FALSE, !.pending = Emitted("error")]
             /\ tasks' = Spawns(tasks, "finish", 0)
    <3>1. sets(f, h, FALSE, ws.completed, Emitted("error"))
      BY <1>0, <2>3, <2>6 DEF WsRecords
    <3>2. WsOK' /\ ws'.opens = ws.opens
      BY <1>1, <1>5, <2>2, <3>1, WsHears
    <3>3. Stacks(tasks', F)
      BY <1>0, <1>6, <2>1, <2>6
    <3> QED BY <2>2, <3>2, <3>3 DEF Keeps, F
  <2> QED BY <2>1, <2>4, <2>5, <2>6
<1> QED BY <1>7, <1>8, <1>9, <1>10

LEMMA WsEventKeepsTypes ==
    ASSUME TypeInv, WsEvent, UNCHANGED <<rec, micFaults, scr>>
    PROVE  TypeInv'
<1>1. Keeps /\ WsOK' /\ ws'.opens = ws.opens /\ faults' \in Nat
  BY SocketAwaitsKeepTypes, ReceiveKeepsTypes DEF WsEvent
<1> QED BY <1>1 DEF TypeInv, Keeps, RecOK, ScrOK

----------------------------------------------------------------------------
\* Types: the recorder.

LEMMA RecIs ==
    ASSUME TypeInv
    PROVE  /\ rec \in RecRecords /\ rec.opened \in Nat /\ rec.made \in Nat /\ rec.chunks \in Nat
           /\ rec.recorder \in 0..rec.opened /\ rec.input \in 0..rec.opened /\ rec.sub \in 0..rec.opened
           /\ rec.listened \in SUBSET Nat /\ rec.cancelled \in SUBSET Nat
           /\ rec.released \in SUBSET Nat /\ rec.unreleased \in SUBSET Nat
           /\ rec.mic \in SUBSET Nat /\ rec.mic \subseteq 1..rec.opened /\ rec.mic \cap rec.released = {}
<1>1. rec \in RecRecords
  BY DEF TypeInv, RecOK
<1>2. rec.opened \in Nat /\ rec.made \in Nat /\ rec.chunks \in Nat
      /\ rec.listened \in SUBSET Nat /\ rec.cancelled \in SUBSET Nat
      /\ rec.released \in SUBSET Nat /\ rec.unreleased \in SUBSET Nat /\ rec.mic \in SUBSET Nat
  BY <1>1 DEF RecRecords
<1> QED BY <1>1, <1>2 DEF TypeInv, RecOK

\* The fields of the recorder but those of platform recorders.
LEMMA RecBecomes ==
    ASSUME TypeInv, rec' \in RecRecords, rec'.opened = rec.opened,
           rec'.recorder \in 0..rec.opened, rec'.input \in 0..rec.opened,
           rec'.sub \in 0..rec.opened, rec'.mic = rec.mic, rec'.released = rec.released
    PROVE  RecOK'
BY RecIs DEF RecOK

LEMMA RecStartKeepsTypes ==
    ASSUME TypeInv, NEW t \in TaskIds, RecStart(t)
    PROVE  Keeps /\ RecOK' /\ rec'.opened = rec.opened
<1>1. Alive(t) /\ Top(t).fn = "recStart"
  BY DEF RecStart, At
<1>2. CASE rec.recording
  <2>1. /\ UNCHANGED rec
        /\ Throw(t, "type") \/ Return(t, rec.chunks)
    BY <1>2 DEF RecStart
  <2>2. Keeps
    BY <1>1, <2>1, RecIs, ThrowKeepsTypes, ReturnKeepsTypes DEF Excs
  <2> QED BY <2>1, <2>2 DEF TypeInv, RecOK
<1>3. CASE ~rec.recording
  <2> DEFINE m == rec.made + 1
  <2>1. /\ rec' = [rec EXCEPT !.made = m, !.chunks = m]
        /\ tasks' = Calls(GoesTo(tasks, t, "start", m), t, "drvStart", "started")
    BY <1>3 DEF RecStart
  <2>2. m \in Nat /\ rec \in RecRecords
    BY RecIs
  <2> HIDE DEF m
  <2>3. rec' \in RecRecords
    BY <2>1, <2>2 DEF RecRecords
  <2>4. /\ rec'.opened = rec.opened /\ rec'.recorder = rec.recorder /\ rec'.input = rec.input
        /\ rec'.sub = rec.sub /\ rec'.mic = rec.mic /\ rec'.released = rec.released
    BY <2>1, <2>2 DEF RecRecords
  <2>5. RecOK'
    BY <2>3, <2>4, RecIs, RecBecomes
  <2> DEFINE F == Frames(scr.presses, ws.opens, rec.opened)
             s == tasks[t]
             c == Call("drvStart", "start", 0)
             d == Call("recStart", "started", m)
  <2>6. Stacks(tasks, F)
    BY DEF TypeInv
  <2>7. /\ Place("drvStart", "start", 0, scr.presses, ws.opens, rec.opened)
        /\ Place("recStart", "started", m, scr.presses, ws.opens, rec.opened)
    BY <2>2 DEF Place, Fns, Pcs
  <2>8. c \in F /\ d \in F
    BY <2>7, CountsTyped, PlaceIsFrame
  <2>9. Over(c.fn, d) /\ d.exc = "none" /\ d.fn = "recStart"
    BY CallFields DEF Over
  <2> HIDE DEF F
  <2>10. Stack(s, F) /\ s # <<>> /\ s \in Seq(F) /\ t \in DOMAIN tasks /\ s[1].fn = "recStart"
         /\ Head(s) = s[1]
    BY <1>1, <2>6, TopIs
  <2>11. Stack(<<c, d>> \o Tail(s), F)
    <3> HIDE DEF c, d, s
    <3> QED BY <2>8, <2>9, <2>10, StackCalls
  <2>12. Puts(t, <<c, d>> \o Tail(s))
    <3> DEFINE g == Call("recStart", "start", m)
               u == <<g>> \o Tail(s)
    <3>1. GoesTo(tasks, t, "start", m) = [tasks EXCEPT ![t] = u]
      BY <2>10 DEF GoesTo
    <3>2. Tail(s) \in Seq(F)
      BY <2>10
    <3>3. Head(u) = g /\ Tail(u) = Tail(s)
      <4> HIDE DEF g, s
      <4> QED BY <3>2
    <3>4. g.fn = "recStart" /\ g.x = m
      BY CallFields
    <3>5. Call(Head(u).fn, "started", Head(u).x) = d
      BY <3>3, <3>4
    <3> HIDE DEF g, u
    <3>6. tasks' = [[tasks EXCEPT ![t] = u] EXCEPT ![t] = <<c, d>> \o Tail(u)]
      BY <2>1, <2>10, <3>1, <3>5 DEF Calls
    <3> QED BY <2>10, <3>3, <3>6 DEF Puts
  <2>13. Stacks(tasks', F)
    BY <2>6, <2>11, <2>12, PutsStacks
  <2> QED BY <2>4, <2>5, <2>13 DEF Keeps, F
<1> QED BY <1>2, <1>3

LEMMA RecStartedKeepsTypes ==
    ASSUME TypeInv, NEW t \in TaskIds, RecStarted(t)
    PROVE  Keeps /\ RecOK' /\ rec'.opened = rec.opened
<1> DEFINE v == Top(t).val
           l == rec.listened \cup {v}
<1>1. Alive(t) /\ Top(t).fn = "recStart" /\ Top(t).pc = "started" /\ Return(t, Top(t).x)
  BY DEF RecStarted, At
<1>2. rec' = [rec EXCEPT !.recording = TRUE, !.sub = v, !.listened = l]
  BY DEF RecStarted
<1>3. Top(t).x \in Nat /\ v \in 0..rec.opened /\ v \in Nat /\ l \in SUBSET Nat
  BY <1>1, TopTyped, RecIs DEF FrameOK
<1>4. Keeps
  BY <1>1, <1>3, ReturnKeepsTypes
<1>5. rec \in RecRecords
  BY RecIs
<1> HIDE DEF v, l
<1>6. rec' \in RecRecords
  BY <1>2, <1>3, <1>5 DEF RecRecords
<1>7. /\ rec'.opened = rec.opened /\ rec'.recorder = rec.recorder /\ rec'.input = rec.input
      /\ rec'.sub = v /\ rec'.mic = rec.mic /\ rec'.released = rec.released
  BY <1>2, <1>5 DEF RecRecords
<1> QED BY <1>3, <1>4, <1>6, <1>7, RecIs, RecBecomes

\* A step that sets some of the fields below.
LEMMA RecSets ==
    ASSUME TypeInv, NEW b \in BOOLEAN, NEW c \in Nat, NEW k \in SUBSET Nat,
           NEW r \in 0..rec.opened, NEW i \in 0..rec.opened, NEW u \in 0..rec.opened,
           rec' = [rec EXCEPT !.recording = b, !.chunks = c, !.cancelled = k,
                              !.recorder = r, !.input = i, !.sub = u]
    PROVE  RecOK' /\ rec'.opened = rec.opened
<1>1. rec \in RecRecords /\ r \in Nat /\ i \in Nat /\ u \in Nat
  BY RecIs
<1>2. rec' \in RecRecords
  BY <1>1 DEF RecRecords
<1>3. /\ rec'.opened = rec.opened /\ rec'.recorder = r /\ rec'.input = i
      /\ rec'.sub = u /\ rec'.mic = rec.mic /\ rec'.released = rec.released
  BY <1>1 DEF RecRecords
<1> QED BY <1>2, <1>3, RecBecomes

LEMMA RecFields ==
    ASSUME TypeInv
    PROVE  /\ rec.recording \in BOOLEAN /\ rec.chunks \in Nat /\ rec.cancelled \in SUBSET Nat
           /\ rec.recorder \in 0..rec.opened /\ rec.input \in 0..rec.opened
           /\ rec.sub \in 0..rec.opened /\ 0 \in 0..rec.opened /\ 0 \in Nat
BY RecIs DEF RecRecords

LEMMA RecStopsKeepTypes ==
    ASSUME TypeInv, NEW t \in TaskIds,
           RecStartFails(t) \/ RecStop(t) \/ RecStopDriver(t) \/ RecStopped(t)
    PROVE  Keeps /\ RecOK' /\ rec'.opened = rec.opened
<1> DEFINE sets(b, c, k, r, i, u) ==
               rec' = [rec EXCEPT !.recording = b, !.chunks = c, !.cancelled = k,
                                  !.recorder = r, !.input = i, !.sub = u]
<1>1. rec \in RecRecords
  BY RecIs
<1>2. CASE RecStartFails(t)
  <2>1. CASE rec' = [rec EXCEPT !.chunks = NoStream] /\ Go(t, "failed", 0)
    <3>1. Alive(t) /\ Top(t).fn = "recStart"
      BY <1>2 DEF RecStartFails, At, Caught
    <3>2. Keeps
      BY <2>1, <3>1, GoKeepsTypes DEF Pcs
    <3>3. sets(rec.recording, 0, rec.cancelled, rec.recorder, rec.input, rec.sub)
      BY <1>1, <2>1 DEF RecRecords, NoStream
    <3> QED BY <3>2, <3>3, RecFields, RecSets
  <2>2. CASE Throw(t, "recorder") /\ UNCHANGED rec
    <3>1. Alive(t)
      BY <1>2 DEF RecStartFails, At, Caught
    <3> QED BY <2>2, <3>1, ThrowKeepsTypes DEF Excs, TypeInv, RecOK
  <2> QED BY <1>2, <2>1, <2>2 DEF RecStartFails
<1>3. CASE RecStop(t)
  <2>1. Alive(t) /\ Top(t).fn = "recStop"
    BY <1>3 DEF RecStop, At
  <2>2. CASE Return(t, 0) /\ UNCHANGED rec
    BY <2>1, <2>2, ReturnKeepsTypes DEF TypeInv, RecOK
  <2>3. CASE /\ rec' = [rec EXCEPT !.recording = FALSE,
                                   !.cancelled = @ \cup ({rec.sub} \ {NoStream})]
             /\ Go(t, "cancelled", 0)
    <3> DEFINE k == rec.cancelled \cup ({rec.sub} \ {NoStream})
    <3>1. Keeps
      BY <2>1, <2>3, GoKeepsTypes DEF Pcs
    <3>2. sets(FALSE, rec.chunks, k, rec.recorder, rec.input, rec.sub)
      BY <1>1, <2>3 DEF RecRecords
    <3>3. k \in SUBSET Nat
      BY RecIs
    <3> HIDE DEF k
    <3> QED BY <3>1, <3>2, <3>3, RecFields, RecSets
  <2>4. \/ Return(t, 0) /\ UNCHANGED rec
        \/ /\ rec' = [rec EXCEPT !.recording = FALSE,
                                 !.cancelled = @ \cup ({rec.sub} \ {NoStream})]
           /\ Go(t, "cancelled", 0)
    BY <1>3 DEF RecStop
  <2> QED BY <2>2, <2>3, <2>4
<1>4. CASE RecStopDriver(t)
  <2>1. /\ Alive(t) /\ Top(t).fn = "recStop" /\ Enter(t, "drvStop", "stopped")
        /\ rec' = [rec EXCEPT !.sub = NoStream]
    BY <1>4 DEF RecStopDriver, At
  <2>2. Over("drvStop", Call("recStop", "stopped", 0))
    BY CallFields DEF Over
  <2>3. Keeps
    BY <2>1, <2>2, EnterKeepsTypes
  <2>4. sets(rec.recording, rec.chunks, rec.cancelled, rec.recorder, rec.input, 0)
    BY <1>1, <2>1 DEF RecRecords, NoStream
  <2> QED BY <2>3, <2>4, RecFields, RecSets
<1>5. CASE RecStopped(t)
  <2>1. Alive(t) /\ Top(t).fn = "recStop"
    BY <1>5 DEF RecStopped, At
  <2>2. CASE rec' = [rec EXCEPT !.chunks = NoStream] /\ Go(t, "end", 0)
    <3>1. Keeps
      BY <2>1, <2>2, GoKeepsTypes DEF Pcs
    <3>2. sets(rec.recording, 0, rec.cancelled, rec.recorder, rec.input, rec.sub)
      BY <1>1, <2>2 DEF RecRecords, NoStream
    <3> QED BY <3>1, <3>2, RecFields, RecSets
  <2>3. CASE Return(t, 0) /\ UNCHANGED rec
    BY <2>1, <2>3, ReturnKeepsTypes DEF TypeInv, RecOK
  <2> QED BY <1>5, <2>2, <2>3 DEF RecStopped
<1> QED BY <1>2, <1>3, <1>4, <1>5

LEMMA DrvOpenKeepsTypes ==
    ASSUME TypeInv, NEW t \in TaskIds, DrvOpen(t)
    PROVE  /\ Stacks(tasks', Frames(scr.presses, ws.opens, rec.opened + 1)) /\ RecOK'
           /\ rec'.opened = rec.opened + 1
<1> DEFINE o == rec.opened + 1
<1>1. /\ Alive(t) /\ Top(t).fn = "drvStart" /\ Go(t, "opening", o)
      /\ rec' = [rec EXCEPT !.opened = o, !.recorder = o, !.input = o]
  BY DEF DrvOpen, At
<1>2. /\ o \in Nat /\ rec.opened <= o /\ o \in 0..o /\ o \in 1..o /\ 0..rec.opened \subseteq 0..o
      /\ 1..rec.opened \subseteq 1..o
  BY RecIs
<1> HIDE DEF o
<1>3. scr.presses \in Nat /\ ws.opens \in Nat /\ rec.opened \in Nat /\ rec \in RecRecords
  BY CountsTyped, RecIs
<1>4. Stacks(tasks, Frames(scr.presses, ws.opens, o))
  BY <1>2, <1>3, CountsGrow DEF TypeInv
<1>5. Place(Top(t).fn, "opening", o, scr.presses, ws.opens, o)
  BY <1>1, <1>2 DEF Place, Fns, Pcs
<1>6. Stacks(tasks', Frames(scr.presses, ws.opens, o))
  BY <1>1, <1>2, <1>3, <1>4, <1>5, GoTyped
<1>7. rec' \in RecRecords
  BY <1>1, <1>2, <1>3 DEF RecRecords
<1>8. /\ rec'.opened = o /\ rec'.recorder = o /\ rec'.input = o
      /\ rec'.sub = rec.sub /\ rec'.mic = rec.mic /\ rec'.released = rec.released
  BY <1>1, <1>3 DEF RecRecords
<1>9. RecOK'
  <2>1. /\ rec.sub \in 0..o /\ rec.mic \subseteq (1..o) \ rec.released
    BY <1>2, RecIs
  <2> QED BY <1>2, <1>7, <1>8, <2>1 DEF RecOK
<1> QED BY <1>6, <1>8, <1>9 DEF o

LEMMA DrvStartKeepsTypes ==
    ASSUME TypeInv, NEW t \in TaskIds, DrvStart(t) \/ DrvStarted(t) \/ DrvStartFails(t)
    PROVE  Keeps /\ UNCHANGED rec
<1>1. Alive(t) /\ Top(t).fn = "drvStart" /\ UNCHANGED rec
  BY DEF DrvStart, DrvStarted, DrvStartFails, At
<1>2. CASE DrvStart(t)
  <2>1. Go(t, "permission", 0)
    BY <1>2 DEF DrvStart
  <2>2. Place(Top(t).fn, "permission", 0, scr.presses, ws.opens, rec.opened)
    BY <1>1 DEF Place, Fns, Pcs
  <2> QED BY <1>1, <2>1, <2>2, GoKeepsTypes DEF Pcs
<1>3. CASE DrvStarted(t)
  <2>1. Return(t, Top(t).x) /\ Top(t).pc = "recording"
    BY <1>3 DEF DrvStarted, At
  <2>2. Top(t).x \in Nat /\ Top(t).x \in 0..rec.opened
    BY <1>1, <2>1, TopTyped, RecIs DEF FrameOK
  <2> QED BY <1>1, <2>1, <2>2, ReturnKeepsTypes
<1>4. CASE DrvStartFails(t)
  <2>1. Over("drvStop", Call("drvStart", "failed", 0))
    BY CallFields DEF Over
  <2>2. Enter(t, "drvStop", "failed") \/ Throw(t, "recorder")
    BY <1>4 DEF DrvStartFails
  <2> QED BY <1>1, <2>1, <2>2, EnterKeepsTypes, ThrowKeepsTypes DEF Excs
<1> QED BY <1>2, <1>3, <1>4

LEMMA DrvStopKeepsTypes ==
    ASSUME TypeInv, NEW t \in TaskIds, DrvStop(t) \/ DrvCloseInput(t) \/ DrvStopped(t)
    PROVE  Keeps /\ RecOK' /\ rec'.opened = rec.opened
<1> DEFINE sets(b, c, k, r, i, u) ==
               rec' = [rec EXCEPT !.recording = b, !.chunks = c, !.cancelled = k,
                                  !.recorder = r, !.input = i, !.sub = u]
<1>1. Alive(t) /\ Top(t).fn = "drvStop" /\ rec \in RecRecords
  BY RecIs DEF DrvStop, DrvCloseInput, DrvStopped, At
<1>2. \A x \in Nat : /\ Place(Top(t).fn, "released", x, scr.presses, ws.opens, rec.opened)
                     /\ Place(Top(t).fn, "end", x, scr.presses, ws.opens, rec.opened)
                     /\ Place(Top(t).fn, "inputClose", x, scr.presses, ws.opens, rec.opened)
  BY <1>1 DEF Place, Fns, Pcs
<1>3. rec.recorder \in Nat /\ rec.input \in Nat
  BY RecIs
<1>4. CASE DrvStop(t)
  <2>1. rec' = [rec EXCEPT !.recorder = NoStream]
    BY <1>4 DEF DrvStop
  <2>2. sets(rec.recording, rec.chunks, rec.cancelled, 0, rec.input, rec.sub)
    BY <1>1, <2>1 DEF RecRecords, NoStream
  <2>3. \/ Go(t, "released", rec.recorder)
        \/ rec.recorder # 0 /\ Go(t, "stopping", rec.recorder)
    BY <1>4 DEF DrvStop, NoStream
  <2>4. ASSUME rec.recorder # 0, Go(t, "stopping", rec.recorder)
        PROVE  Keeps
    <3>1. rec.recorder \in 1..rec.opened
      BY <2>4, RecIs
    <3>2. Place(Top(t).fn, "stopping", rec.recorder, scr.presses, ws.opens, rec.opened)
      BY <1>1, <1>3, <3>1 DEF Place, Fns, Pcs
    <3> QED BY <1>1, <1>3, <2>4, <3>2, GoKeepsTypes DEF Pcs
  <2>5. Keeps
    BY <1>1, <1>2, <1>3, <2>3, <2>4, GoKeepsTypes DEF Pcs
  <2> QED BY <2>2, <2>5, RecFields, RecSets
<1>5. CASE DrvCloseInput(t)
  <2>1. rec' = [rec EXCEPT !.input = NoStream]
    BY <1>5 DEF DrvCloseInput
  <2>2. sets(rec.recording, rec.chunks, rec.cancelled, rec.recorder, 0, rec.sub)
    BY <1>1, <2>1 DEF RecRecords, NoStream
  <2>3. Return(t, 0) \/ Go(t, "end", rec.input) \/ Go(t, "inputClose", rec.input)
    BY <1>5 DEF DrvCloseInput
  <2>4. Keeps
    BY <1>1, <1>2, <1>3, <2>3, GoKeepsTypes, ReturnKeepsTypes DEF Pcs
  <2> QED BY <2>2, <2>4, RecFields, RecSets
<1>6. CASE DrvStopped(t)
  <2>1. Return(t, 0) /\ UNCHANGED rec
    BY <1>6 DEF DrvStopped
  <2> QED BY <1>1, <2>1, ReturnKeepsTypes DEF TypeInv, RecOK
<1> QED BY <1>4, <1>5, <1>6

LEMMA RecStepKeepsTypes ==
    ASSUME TypeInv, NEW t \in TaskIds, RecStep(t), UNCHANGED <<ws, faults, micFaults, scr>>
    PROVE  TypeInv'
<1>1. ASSUME Keeps, RecOK', rec'.opened = rec.opened
      PROVE  TypeInv'
  BY <1>1 DEF TypeInv, Keeps, WsOK, ScrOK
<1>2. ASSUME DrvOpen(t)
      PROVE  TypeInv'
  BY <1>2, DrvOpenKeepsTypes DEF TypeInv, WsOK, ScrOK
<1>3. ASSUME Keeps, UNCHANGED rec
      PROVE  TypeInv'
  BY <1>3 DEF TypeInv, Keeps, WsOK, ScrOK, RecOK
<1> QED BY <1>1, <1>2, <1>3, RecStartKeepsTypes, RecStartedKeepsTypes, RecStopsKeepTypes,
           DrvStartKeepsTypes, DrvStopKeepsTypes DEF RecStep

LEMMA MicFailsTyped ==
    ASSUME TypeInv, MicFails \/ UNCHANGED micFaults
    PROVE  micFaults' \in Nat
BY DEF MicFails, TypeInv

LEMMA PermissionKeepsTypes ==
    ASSUME TypeInv, NEW t \in TaskIds, PermissionAnswered(t)
    PROVE  Keeps /\ UNCHANGED rec /\ micFaults' \in Nat
<1>1. /\ Alive(t) /\ Top(t).fn = "drvStart" /\ UNCHANGED rec
      /\ Go(t, "granted", 0) \/ Throw(t, "recorder")
      /\ MicFails \/ UNCHANGED micFaults
  BY DEF PermissionAnswered, At
<1>2. Place(Top(t).fn, "granted", 0, scr.presses, ws.opens, rec.opened)
  BY <1>1 DEF Place, Fns, Pcs
<1>3. Keeps
  BY <1>1, <1>2, GoKeepsTypes, ThrowKeepsTypes DEF Pcs, Excs
<1> QED BY <1>1, <1>3, MicFailsTyped

LEMMA RecorderOpenedKeepsTypes ==
    ASSUME TypeInv, NEW t \in TaskIds, RecorderOpened(t)
    PROVE  Keeps /\ RecOK' /\ rec'.opened = rec.opened /\ micFaults' \in Nat
<1> DEFINE r == Top(t).x
           m == rec.mic \cup {r}
<1>1. Alive(t) /\ Top(t).fn = "drvStart" /\ Top(t).pc = "opening"
  BY DEF RecorderOpened, At
<1>2. r \in 1..rec.opened /\ r \in Nat /\ rec \in RecRecords
  BY <1>1, TopTyped, RecIs DEF FrameOK
<1>3. \/ r \notin rec.released /\ rec' = [rec EXCEPT !.mic = m] /\ Go(t, "recording", r)
      \/ UNCHANGED rec /\ Go(t, "failing", r)
  BY DEF RecorderOpened
<1>4. MicFails \/ UNCHANGED micFaults
  BY DEF RecorderOpened
<1>5. m \in SUBSET Nat /\ m \subseteq 1..rec.opened
  BY <1>2, RecIs
<1>6. r \notin rec.released => m \cap rec.released = {}
  BY RecIs
<1> HIDE DEF r, m
<1>7. /\ Place(Top(t).fn, "recording", r, scr.presses, ws.opens, rec.opened)
      /\ Place(Top(t).fn, "failing", r, scr.presses, ws.opens, rec.opened)
  BY <1>1, <1>2 DEF Place, Fns, Pcs
<1>8. Keeps
  BY <1>1, <1>2, <1>3, <1>7, GoKeepsTypes DEF Pcs
<1>9. micFaults' \in Nat
  BY <1>4, MicFailsTyped
<1>10. CASE r \notin rec.released /\ rec' = [rec EXCEPT !.mic = m]
  <2>1. rec' \in RecRecords
    BY <1>2, <1>5, <1>10 DEF RecRecords
  <2>2. /\ rec'.opened = rec.opened /\ rec'.recorder = rec.recorder /\ rec'.input = rec.input
        /\ rec'.sub = rec.sub /\ rec'.mic = m /\ rec'.released = rec.released
    BY <1>2, <1>10 DEF RecRecords
  <2>3. RecOK'
    BY <1>5, <1>6, <1>10, <2>1, <2>2, RecIs DEF RecOK
  <2> QED BY <1>8, <1>9, <2>2, <2>3
<1>11. CASE UNCHANGED rec
  BY <1>8, <1>9, <1>11 DEF TypeInv, RecOK
<1> QED BY <1>3, <1>10, <1>11

LEMMA RecorderReleasedKeepsTypes ==
    ASSUME TypeInv, NEW t \in TaskIds, RecorderReleased(t)
    PROVE  Keeps /\ RecOK' /\ rec'.opened = rec.opened /\ UNCHANGED micFaults
<1> DEFINE x == Top(t).x
           m == rec.mic \ {x}
           d == rec.released \cup {x}
<1>1. /\ Alive(t) /\ Top(t).fn = "drvStop" /\ Go(t, "released", 0) /\ UNCHANGED micFaults
      /\ rec' = [rec EXCEPT !.mic = m, !.released = d]
  BY DEF RecorderReleased, At
<1>2. rec \in RecRecords /\ x \in Nat
  BY <1>1, TopTyped, RecIs
<1>3. m \in SUBSET Nat /\ d \in SUBSET Nat /\ m \subseteq (1..rec.opened) \ d
  BY <1>2, RecIs
<1> HIDE DEF x, m, d
<1>4. Place(Top(t).fn, "released", 0, scr.presses, ws.opens, rec.opened)
  BY <1>1 DEF Place, Fns, Pcs
<1>5. Keeps
  BY <1>1, <1>4, GoKeepsTypes DEF Pcs
<1>6. rec' \in RecRecords
  BY <1>1, <1>2, <1>3 DEF RecRecords
<1>7. /\ rec'.opened = rec.opened /\ rec'.recorder = rec.recorder /\ rec'.input = rec.input
      /\ rec'.sub = rec.sub /\ rec'.mic = m /\ rec'.released = d
  BY <1>1, <1>2 DEF RecRecords
<1>8. RecOK'
  BY <1>3, <1>6, <1>7, RecIs DEF RecOK
<1> QED BY <1>1, <1>5, <1>7, <1>8

\* What is below the running call is a stack.
LEMMA StackBelow ==
    ASSUME NEW F, NEW s, Stack(s, F), s # <<>>, Tail(s) # <<>>
    PROVE  Stack(Tail(s), F)
<1>1. s \in Seq(F) /\ Len(s) \in Nat /\ Len(s) >= 2
  BY DEF Stack
<1> DEFINE n == Tail(s)
<1>2. /\ n \in Seq(F) /\ Len(n) = Len(s) - 1
      /\ \A i \in 1..(Len(s) - 1) : n[i] = s[i + 1]
  BY <1>1
<1> HIDE DEF n
<1>3. n[Len(n)].fn = s[Len(s)].fn
  BY <1>1, <1>2
<1>4. ASSUME NEW i \in 1..(Len(n) - 1)
      PROVE  Over(n[i].fn, n[i + 1]) /\ n[i + 1].exc = "none"
  <2>1. n[i] = s[i + 1] /\ n[i + 1] = s[(i + 1) + 1] /\ i + 1 \in 1..(Len(s) - 1)
    BY <1>1, <1>2
  <2> QED BY <2>1 DEF Stack
<1>5. Stack(n, F)
  BY <1>1, <1>2, <1>3, <1>4 DEF Stack
<1> QED BY <1>5 DEF n

\* An exception that the second call lets pass, too, or that nobody catches.
LEMMA UnwoundKeepsTypes ==
    ASSUME TypeInv, NEW t \in TaskIds, Alive(t), Top(t).fn = "drvStop",
           \/ tasks' = Throws([tasks EXCEPT ![t] = Tail(@)], t, "recorder")
           \/ tasks' = [tasks EXCEPT ![t] = <<>>]
    PROVE  Keeps
<1> DEFINE F == Frames(scr.presses, ws.opens, rec.opened)
           s == tasks[t]
           n == Tail(s)
           d == [n[2] EXCEPT !.exc = "recorder"]
<1>1. Stacks(tasks, F)
  BY DEF TypeInv
<1>2. /\ t \in DOMAIN tasks /\ Stack(s, F) /\ s # <<>>
      /\ Tail(s) = <<>> => Top(t).fn \in Bottoms
  BY <1>1, TopIs
<1>3. Stack(n, F)
  BY <1>2, StackBelow DEF Bottoms
<1>4. CASE tasks' = [tasks EXCEPT ![t] = <<>>]
  <2>1. Puts(t, <<>>) /\ Stack(<<>>, F)
    BY <1>2, <1>4 DEF Puts, Stack
  <2> QED BY <1>1, <2>1, PutsStacks DEF Keeps
<1>5. CASE tasks' = Throws([tasks EXCEPT ![t] = Tail(@)], t, "recorder")
  <2>1. Puts(t, Popped(n, d))
    BY <1>2, <1>5 DEF Throws, Puts, Popped
  <2>2. n # <<>>
    BY <1>2 DEF Bottoms
  <2>3. ASSUME Tail(n) # <<>> PROVE d \in F /\ d.fn = n[2].fn
    <3>1. n[2] \in F
      <4> HIDE DEF n, F
      <4>1. n \in Seq(F) /\ Len(n) >= 2
        BY <1>3, <2>2, <2>3 DEF Stack
      <4> QED BY <4>1
    <3>2. FrameOK(n[2], scr.presses, ws.opens, rec.opened) /\ n[2] \in CallFrames
      BY <3>1, FrameFields
    <3> DEFINE g == n[2]
    <3> HIDE DEF n
    <3>3. /\ d \in CallFrames /\ d.fn = g.fn /\ d.pc = g.pc /\ d.x = g.x /\ d.val = g.val
      BY <3>2, FrameGetsExc DEF Excs
    <3> HIDE DEF d
    <3>4. FrameOK(d, scr.presses, ws.opens, rec.opened)
      BY <3>2, <3>3 DEF FrameOK
    <3> QED BY <3>3, <3>4 DEF Frames
  <2> HIDE DEF d, n, F
  <2>4. Stack(Popped(n, d), F)
    BY <1>3, <2>2, <2>3, StackPops DEF Popped
  <2> QED BY <1>1, <2>1, <2>4, PutsStacks DEF Keeps, F
<1> QED BY <1>4, <1>5

LEMMA RecorderReleaseFailsKeepsTypes ==
    ASSUME TypeInv, NEW t \in TaskIds, RecorderReleaseFails(t)
    PROVE  Keeps /\ RecOK' /\ rec'.opened = rec.opened /\ micFaults' \in Nat
<1> DEFINE x == Top(t).x
           u == rec.unreleased \cup {x}
<1>1. /\ Alive(t) /\ Top(t).fn = "drvStop" /\ MicFails
      /\ \/ tasks' = Throws([tasks EXCEPT ![t] = Tail(@)], t, "recorder")
         \/ tasks' = [tasks EXCEPT ![t] = <<>>]
  BY DEF RecorderReleaseFails, At
<1>2. PICK stopped : rec' = [rec EXCEPT !.mic = @ \ stopped, !.unreleased = u]
  BY DEF RecorderReleaseFails
<1> DEFINE m == rec.mic \ stopped
<1>3. rec \in RecRecords /\ x \in Nat
  BY <1>1, TopTyped, RecIs
<1>4. m \in SUBSET Nat /\ u \in SUBSET Nat /\ m \subseteq (1..rec.opened) \ rec.released
  BY <1>3, RecIs
<1>5. rec' = [rec EXCEPT !.mic = m, !.unreleased = u]
  BY <1>2
<1> HIDE DEF x, m, u
<1>6. Keeps
  BY <1>1, UnwoundKeepsTypes
<1>7. rec' \in RecRecords
  BY <1>3, <1>4, <1>5 DEF RecRecords
<1>8. /\ rec'.opened = rec.opened /\ rec'.recorder = rec.recorder /\ rec'.input = rec.input
      /\ rec'.sub = rec.sub /\ rec'.mic = m /\ rec'.released = rec.released
  BY <1>3, <1>5 DEF RecRecords
<1>9. RecOK'
  BY <1>4, <1>7, <1>8, RecIs DEF RecOK
<1> QED BY <1>1, <1>6, <1>8, <1>9, MicFailsTyped

LEMMA RecEventKeepsTypes ==
    ASSUME TypeInv, RecEvent, UNCHANGED <<ws, faults, scr>>
    PROVE  TypeInv'
<1>1. ASSUME NEW t \in TaskIds, PermissionAnswered(t)
      PROVE  TypeInv'
  BY <1>1, PermissionKeepsTypes DEF TypeInv, Keeps, WsOK, ScrOK, RecOK
<1>2. ASSUME NEW t \in TaskIds, RecorderOpened(t)
      PROVE  TypeInv'
  BY <1>2, RecorderOpenedKeepsTypes DEF TypeInv, Keeps, WsOK, ScrOK
<1>3. ASSUME NEW t \in TaskIds, RecorderReleased(t)
      PROVE  TypeInv'
  BY <1>3, RecorderReleasedKeepsTypes DEF TypeInv, Keeps, WsOK, ScrOK
<1>4. ASSUME NEW t \in TaskIds, RecorderReleaseFails(t)
      PROVE  TypeInv'
  BY <1>4, RecorderReleaseFailsKeepsTypes DEF TypeInv, Keeps, WsOK, ScrOK
<1> QED BY <1>1, <1>2, <1>3, <1>4 DEF RecEvent

LEMMA InputClosedKeepsTypes ==
    ASSUME TypeInv, NEW t \in TaskIds, InputClosed(t), UNCHANGED <<ws, faults, micFaults, scr>>
    PROVE  TypeInv'
<1>1. /\ Alive(t) /\ Top(t).fn = "drvStop" /\ Go(t, "end", 0) /\ rec \in RecRecords
  BY RecIs DEF InputClosed, InputCloses, At
<1>2. Place(Top(t).fn, "end", 0, scr.presses, ws.opens, rec.opened)
  BY <1>1 DEF Place, Fns, Pcs
<1>3. Keeps
  BY <1>1, <1>2, GoKeepsTypes DEF Pcs
<1>4. RecOK' /\ rec'.opened = rec.opened
  <2>1. CASE UNCHANGED rec
    BY <2>1 DEF TypeInv, RecOK
  <2>2. CASE rec' = [rec EXCEPT !.recording = FALSE, !.sub = NoStream, !.chunks = NoStream]
    <3>1. rec' = [rec EXCEPT !.recording = FALSE, !.chunks = 0, !.cancelled = rec.cancelled,
                             !.recorder = rec.recorder, !.input = rec.input, !.sub = 0]
      BY <1>1, <2>2 DEF RecRecords, NoStream
    <3> QED BY <3>1, RecFields, RecSets
  <2> QED BY <2>1, <2>2 DEF InputClosed
<1> QED BY <1>3, <1>4 DEF TypeInv, Keeps, WsOK, ScrOK

----------------------------------------------------------------------------
\* Types: the screen.

LEMMA ScrIs ==
    ASSUME TypeInv
    PROVE  /\ scr \in ScrRecords
           /\ scr.ptt \in {"idle", "starting", "recording", "ending", "aborting"}
           /\ scr.session \in BOOLEAN /\ scr.wsConn \in BOOLEAN /\ scr.textSub \in Subs
           /\ scr.audioSub \in 0..scr.presses /\ scr.audioSub \in Nat
           /\ scr.age \in {"none", "short", "long"}
           /\ scr.cooldown \in BOOLEAN /\ scr.audible \in SUBSET Nat
           /\ scr.presses \in Nat /\ scr.timeouts \in Nat /\ 0 \in 0..scr.presses
<1>1. scr \in ScrRecords /\ scr.audioSub \in 0..scr.presses
  BY DEF TypeInv, ScrOK
<1>2. scr.presses \in Nat
  BY <1>1 DEF ScrRecords
<1>3. 0 \in 0..scr.presses
  BY <1>2
<1> QED BY <1>1, <1>3 DEF ScrRecords

LEMMA ScrBecomes ==
    ASSUME TypeInv, scr' \in ScrRecords, scr'.presses = scr.presses,
           scr'.audioSub \in 0..scr.presses
    PROVE  ScrOK'
BY DEF ScrOK

\* The text subscriptions change.
LEMMA ListenersBecome ==
    ASSUME TypeInv, NEW l \in SUBSET Subs, IsFiniteSet(l), ws' = [ws EXCEPT !.listeners = l]
    PROVE  WsOK' /\ ws'.opens = ws.opens
<1>1. ws \in WsRecords
  BY WsIs
<1>2. ws' \in WsRecords
  BY <1>1 DEF WsRecords
<1>3. /\ ws'.opens = ws.opens /\ ws'.listeners = l /\ ws'.socket = ws.socket
      /\ ws'.completer = ws.completer /\ ws'.sub = ws.sub /\ ws'.heard = ws.heard
      /\ ws'.shut = ws.shut
  BY <1>1 DEF WsRecords
<1> QED BY <1>2, <1>3, WsIs DEF WsOK

LEMMA PressTop ==
    ASSUME TypeInv, NEW t \in TaskIds, Alive(t), Top(t).fn = "press"
    PROVE  Top(t).x \in 1..scr.presses /\ Top(t).x \in 0..scr.presses /\ Top(t).x \in Nat
<1>1. Top(t).x \in 1..scr.presses /\ scr.presses \in Nat
  BY TopTyped, CountsTyped DEF FrameOK
<1> QED BY <1>1

\* Where a call of the screen may go on: the calls it makes.
LEMMA ScreenCalls ==
    ASSUME TypeInv, NEW t \in TaskIds, Alive(t), NEW fn, NEW pc, Enter(t, fn, pc),
           \/ Top(t).fn = "press" /\ <<fn, pc>> \in {<<"connect", "connected">>,
                 <<"disconnect", "end">>, <<"recStart", "recorder">>, <<"recStop", "stopped">>,
                 <<"teardown", "end">>}
           \/ Top(t).fn = "release" /\ <<fn, pc>> \in {<<"recStop", "stopped">>,
                 <<"teardown", "end">>}
           \/ Top(t).fn = "teardown" /\ <<fn, pc>> \in {<<"recStop", "stopped">>,
                 <<"disconnect", "disconnected">>}
    PROVE  Keeps
<1>1. Over(fn, Call(Top(t).fn, pc, 0))
  BY CallFields DEF Over
<1> QED BY <1>1, EnterKeepsTypes

LEMMA PressKeepsTypes ==
    ASSUME TypeInv, NEW t \in TaskIds,
           Press(t) \/ PressSessionCreated(t) \/ PressRecorder(t) \/ PressStopped(t)
           \/ PressFails(t) \/ Ends(t)
    PROVE  Keeps /\ UNCHANGED <<ws, rec>> /\ ScrOK' /\ scr'.presses = scr.presses
<1>1. scr \in ScrRecords
  BY ScrIs
<1>2. ASSUME UNCHANGED scr
      PROVE  ScrOK' /\ scr'.presses = scr.presses
  BY <1>2 DEF TypeInv, ScrOK
<1>3. CASE Press(t)
  <2>1. /\ Alive(t) /\ Top(t).fn = "press" /\ UNCHANGED <<ws, rec, scr>>
        /\ Enter(t, "connect", "connected") \/ Go(t, "creating", Top(t).x)
    BY <1>3 DEF Press, At
  <2>2. Top(t).x \in 1..scr.presses /\ Top(t).x \in Nat
    BY <2>1, PressTop
  <2>3. Place(Top(t).fn, "creating", Top(t).x, scr.presses, ws.opens, rec.opened)
    BY <2>1, <2>2 DEF Place, Fns, Pcs
  <2>4. Keeps
    BY <2>1, <2>2, <2>3, GoKeepsTypes, ScreenCalls DEF Pcs
  <2> QED BY <1>2, <2>1, <2>4
<1>4. CASE PressSessionCreated(t)
  <2>1. /\ Alive(t) /\ Top(t).fn = "press" /\ UNCHANGED <<ws, rec>>
        /\ Return(t, 0) \/ Enter(t, "connect", "connected")
        /\ scr' = [scr EXCEPT !.session = TRUE]
    BY <1>4 DEF PressSessionCreated, At
  <2>2. Keeps
    BY <2>1, ReturnKeepsTypes, ScreenCalls
  <2>3. scr' \in ScrRecords
    BY <1>1, <2>1 DEF ScrRecords
  <2>4. scr'.presses = scr.presses /\ scr'.audioSub = scr.audioSub
    BY <1>1, <2>1 DEF ScrRecords
  <2> QED BY <2>1, <2>2, <2>3, <2>4, ScrIs, ScrBecomes
<1>5. CASE PressRecorder(t)
  <2> DEFINE v == scr.audible \cup {Top(t).val}
  <2>1. /\ Alive(t) /\ Top(t).fn = "press" /\ UNCHANGED <<ws, rec>>
        /\ \/ UNCHANGED scr /\ Enter(t, "recStop", "stopped")
           \/ UNCHANGED scr /\ Enter(t, "teardown", "end")
           \/ /\ scr' = [scr EXCEPT !.ptt = "recording", !.audioSub = Top(t).x, !.audible = v]
              /\ Return(t, 0)
    BY <1>5 DEF PressRecorder, At
  <2>2. Keeps
    BY <2>1, ReturnKeepsTypes, ScreenCalls
  <2>3. Top(t).x \in 0..scr.presses /\ v \in SUBSET Nat
    BY <2>1, PressTop, TopTyped, ScrIs
  <2> HIDE DEF v
  <2>4. ASSUME scr' = [scr EXCEPT !.ptt = "recording", !.audioSub = Top(t).x, !.audible = v]
        PROVE  ScrOK' /\ scr'.presses = scr.presses
    <3> DEFINE x == Top(t).x
    <3>1. x \in Nat /\ x \in 0..scr.presses /\ v \in SUBSET Nat
      BY <2>1, <2>3, PressTop
    <3> HIDE DEF x
    <3>2. scr' = [scr EXCEPT !.ptt = "recording", !.audioSub = x, !.audible = v]
      BY <2>4 DEF x
    <3>3. scr' \in ScrRecords
      BY <1>1, <3>1, <3>2 DEF ScrRecords
    <3>4. scr'.presses = scr.presses /\ scr'.audioSub = x
      BY <1>1, <3>2 DEF ScrRecords
    <3> QED BY <3>1, <3>3, <3>4, ScrBecomes
  <2> QED BY <1>2, <2>1, <2>2, <2>4
<1>6. CASE PressStopped(t) \/ PressFails(t)
  <2>1. /\ Alive(t) /\ Top(t).fn = "press" /\ UNCHANGED <<ws, rec, scr>>
        /\ Enter(t, "disconnect", "end") \/ Enter(t, "teardown", "end")
    BY <1>6 DEF PressStopped, PressFails, At, Caught
  <2>2. Keeps
    BY <2>1, ScreenCalls
  <2> QED BY <1>2, <2>1, <2>2
<1>7. CASE Ends(t)
  <2>1. /\ Alive(t) /\ Top(t).fn # "drvStart" /\ UNCHANGED <<ws, rec, scr>> /\ Return(t, 0)
    BY <1>7 DEF Ends, At
  <2>2. Keeps
    BY <2>1, ReturnKeepsTypes
  <2> QED BY <1>2, <2>1, <2>2
<1> QED BY <1>3, <1>4, <1>5, <1>6, <1>7

LEMMA PressConnectedKeepsTypes ==
    ASSUME TypeInv, NEW t \in TaskIds, PressConnected(t)
    PROVE  /\ Keeps /\ WsOK' /\ ws'.opens = ws.opens /\ UNCHANGED rec
           /\ ScrOK' /\ scr'.presses = scr.presses
<1> DEFINE sub == [press |-> Top(t).x, text |-> ws.text]
           l == ws.listeners \cup {sub}
<1>1. /\ Alive(t) /\ Top(t).fn = "press" /\ UNCHANGED rec
      /\ \/ Enter(t, "disconnect", "end") /\ UNCHANGED <<ws, scr>>
         \/ /\ ws' = [ws EXCEPT !.listeners = l]
            /\ scr' = [scr EXCEPT !.textSub = sub, !.wsConn = TRUE]
            /\ Enter(t, "recStart", "recorder")
  BY DEF PressConnected, At
<1>2. Keeps
  BY <1>1, ScreenCalls
<1>3. sub \in Subs
  BY <1>1, TopTyped, WsIs, WsFields DEF Subs
<1>4. l \in SUBSET Subs /\ IsFiniteSet(l)
  BY <1>3, WsIs, WsFields, FS_AddElement
<1> HIDE DEF sub, l
<1>5. ASSUME ws' = [ws EXCEPT !.listeners = l], scr' = [scr EXCEPT !.textSub = sub, !.wsConn = TRUE]
      PROVE  WsOK' /\ ws'.opens = ws.opens /\ ScrOK' /\ scr'.presses = scr.presses
  <2>1. scr \in ScrRecords
    BY ScrIs
  <2>2. scr' \in ScrRecords
    BY <1>3, <1>5, <2>1 DEF ScrRecords
  <2>3. scr'.presses = scr.presses /\ scr'.audioSub = scr.audioSub
    BY <1>5, <2>1 DEF ScrRecords
  <2>4. WsOK' /\ ws'.opens = ws.opens
    BY <1>4, <1>5, ListenersBecome
  <2> QED BY <2>2, <2>3, <2>4, ScrIs, ScrBecomes
<1>6. ASSUME UNCHANGED <<ws, scr>>
      PROVE  WsOK' /\ ws'.opens = ws.opens /\ ScrOK' /\ scr'.presses = scr.presses
  BY <1>6 DEF TypeInv, WsOK, ScrOK
<1> QED BY <1>1, <1>2, <1>5, <1>6

LEMMA ReleaseKeepsTypes ==
    ASSUME TypeInv, NEW t \in TaskIds,
           Release(t) \/ ReleaseStopsRecorder(t) \/ ReleaseEndsUtterance(t)
    PROVE  /\ Keeps /\ WsOK' /\ ws'.opens = ws.opens /\ UNCHANGED rec
           /\ ScrOK' /\ scr'.presses = scr.presses
<1>1. Alive(t) /\ Top(t).fn = "release" /\ UNCHANGED rec
  BY DEF Release, ReleaseStopsRecorder, ReleaseEndsUtterance, At
<1>2. ASSUME UNCHANGED ws
      PROVE  WsOK' /\ ws'.opens = ws.opens
  BY <1>2 DEF TypeInv, WsOK
<1>3. ASSUME UNCHANGED scr
      PROVE  ScrOK' /\ scr'.presses = scr.presses
  BY <1>3 DEF TypeInv, ScrOK
<1>4. CASE Release(t)
  <2>1. Go(t, "cancelled", 0) /\ UNCHANGED <<ws, scr>>
    BY <1>4 DEF Release
  <2>2. Keeps
    BY <1>1, <2>1, GoKeepsTypes DEF Pcs
  <2> QED BY <1>1, <1>2, <1>3, <2>1, <2>2
<1>5. CASE ReleaseStopsRecorder(t)
  <2>1. UNCHANGED ws /\ Enter(t, "recStop", "stopped") /\ scr' = [scr EXCEPT !.audioSub = 0]
    BY <1>5 DEF ReleaseStopsRecorder
  <2>2. Keeps
    BY <1>1, <2>1, ScreenCalls
  <2>3. scr \in ScrRecords
    BY ScrIs
  <2>4. scr' \in ScrRecords
    BY <2>1, <2>3 DEF ScrRecords
  <2>5. scr'.presses = scr.presses /\ scr'.audioSub = 0
    BY <2>1, <2>3 DEF ScrRecords
  <2> QED BY <1>1, <1>2, <2>1, <2>2, <2>4, <2>5, ScrIs, ScrBecomes
<1>6. CASE ReleaseEndsUtterance(t)
  <2>1. UNCHANGED scr
    BY <1>6 DEF ReleaseEndsUtterance
  <2>2. CASE Enter(t, "teardown", "end") /\ UNCHANGED ws
    BY <1>1, <1>2, <1>3, <2>1, <2>2, ScreenCalls
  <2>3. CASE /\ ws.socket # None /\ Return(t, 0)
             /\ ws' = [ws EXCEPT !.server[ws.socket] = IF @ = "opened" THEN "ended" ELSE @]
    <3> DEFINE x == IF ws.server[ws.socket] = "opened" THEN "ended" ELSE ws.server[ws.socket]
               f == [ws.server EXCEPT ![ws.socket] = x]
    <3>1. ws \in WsRecords /\ ws.socket \in 1..ws.opens /\ ws.socket \in Sockets
      BY <2>3, WsIs DEF None
    <3>2. x \in ServerStates
      BY <3>1, WsFields DEF ServerStates
    <3>3. f \in [Sockets -> ServerStates]
      BY <3>1, <3>2, ServerTyped
    <3>4. ws' = [ws EXCEPT !.server = f]
      BY <2>3
    <3> HIDE DEF x, f
    <3>5. ws' = [ws EXCEPT !.server = f, !.heard = ws.heard, !.connected = ws.connected,
                           !.completed = ws.completed, !.pending = ws.pending]
      BY <3>1, <3>4 DEF WsRecords
    <3>6. WsOK' /\ ws'.opens = ws.opens
      BY <3>1, <3>3, <3>5, WsFields, WsHears
    <3>7. Keeps
      BY <1>1, <2>3, ReturnKeepsTypes
    <3> QED BY <1>1, <1>3, <2>1, <3>6, <3>7
  <2> QED BY <1>6, <2>2, <2>3 DEF ReleaseEndsUtterance
<1> QED BY <1>4, <1>5, <1>6

LEMMA TeardownKeepsTypes ==
    ASSUME TypeInv, NEW t \in TaskIds,
           Teardown(t) \/ TeardownStopsRecorder(t) \/ TeardownCancelsText(t)
           \/ TeardownDisconnects(t) \/ TeardownEnds(t)
    PROVE  /\ Keeps /\ WsOK' /\ ws'.opens = ws.opens /\ UNCHANGED rec
           /\ ScrOK' /\ scr'.presses = scr.presses
<1>1. Alive(t) /\ Top(t).fn = "teardown" /\ UNCHANGED rec
  BY DEF Teardown, TeardownStopsRecorder, TeardownCancelsText, TeardownDisconnects,
         TeardownEnds, At
<1>2. ASSUME UNCHANGED ws
      PROVE  WsOK' /\ ws'.opens = ws.opens
  BY <1>2 DEF TypeInv, WsOK
<1>3. ASSUME UNCHANGED scr
      PROVE  ScrOK' /\ scr'.presses = scr.presses
  BY <1>3 DEF TypeInv, ScrOK
<1>4. scr \in ScrRecords
  BY ScrIs
<1>5. CASE Teardown(t)
  <2>1. Go(t, "cancelled", 0) /\ UNCHANGED <<ws, scr>>
    BY <1>5 DEF Teardown
  <2>2. Keeps
    BY <1>1, <2>1, GoKeepsTypes DEF Pcs
  <2> QED BY <1>1, <1>2, <1>3, <2>1, <2>2
<1>6. CASE TeardownStopsRecorder(t)
  <2>1. UNCHANGED ws /\ Enter(t, "recStop", "stopped") /\ scr' = [scr EXCEPT !.audioSub = 0]
    BY <1>6 DEF TeardownStopsRecorder
  <2>2. Keeps
    BY <1>1, <2>1, ScreenCalls
  <2>3. scr' \in ScrRecords
    BY <1>4, <2>1 DEF ScrRecords
  <2>4. scr'.presses = scr.presses /\ scr'.audioSub = 0
    BY <1>4, <2>1 DEF ScrRecords
  <2> QED BY <1>1, <1>2, <2>1, <2>2, <2>3, <2>4, ScrIs, ScrBecomes
<1>7. CASE TeardownCancelsText(t)
  <2> DEFINE l == ws.listeners \ {scr.textSub}
  <2>1. UNCHANGED scr /\ Go(t, "unheard", 0) /\ ws' = [ws EXCEPT !.listeners = l]
    BY <1>7 DEF TeardownCancelsText
  <2>2. Keeps
    BY <1>1, <2>1, GoKeepsTypes DEF Pcs
  <2>3. l \in SUBSET Subs /\ IsFiniteSet(l)
    BY WsIs, WsFields, FS_Subset
  <2> HIDE DEF l
  <2> QED BY <1>1, <1>3, <2>1, <2>2, <2>3, ListenersBecome
<1>8. CASE TeardownDisconnects(t)
  <2>1. UNCHANGED ws /\ Enter(t, "disconnect", "disconnected") /\ scr' = [scr EXCEPT !.textSub = NoSub]
    BY <1>8 DEF TeardownDisconnects
  <2>2. Keeps
    BY <1>1, <2>1, ScreenCalls
  <2>3. NoSub \in Subs
    BY DEF NoSub, Subs
  <2>4. scr' \in ScrRecords
    BY <1>4, <2>1, <2>3 DEF ScrRecords
  <2>5. scr'.presses = scr.presses /\ scr'.audioSub = scr.audioSub
    BY <1>4, <2>1 DEF ScrRecords
  <2> QED BY <1>1, <1>2, <2>1, <2>2, <2>4, <2>5, ScrIs, ScrBecomes
<1>9. CASE TeardownEnds(t)
  <2>1. /\ UNCHANGED ws /\ Return(t, 0)
        /\ scr' = [scr EXCEPT !.wsConn = FALSE, !.ptt = "idle", !.age = "none", !.cooldown = TRUE]
    BY <1>9 DEF TeardownEnds
  <2>2. Keeps
    BY <1>1, <2>1, ReturnKeepsTypes
  <2>3. scr' \in ScrRecords
    BY <1>4, <2>1 DEF ScrRecords
  <2>4. scr'.presses = scr.presses /\ scr'.audioSub = scr.audioSub
    BY <1>4, <2>1 DEF ScrRecords
  <2> QED BY <1>1, <1>2, <2>1, <2>2, <2>3, <2>4, ScrIs, ScrBecomes
<1> QED BY <1>5, <1>6, <1>7, <1>8, <1>9

LEMMA ScreenStepKeepsTypes ==
    ASSUME TypeInv, NEW t \in TaskIds, ScreenStep(t), UNCHANGED <<faults, micFaults>>
    PROVE  TypeInv'
<1>1. ASSUME Keeps, WsOK', ws'.opens = ws.opens, UNCHANGED rec, ScrOK', scr'.presses = scr.presses
      PROVE  TypeInv'
  BY <1>1 DEF TypeInv, Keeps, RecOK
<1>2. ASSUME Keeps, UNCHANGED <<ws, rec>>, ScrOK', scr'.presses = scr.presses
      PROVE  TypeInv'
  BY <1>2 DEF TypeInv, Keeps, RecOK, WsOK
<1> QED BY <1>1, <1>2, PressKeepsTypes, PressConnectedKeepsTypes, ReleaseKeepsTypes,
           TeardownKeepsTypes DEF ScreenStep

LEMMA DeliverTextKeepsTypes ==
    ASSUME TypeInv, DeliverText
    PROVE  TypeInv'
<1> DEFINE p == Tail(ws.pending)
<1>1. /\ ws.pending # <<>> /\ ws' = [ws EXCEPT !.pending = p]
      /\ UNCHANGED <<faults, rec, micFaults>>
  BY DEF DeliverText
<1>2. \/ UNCHANGED <<tasks, scr>>
      \/ /\ CanSpawn /\ tasks' = Spawns(tasks, "teardown", 0)
         /\ scr' = scr \/ scr' = [scr EXCEPT !.wsConn = FALSE]
  BY DEF DeliverText
<1>3. ws \in WsRecords /\ p \in Seq(TextEvents)
  BY <1>1, WsIs, WsFields
<1> HIDE DEF p
<1>4. ws' = [ws EXCEPT !.server = ws.server, !.heard = ws.heard, !.connected = ws.connected,
                       !.completed = ws.completed, !.pending = p]
  BY <1>1, <1>3 DEF WsRecords
<1>5. WsOK' /\ ws'.opens = ws.opens
  BY <1>3, <1>4, WsFields, WsHears
<1>6. Keeps
  <2>1. CASE UNCHANGED tasks
    BY <2>1 DEF TypeInv, Keeps
  <2>2. CASE CanSpawn /\ tasks' = Spawns(tasks, "teardown", 0)
    BY <2>2, SpawnKeepsTypes DEF Bottoms
  <2> QED BY <1>2, <2>1, <2>2
<1>7. ScrOK' /\ scr'.presses = scr.presses
  <2>1. CASE scr' = scr
    BY <2>1 DEF TypeInv, ScrOK
  <2>2. CASE scr' = [scr EXCEPT !.wsConn = FALSE]
    <3>1. scr \in ScrRecords
      BY ScrIs
    <3>2. scr' \in ScrRecords
      BY <2>2, <3>1 DEF ScrRecords
    <3>3. scr'.presses = scr.presses /\ scr'.audioSub = scr.audioSub
      BY <2>2, <3>1 DEF ScrRecords
    <3> QED BY <3>2, <3>3, ScrIs, ScrBecomes
  <2> QED BY <1>2, <2>1, <2>2
<1> QED BY <1>1, <1>5, <1>6, <1>7 DEF TypeInv, Keeps, RecOK

LEMMA PressDownKeepsTypes ==
    ASSUME TypeInv, PressDown
    PROVE  TypeInv'
<1> DEFINE n == scr.presses + 1
<1>1. scr \in ScrRecords /\ UNCHANGED <<ws, faults, rec, micFaults>>
  BY ScrIs DEF PressDown
<1>2. CASE Accepts
  <2>1. /\ CanSpawn /\ tasks' = Spawns(tasks, "press", n)
        /\ scr' = [scr EXCEPT !.finger = "down", !.ptt = "starting", !.age = "short", !.presses = n]
    BY <1>2 DEF PressDown
  <2>2. n \in Nat /\ scr.presses <= n /\ n \in 1..n /\ \A i \in 0..scr.presses : i \in 0..n
    BY ScrIs
  <2> HIDE DEF n
  <2>3. Stacks(tasks, Frames(n, ws.opens, rec.opened))
    BY <2>2, CountsTyped, CountsGrow DEF TypeInv
  <2>4. Stacks(tasks', Frames(n, ws.opens, rec.opened))
    BY <2>1, <2>2, <2>3, CountsTyped, SpawnTyped DEF Bottoms
  <2>5. scr' \in ScrRecords
    BY <1>1, <2>1, <2>2 DEF ScrRecords
  <2>6. scr'.presses = n /\ scr'.audioSub = scr.audioSub
    BY <1>1, <2>1 DEF ScrRecords
  <2>7. ScrOK'
    BY <2>2, <2>5, <2>6, ScrIs DEF ScrOK
  <2> QED BY <1>1, <2>4, <2>6, <2>7 DEF TypeInv, WsOK, RecOK
<1>3. CASE ~Accepts
  <2>1. scr' = [scr EXCEPT !.finger = "down"] /\ UNCHANGED tasks
    BY <1>3 DEF PressDown
  <2>2. scr' \in ScrRecords
    BY <1>1, <2>1 DEF ScrRecords
  <2>3. scr'.presses = scr.presses /\ scr'.audioSub = scr.audioSub
    BY <1>1, <2>1 DEF ScrRecords
  <2>4. ScrOK'
    BY <2>2, <2>3, ScrIs, ScrBecomes
  <2> QED BY <1>1, <2>1, <2>3, <2>4 DEF TypeInv, WsOK, RecOK
<1> QED BY <1>2, <1>3

LEMMA ScreenEventsKeepTypes ==
    ASSUME TypeInv, PressUp \/ PressAges \/ CooldownElapses \/ RunTimesOut
    PROVE  TypeInv'
<1>1. scr \in ScrRecords /\ UNCHANGED <<ws, faults, rec, micFaults>>
  BY ScrIs DEF PressUp, PressAges, CooldownElapses, RunTimesOut
<1>2. \/ UNCHANGED tasks
      \/ CanSpawn /\ tasks' = Spawns(tasks, "teardown", 0)
      \/ CanSpawn /\ tasks' = Spawns(tasks, "release", 0)
  BY DEF PressUp, PressAges, CooldownElapses, RunTimesOut
<1>3. Keeps
  <2>1. ASSUME UNCHANGED tasks
        PROVE  Keeps
    BY <2>1 DEF TypeInv, Keeps
  <2> QED BY <1>2, <2>1, SpawnKeepsTypes DEF Bottoms
<1>4. scr' \in ScrRecords /\ scr'.presses = scr.presses /\ scr'.audioSub = scr.audioSub
  <2>1. CASE PressUp
    <3>1. PICK p \in {"idle", "starting", "recording", "ending", "aborting"} :
             scr' = [scr EXCEPT !.finger = "up", !.ptt = p]
      BY <2>1, ScrIs DEF PressUp
    <3>2. scr' \in ScrRecords
      BY <1>1, <3>1 DEF ScrRecords
    <3> QED BY <1>1, <3>1, <3>2 DEF ScrRecords
  <2>2. CASE PressAges
    <3>1. scr' = [scr EXCEPT !.age = "long"]
      BY <2>2 DEF PressAges
    <3>2. scr' \in ScrRecords
      BY <1>1, <3>1 DEF ScrRecords
    <3> QED BY <1>1, <3>1, <3>2 DEF ScrRecords
  <2>3. CASE CooldownElapses
    <3>1. scr' = [scr EXCEPT !.cooldown = FALSE]
      BY <2>3 DEF CooldownElapses
    <3>2. scr' \in ScrRecords
      BY <1>1, <3>1 DEF ScrRecords
    <3> QED BY <1>1, <3>1, <3>2 DEF ScrRecords
  <2>4. CASE RunTimesOut
    <3> DEFINE n == scr.timeouts + 1
    <3>1. n \in Nat /\ scr' = [scr EXCEPT !.timeouts = n]
      BY <2>4, ScrIs DEF RunTimesOut
    <3> HIDE DEF n
    <3>2. scr' \in ScrRecords
      BY <1>1, <3>1 DEF ScrRecords
    <3> QED BY <1>1, <3>1, <3>2 DEF ScrRecords
  <2> QED BY <2>1, <2>2, <2>3, <2>4
<1>5. ScrOK'
  BY <1>4, ScrIs, ScrBecomes
<1> QED BY <1>1, <1>3, <1>4, <1>5 DEF TypeInv, Keeps, WsOK, RecOK

LEMMA StackThrows ==
    ASSUME NEW F, NEW s, Stack(s, F), s # <<>>, NEW c \in F, c.fn = s[1].fn
    PROVE  Stack([s EXCEPT ![1] = c], F)
<1> DEFINE n == [s EXCEPT ![1] = c]
<1>1. s \in Seq(F) /\ Len(s) \in Nat /\ Len(s) >= 1
  BY DEF Stack
<1>2. n \in Seq(F) /\ Len(n) = Len(s) /\ n[1] = c /\ \A i \in 2..Len(s) : n[i] = s[i]
  BY <1>1
<1> HIDE DEF n
<1>3. n[Len(n)].fn = s[Len(s)].fn
  BY <1>1, <1>2
<1>4. ASSUME NEW i \in 1..(Len(s) - 1)
      PROVE  Over(n[i].fn, n[i + 1]) /\ n[i + 1].exc = "none"
  <2>1. n[i].fn = s[i].fn
    BY <1>1, <1>2
  <2>2. n[i + 1] = s[i + 1]
    BY <1>1, <1>2
  <2> QED BY <2>1, <2>2 DEF Stack
<1>5. Stack(n, F)
  BY <1>1, <1>2, <1>3, <1>4 DEF Stack
<1> QED BY <1>5 DEF n

LEMMA SessionAnsweredKeepsTypes ==
    ASSUME TypeInv, NEW t \in TaskIds, SessionAnswered(t)
    PROVE  TypeInv'
<1> DEFINE F == Frames(scr.presses, ws.opens, rec.opened)
<1>1. /\ Alive(t) /\ Top(t).fn = "press" /\ UNCHANGED <<ws, rec, micFaults, scr>>
  BY DEF SessionAnswered, At
<1>2. CASE Go(t, "created", Top(t).x) /\ UNCHANGED faults
  <2>1. Top(t).x \in 1..scr.presses /\ Top(t).x \in Nat
    BY <1>1, PressTop
  <2>2. Place(Top(t).fn, "created", Top(t).x, scr.presses, ws.opens, rec.opened)
    BY <1>1, <2>1 DEF Place, Fns, Pcs
  <2>3. Keeps
    BY <1>1, <1>2, <2>1, <2>2, GoKeepsTypes DEF Pcs
  <2> QED BY <1>1, <1>2, <2>3 DEF TypeInv, Keeps, WsOK, RecOK, ScrOK
<1>3. CASE Fail /\ tasks' = [tasks EXCEPT ![t][1].exc = "session"]
  <2> DEFINE s == tasks[t]
             c == [s[1] EXCEPT !.exc = "session"]
  <2>1. Stacks(tasks, F)
    BY DEF TypeInv
  <2> HIDE DEF F
  <2>2. Stack(s, F) /\ s # <<>> /\ s \in Seq(F) /\ t \in DOMAIN tasks /\ Top(t) = s[1] /\ s[1] \in F
    BY <1>1, <2>1, TopIs
  <2>3. c \in F /\ c.fn = s[1].fn
    <3>1. "session" \in Excs
      BY DEF Excs
    <3> HIDE DEF s
    <3> QED BY <2>2, <3>1, ExcTyped, CountsTyped DEF F
  <2>4. tasks' = [tasks EXCEPT ![t] = [s EXCEPT ![1] = c]]
    BY <1>3, <2>2
  <2> HIDE DEF c, s
  <2>5. Stack([s EXCEPT ![1] = c], F)
    BY <2>2, <2>3, StackThrows
  <2>6. Stacks(tasks', F)
    BY <2>1, <2>4, <2>5, PutsStacks DEF Puts
  <2>7. faults' \in Nat
    BY <1>3, FailTyped
  <2> QED BY <1>1, <2>6, <2>7 DEF TypeInv, WsOK, RecOK, ScrOK, F
<1> QED BY <1>2, <1>3 DEF SessionAnswered

LEMMA TypeInvStarts ==
    ASSUME Init
    PROVE  TypeInv
<1>1. IsFiniteSet({})
  BY FS_EmptySet
<1>2. WsOK
  <2>1. ws \in WsRecords
    BY DEF Init, WsInit, WsRecords, None, Completions, ServerStates
  <2>2. MaxSockets \in Nat
    BY WsAssumption
  <2> QED BY <1>1, <2>1, <2>2 DEF Init, WsInit, WsOK, None
<1>3. RecOK
  BY DEF Init, RecInit, RecOK, RecRecords, NoStream
<1>4. ScrOK
  BY DEF Init, ScrOK, ScrRecords, Subs, NoSub
<1>5. Stacks(tasks, Frames(scr.presses, ws.opens, rec.opened))
  <2>1. \A F : Stack(<<>>, F)
    BY DEF Stack
  <2>2. tasks = [t \in TaskIds |-> <<>>]
    BY DEF Init
  <2> QED BY <2>1, <2>2 DEF Stacks
<1> QED BY <1>2, <1>3, <1>4, <1>5 DEF Init, WsInit, RecInit, TypeInv

LEMMA TypeInvStays ==
    ASSUME TypeInv, [Next]_vars
    PROVE  TypeInv'
<1>1. ASSUME UNCHANGED vars
      PROVE  TypeInv'
  BY <1>1 DEF TypeInv, WsOK, RecOK, ScrOK, vars
<1>2. ASSUME Step
      PROVE  TypeInv'
  BY <1>2, WsStepKeepsTypes, RecStepKeepsTypes, ScreenStepKeepsTypes, InputClosedKeepsTypes,
     DeliverTextKeepsTypes DEF Step
<1>3. ASSUME Event
      PROVE  TypeInv'
  BY <1>3, WsEventKeepsTypes, RecEventKeepsTypes, SessionAnsweredKeepsTypes,
     PressDownKeepsTypes, ScreenEventsKeepTypes DEF Event
<1> QED BY <1>1, <1>2, <1>3 DEF Next

LEMMA TypeInvHolds == Spec => []TypeInv
BY TypeInvStarts, TypeInvStays, PTL DEF Spec

\* The types of the screen, the connection, the recorder and the calls, for any
\* number of tasks, presses, attempts and failures: an exception is on its way
\* only out of the running call, and what is used was made before.
THEOREM PushToTalkTypeOK == Spec => []TypeOK
<1>1. ASSUME TypeInv
      PROVE  TypeOK
  <2>1. \A t \in TaskIds : \A i \in DOMAIN tasks[t] : tasks[t][i].exc = "none" \/ i = 1
    <3> DEFINE F == Frames(scr.presses, ws.opens, rec.opened)
    <3> SUFFICES ASSUME NEW t \in TaskIds, NEW i \in DOMAIN tasks[t], i # 1
                 PROVE  tasks[t][i].exc = "none"
      OBVIOUS
    <3>1. Stack(tasks[t], F)
      BY <1>1 DEF TypeInv, Stacks
    <3> HIDE DEF F
    <3>2. tasks[t] \in Seq(F)
      BY <3>1 DEF Stack
    <3>3. i \in 1..Len(tasks[t]) /\ Len(tasks[t]) \in Nat
      BY <3>2
    <3>4. i - 1 \in 1..(Len(tasks[t]) - 1) /\ (i - 1) + 1 = i
      BY <3>3
    <3> QED BY <3>1, <3>4 DEF Stack
  <2>2. ws.completed \in {"no", "ok", "transport", "translatorWs"}
    BY <1>1, WsIs, WsFields DEF Completions
  <2> QED BY <1>1, <2>1, <2>2, ScrIs, WsIs, RecIs DEF TypeOK
<1> QED BY <1>1, TypeInvHolds, PTL

----------------------------------------------------------------------------
\* How a step of a task changes its calls.

\* The running call of t is f now, on top of calls of new; the calls of gone
\* are changed or have ended.
Shows(t, f, new, gone) ==
    /\ tasks'[t] # <<>> /\ tasks'[t][1] = f
    /\ On(tasks'[t]) \subseteq On(tasks[t]) \cup new
    /\ new \subseteq On(tasks'[t])
    /\ On(tasks[t]) \subseteq On(tasks'[t]) \cup gone
    /\ \A u \in TaskIds \ {t} : tasks'[u] = tasks[u]

\* The same of the stacks s and n.
Turns(s, n, f, new, gone) ==
    /\ n # <<>> /\ n[1] = f
    /\ On(n) \subseteq On(s) \cup new
    /\ new \subseteq On(n)
    /\ On(s) \subseteq On(n) \cup gone

LEMMA GoneTurns ==
    ASSUME NEW F, NEW s \in Seq(F), s # <<>>, NEW c
    PROVE  Turns(s, <<c>> \o Tail(s), c, {c}, {s[1]})
<1> DEFINE n == <<c>> \o Tail(s)
<1>1. s \in Seq(F \cup {c}) /\ Len(s) \in Nat /\ Len(s) >= 1
  OBVIOUS
<1>2. /\ n \in Seq(F \cup {c}) /\ Len(n) = Len(s) /\ n[1] = c
      /\ \A i \in 2..Len(s) : n[i] = s[i]
  BY <1>1
<1>3. DOMAIN n = 1..Len(s) /\ DOMAIN s = 1..Len(s) /\ n # <<>>
  BY <1>1, <1>2
<1> HIDE DEF n
<1>4. \A i \in 1..Len(s) : i = 1 \/ i \in 2..Len(s)
  BY <1>1
<1>5. 1 \in DOMAIN n /\ 1 \in DOMAIN s
  BY <1>1, <1>3
<1>6. On(n) \subseteq On(s) \cup {c} /\ {c} \subseteq On(n) /\ On(s) \subseteq On(n) \cup {s[1]}
  BY <1>2, <1>3, <1>4, <1>5 DEF On
<1>7. Turns(s, n, c, {c}, {s[1]})
  BY <1>2, <1>3, <1>6 DEF Turns
<1> QED BY <1>7 DEF n

LEMMA CalledTurns ==
    ASSUME NEW F, NEW s \in Seq(F), s # <<>>, NEW c, NEW d
    PROVE  Turns(s, <<c, d>> \o Tail(s), c, {c, d}, {s[1]})
<1> DEFINE n == <<c, d>> \o Tail(s)
<1>1. s \in Seq(F \cup {c, d}) /\ Len(s) \in Nat /\ Len(s) >= 1
  OBVIOUS
<1>2. /\ n \in Seq(F \cup {c, d}) /\ Len(n) = Len(s) + 1 /\ n[1] = c /\ n[2] = d
      /\ \A i \in 2..Len(s) : n[i + 1] = s[i]
  BY <1>1
<1>3. DOMAIN n = 1..(Len(s) + 1) /\ DOMAIN s = 1..Len(s) /\ n # <<>>
  BY <1>1, <1>2
<1> HIDE DEF n
<1>4. \A i \in DOMAIN n : i = 1 \/ i = 2 \/ (i - 1 \in 2..Len(s) /\ (i - 1) + 1 = i)
  BY <1>1, <1>3
<1>5. \A i \in DOMAIN s : i = 1 \/ (i \in 2..Len(s) /\ i + 1 \in DOMAIN n)
  BY <1>1, <1>3
<1>6. 1 \in DOMAIN n /\ 2 \in DOMAIN n /\ 1 \in DOMAIN s /\ \A i \in 2..Len(s) : i \in DOMAIN s
  BY <1>1, <1>3
<1>7. ASSUME NEW i \in DOMAIN n
      PROVE  n[i] \in On(s) \cup {c, d}
  <2>1. CASE i = 1 \/ i = 2
    BY <1>2, <2>1
  <2>2. CASE i - 1 \in 2..Len(s) /\ (i - 1) + 1 = i
    BY <1>2, <1>6, <2>2 DEF On
  <2> QED BY <1>4, <2>1, <2>2
<1>8. ASSUME NEW i \in DOMAIN s
      PROVE  s[i] \in On(n) \cup {s[1]}
  BY <1>2, <1>5 DEF On
<1>9. {c, d} \subseteq On(n)
  BY <1>2, <1>6 DEF On
<1>10. Turns(s, n, c, {c, d}, {s[1]})
  <2>1. On(n) \subseteq On(s) \cup {c, d}
    BY <1>7 DEF On
  <2>2. On(s) \subseteq On(n) \cup {s[1]}
    BY <1>8 DEF On
  <2> QED BY <1>2, <1>3, <1>9, <2>1, <2>2 DEF Turns
<1> QED BY <1>10 DEF n

LEMMA PoppedTurns ==
    ASSUME NEW F, NEW s \in Seq(F), s # <<>>, Tail(s) # <<>>, NEW d
    PROVE  /\ Turns(s, <<d>> \o Tail(Tail(s)), d, {d}, {s[1], s[2]})
           /\ s[1] \in On(s) /\ s[2] \in On(s)
<1> DEFINE n == <<d>> \o Tail(Tail(s))
<1>1. s \in Seq(F \cup {d}) /\ Len(s) \in Nat /\ Len(s) >= 2
  OBVIOUS
<1>2. /\ n \in Seq(F \cup {d}) /\ Len(n) = Len(s) - 1 /\ n[1] = d
      /\ \A i \in 2..(Len(s) - 1) : n[i] = s[i + 1]
  BY <1>1
<1>3. DOMAIN n = 1..(Len(s) - 1) /\ DOMAIN s = 1..Len(s) /\ n # <<>>
  BY <1>1, <1>2
<1> HIDE DEF n
<1>4. \A i \in DOMAIN n : i = 1 \/ (i \in 2..(Len(s) - 1) /\ i + 1 \in DOMAIN s)
  BY <1>1, <1>3
<1>5. \A i \in DOMAIN s : i = 1 \/ i = 2 \/ (/\ i - 1 \in 2..(Len(s) - 1) /\ (i - 1) + 1 = i
                                             /\ i - 1 \in DOMAIN n)
  BY <1>1, <1>3
<1>6. 1 \in DOMAIN n /\ 1 \in DOMAIN s /\ 2 \in DOMAIN s
  BY <1>1, <1>3
<1>7. On(n) \subseteq On(s) \cup {d}
  BY <1>2, <1>4 DEF On
<1>8. ASSUME NEW i \in DOMAIN s
      PROVE  s[i] \in On(n) \cup {s[1], s[2]}
  <2>1. CASE i = 1 \/ i = 2
    BY <2>1
  <2>2. CASE i - 1 \in 2..(Len(s) - 1) /\ (i - 1) + 1 = i /\ i - 1 \in DOMAIN n
    BY <1>2, <2>2 DEF On
  <2> QED BY <1>5, <2>1, <2>2
<1>9. {d} \subseteq On(n) /\ s[1] \in On(s) /\ s[2] \in On(s)
  BY <1>2, <1>6 DEF On
<1>10. Turns(s, n, d, {d}, {s[1], s[2]})
  <2>1. On(s) \subseteq On(n) \cup {s[1], s[2]}
    BY <1>8 DEF On
  <2> QED BY <1>2, <1>3, <1>7, <1>9, <2>1 DEF Turns
<1> QED BY <1>9, <1>10 DEF n

LEMMA PutsShows ==
    ASSUME NEW t \in TaskIds, t \in DOMAIN tasks, NEW n, Puts(t, n), NEW f, NEW new, NEW gone,
           Turns(tasks[t], n, f, new, gone)
    PROVE  Shows(t, f, new, gone)
<1>1. tasks'[t] = n /\ \A u \in TaskIds \ {t} : tasks'[u] = tasks[u]
  BY DEF Puts
<1> QED BY <1>1 DEF Shows, Turns

----------------------------------------------------------------------------
\* The same for the four ways to go on, of tasks that are typed.

LEMMA TopOf ==
    ASSUME TypeInv, NEW t \in TaskIds, Alive(t)
    PROVE  \E F : /\ F \subseteq CallFrames /\ Stacks(tasks, F)
                  /\ t \in DOMAIN tasks /\ Stack(tasks[t], F) /\ tasks[t] # <<>>
                  /\ tasks[t] \in Seq(F) /\ Top(t) = tasks[t][1] /\ Top(t) \in F
                  /\ Tail(tasks[t]) = <<>> => Top(t).fn \in Bottoms
                  /\ Tail(tasks[t]) # <<>> => /\ tasks[t][2] \in F
                                              /\ Over(Top(t).fn, tasks[t][2])
                                              /\ tasks[t][2].exc = "none"
<1> DEFINE F == Frames(scr.presses, ws.opens, rec.opened)
<1>1. Stacks(tasks, F) /\ F \subseteq CallFrames
  BY DEF TypeInv, Frames
<1> HIDE DEF F
<1> QED BY <1>1, TopIs

LEMMA GoShows ==
    ASSUME TypeInv, NEW t \in TaskIds, Alive(t), NEW pc, NEW x, Go(t, pc, x)
    PROVE  \E f : f = Call(Top(t).fn, pc, x) /\ Shows(t, f, {f}, {Top(t)})
<1>1. PICK F : /\ t \in DOMAIN tasks /\ tasks[t] # <<>>
               /\ tasks[t] \in Seq(F) /\ Top(t) = tasks[t][1]
  BY TopOf
<1> DEFINE f == Call(Top(t).fn, pc, x)
<1>2. Puts(t, <<f>> \o Tail(tasks[t]))
  BY <1>1, GoPuts DEF Gone
<1> HIDE DEF f
<1>3. Shows(t, f, {f}, {Top(t)})
  BY <1>1, <1>2, GoneTurns, PutsShows
<1> QED BY <1>3 DEF f

LEMMA EnterShows ==
    ASSUME TypeInv, NEW t \in TaskIds, Alive(t), NEW fn, NEW pc, Enter(t, fn, pc)
    PROVE  \E f, g : /\ f = Call(fn, "start", 0) /\ g = Call(Top(t).fn, pc, Top(t).x)
                     /\ Shows(t, f, {f, g}, {Top(t)})
<1>1. PICK F : /\ t \in DOMAIN tasks /\ tasks[t] # <<>>
               /\ tasks[t] \in Seq(F) /\ Top(t) = tasks[t][1]
  BY TopOf
<1> DEFINE f == Call(fn, "start", 0)
           g == Call(Top(t).fn, pc, Top(t).x)
<1>2. Puts(t, <<f, g>> \o Tail(tasks[t]))
  BY <1>1, EnterPuts DEF Called
<1> HIDE DEF f, g
<1>3. Shows(t, f, {f, g}, {Top(t)})
  BY <1>1, <1>2, CalledTurns, PutsShows
<1> QED BY <1>3 DEF f, g

\* The call that t returns to is g before and f after.
LEMMA ReturnShows ==
    ASSUME TypeInv, NEW t \in TaskIds, Alive(t), NEW val \in Nat, Return(t, val)
    PROVE  \/ /\ Top(t).fn \in Bottoms /\ On(tasks[t]) = {Top(t)}
              /\ Puts(t, <<>>)
           \/ \E f, g : /\ Over(Top(t).fn, g) /\ g \in On(tasks[t]) /\ g.exc = "none"
                        /\ f.fn = g.fn /\ f.pc = g.pc /\ f.x = g.x /\ f.exc = "none" /\ f.val = val
                        /\ Shows(t, f, {f}, {Top(t), g})
<1>1. PICK F : /\ F \subseteq CallFrames
               /\ t \in DOMAIN tasks /\ tasks[t] # <<>> /\ tasks[t] \in Seq(F)
               /\ Top(t) = tasks[t][1]
               /\ Tail(tasks[t]) = <<>> => Top(t).fn \in Bottoms
               /\ Tail(tasks[t]) # <<>> => /\ tasks[t][2] \in F
                                           /\ Over(Top(t).fn, tasks[t][2])
                                           /\ tasks[t][2].exc = "none"
  BY TopOf
<1> DEFINE g == tasks[t][2]
           f == [g EXCEPT !.val = val]
<1>2. Puts(t, Popped(tasks[t], f))
  BY <1>1, ReturnPuts
<1>3. CASE Tail(tasks[t]) = <<>>
  <2>1. Len(tasks[t]) = 1
    BY <1>1, <1>3, LoneCall
  <2>2. DOMAIN tasks[t] = {1}
    BY <1>1, <2>1
  <2>3. On(tasks[t]) = {Top(t)}
    BY <1>1, <2>2 DEF On
  <2>4. Puts(t, <<>>)
    BY <1>2, <1>3 DEF Popped
  <2> QED BY <1>1, <1>3, <2>3, <2>4
<1>4. CASE Tail(tasks[t]) # <<>>
  <2>1. Puts(t, <<f>> \o Tail(Tail(tasks[t])))
    BY <1>2, <1>4 DEF Popped
  <2>2. g \in CallFrames
    BY <1>1, <1>4
  <2>3. f.fn = g.fn /\ f.pc = g.pc /\ f.x = g.x /\ f.exc = "none" /\ f.val = val
    BY <1>1, <1>4, <2>2, FrameGetsVal
  <2> HIDE DEF f
  <2>4. Turns(tasks[t], <<f>> \o Tail(Tail(tasks[t])), f, {f}, {Top(t), g}) /\ g \in On(tasks[t])
    BY <1>1, <1>4, PoppedTurns
  <2>5. Shows(t, f, {f}, {Top(t), g})
    BY <1>1, <2>1, <2>4, PutsShows
  <2> QED BY <1>1, <1>4, <2>3, <2>4, <2>5
<1> QED BY <1>3, <1>4

LEMMA ThrowShows ==
    ASSUME TypeInv, NEW t \in TaskIds, Alive(t), NEW exc \in Excs, Throw(t, exc),
           Top(t).fn \notin Bottoms
    PROVE  \E f, g : /\ Over(Top(t).fn, g) /\ g \in On(tasks[t]) /\ g.exc = "none"
                     /\ f.fn = g.fn /\ f.pc = g.pc /\ f.x = g.x /\ f.exc = exc
                     /\ Shows(t, f, {f}, {Top(t), g})
<1>1. PICK F : /\ F \subseteq CallFrames
               /\ t \in DOMAIN tasks /\ tasks[t] # <<>> /\ tasks[t] \in Seq(F)
               /\ Top(t) = tasks[t][1]
               /\ Tail(tasks[t]) = <<>> => Top(t).fn \in Bottoms
               /\ Tail(tasks[t]) # <<>> => /\ tasks[t][2] \in F
                                           /\ Over(Top(t).fn, tasks[t][2])
                                           /\ tasks[t][2].exc = "none"
  BY TopOf
<1> DEFINE g == tasks[t][2]
           f == [g EXCEPT !.exc = exc]
<1>2. Tail(tasks[t]) # <<>> /\ g \in CallFrames
  BY <1>1
<1>3. Puts(t, <<f>> \o Tail(Tail(tasks[t])))
  BY <1>1, <1>2, ThrowPuts DEF Popped
<1>4. f.fn = g.fn /\ f.pc = g.pc /\ f.x = g.x /\ f.exc = exc
  BY <1>2, FrameGetsExc
<1> HIDE DEF f
<1>5. Turns(tasks[t], <<f>> \o Tail(Tail(tasks[t])), f, {f}, {Top(t), g}) /\ g \in On(tasks[t])
  BY <1>1, <1>2, PoppedTurns
<1>6. Shows(t, f, {f}, {Top(t), g})
  BY <1>1, <1>3, <1>5, PutsShows
<1> QED BY <1>1, <1>2, <1>4, <1>5, <1>6

LEMMA TopOn ==
    ASSUME TypeInv, NEW t \in TaskIds, Alive(t)
    PROVE  /\ Top(t) = tasks[t][1] /\ Top(t) \in On(tasks[t]) /\ Top(t) \in CallFrames
           /\ tasks[t] # <<>>
<1>1. PICK F : /\ F \subseteq CallFrames /\ tasks[t] # <<>> /\ tasks[t] \in Seq(F)
               /\ Top(t) = tasks[t][1] /\ Top(t) \in F
  BY TopOf
<1>2. 1 \in DOMAIN tasks[t]
  BY <1>1
<1> QED BY <1>1, <1>2 DEF On

\* Going on first, and then calling.
LEMMA CallsOnPuts ==
    ASSUME NEW F, Stacks(tasks, F), NEW t \in TaskIds, Alive(t), NEW x, NEW fn, NEW pc,
           NEW q, tasks' = Calls(GoesTo(tasks, t, q, x), t, fn, pc)
    PROVE  Puts(t, <<Call(fn, "start", 0), Call(Top(t).fn, pc, x)>> \o Tail(tasks[t]))
<1> DEFINE s == tasks[t]
           g == Call(Top(t).fn, q, x)
           u == <<g>> \o Tail(s)
           c == Call(fn, "start", 0)
           d == Call(Top(t).fn, pc, x)
<1>1. s # <<>> /\ s \in Seq(F) /\ t \in DOMAIN tasks /\ Head(s) = Top(t)
  BY TopIs DEF Top
<1>2. GoesTo(tasks, t, q, x) = [tasks EXCEPT ![t] = u]
  BY <1>1 DEF GoesTo
<1>3. Tail(s) \in Seq(F)
  BY <1>1
<1>4. Head(u) = g /\ Tail(u) = Tail(s)
  <2> HIDE DEF g, s
  <2> QED BY <1>3
<1>5. g.fn = Top(t).fn /\ g.x = x
  BY CallFields
<1>6. Call(Head(u).fn, pc, Head(u).x) = d
  BY <1>4, <1>5
<1> HIDE DEF g, u
<1>7. tasks' = [[tasks EXCEPT ![t] = u] EXCEPT ![t] = <<c, d>> \o Tail(u)]
  BY <1>1, <1>2, <1>6 DEF Calls
<1> QED BY <1>1, <1>4, <1>7 DEF Puts

LEMMA CallsOnShows ==
    ASSUME TypeInv, NEW t \in TaskIds, Alive(t), NEW x, NEW fn, NEW pc, NEW q,
           tasks' = Calls(GoesTo(tasks, t, q, x), t, fn, pc),
           NEW f, f = Call(fn, "start", 0), NEW g, g = Call(Top(t).fn, pc, x)
    PROVE  Shows(t, f, {f, g}, {Top(t)})
<1>1. PICK F : /\ Stacks(tasks, F) /\ t \in DOMAIN tasks /\ tasks[t] # <<>>
               /\ tasks[t] \in Seq(F) /\ Top(t) = tasks[t][1]
  BY TopOf
<1>2. Puts(t, <<f, g>> \o Tail(tasks[t]))
  BY <1>1, CallsOnPuts
<1> QED BY <1>1, <1>2, CalledTurns, PutsShows

----------------------------------------------------------------------------
\* A teardown once under way is there until it has ended.

LEMMA DoomMoves ==
    ASSUME NEW t \in TaskIds, NEW f, NEW new, NEW gone, Shows(t, f, new, gone), HasDoom(tasks),
           \A g \in gone : IsDoom(g) => \E h \in new : IsDoom(h)
    PROVE  HasDoom(tasks')
<1>1. PICK u \in TaskIds : \E g \in On(tasks[u]) : IsDoom(g)
  BY DEF HasDoom
<1>2. CASE u # t
  <2>1. tasks'[u] = tasks[u]
    BY <1>2 DEF Shows
  <2> QED BY <1>1, <2>1 DEF HasDoom
<1>3. CASE u = t
  <2>1. \E h \in On(tasks'[t]) : IsDoom(h)
    BY <1>1, <1>3 DEF Shows
  <2> QED BY <2>1 DEF HasDoom
<1> QED BY <1>2, <1>3

\* t goes on in one of the ways a call can.
Moves(t) ==
    \/ \E pc, x : Go(t, pc, x)
    \/ \E fn, pc : Enter(t, fn, pc)
    \/ \E val \in Nat : Return(t, val)
    \/ \E exc \in Excs : Throw(t, exc) /\ Top(t).fn \notin Bottoms

LEMMA OthersMove ==
    ASSUME TypeInv, NEW t \in TaskIds, Alive(t), ~IsDoom(Top(t)), Moves(t), HasDoom(tasks)
    PROVE  HasDoom(tasks')
<1>1. ASSUME NEW pc, NEW x, Go(t, pc, x)
      PROVE  HasDoom(tasks')
  <2>1. PICK f : Shows(t, f, {f}, {Top(t)})
    BY <1>1, GoShows
  <2> QED BY <2>1, DoomMoves
<1>2. ASSUME NEW fn, NEW pc, Enter(t, fn, pc)
      PROVE  HasDoom(tasks')
  <2>1. PICK f, g : Shows(t, f, {f, g}, {Top(t)})
    BY <1>2, EnterShows
  <2> QED BY <2>1, DoomMoves
<1>3. ASSUME NEW val \in Nat, Return(t, val)
      PROVE  HasDoom(tasks')
  <2>1. CASE On(tasks[t]) = {Top(t)} /\ Puts(t, <<>>)
    <3>1. PICK u \in TaskIds : \E g \in On(tasks[u]) : IsDoom(g)
      BY DEF HasDoom
    <3>2. u # t
      BY <2>1, <3>1
    <3>3. tasks'[u] = tasks[u]
      BY <2>1, <3>2 DEF Puts
    <3> QED BY <3>1, <3>3 DEF HasDoom
  <2>2. ASSUME NEW f, NEW g, g.exc = "none", f.fn = g.fn, f.pc = g.pc,
               Shows(t, f, {f}, {Top(t), g})
        PROVE  HasDoom(tasks')
    <3>1. IsDoom(g) => IsDoom(f)
      BY <2>2 DEF IsDoom
    <3> QED BY <2>2, <3>1, DoomMoves
  <2> QED BY <1>3, <2>1, <2>2, ReturnShows
<1>4. ASSUME NEW exc \in Excs, Throw(t, exc), Top(t).fn \notin Bottoms
      PROVE  HasDoom(tasks')
  <2>1. PICK f, g : /\ g.exc = "none" /\ f.fn = g.fn /\ f.pc = g.pc
                    /\ Shows(t, f, {f}, {Top(t), g})
    BY <1>4, ThrowShows
  <2>2. IsDoom(g) => IsDoom(f)
    BY <2>1 DEF IsDoom
  <2> QED BY <2>1, <2>2, DoomMoves
<1> QED BY <1>1, <1>2, <1>3, <1>4 DEF Moves

LEMMA AtDoom ==
    ASSUME NEW t, NEW fn, NEW pc, At(t, fn, pc), IsDoom(Top(t))
    PROVE  fn = "teardown" \/ (fn = "connect" /\ pc = "rethrow")
BY DEF At, IsDoom

LEMMA WsStepKeepsDoom ==
    ASSUME TypeInv, NEW t \in TaskIds, WsStep(t), HasDoom(tasks)
    PROVE  HasDoom(tasks')
<1>0. ws.completed \in Completions
  BY WsIs, WsFields
<1>1. CASE ConnectFails(t)
  <2>1. Alive(t) /\ Top(t).fn = "connect"
    BY <1>1 DEF ConnectFails, Caught
  <2>2. PICK pc : Enter(t, "reset", pc) /\ (Top(t).exc = "translatorWs" => pc = "rethrow")
    BY <1>1 DEF ConnectFails
  <2>3. PICK f, g : /\ f = Call("reset", "start", 0) /\ g = Call(Top(t).fn, pc, Top(t).x)
                    /\ Shows(t, f, {f, g}, {Top(t)})
    BY <2>1, <2>2, EnterShows
  <2>4. Top(t).pc = "returned" /\ g.fn = "connect" /\ g.pc = pc
    BY <1>1, <2>1, <2>3, CallFields DEF ConnectFails, Caught
  <2>5. IsDoom(Top(t)) => IsDoom(g)
    BY <2>1, <2>2, <2>4 DEF IsDoom
  <2> QED BY <2>3, <2>5, DoomMoves
<1>2. CASE ConnectGivesUp(t)
  <2>1. Alive(t) /\ Top(t).fn = "connect" /\ Throw(t, "translatorWs")
    BY <1>2 DEF ConnectGivesUp, At
  <2>2. "translatorWs" \in Excs /\ Top(t).fn \notin Bottoms
    BY <2>1 DEF Excs, Bottoms
  <2>3. PICK f, g : /\ Over(Top(t).fn, g) /\ f.fn = g.fn /\ f.exc = "translatorWs"
                    /\ Shows(t, f, {f}, {Top(t), g})
    BY <2>1, <2>2, ThrowShows
  <2>4. IsDoom(f)
    BY <2>1, <2>3 DEF Over, IsDoom
  <2> QED BY <2>3, <2>4, DoomMoves
<1>3. ASSUME ~ConnectFails(t), ~ConnectGivesUp(t)
      PROVE  Alive(t) /\ ~IsDoom(Top(t)) /\ Moves(t)
  <2>1. CASE Connect(t) \/ ConnectReturns(t) \/ ConnectBacksOff(t) \/ ConnectAgain(t)
    BY <2>1, AtDoom DEF Connect, ConnectReturns, ConnectBacksOff, ConnectAgain, Moves, At,
       Excs, Bottoms
  <2>2. CASE OpenSocket(t) \/ KeepSocket(t) \/ OpenDone(t)
    BY <2>2, AtDoom DEF OpenSocket, KeepSocket, OpenDone, Moves, At
  <2>3. CASE ListenAndStart(t)
    BY <1>0, <2>3, AtDoom DEF ListenAndStart, Moves, At, Excs, Bottoms, Completions
  <2>4. ASSUME NEW fn \in Closers,
               StartClose(t, fn) \/ CloseSocket(t, fn) \/ CloseText(t, fn) \/ EndClose(t, fn)
        PROVE  Alive(t) /\ ~IsDoom(Top(t)) /\ Moves(t)
    BY <2>4, AtDoom DEF StartClose, CloseSocket, CloseText, EndClose, Moves, At, Closers
  <2> QED BY <1>3, <2>1, <2>2, <2>3, <2>4 DEF WsStep
<1> QED BY <1>1, <1>2, <1>3, OthersMove

LEMMA RecStepKeepsDoom ==
    ASSUME TypeInv, NEW t \in TaskIds, RecStep(t), HasDoom(tasks)
    PROVE  HasDoom(tasks')
<1>1. CASE RecStart(t) /\ ~rec.recording
  <2>1. Alive(t) /\ ~IsDoom(Top(t))
    BY <1>1, AtDoom DEF RecStart, At
  <2>2. PICK x : tasks' = Calls(GoesTo(tasks, t, "start", x), t, "drvStart", "started")
    BY <1>1 DEF RecStart
  <2>3. PICK f, g : f = Call("drvStart", "start", 0) /\ g = Call(Top(t).fn, "started", x)
    OBVIOUS
  <2>4. Shows(t, f, {f, g}, {Top(t)})
    BY <2>1, <2>2, <2>3, CallsOnShows
  <2> QED BY <2>1, <2>4, DoomMoves
<1>2. ASSUME ~(RecStart(t) /\ ~rec.recording)
      PROVE  Alive(t) /\ ~IsDoom(Top(t)) /\ Moves(t)
  <2>0. rec.chunks \in Nat /\ (Alive(t) => Top(t).x \in Nat)
    BY RecIs, TopTyped
  <2>1. CASE RecStart(t) \/ RecStarted(t)
    BY <1>2, <2>0, <2>1, AtDoom DEF RecStart, RecStarted, Moves, At, Excs, Bottoms
  <2>2. CASE RecStartFails(t)
    BY <2>2, AtDoom DEF RecStartFails, Moves, At, Caught, IsDoom, Excs, Bottoms
  <2>3. CASE RecStop(t) \/ RecStopDriver(t) \/ RecStopped(t)
    BY <2>3, AtDoom DEF RecStop, RecStopDriver, RecStopped, Moves, At
  <2>4. CASE DrvStart(t) \/ DrvOpen(t) \/ DrvStarted(t)
    BY <2>0, <2>4, AtDoom DEF DrvStart, DrvOpen, DrvStarted, Moves, At
  <2>5. CASE DrvStartFails(t)
    BY <2>5, AtDoom DEF DrvStartFails, Moves, At, Excs, Bottoms
  <2>6. CASE DrvStop(t) \/ DrvCloseInput(t) \/ DrvStopped(t)
    BY <2>6, AtDoom DEF DrvStop, DrvCloseInput, DrvStopped, Moves, At
  <2> QED BY <2>1, <2>2, <2>3, <2>4, <2>5, <2>6 DEF RecStep
<1> QED BY <1>1, <1>2, OthersMove

LEMMA ZeroIsNat == 0 \in Nat
OBVIOUS

LEMMA ScreenStepKeepsDoom ==
    ASSUME TypeInv, NEW t \in TaskIds, ScreenStep(t), ~TeardownEnds(t), HasDoom(tasks)
    PROVE  HasDoom(tasks')
<1>1. CASE PressFails(t)
  <2>1. Alive(t) /\ Enter(t, "teardown", "end")
    BY <1>1 DEF PressFails, Caught
  <2>2. PICK f, g : f = Call("teardown", "start", 0) /\ Shows(t, f, {f, g}, {Top(t)})
    BY <2>1, EnterShows
  <2>3. IsDoom(f)
    BY <2>2, CallFields DEF IsDoom
  <2> QED BY <2>2, <2>3, DoomMoves
<1>2. CASE Teardown(t) \/ TeardownCancelsText(t)
  <2>1. Alive(t) /\ Top(t).fn = "teardown"
    BY <1>2 DEF Teardown, TeardownCancelsText, At
  <2>2. PICK pc : Go(t, pc, 0)
    BY <1>2 DEF Teardown, TeardownCancelsText
  <2>3. PICK f : f = Call(Top(t).fn, pc, 0) /\ Shows(t, f, {f}, {Top(t)})
    BY <2>1, <2>2, GoShows
  <2> QED BY <2>1, <2>3, CallFields, DoomMoves DEF IsDoom
<1>3. CASE TeardownStopsRecorder(t) \/ TeardownDisconnects(t)
  <2>1. Alive(t) /\ Top(t).fn = "teardown"
    BY <1>3 DEF TeardownStopsRecorder, TeardownDisconnects, At
  <2>2. PICK fn, pc : Enter(t, fn, pc)
    BY <1>3 DEF TeardownStopsRecorder, TeardownDisconnects
  <2>3. PICK f, g : g = Call(Top(t).fn, pc, Top(t).x) /\ Shows(t, f, {f, g}, {Top(t)})
    BY <2>1, <2>2, EnterShows
  <2> QED BY <2>1, <2>3, CallFields, DoomMoves DEF IsDoom
<1>4. CASE \/ Press(t) \/ PressSessionCreated(t) \/ PressConnected(t) \/ PressRecorder(t)
           \/ PressStopped(t) \/ Ends(t)
           \/ Release(t) \/ ReleaseStopsRecorder(t) \/ ReleaseEndsUtterance(t)
  <2>1. Alive(t) /\ \E pc : At(t, "press", pc) \/ At(t, "release", pc)
    BY <1>4, Zenon DEF Press, PressSessionCreated, PressConnected, PressRecorder, PressStopped,
       Ends, Release, ReleaseStopsRecorder, ReleaseEndsUtterance, At
  <2>2. ~IsDoom(Top(t))
    BY <2>1, AtDoom
  <2>3. (Press(t) \/ PressSessionCreated(t)) => Moves(t)
    BY Zenon, ZeroIsNat DEF Press, PressSessionCreated, Moves
  <2>4. PressConnected(t) => Moves(t)
    BY Zenon, ZeroIsNat DEF PressConnected, Moves
  <2>5. PressRecorder(t) => Moves(t)
    BY Zenon, ZeroIsNat DEF PressRecorder, Moves
  <2>6. (PressStopped(t) \/ Ends(t)) => Moves(t)
    BY Zenon, ZeroIsNat DEF PressStopped, Ends, Moves
  <2>7. (Release(t) \/ ReleaseStopsRecorder(t) \/ ReleaseEndsUtterance(t)) => Moves(t)
    BY Zenon, ZeroIsNat DEF Release, ReleaseStopsRecorder, ReleaseEndsUtterance, Moves
  <2> QED BY <1>4, <2>1, <2>2, <2>3, <2>4, <2>5, <2>6, <2>7, OthersMove
<1> QED BY <1>1, <1>2, <1>3, <1>4 DEF ScreenStep

\* What an await of t waited for has come.
LEMMA AwaitsKeepDoom ==
    ASSUME TypeInv, NEW t \in TaskIds, HasDoom(tasks),
           \/ SocketReady(t) \/ SocketFails(t) \/ BackoffElapses(t) \/ SocketClosed(t)
           \/ PermissionAnswered(t) \/ RecorderOpened(t) \/ RecorderReleased(t) \/ InputClosed(t)
    PROVE  HasDoom(tasks')
<1>1. ASSUME SocketReady(t) \/ SocketFails(t)
      PROVE  Alive(t) /\ ~IsDoom(Top(t)) /\ Moves(t)
  BY <1>1, AtDoom DEF SocketReady, SocketFails, At, Moves, Excs, Bottoms
<1>2. ASSUME BackoffElapses(t) \/ SocketClosed(t)
      PROVE  Alive(t) /\ ~IsDoom(Top(t)) /\ Moves(t)
  BY <1>2, AtDoom DEF BackoffElapses, SocketClosed, At, Moves, Closers
<1>3. ASSUME PermissionAnswered(t) \/ RecorderOpened(t)
      PROVE  Alive(t) /\ ~IsDoom(Top(t)) /\ Moves(t)
  BY <1>3, AtDoom DEF PermissionAnswered, RecorderOpened, At, Moves, Excs, Bottoms
<1>4. ASSUME RecorderReleased(t) \/ InputClosed(t)
      PROVE  Alive(t) /\ ~IsDoom(Top(t)) /\ Moves(t)
  BY <1>4, AtDoom DEF RecorderReleased, InputClosed, InputCloses, At, Moves
<1> QED BY <1>1, <1>2, <1>3, <1>4, OthersMove

LEMMA RefusedDooms ==
    ASSUME TypeInv, NEW t \in TaskIds, At(t, "press", "creating"),
           tasks' = [tasks EXCEPT ![t][1].exc = "session"]
    PROVE  HasDoom(tasks')
<1>1. Alive(t) /\ Top(t).fn = "press"
  BY DEF At
<1>2. PICK F : /\ F \subseteq CallFrames /\ t \in DOMAIN tasks /\ tasks[t] # <<>>
               /\ tasks[t] \in Seq(F) /\ Top(t) = tasks[t][1] /\ Top(t) \in F
  BY <1>1, TopOf
<1> DEFINE s == tasks[t]
           c == [s[1] EXCEPT !.exc = "session"]
           n == [s EXCEPT ![1] = c]
<1>3. tasks' = [tasks EXCEPT ![t] = n]
  OBVIOUS
<1>4. c.fn = "press" /\ c.exc = "session"
  BY <1>1, <1>2 DEF CallFrames
<1> HIDE DEF c
<1>5. 1 \in DOMAIN n /\ n[1] = c
  BY <1>2
<1> HIDE DEF n
<1>6. c \in On(tasks'[t])
  BY <1>2, <1>3, <1>5 DEF On
<1>7. IsDoom(c)
  BY <1>4 DEF IsDoom
<1> QED BY <1>6, <1>7 DEF HasDoom

\* What completing the completer makes of t, which awaits it: its running call
\* goes on as f, or the exception reaches the call g below it.
Completes(t, how, f, g) ==
    /\ Turns(tasks[t], Completed(tasks, how)[t], f, {f}, {Top(t), g})
    /\ g \in On(tasks[t]) /\ f.exc = (IF how = "ok" THEN "none" ELSE how)
    /\ how = "ok" => f.fn = "openOnce" /\ f.pc = "done" /\ g = Top(t)
    /\ how # "ok" => /\ Over("openOnce", g) /\ g.exc = "none"
                     /\ f.fn = g.fn /\ f.pc = g.pc /\ f.x = g.x

LEMMA CompletedTurns ==
    ASSUME TypeInv, NEW how \in {"ok", "transport", "translatorWs"}, NEW t \in TaskIds,
           Awaits(t, ws.completer), ws.completer # None, ws.completed = "no"
    PROVE  \E f, g : Completes(t, how, f, g)
<1>1. Alive(t) /\ Top(t).fn = "openOnce"
  BY DEF Awaits, At
<1>2. PICK F : /\ F \subseteq CallFrames /\ t \in DOMAIN tasks /\ tasks[t] # <<>>
               /\ tasks[t] \in Seq(F) /\ Top(t) = tasks[t][1] /\ Top(t) \in F
               /\ Tail(tasks[t]) = <<>> => Top(t).fn \in Bottoms
               /\ Tail(tasks[t]) # <<>> => /\ tasks[t][2] \in F
                                           /\ Over(Top(t).fn, tasks[t][2])
                                           /\ tasks[t][2].exc = "none"
  BY <1>1, TopOf
<1>3. Head(tasks[t]) = tasks[t][1] /\ Top(t) \in On(tasks[t])
  BY <1>1, <1>2, TopOn
<1>4. CASE how = "ok"
  <2> DEFINE f == Call("openOnce", "done", ws.completer)
  <2>1. Completed(tasks, how)[t] = GoesTo(tasks, t, "done", ws.completer)[t]
    BY <1>4 DEF Completed
  <2>2. GoesTo(tasks, t, "done", ws.completer)[t] = <<f>> \o Tail(tasks[t])
    BY <1>1, <1>2, <1>3 DEF GoesTo
  <2>3. f.fn = "openOnce" /\ f.pc = "done" /\ f.exc = "none"
    BY CallFields
  <2> HIDE DEF f
  <2>4. Turns(tasks[t], <<f>> \o Tail(tasks[t]), f, {f}, {Top(t)})
    BY <1>2, GoneTurns
  <2> QED BY <1>3, <1>4, <2>1, <2>2, <2>3, <2>4 DEF Completes
<1>5. CASE how # "ok"
  <2> DEFINE g == tasks[t][2]
             f == [g EXCEPT !.exc = how]
  <2>1. Completed(tasks, how)[t] = Throws(tasks, t, how)[t]
    BY <1>5 DEF Completed
  <2>2. Tail(tasks[t]) # <<>>
    BY <1>1, <1>2 DEF Bottoms
  <2>3. Throws(tasks, t, how)[t] = <<f>> \o Tail(Tail(tasks[t]))
    BY <1>2, <2>2 DEF Throws
  <2>4. g \in CallFrames /\ Over("openOnce", g) /\ g.exc = "none" /\ how \in Excs
    BY <1>1, <1>2, <1>5, <2>2 DEF Excs
  <2>5. f.fn = g.fn /\ f.pc = g.pc /\ f.x = g.x /\ f.exc = how
    BY <2>4, FrameGetsExc
  <2> HIDE DEF f
  <2>6. Turns(tasks[t], <<f>> \o Tail(Tail(tasks[t])), f, {f}, {Top(t), g}) /\ g \in On(tasks[t])
    BY <1>2, <2>2, PoppedTurns
  <2> QED BY <1>5, <2>1, <2>3, <2>4, <2>5, <2>6 DEF Completes
<1> QED BY <1>4, <1>5

LEMMA CompletedKeeps ==
    ASSUME TypeInv, NEW how
    PROVE  /\ DOMAIN Completed(tasks, how) = TaskIds
           /\ \A t \in TaskIds : ~Awaits(t, ws.completer) => Completed(tasks, how)[t] = tasks[t]
           /\ ws.completer = None \/ ws.completed # "no" => Completed(tasks, how) = tasks
BY DEF TypeInv, Stacks, Completed

LEMMA CompletedKeepsDoom ==
    ASSUME TypeInv, NEW how \in {"ok", "transport", "translatorWs"}, HasDoom(tasks)
    PROVE  HasDoom(Completed(tasks, how))
<1>1. PICK t \in TaskIds : \E g \in On(tasks[t]) : IsDoom(g)
  BY DEF HasDoom
<1>2. CASE ws.completer = None \/ ws.completed # "no" \/ ~Awaits(t, ws.completer)
  <2>1. Completed(tasks, how)[t] = tasks[t]
    BY <1>2, CompletedKeeps
  <2> QED BY <1>1, <2>1 DEF HasDoom
<1>3. CASE ws.completer # None /\ ws.completed = "no" /\ Awaits(t, ws.completer)
  <2>1. PICK f, g : Completes(t, how, f, g)
    BY <1>3, CompletedTurns
  <2>2. ~IsDoom(Top(t))
    BY <1>3, AtDoom DEF Awaits
  <2>3. IsDoom(g) => IsDoom(f)
    BY <2>1, <2>2 DEF IsDoom, Completes
  <2>4. \E h \in On(Completed(tasks, how)[t]) : IsDoom(h)
    BY <1>1, <2>1, <2>2, <2>3 DEF Turns, Completes
  <2> QED BY <2>4 DEF HasDoom
<1> QED BY <1>2, <1>3

\* A new task leaves the others as they are.
LEMMA SpawnsKeepDoom ==
    ASSUME CanSpawn, NEW ts, DOMAIN ts = TaskIds, HasDoom(ts),
           \A t \in TaskIds : tasks[t] = <<>> => ts[t] = <<>>, NEW fn, NEW x
    PROVE  HasDoom(Spawns(ts, fn, x))
<1>1. PICK t \in TaskIds : \E g \in On(ts[t]) : IsDoom(g)
  BY DEF HasDoom
<1>2. t # Min(FreeIds)
  <2>1. ts[t] # <<>>
    BY <1>1 DEF On
  <2> QED BY <2>1, FreeIdIsFree
<1>3. Spawns(ts, fn, x)[t] = ts[t]
  BY <1>2 DEF Spawns
<1> QED BY <1>1, <1>3 DEF HasDoom

LEMMA TeardownDooms ==
    ASSUME TypeInv, CanSpawn, tasks' = Spawns(tasks, "teardown", 0)
    PROVE  HasDoom(tasks')
<1> DEFINE f == Call("teardown", "start", 0)
<1>1. PICK t \in TaskIds : Puts(t, <<f>>)
  BY SpawnPuts
<1>2. IsDoom(f)
  BY CallFields DEF IsDoom
<1> HIDE DEF f
<1>3. tasks'[t] = <<f>>
  BY <1>1 DEF Puts, TypeInv, Stacks
<1>4. f \in On(<<f>>)
  BY DEF On
<1> QED BY <1>2, <1>3, <1>4 DEF HasDoom

LEMMA SpawnedKeepsDoom ==
    ASSUME TypeInv, CanSpawn, HasDoom(tasks), NEW fn, NEW x, tasks' = Spawns(tasks, fn, x)
    PROVE  HasDoom(tasks')
BY SpawnsKeepDoom DEF TypeInv, Stacks

\* What is on its way is delivered, unless nobody listens any more.
Silent == ws'.pending = ws.pending /\ ws'.listeners = ws.listeners

LEMMA SilentPends ==
    ASSUME Silent \/ (ws'.pending = ws.pending /\ ws.listeners \subseteq ws'.listeners), Pends
    PROVE  Pends'
BY DEF Silent, Pends

LEMMA EmittedPends ==
    ASSUME TypeInv, NEW kind \in {"final", "error"},
           ws'.pending = Emitted(kind), ws'.listeners = ws.listeners, Pends
    PROVE  Pends'
<1> DEFINE X == SetToSeq(Heard({k \in ws.listeners : k.text = ws.text}, kind))
<1>1. Emitted(kind) = IF ~ws.textOpen THEN ws.pending ELSE ws.pending \o X
  BY DEF Emitted, Heard
<1>2. ws.pending \in Seq(TextEvents) /\ ws.listeners \in SUBSET Subs
  BY WsIs, WsFields
<1>3. X \in Seq(TextEvents)
  <2> DEFINE L == {k \in ws.listeners : k.text = ws.text}
  <2>1. IsFiniteSet(L) /\ L \subseteq Subs
    BY <1>2, WsIs, FS_Subset
  <2>2. Heard(L, kind) \subseteq TextEvents
    BY <2>1 DEF Heard, TextEvents
  <2> QED BY <2>1, <2>2, HeardIsFinite, SetToSeqIsSeq
<1> HIDE DEF X
<1>4. \A i \in DOMAIN ws.pending : i \in DOMAIN (ws.pending \o X) /\ (ws.pending \o X)[i] = ws.pending[i]
  BY <1>2, <1>3
<1> QED BY <1>1, <1>4 DEF Pends

LEMMA WsStepSilent ==
    ASSUME TypeInv, NEW t \in TaskIds, WsStep(t)
    PROVE  Silent
<1>0. ws \in WsRecords
  BY WsIs
<1>1. CASE Connect(t)
  BY <1>0, <1>1 DEF Connect, Silent, WsRecords
<1>2. CASE \/ ConnectReturns(t) \/ ConnectFails(t) \/ ConnectGivesUp(t)
           \/ ConnectBacksOff(t) \/ ConnectAgain(t)
  BY <1>2 DEF ConnectReturns, ConnectFails, ConnectGivesUp, ConnectBacksOff, ConnectAgain, Silent
<1>3. CASE OpenSocket(t) \/ KeepSocket(t) \/ OpenDone(t)
  BY <1>0, <1>3 DEF OpenSocket, KeepSocket, OpenDone, Silent, WsRecords
<1>4. CASE ListenAndStart(t)
  BY <1>0, <1>4 DEF ListenAndStart, Silent, WsRecords
<1>5. ASSUME NEW fn \in Closers, StartClose(t, fn) \/ CloseSocket(t, fn)
      PROVE  Silent
  BY <1>0, <1>5 DEF StartClose, CloseSocket, Silent, WsRecords
<1>6. ASSUME NEW fn \in Closers, CloseText(t, fn) \/ EndClose(t, fn)
      PROVE  Silent
  BY <1>0, <1>6 DEF CloseText, EndClose, Silent, WsRecords
<1> QED BY <1>1, <1>2, <1>3, <1>4, <1>5, <1>6 DEF WsStep

LEMMA SocketAwaitsSilent ==
    ASSUME TypeInv, NEW t \in TaskIds,
           SocketReady(t) \/ SocketFails(t) \/ BackoffElapses(t) \/ SocketClosed(t)
    PROVE  Silent
<1>0. ws \in WsRecords
  BY WsIs
<1> QED BY <1>0 DEF SocketReady, SocketFails, BackoffElapses, SocketClosed, Silent, WsRecords

\* An event of a socket sends the screen an event, or nothing.
LEMMA ReceivePends ==
    ASSUME TypeInv, NEW s \in Sockets, Pends,
           ReceiveOpened(s) \/ ReceiveFinal(s) \/ ReceiveError(s) \/ SocketEnds(s)
    PROVE  Pends'
<1>0. ws \in WsRecords
  BY WsIs
<1>1. CASE ReceiveOpened(s)
  <2>1. Silent
    BY <1>0, <1>1 DEF ReceiveOpened, Silent, WsRecords
  <2> QED BY <2>1, SilentPends
<1>2. CASE ReceiveFinal(s)
  <2>1. ws'.pending = Emitted("final") /\ ws'.listeners = ws.listeners
    <3> DEFINE p == Emitted("final")
    <3>1. ws' = [ws EXCEPT !.server[s] = "answered", !.pending = p]
      BY <1>2 DEF ReceiveFinal
    <3> HIDE DEF p
    <3>2. ws'.pending = p /\ ws'.listeners = ws.listeners
      BY <1>0, <3>1 DEF WsRecords
    <3> QED BY <3>2 DEF p
  <2> QED BY <2>1, EmittedPends
<1>3. CASE ReceiveError(s)
  <2>1. ws'.pending = Emitted("error") /\ ws'.listeners = ws.listeners
    <3> DEFINE p == Emitted("error")
               d == Completion("translatorWs")
    <3>1. ws' = [ws EXCEPT !.server[s] = "failed", !.connected = FALSE, !.pending = p,
                           !.completed = d]
      BY <1>3 DEF ReceiveError
    <3> HIDE DEF p, d
    <3>2. ws'.pending = p /\ ws'.listeners = ws.listeners
      BY <1>0, <3>1 DEF WsRecords
    <3> QED BY <3>2 DEF p
  <2> QED BY <2>1, EmittedPends
<1>4. CASE SocketEnds(s)
  <2> DEFINE p == Emitted("error")
             d == Completion("transport")
             gone == [ws EXCEPT !.server[s] = "gone", !.heard = @ \ {s}]
  <2>1. \/ ws' = gone \/ ws' = [gone EXCEPT !.completed = d]
        \/ ws' = [gone EXCEPT !.connected = FALSE, !.pending = p]
    BY <1>4 DEF SocketEnds
  <2> HIDE DEF p, d
  <2>2. Silent \/ (ws'.pending = p /\ ws'.listeners = ws.listeners)
    BY <1>0, <2>1 DEF Silent, WsRecords
  <2> QED BY <2>2, SilentPends, EmittedPends DEF p
<1> QED BY <1>1, <1>2, <1>3, <1>4

LEMMA ReceiveKeepsDoom ==
    ASSUME TypeInv, NEW s \in Sockets, HasDoom(tasks),
           ReceiveOpened(s) \/ ReceiveFinal(s) \/ ReceiveError(s) \/ SocketEnds(s)
    PROVE  HasDoom(tasks')
<1> DEFINE D(how) == Completed(tasks, how)
<1>1. \A how \in {"ok", "transport", "translatorWs"} : HasDoom(D(how))
  BY CompletedKeepsDoom
<1>2. DOMAIN tasks = TaskIds
  BY DEF TypeInv, Stacks
<1>3. \A how : DOMAIN D(how) = TaskIds
  BY CompletedKeeps
<1>4. \A how : \A t \in TaskIds : tasks[t] = <<>> => D(how)[t] = <<>>
  <2>1. \A t \in TaskIds : tasks[t] = <<>> => ~Awaits(t, ws.completer)
    BY DEF Awaits, At, Alive
  <2> QED BY <2>1, CompletedKeeps
<1>5. CASE ReceiveOpened(s)
  BY <1>1, <1>5 DEF ReceiveOpened
<1>6. CASE ReceiveFinal(s)
  <2>1. CanSpawn /\ (tasks' = Spawns(tasks, "finish", 0) \/ tasks' = tasks)
    BY <1>6 DEF ReceiveFinal
  <2> QED BY <2>1, SpawnedKeepsDoom
<1>7. CASE ReceiveError(s)
  <2>1. CanSpawn /\ tasks' = Spawns(D("translatorWs"), "finish", 0)
    BY <1>7 DEF ReceiveError
  <2> HIDE DEF D
  <2> QED BY <1>1, <1>3, <1>4, <2>1, SpawnsKeepDoom
<1>8. CASE SocketEnds(s)
  <2>1. /\ CanSpawn
        /\ tasks' = tasks \/ tasks' = D("transport") \/ tasks' = Spawns(tasks, "finish", 0)
    BY <1>8 DEF SocketEnds
  <2> HIDE DEF D
  <2> QED BY <1>1, <2>1, SpawnedKeepsDoom
<1> QED BY <1>5, <1>6, <1>7, <1>8

LEMMA ScreenStepDooms ==
    ASSUME TypeInv, NEW t \in TaskIds, ScreenStep(t), scr'.ptt # "idle", Doomed
    PROVE  Doomed'
<1>0. ws \in WsRecords /\ scr \in ScrRecords
  BY WsIs, ScrIs
<1>1. ~TeardownEnds(t)
  BY <1>0 DEF TeardownEnds, ScrRecords
<1>2. CASE HasDoom(tasks)
  BY <1>1, <1>2, ScreenStepKeepsDoom DEF Doomed
<1>3. CASE Pends /\ TeardownCancelsText(t)
  <2>1. Alive(t) /\ Top(t).fn = "teardown"
    BY <1>3 DEF TeardownCancelsText, At
  <2>2. HasDoom(tasks)
    BY <2>1, TopOn DEF HasDoom, IsDoom
  <2> QED BY <1>1, <2>2, ScreenStepKeepsDoom DEF Doomed
<1>4. CASE Pends /\ ~TeardownCancelsText(t)
  <2>1. ws'.pending = ws.pending /\ ws.listeners \subseteq ws'.listeners
    <3>1. CASE PressConnected(t)
      BY <1>0, <3>1 DEF PressConnected, WsRecords
    <3>2. CASE ReleaseEndsUtterance(t)
      BY <1>0, <3>2 DEF ReleaseEndsUtterance, WsRecords
    <3>3. CASE Press(t) \/ PressSessionCreated(t) \/ PressRecorder(t) \/ PressStopped(t)
               \/ PressFails(t) \/ Ends(t)
      BY <3>3 DEF Press, PressSessionCreated, PressRecorder, PressStopped, PressFails, Ends
    <3>4. CASE Release(t) \/ ReleaseStopsRecorder(t) \/ Teardown(t) \/ TeardownStopsRecorder(t)
               \/ TeardownDisconnects(t)
      BY <3>4 DEF Release, ReleaseStopsRecorder, Teardown, TeardownStopsRecorder,
         TeardownDisconnects
    <3> QED BY <1>1, <1>4, <3>1, <3>2, <3>3, <3>4 DEF ScreenStep
  <2> QED BY <1>4, <2>1, SilentPends DEF Doomed
<1> QED BY <1>2, <1>3, <1>4 DEF Doomed

LEMMA DeliverTextDooms ==
    ASSUME TypeInv, DeliverText, Doomed
    PROVE  Doomed'
<1> DEFINE e == Head(ws.pending)
<1>1. CASE e.to \in ws.listeners
  <2>1. CanSpawn /\ tasks' = Spawns(tasks, "teardown", 0)
    BY <1>1 DEF DeliverText
  <2> QED BY <2>1, TeardownDooms DEF Doomed
<1>2. CASE e.to \notin ws.listeners
  <2>1. tasks' = tasks /\ ws' = [ws EXCEPT !.pending = Tail(@)] /\ ws.pending # <<>>
    BY <1>2 DEF DeliverText
  <2>2. ASSUME Pends PROVE Pends'
    <3>1. ws \in WsRecords /\ ws.pending \in Seq(TextEvents)
      BY WsIs, WsFields
    <3>2. ws'.pending = Tail(ws.pending) /\ ws'.listeners = ws.listeners
      BY <2>1, <3>1 DEF WsRecords
    <3>3. PICK i \in DOMAIN ws.pending : ws.pending[i].to \in ws.listeners
      BY <2>2 DEF Pends
    <3>4. i # 1
      BY <1>2, <2>1, <3>1, <3>3
    <3>5. i - 1 \in DOMAIN Tail(ws.pending) /\ Tail(ws.pending)[i - 1] = ws.pending[i]
      BY <2>1, <3>1, <3>3, <3>4
    <3> QED BY <3>2, <3>3, <3>5 DEF Pends
  <2> QED BY <2>1, <2>2 DEF Doomed
<1> QED BY <1>1, <1>2

\* A recorder that would not stop or close is not forgotten.
LEMMA FailedReleaseSticks ==
    ASSUME TypeInv, NEW t \in TaskIds, RecorderReleaseFails(t)
    PROVE  Stuck'
<1> DEFINE x == Top(t).x
           u == rec.unreleased \cup {x}
<1>1. PICK m : rec' = [rec EXCEPT !.mic = m, !.unreleased = u]
  BY DEF RecorderReleaseFails
<1> HIDE DEF u
<1>2. rec'.unreleased = u
  BY <1>1, RecIs DEF RecRecords
<1> QED BY <1>2 DEF u, Stuck

LEMMA StuckStays ==
    ASSUME TypeInv, Next, Stuck
    PROVE  Stuck'
<1>0. rec \in RecRecords
  BY RecIs
<1> USE DEF Stuck
<1>1. ASSUME NEW t \in TaskIds, RecStep(t) PROVE Stuck'
  <2>1. CASE RecStart(t) \/ RecStarted(t) \/ RecStartFails(t)
    BY <1>0, <2>1 DEF RecStart, RecStarted, RecStartFails, RecRecords
  <2>2. CASE RecStop(t) \/ RecStopDriver(t) \/ RecStopped(t)
    BY <1>0, <2>2 DEF RecStop, RecStopDriver, RecStopped, RecRecords
  <2>3. CASE DrvStart(t) \/ DrvOpen(t) \/ DrvStarted(t) \/ DrvStartFails(t)
    BY <1>0, <2>3 DEF DrvStart, DrvOpen, DrvStarted, DrvStartFails, RecRecords
  <2>4. CASE DrvStop(t) \/ DrvCloseInput(t) \/ DrvStopped(t)
    BY <1>0, <2>4 DEF DrvStop, DrvCloseInput, DrvStopped, RecRecords
  <2> QED BY <1>1, <2>1, <2>2, <2>3, <2>4 DEF RecStep
<1>2. ASSUME NEW t \in TaskIds, ScreenStep(t) PROVE Stuck'
  <2>1. UNCHANGED rec
    BY <1>2, PressKeepsTypes, PressConnectedKeepsTypes, ReleaseKeepsTypes, TeardownKeepsTypes
       DEF ScreenStep
  <2> QED BY <2>1
<1>3. ASSUME NEW t \in TaskIds, InputClosed(t) PROVE Stuck'
  BY <1>0, <1>3 DEF InputClosed, RecRecords
<1>4. ASSUME RecEvent PROVE Stuck'
  <2>1. ASSUME NEW t \in TaskIds, PermissionAnswered(t) \/ RecorderOpened(t) PROVE Stuck'
    BY <1>0, <2>1 DEF PermissionAnswered, RecorderOpened, RecRecords
  <2>2. ASSUME NEW t \in TaskIds, RecorderReleased(t) PROVE Stuck'
    BY <1>0, <2>2 DEF RecorderReleased, RecRecords
  <2> QED BY <1>4, <2>1, <2>2, FailedReleaseSticks DEF RecEvent
<1>5. ASSUME Step PROVE Stuck'
  BY <1>1, <1>2, <1>3, <1>5 DEF Step, DeliverText
<1>6. ASSUME Event PROVE Stuck'
  BY <1>4, <1>6 DEF Event, SessionAnswered, PressDown, PressUp, PressAges, CooldownElapses,
     RunTimesOut
<1> QED BY <1>5, <1>6 DEF Next

\* A teardown that is under way or comes with an event on its way has not ended
\* before the screen is idle.
LEMMA DoomStays ==
    ASSUME TypeInv, Next, scr'.ptt # "idle", Doomed, ~Stuck'
    PROVE  Doomed'
<1> USE DEF Doomed
<1>1. ASSUME NEW t \in TaskIds, WsStep(t)
      PROVE  Doomed'
  BY <1>1, WsStepKeepsDoom, WsStepSilent, SilentPends
<1>2. ASSUME NEW t \in TaskIds, RecStep(t), UNCHANGED ws
      PROVE  Doomed'
  BY <1>2, RecStepKeepsDoom DEF Pends
<1>3. ASSUME NEW t \in TaskIds, ScreenStep(t)
      PROVE  Doomed'
  BY <1>3, ScreenStepDooms
<1>4. ASSUME NEW t \in TaskIds, InputClosed(t), UNCHANGED ws
      PROVE  Doomed'
  BY <1>4, AwaitsKeepDoom DEF Pends
<1>5. ASSUME DeliverText
      PROVE  Doomed'
  BY <1>5, DeliverTextDooms
<1>6. ASSUME WsEvent
      PROVE  Doomed'
  <2>1. ASSUME NEW t \in TaskIds,
               SocketReady(t) \/ SocketFails(t) \/ BackoffElapses(t) \/ SocketClosed(t)
        PROVE  Doomed'
    BY <2>1, AwaitsKeepDoom, SocketAwaitsSilent, SilentPends
  <2>2. ASSUME NEW s \in Sockets,
               ReceiveOpened(s) \/ ReceiveFinal(s) \/ ReceiveError(s) \/ SocketEnds(s)
        PROVE  Doomed'
    BY <2>2, ReceiveKeepsDoom, ReceivePends
  <2> QED BY <1>6, <2>1, <2>2 DEF WsEvent
<1>7. ASSUME RecEvent, UNCHANGED ws
      PROVE  Doomed'
  BY <1>7, FailedReleaseSticks, AwaitsKeepDoom DEF RecEvent, Pends
<1>8. ASSUME NEW t \in TaskIds, SessionAnswered(t)
      PROVE  Doomed'
  <2>1. At(t, "press", "creating") /\ ws' = ws
    BY <1>8 DEF SessionAnswered
  <2>2. CASE Go(t, "created", Top(t).x)
    <3>1. Alive(t) /\ ~IsDoom(Top(t)) /\ Moves(t)
      BY <2>1, <2>2, AtDoom DEF At, Moves
    <3> QED BY <2>1, <3>1, OthersMove DEF Pends
  <2>3. CASE tasks' = [tasks EXCEPT ![t][1].exc = "session"]
    BY <2>1, <2>3, RefusedDooms
  <2> QED BY <1>8, <2>2, <2>3 DEF SessionAnswered
<1>9. ASSUME PressDown \/ PressUp \/ PressAges \/ CooldownElapses \/ RunTimesOut
      PROVE  Doomed'
  <2>1. /\ ws' = ws
        /\ tasks' = tasks \/ (CanSpawn /\ \E fn, x : tasks' = Spawns(tasks, fn, x))
    BY <1>9 DEF PressDown, PressUp, PressAges, CooldownElapses, RunTimesOut
  <2> QED BY <2>1, SpawnedKeepsDoom DEF Pends
<1>10. ASSUME Step
       PROVE  Doomed'
  BY <1>1, <1>2, <1>3, <1>4, <1>5, <1>10 DEF Step
<1>11. ASSUME Event
       PROVE  Doomed'
  BY <1>6, <1>7, <1>8, <1>9, <1>11 DEF Event
<1> QED BY <1>10, <1>11 DEF Next

----------------------------------------------------------------------------
\* The press that starts.

LEMMA StartTop ==
    ASSUME TypeInv, NEW t \in TaskIds, Starting(t)
    PROVE  /\ Alive(t) /\ Top(t) \in On(tasks[t]) /\ IsStart(Top(t)) /\ InOrder(Top(t))
           /\ \A u \in TaskIds : Alive(u) => u = t
<1>1. Alive(t) /\ Top(t) = tasks[t][1] /\ Top(t) \in On(tasks[t])
  BY TopOn DEF Starting
<1>2. InOrder(tasks[t][1])
  BY DEF Starting
<1>3. \A u \in TaskIds : Alive(u) => u = t
  BY DEF Starting, Alone, Alive
<1> QED BY <1>1, <1>2, <1>3 DEF Starting

LEMMA StartsOn ==
    ASSUME NEW t \in TaskIds, Starting(t), NEW f, NEW new, NEW gone, Shows(t, f, new, gone),
           \A g \in new : IsStart(g), InOrder(f)'
    PROVE  OnTheWay'
<1>1. Alone(t)'
  BY DEF Starting, Alone, Shows
<1>2. Alive(t)' /\ tasks'[t][1] = f
  BY DEF Shows, Alive
<1>3. \A g \in On(tasks'[t]) : IsStart(g)
  BY DEF Starting, Shows
<1>4. InOrder(tasks[t][1])'
  BY <1>2 DEF InOrder, Undisturbed, WsStarts, RecStarts, IsOpen, IsLater, IsWaiting, Attempting,
     Waiting, Connected, Subscribed, Unheard
<1>5. (\A g \in On(tasks[t]) : IsStart(g))'
  BY <1>3 DEF IsStart, On
<1> QED BY <1>1, <1>2, <1>4, <1>5 DEF Starting, OnTheWay

LEMMA StartDooms ==
    ASSUME NEW t \in TaskIds, NEW f, NEW new, NEW gone, Shows(t, f, new, gone),
           NEW g \in new, IsDoom(g)
    PROVE  OnTheWay'
<1>1. HasDoom(tasks')
  BY DEF Shows, HasDoom
<1> QED BY <1>1 DEF OnTheWay, Doomed

LEMMA StartGoes ==
    ASSUME TypeInv, NEW t \in TaskIds, Starting(t), NEW pc, NEW x, Go(t, pc, x),
           NEW f, f = Call(Top(t).fn, pc, x), IsStart(f), InOrder(f)'
    PROVE  OnTheWay'
<1>1. Alive(t)
  BY DEF Starting
<1>2. Shows(t, f, {f}, {Top(t)})
  BY <1>1, GoShows
<1> QED BY <1>2, StartsOn

LEMMA StartEnters ==
    ASSUME TypeInv, NEW t \in TaskIds, Starting(t), NEW fn, NEW pc, Enter(t, fn, pc),
           NEW f, f = Call(fn, "start", 0), NEW g, g = Call(Top(t).fn, pc, Top(t).x),
           IsStart(f), IsStart(g), InOrder(f)'
    PROVE  OnTheWay'
<1>1. Alive(t)
  BY DEF Starting
<1>2. Shows(t, f, {f, g}, {Top(t)})
  BY <1>1, EnterShows
<1> QED BY <1>2, StartsOn

\* Where g waited, f goes on.
Resumes(f, g) == f.fn = g.fn /\ f.pc = g.pc /\ f.x = g.x

LEMMA StartReturns ==
    ASSUME TypeInv, NEW t \in TaskIds, Starting(t), Top(t).fn \notin Bottoms,
           NEW val \in Nat, Return(t, val),
           \A f, g : Over(Top(t).fn, g) /\ IsStart(g) /\ g.exc = "none" /\ Resumes(f, g)
                     /\ f.exc = "none" => InOrder(f)'
    PROVE  OnTheWay'
<1>1. Alive(t) /\ \A g \in On(tasks[t]) : IsStart(g)
  BY DEF Starting
<1>2. PICK f, g : /\ Over(Top(t).fn, g) /\ g \in On(tasks[t]) /\ g.exc = "none"
                  /\ Resumes(f, g) /\ f.exc = "none"
                  /\ Shows(t, f, {f}, {Top(t), g})
  BY <1>1, ReturnShows DEF Resumes
<1>3. IsStart(f)
  BY <1>1, <1>2 DEF IsStart, Resumes
<1>4. InOrder(f)'
  BY <1>1, <1>2
<1> QED BY <1>2, <1>3, <1>4, StartsOn

LEMMA StartThrows ==
    ASSUME TypeInv, NEW t \in TaskIds, Starting(t), Top(t).fn \notin Bottoms,
           NEW exc \in Excs, Throw(t, exc),
           \A f, g : Over(Top(t).fn, g) /\ IsStart(g) /\ g.exc = "none" /\ Resumes(f, g)
                     /\ f.exc = exc => IsDoom(f) \/ (IsStart(f) /\ InOrder(f)')
    PROVE  OnTheWay'
<1>1. Alive(t) /\ \A g \in On(tasks[t]) : IsStart(g)
  BY DEF Starting
<1>2. PICK f, g : /\ Over(Top(t).fn, g) /\ g \in On(tasks[t]) /\ g.exc = "none"
                  /\ Resumes(f, g) /\ f.exc = exc
                  /\ Shows(t, f, {f}, {Top(t), g})
  BY <1>1, ThrowShows DEF Resumes
<1>3. IsDoom(f) \/ (IsStart(f) /\ InOrder(f)')
  BY <1>1, <1>2
<1> QED BY <1>2, <1>3, StartsOn, StartDooms

\* The four stages of a press that starts.
LEMMA UnheardInOrder ==
    ASSUME NEW f, Undisturbed', Unheard', Attempting(f)', ~rec'.recording,
           ~IsOpen(f), ~IsLater(f), ~IsWaiting(f)
    PROVE  InOrder(f)'
BY DEF InOrder, WsStarts, RecStarts, IsLater, IsOpen, IsWaiting

LEMMA WaitingInOrder ==
    ASSUME NEW f, Undisturbed', Waiting(f)', ~rec'.recording, IsWaiting(f)
    PROVE  InOrder(f)'
BY DEF InOrder, WsStarts, RecStarts, IsLater, IsOpen, IsWaiting

LEMMA OpenInOrder ==
    ASSUME NEW f, Undisturbed', Connected({"opened"})', ws'.listeners = {}, ~rec'.recording,
           IsOpen(f)
    PROVE  InOrder(f)'
BY DEF InOrder, WsStarts, RecStarts, IsLater, IsOpen, IsWaiting

LEMMA LaterInOrder ==
    ASSUME NEW f, Undisturbed', Connected({"opened"})', Subscribed', RecStarts(f)', IsLater(f)
    PROVE  InOrder(f)'
BY DEF InOrder, WsStarts, RecStarts, IsLater, IsOpen, IsWaiting

LEMMA UnheardTop ==
    ASSUME NEW f, InOrder(f), ~IsOpen(f), ~IsLater(f), ~IsWaiting(f)
    PROVE  Undisturbed /\ Unheard /\ Attempting(f) /\ ~rec.recording
BY DEF InOrder, WsStarts, RecStarts, IsLater

LEMMA WaitingTop ==
    ASSUME NEW f, InOrder(f), IsWaiting(f)
    PROVE  Undisturbed /\ Waiting(f) /\ ~rec.recording
BY DEF InOrder, WsStarts, RecStarts, IsWaiting

LEMMA OpenTop ==
    ASSUME NEW f, InOrder(f), IsOpen(f)
    PROVE  Undisturbed /\ Connected({"opened"}) /\ ws.listeners = {} /\ ~rec.recording
BY DEF InOrder, WsStarts, RecStarts, IsOpen

LEMMA LaterTop ==
    ASSUME NEW f, InOrder(f), IsLater(f)
    PROVE  Undisturbed /\ Connected({"opened"}) /\ Subscribed /\ RecStarts(f)
BY DEF InOrder, WsStarts

\* Neither the connection nor the microphone changes before it is opened.
LEMMA StillUnheard ==
    ASSUME UNCHANGED <<ws, rec>>, Undisturbed, Unheard, ~rec.recording, NEW f,
           ~IsOpen(f), ~IsLater(f), ~IsWaiting(f),
           ~(f.fn = "openOnce" /\ f.pc \in {"created", "ready", "listen"})
    PROVE  InOrder(f)'
<1>1. Undisturbed' /\ Unheard' /\ ~rec'.recording
  BY DEF Undisturbed, Unheard
<1>2. Attempting(f)'
  BY DEF Attempting
<1> QED BY <1>1, <1>2, UnheardInOrder

LEMMA ConnectStarts ==
    ASSUME TypeInv, NEW t \in TaskIds, Starting(t), UNCHANGED rec,
           \/ Connect(t) \/ ConnectReturns(t) \/ ConnectFails(t) \/ ConnectGivesUp(t)
           \/ ConnectBacksOff(t) \/ ConnectAgain(t) \/ BackoffElapses(t)
    PROVE  OnTheWay'
<1> USE DEF IsOpen, IsLater, IsWaiting, IsStart
<1>0. IsStart(Top(t)) /\ InOrder(Top(t)) /\ Top(t) \in CallFrames
  BY StartTop, TopOn
<1>1. Top(t).fn = "connect" /\ Top(t).fn \notin Bottoms
  BY DEF Connect, ConnectReturns, ConnectFails, ConnectGivesUp, ConnectBacksOff, ConnectAgain,
     BackoffElapses, At, Caught, Bottoms
<1>2. CASE ConnectReturns(t)
  <2>1. At(t, "connect", "returned") /\ Return(t, 0) /\ ws' = ws
    BY <1>2 DEF ConnectReturns
  <2>2. Undisturbed /\ Connected({"opened"}) /\ ws.listeners = {} /\ ~rec.recording
    BY <1>0, <2>1, OpenTop DEF At
  <2>3. ASSUME NEW f, NEW g, Over("connect", g), Resumes(f, g), f.exc = "none"
        PROVE  InOrder(f)'
    <3>1. IsOpen(f)
      BY <2>3 DEF Over, Resumes
    <3> QED BY <2>1, <2>2, <3>1, OpenInOrder DEF Undisturbed, Connected
  <2> QED BY <1>1, <2>1, <2>3, StartReturns
<1>3. CASE ~ConnectReturns(t)
  <2>1. ~IsOpen(Top(t))
    BY <1>1, <1>3 DEF Connect, ConnectFails, ConnectGivesUp, ConnectBacksOff, ConnectAgain,
       BackoffElapses, At, Caught
  <2>2. Undisturbed /\ Unheard /\ ~rec.recording
    BY <1>0, <1>1, <2>1, UnheardTop
  <2>3. ASSUME NEW exc \in Excs, Throw(t, exc), exc # "none" PROVE OnTheWay'
    <3>1. ASSUME NEW f, NEW g, Over("connect", g), Resumes(f, g), f.exc = exc
          PROVE  IsDoom(f)
      BY <2>3, <3>1 DEF Over, Resumes, IsDoom
    <3> QED BY <1>1, <2>3, <3>1, StartThrows
  <2>4. CASE (Connect(t) /\ Enter(t, "openOnce", "returned")) \/ ConnectAgain(t)
    <3>1. Enter(t, "openOnce", "returned") /\ ws' = ws
      BY <2>2, <2>4 DEF Connect, ConnectAgain, Undisturbed
    <3>2. PICK f, g : f = Call("openOnce", "start", 0) /\ g = Call(Top(t).fn, "returned", Top(t).x)
      OBVIOUS
    <3>3. IsStart(f) /\ IsStart(g)
      BY <1>1, <3>2, CallFields
    <3>4. InOrder(f)'
      BY <2>2, <3>1, <3>2, CallFields, StillUnheard
    <3> QED BY <3>1, <3>2, <3>3, <3>4, StartEnters
  <2>5. CASE ConnectFails(t)
    <3>1. Top(t).exc # "none" /\ Top(t).exc # "translatorWs"
      BY <1>0, <1>1, <2>5 DEF ConnectFails, Caught
    <3>2. Enter(t, "reset", "retry") /\ ws' = ws
      BY <2>5, <3>1 DEF ConnectFails
    <3>3. PICK f, g : f = Call("reset", "start", 0) /\ g = Call(Top(t).fn, "retry", Top(t).x)
      OBVIOUS
    <3>4. IsStart(f) /\ IsStart(g)
      BY <1>1, <3>3, CallFields
    <3>5. InOrder(f)'
      BY <2>2, <3>2, <3>3, CallFields, StillUnheard
    <3> QED BY <3>2, <3>3, <3>4, <3>5, StartEnters
  <2>6. CASE ConnectBacksOff(t) \/ BackoffElapses(t)
    <3>1. PICK pc \in {"delay", "again"}, x \in Nat : Go(t, pc, x) /\ ws' = ws
      BY <1>0, <2>6 DEF ConnectBacksOff, BackoffElapses, CallFrames
    <3>2. PICK f : f = Call(Top(t).fn, pc, x)
      OBVIOUS
    <3>3. f.fn = "connect" /\ f.pc \in {"delay", "again"} /\ f.exc = "none"
      BY <1>1, <3>2, CallFields
    <3>4. InOrder(f)'
      BY <2>2, <3>1, <3>3, StillUnheard
    <3> QED BY <3>1, <3>2, <3>3, <3>4, StartGoes
  <2>7. CASE (Connect(t) /\ ~Enter(t, "openOnce", "returned")) \/ ConnectGivesUp(t)
    <3>1. Throw(t, "state") \/ Throw(t, "translatorWs")
      BY <2>7 DEF Connect, ConnectGivesUp
    <3> QED BY <2>3, <3>1 DEF Excs
  <2> QED BY <1>3, <2>4, <2>5, <2>6, <2>7
<1> QED BY <1>2, <1>3

LEMMA OpenOnceStarts ==
    ASSUME TypeInv, NEW t \in TaskIds, Starting(t), UNCHANGED rec,
           \/ OpenSocket(t) \/ KeepSocket(t) \/ ListenAndStart(t) \/ OpenDone(t)
           \/ SocketReady(t) \/ SocketFails(t)
    PROVE  OnTheWay'
<1> USE DEF IsOpen, IsLater, IsWaiting, IsStart
<1> DEFINE x == Top(t).x
<1>0. IsStart(Top(t)) /\ InOrder(Top(t)) /\ Top(t) \in CallFrames /\ Alive(t)
  BY StartTop, TopOn
<1>1. Top(t).fn = "openOnce" /\ Top(t).fn \notin Bottoms /\ Top(t).exc = "none" /\ x \in Nat
  BY <1>0 DEF OpenSocket, KeepSocket, ListenAndStart, OpenDone, SocketReady, SocketFails, At,
     Bottoms, CallFrames
<1>2. /\ ws \in WsRecords /\ ws.opens \in Nat /\ ws.opens <= MaxSockets
      /\ ws.shut \subseteq 1..ws.opens /\ 1..ws.opens \subseteq Sockets
      /\ ws.server \in [Sockets -> ServerStates]
  BY WsIs, WsFields
<1>3. Top(t).pc \in {"created", "ready", "listen"} => x \in 1..ws.opens
  BY <1>0, <1>1, TopTyped DEF FrameOK
<1>4. CASE OpenDone(t)
  <2>1. Top(t).pc = "done" /\ Return(t, 0) /\ ws' = [ws EXCEPT !.completer = None]
    BY <1>4 DEF OpenDone, At
  <2>2. Undisturbed /\ Connected({"opened"}) /\ ws.listeners = {} /\ ~rec.recording
    BY <1>0, <1>1, <2>1, OpenTop
  <2>3. Undisturbed' /\ Connected({"opened"})' /\ ws'.listeners = {} /\ ~rec'.recording
    BY <1>2, <2>1, <2>2 DEF Undisturbed, Connected, WsRecords
  <2>4. ASSUME NEW f, NEW g, Over("openOnce", g), Resumes(f, g), f.exc = "none"
        PROVE  InOrder(f)'
    <3>1. IsOpen(f)
      BY <2>4 DEF Over, Resumes
    <3> QED BY <2>3, <3>1, OpenInOrder
  <2> QED BY <1>1, <2>1, <2>4, StartReturns
<1>5. CASE ~OpenDone(t)
  <2>1. Top(t).pc \in {"start", "created", "ready", "listen"}
    BY <1>5 DEF OpenSocket, KeepSocket, ListenAndStart, SocketReady, SocketFails, At
  <2>2. Undisturbed /\ Unheard /\ Attempting(Top(t)) /\ ~rec.recording
    BY <1>0, <1>1, <2>1, UnheardTop
  <2>3. CASE OpenSocket(t)
    <3> DEFINE o == ws.opens + 1
    <3>1. o \in Sockets /\ o \notin ws.shut
      BY <1>2, <2>3, WsAssumption DEF OpenSocket, Sockets
    <3>2. ws' = [ws EXCEPT !.opens = o, !.server[o] = "connecting"] /\ Go(t, "created", o)
      BY <2>3 DEF OpenSocket
    <3> HIDE DEF o
    <3>3. PICK f : f = Call(Top(t).fn, "created", o)
      OBVIOUS
    <3>4. f.fn = "openOnce" /\ f.pc = "created" /\ f.x = o /\ f.exc = "none"
      BY <1>1, <3>3, CallFields
    <3>5. Undisturbed' /\ Unheard' /\ ~rec'.recording
      BY <1>2, <2>2, <3>2 DEF Undisturbed, Unheard, WsRecords
    <3>6. Attempting(f)'
      BY <1>2, <3>1, <3>2, <3>4 DEF Attempting, WsRecords
    <3>7. InOrder(f)'
      BY <3>4, <3>5, <3>6, UnheardInOrder
    <3> QED BY <3>2, <3>3, <3>4, <3>7, StartGoes
  <2>4. CASE KeepSocket(t)
    <3>1. /\ Top(t).pc = "created" /\ Go(t, "ready", x)
          /\ ws' = [ws EXCEPT !.socket = x, !.completer = x, !.completed = "no"]
      BY <2>4 DEF KeepSocket, At
    <3>2. PICK f : f = Call(Top(t).fn, "ready", x)
      OBVIOUS
    <3>3. f.fn = "openOnce" /\ f.pc = "ready" /\ f.x = x /\ f.exc = "none"
      BY <1>1, <3>2, CallFields
    <3>4. x \notin ws.shut /\ ws.server[x] = "connecting"
      BY <1>1, <2>2, <3>1 DEF Attempting
    <3> HIDE DEF x
    <3>5. Undisturbed' /\ Unheard' /\ ~rec'.recording
      BY <1>2, <2>2, <3>1 DEF Undisturbed, Unheard, WsRecords
    <3>6. Attempting(f)'
      BY <1>2, <3>1, <3>3, <3>4 DEF Attempting, WsRecords
    <3>7. InOrder(f)'
      BY <3>3, <3>5, <3>6, UnheardInOrder
    <3> QED BY <3>1, <3>2, <3>3, <3>7, StartGoes
  <2>5. CASE SocketReady(t)
    <3>1. Top(t).pc = "ready" /\ Go(t, "listen", x)
      BY <2>5 DEF SocketReady, At
    <3>2. PICK f : f = Call(Top(t).fn, "listen", x)
      OBVIOUS
    <3>3. f.fn = "openOnce" /\ f.pc = "listen" /\ f.x = x /\ f.exc = "none"
      BY <1>1, <3>2, CallFields
    <3>4. /\ x \notin ws.shut /\ ws.server[x] = "connecting"
          /\ ws.socket = x /\ ws.completer = x /\ ws.completed = "no"
      BY <1>1, <2>2, <3>1 DEF Attempting
    <3>5. ws' = [ws EXCEPT !.server[x] = "ready"]
      BY <2>5, <3>4 DEF SocketReady
    <3>6. x \in Sockets
      BY <1>2, <1>3, <3>1
    <3> HIDE DEF x
    <3>7. Undisturbed' /\ Unheard' /\ ~rec'.recording
      BY <1>2, <2>2, <3>5 DEF Undisturbed, Unheard, WsRecords
    <3>8. Attempting(f)'
      BY <1>2, <3>3, <3>4, <3>5, <3>6 DEF Attempting, WsRecords
    <3>9. InOrder(f)'
      BY <3>3, <3>7, <3>8, UnheardInOrder
    <3> QED BY <3>1, <3>2, <3>3, <3>9, StartGoes
  <2>6. CASE SocketFails(t)
    <3>1. Throw(t, "transport") /\ ws' = [ws EXCEPT !.server[x] = "gone"]
      BY <2>6 DEF SocketFails
    <3> HIDE DEF x
    <3>2. Undisturbed' /\ Unheard' /\ ~rec'.recording
      BY <1>2, <2>2, <3>1 DEF Undisturbed, Unheard, WsRecords
    <3>3. ASSUME NEW f, NEW g, Over("openOnce", g), Resumes(f, g), f.exc = "transport"
          PROVE  IsStart(f) /\ InOrder(f)'
      <4>1. f.fn = "connect" /\ f.pc = "returned"
        BY <3>3 DEF Over, Resumes
      <4>2. Attempting(f)'
        BY <4>1 DEF Attempting
      <4> QED BY <3>2, <3>3, <4>1, <4>2, UnheardInOrder
    <3> QED BY <1>1, <3>1, <3>3, StartThrows DEF Excs
  <2>7. CASE ListenAndStart(t)
    <3>1. Top(t).pc = "listen"
      BY <2>7 DEF ListenAndStart, At
    <3>2. /\ x \notin ws.shut /\ ws.server[x] = "ready"
          /\ ws.socket = x /\ ws.completer = x /\ ws.completed = "no"
      BY <1>1, <2>2, <3>1 DEF Attempting
    <3>3. x \in Sockets /\ x # None
      BY <1>2, <1>3, <3>1 DEF None
    <3>4. /\ ws' = [ws EXCEPT !.heard = @ \cup {x}, !.sub = x, !.server[x] = "started"]
          /\ Go(t, "opened", x)
      BY <2>7, <3>2, <3>3 DEF ListenAndStart
    <3>5. PICK f : f = Call(Top(t).fn, "opened", x)
      OBVIOUS
    <3>6. f.fn = "openOnce" /\ f.pc = "opened" /\ f.x = x /\ f.exc = "none"
      BY <1>1, <3>5, CallFields
    <3> HIDE DEF x
    <3>7. Undisturbed' /\ ~rec'.recording
      BY <1>2, <2>2, <3>4 DEF Undisturbed, WsRecords
    <3>8. Waiting(f)'
      BY <1>2, <2>2, <3>2, <3>3, <3>4, <3>6 DEF Waiting, Unheard, WsRecords
    <3>9. InOrder(f)'
      BY <3>6, <3>7, <3>8, WaitingInOrder
    <3> QED BY <3>4, <3>5, <3>6, <3>9, StartGoes
  <2> QED BY <1>5, <2>3, <2>4, <2>5, <2>6, <2>7
<1> QED BY <1>4, <1>5

LEMMA ResetStarts ==
    ASSUME TypeInv, NEW t \in TaskIds, Starting(t), UNCHANGED rec,
           \/ SocketClosed(t)
           \/ \E fn \in Closers : StartClose(t, fn) \/ CloseSocket(t, fn)
                                  \/ CloseText(t, fn) \/ EndClose(t, fn)
    PROVE  OnTheWay'
<1> USE DEF IsOpen, IsLater, IsWaiting, IsStart
<1>0. IsStart(Top(t)) /\ InOrder(Top(t)) /\ Top(t) \in CallFrames /\ ws \in WsRecords
  BY StartTop, TopOn, WsIs
<1>1. Top(t).fn \in Closers
  BY DEF SocketClosed, StartClose, CloseSocket, CloseText, EndClose, At
<1>2. Top(t).fn = "reset" /\ Top(t).fn \notin Bottoms
  BY <1>0, <1>1 DEF Closers, Bottoms
<1>3. /\ Undisturbed /\ Unheard /\ ~rec.recording
  BY <1>0, <1>2, UnheardTop
<1>4. \/ SocketClosed(t) \/ StartClose(t, "reset") \/ CloseSocket(t, "reset")
      \/ CloseText(t, "reset") \/ EndClose(t, "reset")
  BY <1>2 DEF StartClose, CloseSocket, CloseText, EndClose, At
<1>5. Undisturbed' /\ Unheard' /\ ~rec'.recording
  <2>1. CASE StartClose(t, "reset")
    <3>1. ws' = [ws EXCEPT !.closing = ws.closing, !.connected = FALSE, !.completer = None,
                           !.heard = @ \ {ws.sub}]
      BY <1>0, <1>3, <2>1 DEF StartClose, Undisturbed, WsRecords
    <3>2. /\ ws'.closing = ws.closing /\ ws'.textOpen = ws.textOpen /\ ws'.pending = ws.pending
          /\ ws'.listeners = ws.listeners /\ ws'.heard = ws.heard \ {ws.sub} /\ ~ws'.connected
      BY <1>0, <3>1 DEF WsRecords
    <3> QED BY <1>3, <3>2 DEF Undisturbed, Unheard
  <2>2. CASE CloseSocket(t, "reset")
    <3> DEFINE k == ws.socket
               h == ws.shut \cup {k}
    <3>1. \/ ws' = [ws EXCEPT !.sub = None]
          \/ ws' = [ws EXCEPT !.sub = None, !.socket = None, !.shut = h, !.server[k] = "gone"]
      BY <2>2 DEF CloseSocket
    <3> HIDE DEF k, h
    <3>2. /\ ws'.closing = ws.closing /\ ws'.textOpen = ws.textOpen /\ ws'.pending = ws.pending
          /\ ws'.listeners = ws.listeners /\ ws'.heard = ws.heard
          /\ ws'.connected = ws.connected
      BY <1>0, <3>1 DEF WsRecords
    <3> QED BY <1>3, <3>2 DEF Undisturbed, Unheard
  <2>3. CASE SocketClosed(t) \/ CloseText(t, "reset")
    BY <1>3, <2>3 DEF SocketClosed, CloseText, Undisturbed, Unheard
  <2>4. CASE EndClose(t, "reset")
    BY <1>0, <1>3, <2>4 DEF EndClose, Undisturbed, Unheard, WsRecords
  <2> QED BY <1>4, <2>1, <2>2, <2>3, <2>4
<1>6. ASSUME NEW f, f.fn \in {"reset", "connect"}, f.fn = "connect" => f.pc # "returned"
      PROVE  InOrder(f)'
  <2>1. Attempting(f)'
    BY <1>6 DEF Attempting
  <2> QED BY <1>5, <1>6, <2>1, UnheardInOrder
<1>7. ASSUME NEW pc, NEW x, Go(t, pc, x)
      PROVE  OnTheWay'
  <2>1. PICK f : f = Call(Top(t).fn, pc, x)
    OBVIOUS
  <2>2. f.fn = "reset" /\ f.exc = "none"
    BY <1>2, <2>1, CallFields
  <2>3. IsStart(f) /\ InOrder(f)'
    BY <1>6, <2>2
  <2> QED BY <1>7, <2>1, <2>3, StartGoes
<1>8. ASSUME Return(t, 0)
      PROVE  OnTheWay'
  <2>1. ASSUME NEW f, NEW g, Over("reset", g), Resumes(f, g)
        PROVE  InOrder(f)'
    <3>1. f.fn = "connect" /\ f.pc # "returned"
      BY <2>1 DEF Over, Resumes
    <3> QED BY <1>6, <3>1
  <2> QED BY <1>2, <1>8, <2>1, StartReturns
<1>9. Return(t, 0) \/ \E pc, x : Go(t, pc, x)
  BY <1>4 DEF SocketClosed, StartClose, CloseSocket, CloseText, EndClose
<1> QED BY <1>7, <1>8, <1>9

\* The microphone.  The connection is there, and does not change.
LEMMA StillLater ==
    ASSUME UNCHANGED <<ws, scr>>, NEW c, InOrder(c), IsLater(c), NEW f, IsLater(f), RecStarts(f)'
    PROVE  InOrder(f)'
<1>1. Undisturbed /\ Connected({"opened"}) /\ Subscribed
  BY LaterTop
<1>2. Undisturbed' /\ Connected({"opened"})' /\ Subscribed'
  BY <1>1 DEF Undisturbed, Connected, Subscribed
<1> QED BY <1>2, LaterInOrder

LEMMA RecStartStarts ==
    ASSUME TypeInv, NEW t \in TaskIds, Starting(t), UNCHANGED <<ws, scr>>,
           RecStart(t) \/ RecStarted(t) \/ RecStartFails(t)
    PROVE  OnTheWay'
<1> USE DEF IsLater, IsStart
<1>0. /\ IsStart(Top(t)) /\ InOrder(Top(t)) /\ Top(t) \in CallFrames /\ Alive(t)
      /\ rec \in RecRecords /\ Top(t).x \in Nat /\ Top(t).val \in Nat
  BY StartTop, TopOn, RecIs DEF CallFrames
<1>1. Top(t).fn = "recStart" /\ Top(t).fn \notin Bottoms
  BY DEF RecStart, RecStarted, RecStartFails, At, Caught, Bottoms
<1>2. RecStarts(Top(t)) /\ ~rec.recording
  BY <1>0, <1>1, LaterTop DEF RecStarts
<1>3. CASE RecStart(t)
  <2>1. PICK m : /\ rec' = [rec EXCEPT !.made = m, !.chunks = m]
                 /\ tasks' = Calls(GoesTo(tasks, t, "start", m), t, "drvStart", "started")
    BY <1>2, <1>3 DEF RecStart
  <2>2. PICK f, g : f = Call("drvStart", "start", 0) /\ g = Call(Top(t).fn, "started", m)
    OBVIOUS
  <2>3. Shows(t, f, {f, g}, {Top(t)})
    BY <1>0, <2>1, <2>2, CallsOnShows
  <2>4. /\ f.fn = "drvStart" /\ f.pc = "start" /\ f.exc = "none"
        /\ g.fn = "recStart" /\ g.exc = "none"
    BY <1>1, <2>2, CallFields
  <2>5. ~rec'.recording
    BY <1>0, <1>2, <2>1 DEF RecRecords
  <2>6. InOrder(f)'
    BY <1>0, <1>1, <2>4, <2>5, StillLater DEF RecStarts
  <2> QED BY <2>3, <2>4, <2>6, StartsOn
<1>4. CASE RecStarted(t)
  <2> DEFINE v == Top(t).val
  <2>1. /\ Top(t).pc = "started" /\ Top(t).exc = "none" /\ Return(t, Top(t).x)
        /\ rec' = [rec EXCEPT !.recording = TRUE, !.sub = v, !.listened = @ \cup {v}]
    BY <1>4 DEF RecStarted, At
  <2>2. rec.mic # {}
    BY <1>1, <1>2, <2>1 DEF RecStarts
  <2> HIDE DEF v
  <2>3. rec'.recording /\ rec'.mic # {}
    BY <1>0, <2>1, <2>2 DEF RecRecords
  <2>4. ASSUME NEW f, NEW g, Over("recStart", g), Resumes(f, g), f.exc = "none"
        PROVE  InOrder(f)'
    <3>1. f.fn = "press" /\ f.pc = "recorder"
      BY <2>4 DEF Over, Resumes
    <3> QED BY <1>0, <1>1, <2>3, <3>1, StillLater DEF RecStarts
  <2> QED BY <1>0, <1>1, <2>1, <2>4, StartReturns
<1>5. CASE RecStartFails(t)
  <2>1. CASE Caught(t, "recStart", "started")
    <3>1. Go(t, "failed", 0) /\ rec' = [rec EXCEPT !.chunks = NoStream]
      BY <1>5, <2>1 DEF RecStartFails, At, Caught
    <3>2. PICK f : f = Call(Top(t).fn, "failed", 0)
      OBVIOUS
    <3>3. f.fn = "recStart" /\ f.pc = "failed" /\ f.exc = "none" /\ ~rec'.recording
      BY <1>0, <1>1, <1>2, <3>1, <3>2, CallFields DEF RecRecords
    <3>4. InOrder(f)'
      BY <1>0, <1>1, <3>3, StillLater DEF RecStarts
    <3> QED BY <3>1, <3>2, <3>3, <3>4, StartGoes
  <2>2. CASE At(t, "recStart", "failed")
    <3>1. Throw(t, "recorder")
      BY <1>5, <2>2 DEF RecStartFails, At, Caught
    <3>2. ASSUME NEW f, NEW g, Over("recStart", g), Resumes(f, g), f.exc = "recorder"
          PROVE  IsDoom(f)
      BY <3>2 DEF Over, Resumes, IsDoom
    <3> QED BY <1>1, <3>1, <3>2, StartThrows DEF Excs
  <2> QED BY <1>5, <2>1, <2>2 DEF RecStartFails
<1> QED BY <1>3, <1>4, <1>5

LEMMA DrvStartStarts ==
    ASSUME TypeInv, NEW t \in TaskIds, Starting(t), UNCHANGED <<ws, scr>>,
           \/ DrvStart(t) \/ DrvOpen(t) \/ DrvStarted(t) \/ DrvStartFails(t)
           \/ PermissionAnswered(t) \/ RecorderOpened(t)
    PROVE  OnTheWay'
<1> USE DEF IsLater, IsStart
<1>0. /\ IsStart(Top(t)) /\ InOrder(Top(t)) /\ Top(t) \in CallFrames /\ Alive(t)
      /\ rec \in RecRecords /\ Top(t).x \in Nat
  BY StartTop, TopOn, RecIs DEF CallFrames
<1>1. Top(t).fn = "drvStart" /\ Top(t).fn \notin Bottoms /\ Top(t).exc = "none"
  BY DEF DrvStart, DrvOpen, DrvStarted, DrvStartFails, PermissionAnswered, RecorderOpened, At,
     Bottoms
<1>2. RecStarts(Top(t)) /\ ~rec.recording
  BY <1>0, <1>1, LaterTop DEF RecStarts
<1>3. ASSUME NEW pc, NEW x, Go(t, pc, x), ~rec'.recording, pc = "recording" => rec'.mic # {}
      PROVE  OnTheWay'
  <2>1. PICK f : f = Call(Top(t).fn, pc, x)
    OBVIOUS
  <2>2. f.fn = "drvStart" /\ f.pc = pc /\ f.exc = "none"
    BY <1>1, <2>1, CallFields
  <2>3. InOrder(f)'
    BY <1>0, <1>1, <1>3, <2>2, StillLater DEF RecStarts
  <2> QED BY <1>3, <2>1, <2>2, <2>3, StartGoes
<1>4. ASSUME NEW f, NEW g, Over("drvStart", g), Resumes(f, g), rec' = rec,
             f.exc # "none" \/ rec.mic # {}
      PROVE  (f.exc = "none" \/ f.exc = "recorder" => IsStart(f)) /\ InOrder(f)'
  <2>1. f.fn = "recStart" /\ f.pc = "started"
    BY <1>4 DEF Over, Resumes
  <2>2. RecStarts(f)'
    BY <1>2, <1>4, <2>1 DEF RecStarts
  <2> QED BY <1>0, <1>1, <2>1, <2>2, StillLater
<1>5. ASSUME Throw(t, "recorder"), rec' = rec
      PROVE  OnTheWay'
  <2>1. "recorder" \in Excs /\ "recorder" # "none"
    BY DEF Excs
  <2> QED BY <1>1, <1>4, <1>5, <2>1, StartThrows
<1>6. CASE DrvStart(t)
  BY <1>2, <1>3, <1>6 DEF DrvStart
<1>7. CASE DrvOpen(t)
  <2> DEFINE o == rec.opened + 1
  <2>1. rec' = [rec EXCEPT !.opened = o, !.recorder = o, !.input = o] /\ Go(t, "opening", o)
    BY <1>7 DEF DrvOpen
  <2> HIDE DEF o
  <2>2. ~rec'.recording
    BY <1>0, <1>2, <2>1 DEF RecRecords
  <2> QED BY <1>3, <2>1, <2>2
<1>8. CASE DrvStarted(t)
  <2>1. Top(t).pc = "recording" /\ Return(t, Top(t).x) /\ rec' = rec
    BY <1>8 DEF DrvStarted, At
  <2>2. rec.mic # {}
    BY <1>1, <1>2, <2>1 DEF RecStarts
  <2> QED BY <1>0, <1>1, <1>4, <2>1, <2>2, StartReturns
<1>9. CASE DrvStartFails(t)
  <2>1. CASE Enter(t, "drvStop", "failed") /\ rec' = rec
    <3>1. PICK f, g : f = Call("drvStop", "start", 0) /\ g = Call(Top(t).fn, "failed", Top(t).x)
      OBVIOUS
    <3>2. f.fn = "drvStop" /\ f.exc = "none" /\ g.fn = "drvStart" /\ g.exc = "none"
      BY <1>1, <3>1, CallFields
    <3>3. InOrder(f)'
      BY <1>0, <1>1, <1>2, <2>1, <3>2, StillLater DEF RecStarts
    <3> QED BY <2>1, <3>1, <3>2, <3>3, StartEnters
  <2> QED BY <1>5, <1>9, <2>1 DEF DrvStartFails
<1>10. CASE PermissionAnswered(t)
  BY <1>2, <1>3, <1>5, <1>10 DEF PermissionAnswered
<1>11. CASE RecorderOpened(t)
  <2> DEFINE r == Top(t).x
  <2>1. \/ rec' = [rec EXCEPT !.mic = @ \cup {r}] /\ Go(t, "recording", r)
        \/ rec' = rec /\ Go(t, "failing", r)
    BY <1>11 DEF RecorderOpened
  <2> HIDE DEF r
  <2>2. CASE rec' = [rec EXCEPT !.mic = @ \cup {r}] /\ Go(t, "recording", r)
    <3>1. ~rec'.recording /\ rec'.mic # {}
      BY <1>0, <1>2, <2>2 DEF RecRecords
    <3> QED BY <1>3, <2>2, <3>1
  <2>3. CASE rec' = rec /\ Go(t, "failing", r)
    BY <1>2, <1>3, <2>3
  <2> QED BY <2>1, <2>2, <2>3
<1> QED BY <1>6, <1>7, <1>8, <1>9, <1>10, <1>11

LEMMA DrvStopStarts ==
    ASSUME TypeInv, NEW t \in TaskIds, Starting(t), UNCHANGED <<ws, scr>>,
           \/ DrvStop(t) \/ DrvCloseInput(t) \/ DrvStopped(t)
           \/ RecorderReleased(t) \/ InputClosed(t)
    PROVE  OnTheWay'
<1> USE DEF IsLater, IsStart
<1>0. /\ IsStart(Top(t)) /\ InOrder(Top(t)) /\ Top(t) \in CallFrames /\ Alive(t)
      /\ rec \in RecRecords
  BY StartTop, TopOn, RecIs
<1>1. Top(t).fn = "drvStop" /\ Top(t).fn \notin Bottoms
  BY DEF DrvStop, DrvCloseInput, DrvStopped, RecorderReleased, InputClosed, InputCloses, At,
     Bottoms
<1>2. ~rec.recording
  BY <1>0, <1>1, LaterTop DEF RecStarts
<1>3. ~rec'.recording
  <2>1. CASE DrvStop(t) \/ DrvCloseInput(t) \/ DrvStopped(t)
    BY <1>0, <1>2, <2>1 DEF DrvStop, DrvCloseInput, DrvStopped, RecRecords
  <2>2. CASE RecorderReleased(t)
    BY <1>0, <1>2, <2>2 DEF RecorderReleased, RecRecords
  <2>3. CASE InputClosed(t)
    BY <1>0, <1>2, <2>3 DEF InputClosed, RecRecords
  <2> QED BY <2>1, <2>2, <2>3
<1>4. ASSUME NEW pc, NEW x, Go(t, pc, x)
      PROVE  OnTheWay'
  <2>1. PICK f : f = Call(Top(t).fn, pc, x)
    OBVIOUS
  <2>2. f.fn = "drvStop" /\ f.exc = "none"
    BY <1>1, <2>1, CallFields
  <2>3. InOrder(f)'
    BY <1>0, <1>1, <1>3, <2>2, StillLater DEF RecStarts
  <2> QED BY <1>4, <2>1, <2>2, <2>3, StartGoes
<1>5. ASSUME Return(t, 0)
      PROVE  OnTheWay'
  <2>1. ASSUME NEW f, NEW g, Over("drvStop", g), IsStart(g), Resumes(f, g), f.exc = "none"
        PROVE  InOrder(f)'
    <3>1. f.fn = "drvStart" /\ f.pc = "failed"
      BY <2>1 DEF Over, Resumes
    <3> QED BY <1>0, <1>1, <1>3, <2>1, <3>1, StillLater DEF RecStarts
  <2> QED BY <1>1, <1>5, <2>1, StartReturns
<1>6. Return(t, 0) \/ \E pc, x : Go(t, pc, x)
  BY DEF DrvStop, DrvCloseInput, DrvStopped, RecorderReleased, InputClosed
<1> QED BY <1>4, <1>5, <1>6

LEMMA PressStarts ==
    ASSUME TypeInv, NEW t \in TaskIds, Starting(t), scr.ptt = "starting", ScreenStep(t)
    PROVE  Served'
<1> USE DEF IsOpen, IsLater, IsWaiting, IsStart
<1>0. /\ IsStart(Top(t)) /\ InOrder(Top(t)) /\ Top(t) \in CallFrames /\ Alive(t)
      /\ ws \in WsRecords /\ scr \in ScrRecords /\ Top(t).x \in Nat
  BY StartTop, TopOn, WsIs, ScrIs DEF CallFrames
<1>1. Press(t) \/ PressSessionCreated(t) \/ PressConnected(t) \/ PressRecorder(t)
  <2>1. ~(PressStopped(t) \/ PressFails(t) \/ Ends(t))
    BY <1>0 DEF PressStopped, PressFails, Ends, At, Caught
  <2>2. ~(Release(t) \/ ReleaseStopsRecorder(t) \/ ReleaseEndsUtterance(t))
    BY <1>0 DEF Release, ReleaseStopsRecorder, ReleaseEndsUtterance, At
  <2>3. ~(\/ Teardown(t) \/ TeardownStopsRecorder(t) \/ TeardownCancelsText(t)
          \/ TeardownDisconnects(t) \/ TeardownEnds(t))
    BY <1>0 DEF Teardown, TeardownStopsRecorder, TeardownCancelsText, TeardownDisconnects,
       TeardownEnds, At
  <2> QED BY <2>1, <2>2, <2>3 DEF ScreenStep
<1>2. Top(t).fn = "press" /\ Top(t).exc = "none"
  BY <1>1 DEF Press, PressSessionCreated, PressConnected, PressRecorder, At
<1>3. ASSUME scr'.ptt = "starting", OnTheWay'
      PROVE  Served'
  BY <1>3 DEF Served
<1>4. CASE Press(t) \/ PressSessionCreated(t)
  <2>1. Top(t).pc \in {"start", "created"} /\ UNCHANGED <<ws, rec>>
    BY <1>4 DEF Press, PressSessionCreated, At
  <2>2. Undisturbed /\ Unheard /\ ~rec.recording
    BY <1>0, <1>2, <2>1, UnheardTop
  <2>3. scr'.ptt = "starting"
    BY <1>0, <1>4 DEF Press, PressSessionCreated, ScrRecords
  <2>4. Enter(t, "connect", "connected") \/ Go(t, "creating", Top(t).x)
    BY <1>4 DEF Press, PressSessionCreated
  <2>5. CASE Enter(t, "connect", "connected")
    <3>1. PICK f, g : f = Call("connect", "start", 0) /\ g = Call(Top(t).fn, "connected", Top(t).x)
      OBVIOUS
    <3>2. f.fn = "connect" /\ f.pc = "start" /\ IsStart(f) /\ IsStart(g)
      BY <1>2, <3>1, CallFields
    <3>3. InOrder(f)'
      BY <2>1, <2>2, <3>2, StillUnheard
    <3>4. OnTheWay'
      BY <2>5, <3>1, <3>2, <3>3, StartEnters
    <3> QED BY <1>3, <2>3, <3>4
  <2>6. CASE Go(t, "creating", Top(t).x)
    <3>1. PICK f : f = Call(Top(t).fn, "creating", Top(t).x)
      OBVIOUS
    <3>2. f.fn = "press" /\ f.pc = "creating" /\ IsStart(f)
      BY <1>2, <3>1, CallFields
    <3>3. InOrder(f)'
      BY <2>1, <2>2, <3>2, StillUnheard
    <3>4. OnTheWay'
      BY <2>6, <3>1, <3>2, <3>3, StartGoes
    <3> QED BY <1>3, <2>3, <3>4
  <2> QED BY <2>4, <2>5, <2>6
<1>5. CASE PressConnected(t)
  <2> DEFINE sub == [press |-> Top(t).x, text |-> ws.text]
  <2>1. /\ Top(t).pc = "connected" /\ Enter(t, "recStart", "recorder") /\ rec' = rec
        /\ ws' = [ws EXCEPT !.listeners = @ \cup {sub}]
        /\ scr' = [scr EXCEPT !.textSub = sub, !.wsConn = TRUE]
    BY <1>5 DEF PressConnected, At
  <2>2. Undisturbed /\ Connected({"opened"}) /\ ws.listeners = {} /\ ~rec.recording
    BY <1>0, <1>2, <2>1, OpenTop
  <2>3. sub.text = ws.text
    OBVIOUS
  <2> HIDE DEF sub
  <2>4. Undisturbed' /\ Connected({"opened"})' /\ Subscribed' /\ ~rec'.recording
    BY <1>0, <2>1, <2>2, <2>3 DEF Undisturbed, Connected, Subscribed, WsRecords, ScrRecords
  <2>5. PICK f, g : f = Call("recStart", "start", 0) /\ g = Call(Top(t).fn, "recorder", Top(t).x)
    OBVIOUS
  <2>6. f.fn = "recStart" /\ f.pc = "start" /\ IsStart(f) /\ IsStart(g)
    BY <1>2, <2>5, CallFields
  <2>7. RecStarts(f)'
    BY <2>4, <2>6 DEF RecStarts
  <2>8. InOrder(f)'
    BY <2>4, <2>6, <2>7, LaterInOrder
  <2>9. OnTheWay'
    BY <2>1, <2>5, <2>6, <2>8, StartEnters
  <2>10. scr'.ptt = "starting"
    BY <1>0, <2>1 DEF ScrRecords
  <2> QED BY <1>3, <2>9, <2>10
<1>6. CASE PressRecorder(t)
  <2>1. Top(t).pc = "recorder" /\ UNCHANGED <<ws, rec>>
    BY <1>6 DEF PressRecorder, At
  <2>2. /\ Undisturbed /\ Connected({"opened"}) /\ Subscribed
        /\ rec.recording /\ rec.mic # {}
    BY <1>0, <1>2, <2>1, LaterTop DEF RecStarts
  <2>3. CASE Enter(t, "teardown", "end") /\ UNCHANGED scr
    <3>1. PICK f, g : f = Call("teardown", "start", 0) /\ Shows(t, f, {f, g}, {Top(t)})
      BY <1>0, <2>3, EnterShows
    <3>2. IsDoom(f)
      BY <3>1, CallFields DEF IsDoom
    <3>3. OnTheWay'
      BY <3>1, <3>2, StartDooms
    <3> QED BY <1>3, <2>3, <3>3
  <2>4. CASE Return(t, 0) /\ scr' = [scr EXCEPT !.ptt = "recording", !.audioSub = Top(t).x,
                                                !.audible = @ \cup {Top(t).val}]
    <3>1. \A g : ~Over(Top(t).fn, g)
      BY <1>2 DEF Over
    <3>2. Puts(t, <<>>)
      BY <1>0, <2>4, <3>1, ZeroIsNat, ReturnShows
    <3>3. NoTask'
      BY <3>2 DEF Starting, Alone, Puts, NoTask, TypeInv, Stacks
    <3>4. Undisturbed' /\ Connected({"opened"})' /\ rec'.recording /\ rec'.mic # {}
      BY <2>1, <2>2 DEF Undisturbed, Connected
    <3> DEFINE a == Top(t).x
               v == Top(t).val
    <3>5. scr' = [scr EXCEPT !.ptt = "recording", !.audioSub = a, !.audible = @ \cup {v}]
      BY <2>4
    <3> HIDE DEF a, v
    <3>6. scr'.ptt = "recording" /\ scr'.textSub = scr.textSub /\ scr'.wsConn = scr.wsConn
      BY <1>0, <3>5 DEF ScrRecords
    <3>7. Subscribed'
      BY <2>1, <2>2, <3>6 DEF Subscribed
    <3> QED BY <3>3, <3>4, <3>6, <3>7 DEF Served, Recording
  <2> QED BY <1>6, <2>3, <2>4 DEF PressRecorder
<1> QED BY <1>1, <1>4, <1>5, <1>6

LEMMA SessionAnsweredStarts ==
    ASSUME TypeInv, NEW t \in TaskIds, Starting(t), SessionAnswered(t), UNCHANGED rec
    PROVE  OnTheWay'
<1> USE DEF IsOpen, IsLater, IsWaiting, IsStart
<1>1. /\ Top(t).fn = "press" /\ Top(t).pc = "creating" /\ At(t, "press", "creating")
      /\ UNCHANGED <<ws, rec>>
  BY DEF SessionAnswered, At
<1>2. Undisturbed /\ Unheard /\ ~rec.recording
  BY <1>1, StartTop, UnheardTop
<1>3. CASE Go(t, "created", Top(t).x)
  <2>1. PICK f : f = Call(Top(t).fn, "created", Top(t).x)
    OBVIOUS
  <2>2. f.fn = "press" /\ f.pc = "created" /\ IsStart(f)
    BY <1>1, <2>1, CallFields
  <2>3. InOrder(f)'
    BY <1>1, <1>2, <2>2, StillUnheard
  <2> QED BY <1>3, <2>1, <2>2, <2>3, StartGoes
<1>4. CASE tasks' = [tasks EXCEPT ![t][1].exc = "session"]
  BY <1>1, <1>4, RefusedDooms DEF OnTheWay, Doomed
<1> QED BY <1>3, <1>4 DEF SessionAnswered

\* An event for the one subscription that listens is on its way to it.
LEMMA EmittedReaches ==
    ASSUME TypeInv, NEW kind \in {"final", "error"}, Undisturbed, Subscribed,
           ws'.pending = Emitted(kind), ws'.listeners = ws.listeners
    PROVE  Pends'
<1> DEFINE k == scr.textSub
           e == [to |-> k, kind |-> kind]
           X == SetToSeq({e})
<1>1. {l \in ws.listeners : l.text = ws.text} = {k}
  BY DEF Subscribed
<1>2. {[to |-> l, kind |-> kind] : l \in {l \in ws.listeners : l.text = ws.text}} = {e}
  BY <1>1
<1>3. ws'.pending = ws.pending \o X /\ ws.pending = <<>>
  BY <1>2 DEF Emitted, Undisturbed
<1>4. X \in Seq({e}) /\ \E i \in DOMAIN X : X[i] = e
  <2> HIDE DEF e
  <2>1. IsFiniteSet({e}) /\ Cardinality({e}) = 1
    BY FS_Singleton
  <2>2. X \in Seq({e}) /\ Len(X) = 1
    BY <2>1, SetToSeqIsSeq, Zenon
  <2> HIDE DEF X
  <2>3. X \in [1..1 -> {e}]
    BY <2>2, LenProperties
  <2> QED BY <2>2, <2>3
<1>5. e.to = k
  OBVIOUS
<1> HIDE DEF e, k, X
<1>6. ws'.pending = X
  BY <1>3, <1>4
<1>7. k \in ws'.listeners
  BY DEF Subscribed, k
<1> QED BY <1>4, <1>5, <1>6, <1>7 DEF Pends

\* The answer to an attempt, while nothing else is under way.
LEMMA CompletedShows ==
    ASSUME TypeInv, NEW t \in TaskIds, Alone(t), NEW how, tasks' = Completed(tasks, how),
           NEW f, NEW g, Turns(tasks[t], Completed(tasks, how)[t], f, {f}, {Top(t), g})
    PROVE  Shows(t, f, {f}, {Top(t), g})
<1>1. \A u \in TaskIds \ {t} : ~Awaits(u, ws.completer)
  BY DEF Alone, Awaits, At, Alive
<1>2. \A u \in TaskIds \ {t} : tasks'[u] = tasks[u]
  BY <1>1, CompletedKeeps
<1> QED BY <1>2 DEF Shows, Turns

LEMMA AnswerStarts ==
    ASSUME TypeInv, NEW t \in TaskIds, Starting(t), IsWaiting(Top(t)), NEW s \in Sockets,
           UNCHANGED <<rec, scr>>,
           ReceiveOpened(s) \/ ReceiveFinal(s) \/ ReceiveError(s) \/ SocketEnds(s)
    PROVE  OnTheWay'
<1>0. ws \in WsRecords /\ IsStart(Top(t)) /\ InOrder(Top(t)) /\ Alive(t)
  BY WsIs, StartTop
<1>1. Undisturbed /\ Waiting(Top(t)) /\ ~rec.recording
  BY <1>0, WaitingTop
<1>2. Awaits(t, ws.completer) /\ ws.completer # None /\ ws.completed = "no" /\ Alone(t)
  BY <1>0, <1>1 DEF Awaits, At, Waiting, IsWaiting, IsStart, Starting
<1>3. s = ws.socket /\ ws.heard = {s} /\ ws.server[s] = "started" /\ ~ws.connected
  BY <1>1 DEF Waiting, ReceiveOpened, ReceiveFinal, ReceiveError, SocketEnds
<1>4. ~ReceiveFinal(s)
  BY <1>3 DEF ReceiveFinal
<1>5. CASE ReceiveOpened(s)
  <2>1. /\ ws' = [ws EXCEPT !.server[s] = "opened", !.connected = TRUE, !.completed = "ok"]
        /\ tasks' = Completed(tasks, "ok")
    BY <1>2, <1>5 DEF ReceiveOpened, Completion
  <2>2. PICK f, g : Completes(t, "ok", f, g)
    BY <1>2, CompletedTurns
  <2>3. Shows(t, f, {f}, {Top(t), g})
    BY <1>2, <2>1, <2>2, CompletedShows DEF Completes
  <2>4. IsOpen(f) /\ IsStart(f)
    BY <2>2 DEF IsOpen, IsStart, Completes
  <2>5. Undisturbed' /\ Connected({"opened"})' /\ ws'.listeners = {} /\ ~rec'.recording
    BY <1>0, <1>1, <1>3, <2>1 DEF Undisturbed, Waiting, Connected, WsRecords
  <2>6. InOrder(f)'
    BY <2>4, <2>5, OpenInOrder
  <2> QED BY <2>3, <2>4, <2>6, StartsOn
<1>6. CASE ReceiveError(s)
  <2> DEFINE ts == Completed(tasks, "translatorWs")
  <2>1. CanSpawn /\ tasks' = Spawns(ts, "finish", 0)
    BY <1>6 DEF ReceiveError
  <2>2. PICK f, g : Completes(t, "translatorWs", f, g)
    BY <1>2, CompletedTurns
  <2>3. f \in On(ts[t]) /\ IsDoom(f)
    BY <2>2 DEF Turns, IsDoom, Over, Completes
  <2>4. DOMAIN ts = TaskIds /\ HasDoom(ts)
    BY <2>3, CompletedKeeps DEF HasDoom
  <2>5. \A u \in TaskIds : tasks[u] = <<>> => ts[u] = <<>>
    <3>1. \A u \in TaskIds : tasks[u] = <<>> => ~Awaits(u, ws.completer)
      BY DEF Awaits, At, Alive
    <3> QED BY <3>1, CompletedKeeps
  <2> HIDE DEF ts
  <2>6. HasDoom(tasks')
    BY <2>1, <2>4, <2>5, SpawnsKeepDoom
  <2> QED BY <2>6 DEF OnTheWay, Doomed
<1>7. CASE SocketEnds(s)
  <2>1. /\ ws' = [[ws EXCEPT !.server[s] = "gone", !.heard = @ \ {s}]
                     EXCEPT !.completed = "transport"]
        /\ tasks' = Completed(tasks, "transport")
    BY <1>1, <1>2, <1>3, <1>7 DEF SocketEnds, Completion, Undisturbed
  <2>2. PICK f, g : Completes(t, "transport", f, g)
    BY <1>2, CompletedTurns
  <2>3. Shows(t, f, {f}, {Top(t), g})
    BY <1>2, <2>1, <2>2, CompletedShows DEF Completes
  <2>4. f.fn = "connect" /\ f.pc = "returned" /\ f.exc = "transport"
    BY <2>2 DEF Over, Completes
  <2>5. Undisturbed' /\ Unheard' /\ ~rec'.recording
    BY <1>0, <1>1, <1>3, <2>1 DEF Undisturbed, Waiting, Unheard, WsRecords
  <2>6. Attempting(f)'
    BY <2>4 DEF Attempting
  <2>7. IsStart(f) /\ InOrder(f)'
    BY <2>4, <2>5, <2>6, UnheardInOrder DEF IsStart, IsOpen, IsLater, IsWaiting
  <2> QED BY <2>3, <2>7, StartsOn
<1> QED BY <1>4, <1>5, <1>6, <1>7

\* An event of the open connection that fails.
LEMMA LostPends ==
    ASSUME TypeInv, NEW s \in Sockets, Undisturbed, Connected({"opened", "ended"}), Subscribed,
           ReceiveFinal(s) \/ ReceiveError(s) \/ SocketEnds(s)
    PROVE  Pends'
<1>0. ws \in WsRecords
  BY WsIs
<1>1. CASE ReceiveFinal(s)
  <2> DEFINE p == Emitted("final")
  <2>1. ws' = [ws EXCEPT !.server[s] = "answered", !.pending = p]
    BY <1>1 DEF ReceiveFinal
  <2> HIDE DEF p
  <2>2. ws'.pending = p /\ ws'.listeners = ws.listeners
    BY <1>0, <2>1 DEF WsRecords
  <2> QED BY <2>2, EmittedReaches DEF p
<1>2. CASE ReceiveError(s)
  <2> DEFINE p == Emitted("error")
             d == Completion("translatorWs")
  <2>1. ws' = [ws EXCEPT !.server[s] = "failed", !.connected = FALSE, !.pending = p,
                         !.completed = d]
    BY <1>2 DEF ReceiveError
  <2> HIDE DEF p, d
  <2>2. ws'.pending = p /\ ws'.listeners = ws.listeners
    BY <1>0, <2>1 DEF WsRecords
  <2> QED BY <2>2, EmittedReaches DEF p
<1>3. CASE SocketEnds(s)
  <2> DEFINE p == Emitted("error")
  <2>1. ws' = [[ws EXCEPT !.server[s] = "gone", !.heard = @ \ {s}]
                  EXCEPT !.connected = FALSE, !.pending = p]
    BY <1>3 DEF SocketEnds, Undisturbed, Connected
  <2> HIDE DEF p
  <2>2. ws'.pending = p /\ ws'.listeners = ws.listeners
    BY <1>0, <2>1 DEF WsRecords
  <2> QED BY <2>2, EmittedReaches DEF p
<1> QED BY <1>1, <1>2, <1>3

\* An event of a socket finds the press waiting for it, or connected.
LEMMA ReceiveStarts ==
    ASSUME TypeInv, NEW t \in TaskIds, Starting(t), NoneReady, NEW s \in Sockets,
           UNCHANGED <<rec, scr>>,
           ReceiveOpened(s) \/ ReceiveFinal(s) \/ ReceiveError(s) \/ SocketEnds(s)
    PROVE  OnTheWay'
<1>0. InOrder(Top(t)) /\ Alive(t)
  BY StartTop
<1>1. s \in ws.heard
  BY DEF ReceiveOpened, ReceiveFinal, ReceiveError, SocketEnds
<1>2. ~IsOpen(Top(t))
  BY <1>0 DEF NoneReady, Ready, IsOpen, Outside
<1>3. CASE IsLater(Top(t))
  <2>1. Undisturbed /\ Connected({"opened"}) /\ Subscribed
    BY <1>0, <1>3, LaterTop
  <2>2. ~ReceiveOpened(s) /\ Connected({"opened", "ended"})
    BY <2>1 DEF Connected, ReceiveOpened
  <2>3. Pends'
    BY <2>1, <2>2, LostPends
  <2> QED BY <2>3 DEF OnTheWay, Doomed
<1>4. CASE IsWaiting(Top(t))
  BY <1>4, AnswerStarts
<1>5. CASE ~IsLater(Top(t)) /\ ~IsWaiting(Top(t))
  BY <1>0, <1>1, <1>2, <1>5, UnheardTop DEF Unheard
<1> QED BY <1>3, <1>4, <1>5

\* An event that changes neither the calls, the connection nor the microphone.
Aside ==
    /\ UNCHANGED <<tasks, ws, rec>> /\ scr \in ScrRecords
    /\ \/ PressDown \/ PressAges \/ CooldownElapses

LEMMA AsideShows ==
    ASSUME Aside
    PROVE  scr'.textSub = scr.textSub /\ scr'.wsConn = scr.wsConn
<1>1. CASE PressDown
  BY <1>1 DEF Aside, PressDown, ScrRecords
<1>2. CASE PressAges \/ CooldownElapses
  BY <1>2 DEF Aside, PressAges, CooldownElapses, ScrRecords
<1> QED BY <1>1, <1>2 DEF Aside

LEMMA AsideStarts ==
    ASSUME Aside, NEW t \in TaskIds, Starting(t)
    PROVE  OnTheWay'
<1> DEFINE f == tasks[t][1]
<1>1. scr'.textSub = scr.textSub /\ scr'.wsConn = scr.wsConn /\ UNCHANGED <<tasks, ws, rec>>
  BY AsideShows DEF Aside
<1>2. Alone(t)' /\ Alive(t)' /\ (\A g \in On(tasks[t]) : IsStart(g))'
  BY <1>1 DEF Starting, Alone, Alive, On, IsStart
<1>3. Undisturbed' /\ RecStarts(f)'
  BY <1>1 DEF Starting, InOrder, Undisturbed, RecStarts
<1>4. WsStarts(f)'
  BY <1>1 DEF Starting, InOrder, WsStarts, IsOpen, IsLater, IsWaiting, Connected, Subscribed,
     Waiting, Unheard, Attempting
<1> QED BY <1>2, <1>3, <1>4 DEF Starting, InOrder, OnTheWay

LEMMA StartingServed ==
    ASSUME TypeInv, scr.ptt = "starting", NEW t \in TaskIds, Starting(t), Next, ~Stuck'
    PROVE  Served'
<1>0. /\ scr \in ScrRecords /\ ws.pending = <<>>
      /\ \A u \in TaskIds : Alive(u) => u = t
  BY ScrIs, StartTop DEF InOrder, Undisturbed
<1>1. ASSUME OnTheWay', UNCHANGED scr
      PROVE  Served'
  BY <1>1 DEF Served
<1>2. ASSUME NEW u \in TaskIds, WsStep(u), Alive(u), UNCHANGED <<rec, scr>>
      PROVE  Served'
  <2>1. WsStep(t)
    BY <1>0, <1>2
  <2>2. OnTheWay'
    BY <1>2, <2>1, ConnectStarts, OpenOnceStarts, ResetStarts DEF WsStep
  <2> QED BY <1>1, <1>2, <2>2
<1>3. ASSUME NEW u \in TaskIds, RecStep(u), Alive(u), UNCHANGED <<ws, scr>>
      PROVE  Served'
  <2>1. RecStep(t)
    BY <1>0, <1>3
  <2>2. ~(RecStop(t) \/ RecStopDriver(t) \/ RecStopped(t))
    BY StartTop DEF RecStop, RecStopDriver, RecStopped, At, IsStart
  <2>3. OnTheWay'
    BY <1>3, <2>1, <2>2, RecStartStarts, DrvStartStarts, DrvStopStarts DEF RecStep
  <2> QED BY <1>1, <1>3, <2>3
<1>4. ASSUME NEW u \in TaskIds, ScreenStep(u), Alive(u)
      PROVE  Served'
  <2>1. ScreenStep(t)
    BY <1>0, <1>4
  <2> QED BY <2>1, PressStarts
<1>5. ASSUME NEW u \in TaskIds, InputClosed(u), UNCHANGED <<ws, scr>>
      PROVE  Served'
  <2>1. InputClosed(t)
    BY <1>0, <1>5 DEF InputClosed, InputCloses, At
  <2>2. OnTheWay'
    BY <1>5, <2>1, DrvStopStarts
  <2> QED BY <1>1, <1>5, <2>2
<1>6. ~DeliverText
  BY <1>0 DEF DeliverText
<1>7. ASSUME WsEvent, NoneReady, UNCHANGED <<rec, scr>>
      PROVE  Served'
  <2>1. ASSUME NEW u \in TaskIds,
               SocketReady(u) \/ SocketFails(u) \/ BackoffElapses(u) \/ SocketClosed(u)
        PROVE  OnTheWay'
    <3>1. Alive(u)
      BY <2>1 DEF SocketReady, SocketFails, BackoffElapses, SocketClosed, At
    <3>2. SocketReady(t) \/ SocketFails(t) \/ BackoffElapses(t) \/ SocketClosed(t)
      BY <1>0, <2>1, <3>1
    <3> QED BY <1>7, <3>2, ConnectStarts, OpenOnceStarts, ResetStarts
  <2>2. ASSUME NEW s \in Sockets,
               ReceiveOpened(s) \/ ReceiveFinal(s) \/ ReceiveError(s) \/ SocketEnds(s)
        PROVE  OnTheWay'
    BY <1>7, <2>2, ReceiveStarts
  <2>3. OnTheWay'
    BY <1>7, <2>1, <2>2 DEF WsEvent
  <2> QED BY <1>1, <1>7, <2>3
<1>8. ASSUME RecEvent, UNCHANGED <<ws, scr>>
      PROVE  Served'
  <2>1. PICK u \in TaskIds : PermissionAnswered(u) \/ RecorderOpened(u) \/ RecorderReleased(u)
    BY <1>8, FailedReleaseSticks DEF RecEvent
  <2>2. u = t
    BY <1>0, <2>1 DEF PermissionAnswered, RecorderOpened, RecorderReleased, At
  <2>3. OnTheWay'
    BY <1>8, <2>1, <2>2, DrvStartStarts, DrvStopStarts
  <2> QED BY <1>1, <1>8, <2>3
<1>9. ASSUME NEW u \in TaskIds, SessionAnswered(u)
      PROVE  Served'
  <2>1. u = t /\ UNCHANGED <<rec, scr>>
    BY <1>0, <1>9 DEF SessionAnswered, At
  <2>2. OnTheWay'
    BY <1>9, <2>1, SessionAnsweredStarts
  <2> QED BY <1>1, <2>1, <2>2
<1>10. ASSUME PressDown \/ PressAges \/ CooldownElapses
       PROVE  Served'
  <2>1. Aside /\ scr'.ptt = scr.ptt
    BY <1>0, <1>10 DEF Aside, PressDown, PressAges, CooldownElapses, Accepts, ScrRecords
  <2>2. OnTheWay'
    BY <2>1, AsideStarts
  <2> QED BY <2>1, <2>2 DEF Served
<1>11. ASSUME PressUp
       PROVE  Served'
  <2>1. scr'.ptt = "aborting"
    BY <1>0, <1>11 DEF PressUp, ScrRecords
  <2> QED BY <2>1 DEF Served
<1>12. ASSUME RunTimesOut
       PROVE  Served'
  <2>1. HasDoom(tasks') /\ scr'.ptt = "starting"
    BY <1>0, <1>12, TeardownDooms DEF RunTimesOut, ScrRecords
  <2> QED BY <2>1 DEF Served, OnTheWay, Doomed
<1>13. ASSUME Step PROVE Served'
  <2>1. \A u \in TaskIds : MayRun(u) => Alive(u)
    BY DEF MayRun, Ready
  <2> QED BY <1>2, <1>3, <1>4, <1>5, <1>6, <1>13, <2>1 DEF Step
<1>14. ASSUME Event PROVE Served'
  BY <1>7, <1>8, <1>9, <1>10, <1>11, <1>12, <1>14 DEF Event, Idle
<1> QED BY <1>13, <1>14 DEF Next

----------------------------------------------------------------------------
\* The press that records.

\* Events of the connection that serves a recording, or the end of one.
LEMMA ReceivedServed ==
    ASSUME TypeInv, Undisturbed, Connected({"opened", "ended"}), Subscribed,
           NEW s \in Sockets, UNCHANGED scr, scr.ptt # "starting",
           ReceiveOpened(s) \/ ReceiveFinal(s) \/ ReceiveError(s) \/ SocketEnds(s)
    PROVE  Served'
<1>1. ~ReceiveOpened(s)
  BY DEF Connected, ReceiveOpened
<1>2. Pends'
  BY <1>1, LostPends
<1> QED BY <1>2 DEF Served, Doomed

LEMMA TimeOutServed ==
    ASSUME TypeInv, scr.ptt # "starting", RunTimesOut
    PROVE  Served'
<1>1. HasDoom(tasks')
  BY TeardownDooms DEF RunTimesOut
<1> QED BY <1>1 DEF Served, Doomed, OnTheWay

LEMMA RecordingServed ==
    ASSUME TypeInv, scr.ptt = "recording", Recording, Next
    PROVE  Served'
<1>0. /\ scr \in ScrRecords /\ ws.pending = <<>> /\ Connected({"opened", "ended"})
      /\ \A u \in TaskIds : ~Alive(u)
  BY ScrIs DEF Recording, Undisturbed, Connected, NoTask, Alive
<1> USE DEF Recording
<1>1. ~Step
  <2>1. \A u \in TaskIds : ~MayRun(u) /\ ~InputClosed(u)
    BY <1>0 DEF MayRun, Ready, InputClosed, InputCloses, At
  <2>2. ~DeliverText
    BY <1>0 DEF DeliverText
  <2> QED BY <2>1, <2>2 DEF Step
<1>2. ASSUME WsEvent, UNCHANGED scr PROVE Served'
  <2>1. \A u \in TaskIds :
           ~(SocketReady(u) \/ SocketFails(u) \/ BackoffElapses(u) \/ SocketClosed(u))
    BY <1>0 DEF SocketReady, SocketFails, BackoffElapses, SocketClosed, At
  <2> QED BY <1>0, <1>2, <2>1, ReceivedServed DEF WsEvent
<1>3. ~RecEvent /\ \A u \in TaskIds : ~SessionAnswered(u)
  BY <1>0 DEF RecEvent, PermissionAnswered, RecorderOpened, RecorderReleased,
     RecorderReleaseFails, SessionAnswered, At
<1>4. ASSUME PressDown \/ PressAges \/ CooldownElapses
      PROVE  Served'
  <2>1. Aside /\ scr'.ptt = scr.ptt
    BY <1>0, <1>4 DEF Aside, PressDown, PressAges, CooldownElapses, Accepts, ScrRecords
  <2>2. scr'.textSub = scr.textSub /\ scr'.wsConn = scr.wsConn /\ UNCHANGED <<tasks, ws, rec>>
    BY <2>1, AsideShows DEF Aside
  <2>3. Recording'
    BY <2>2 DEF NoTask, Undisturbed, Connected, Subscribed
  <2> QED BY <2>1, <2>3 DEF Served
<1>5. ASSUME PressUp PROVE Served'
  <2>1. CASE CanSpawn /\ tasks' = Spawns(tasks, "release", 0) /\ ws' = ws
             /\ scr' = [scr EXCEPT !.finger = "up", !.ptt = "ending"]
    <3> DEFINE f == Call("release", "start", 0)
    <3>1. PICK t \in TaskIds : Puts(t, <<f>>)
      BY <2>1, SpawnPuts
    <3>2. IsEnd(f)
      BY CallFields DEF IsEnd
    <3> HIDE DEF f
    <3>3. tasks'[t] = <<f>> /\ \A u \in TaskIds \ {t} : tasks'[u] = <<>>
      BY <3>1 DEF Puts, TypeInv, Stacks, NoTask
    <3>4. On(<<f>>) = {f}
      BY DEF On
    <3>5. Releasing(t)'
      BY <3>2, <3>3, <3>4 DEF Releasing, Alone, IsEnd, On
    <3>6. scr'.textSub = scr.textSub /\ scr'.wsConn = scr.wsConn /\ scr'.ptt = "ending"
      BY <1>0, <2>1 DEF ScrRecords
    <3>7. Undisturbed' /\ Connected({"opened", "ended"})' /\ Subscribed'
      BY <1>0, <2>1, <3>6 DEF Undisturbed, Connected, Subscribed
    <3> QED BY <3>5, <3>6, <3>7 DEF Served, Ending
  <2>2. CASE scr' = [scr EXCEPT !.finger = "up", !.ptt = "aborting"]
    BY <1>0, <2>2 DEF Served, ScrRecords
  <2> QED BY <1>5, <2>1, <2>2 DEF PressUp
<1>6. ASSUME Event PROVE Served'
  BY <1>2, <1>3, <1>4, <1>5, <1>6, TimeOutServed DEF Event
<1> QED BY <1>1, <1>6 DEF Next

----------------------------------------------------------------------------
\* The press that was released.

LEMMA ReleasingShows ==
    ASSUME NEW t \in TaskIds, Releasing(t), NEW f, NEW new, NEW gone, Shows(t, f, new, gone),
           \A g \in new : IsEnd(g)
    PROVE  Releasing(t)'
<1>1. Alone(t)'
  BY DEF Releasing, Alone, Shows
<1>2. \A g \in On(tasks'[t]) : IsEnd(g)
  BY DEF Releasing, Shows
<1> QED BY <1>1, <1>2 DEF Releasing, IsEnd, On

LEMMA ReleasingGoes ==
    ASSUME TypeInv, NEW t \in TaskIds, Releasing(t), Alive(t), NEW pc, NEW x, Go(t, pc, x),
           \/ Top(t).fn \in {"recStop", "drvStop"}
           \/ Top(t).fn = "release" /\ pc \in {"cancelled", "stopped"}
    PROVE  Releasing(t)'
<1>1. PICK f : f = Call(Top(t).fn, pc, x) /\ Shows(t, f, {f}, {Top(t)})
  BY GoShows
<1>2. IsEnd(f)
  BY <1>1, CallFields DEF IsEnd
<1> QED BY <1>1, <1>2, ReleasingShows

LEMMA ReleasingEnters ==
    ASSUME TypeInv, NEW t \in TaskIds, Releasing(t), Alive(t),
           NEW fn \in {"recStop", "drvStop"}, NEW pc, Enter(t, fn, pc),
           \/ Top(t).fn \in {"recStop", "drvStop"}
           \/ Top(t).fn = "release" /\ pc \in {"cancelled", "stopped"}
    PROVE  Releasing(t)'
<1>1. PICK f, g : /\ f = Call(fn, "start", 0) /\ g = Call(Top(t).fn, pc, Top(t).x)
                  /\ Shows(t, f, {f, g}, {Top(t)})
  BY EnterShows
<1>2. IsEnd(f) /\ IsEnd(g)
  BY <1>1, CallFields DEF IsEnd
<1> QED BY <1>1, <1>2, ReleasingShows

LEMMA ReleasingReturns ==
    ASSUME TypeInv, NEW t \in TaskIds, Releasing(t), Alive(t), NEW val \in Nat, Return(t, val)
    PROVE  Releasing(t)'
<1>1. CASE Puts(t, <<>>)
  <2>1. tasks'[t] = <<>> /\ \A u \in TaskIds \ {t} : tasks'[u] = tasks[u]
    BY <1>1 DEF Puts, TypeInv, Stacks
  <2>2. On(<<>>) = {}
    BY DEF On
  <2> QED BY <2>1, <2>2 DEF Releasing, Alone, On
<1>2. ASSUME NEW f, NEW g, g \in On(tasks[t]), f.fn = g.fn, f.pc = g.pc,
             Shows(t, f, {f}, {Top(t), g})
      PROVE  Releasing(t)'
  <2>1. IsEnd(f)
    BY <1>2 DEF Releasing, IsEnd
  <2> QED BY <1>2, <2>1, ReleasingShows
<1> QED BY <1>1, <1>2, ReturnShows

LEMMA RecorderReleases ==
    ASSUME TypeInv, NEW t \in TaskIds, Releasing(t), Alive(t),
           RecStep(t) \/ RecorderReleased(t) \/ InputClosed(t)
    PROVE  Releasing(t)'
<1>0. IsEnd(Top(t))
  BY TopOn DEF Releasing
<1>1. ASSUME NEW pc, NEW x, Top(t).fn \in {"recStop", "drvStop"}, Go(t, pc, x)
      PROVE  Releasing(t)'
  BY <1>1, ReleasingGoes
<1>2. ASSUME Return(t, 0) PROVE Releasing(t)'
  BY <1>2, ZeroIsNat, ReleasingReturns
<1>3. ASSUME RecStep(t) PROVE Releasing(t)'
  <2>1. ~(RecStart(t) \/ RecStarted(t) \/ RecStartFails(t))
    BY <1>0 DEF IsEnd, RecStart, RecStarted, RecStartFails, At, Caught
  <2>2. ~(DrvStart(t) \/ DrvOpen(t) \/ DrvStarted(t) \/ DrvStartFails(t))
    BY <1>0 DEF IsEnd, DrvStart, DrvOpen, DrvStarted, DrvStartFails, At
  <2>3. CASE RecStop(t) \/ RecStopped(t)
    <3>1. Top(t).fn = "recStop"
      BY <2>3 DEF RecStop, RecStopped, At
    <3>2. Return(t, 0) \/ \E pc, x : Go(t, pc, x)
      BY <2>3 DEF RecStop, RecStopped
    <3> QED BY <1>1, <1>2, <3>1, <3>2
  <2>4. CASE RecStopDriver(t)
    <3>1. Top(t).fn = "recStop" /\ Enter(t, "drvStop", "stopped")
      BY <2>4 DEF RecStopDriver, At
    <3> QED BY <3>1, ReleasingEnters
  <2>5. CASE DrvStop(t) \/ DrvCloseInput(t) \/ DrvStopped(t)
    <3>1. Top(t).fn = "drvStop"
      BY <2>5 DEF DrvStop, DrvCloseInput, DrvStopped, At
    <3>2. Return(t, 0) \/ \E pc, x : Go(t, pc, x)
      BY <2>5 DEF DrvStop, DrvCloseInput, DrvStopped
    <3> QED BY <1>1, <1>2, <3>1, <3>2
  <2> QED BY <1>3, <2>1, <2>2, <2>3, <2>4, <2>5 DEF RecStep
<1>4. ASSUME RecorderReleased(t) \/ InputClosed(t) PROVE Releasing(t)'
  <2>1. Top(t).fn = "drvStop" /\ \E pc, x : Go(t, pc, x)
    BY <1>4 DEF RecorderReleased, InputClosed, InputCloses, At
  <2> QED BY <1>1, <2>1
<1> QED BY <1>3, <1>4

LEMMA ReleaseServed ==
    ASSUME TypeInv, scr.ptt = "ending", Ending, NEW t \in TaskIds, Releasing(t), Alive(t),
           ScreenStep(t)
    PROVE  Served'
<1>0. /\ IsEnd(Top(t)) /\ ws \in WsRecords /\ scr \in ScrRecords
      /\ Undisturbed /\ Connected({"opened", "ended"}) /\ Subscribed
  BY TopOn, WsIs, ScrIs DEF Releasing, Ending
<1>1. Release(t) \/ ReleaseStopsRecorder(t) \/ ReleaseEndsUtterance(t)
  <2>1. ~(Press(t) \/ PressSessionCreated(t) \/ PressConnected(t) \/ PressRecorder(t))
    BY <1>0 DEF IsEnd, Press, PressSessionCreated, PressConnected, PressRecorder, At
  <2>2. ~(PressStopped(t) \/ PressFails(t) \/ Ends(t))
    BY <1>0 DEF IsEnd, PressStopped, PressFails, Ends, At, Caught
  <2>3. ~(\/ Teardown(t) \/ TeardownStopsRecorder(t) \/ TeardownCancelsText(t)
          \/ TeardownDisconnects(t) \/ TeardownEnds(t))
    BY <1>0 DEF IsEnd, Teardown, TeardownStopsRecorder, TeardownCancelsText,
       TeardownDisconnects, TeardownEnds, At
  <2> QED BY <2>1, <2>2, <2>3 DEF ScreenStep
<1>2. Top(t).fn = "release"
  BY <1>1 DEF Release, ReleaseStopsRecorder, ReleaseEndsUtterance, At
<1>3. Releasing(t)'
  <2>1. CASE Release(t)
    BY <1>2, <2>1, ReleasingGoes DEF Release, At
  <2>2. CASE ReleaseStopsRecorder(t)
    BY <1>2, <2>2, ReleasingEnters DEF ReleaseStopsRecorder, At
  <2>3. CASE ReleaseEndsUtterance(t)
    <3>1. Return(t, 0)
      BY <1>0, <2>3 DEF ReleaseEndsUtterance, Connected, Subscribed
    <3> QED BY <3>1, ZeroIsNat, ReleasingReturns
  <2> QED BY <1>1, <2>1, <2>2, <2>3
<1>4. Undisturbed' /\ Connected({"opened", "ended"})' /\ Subscribed'
  <2>1. CASE Release(t)
    BY <1>0, <2>1 DEF Release, Undisturbed, Connected, Subscribed
  <2>2. CASE ReleaseStopsRecorder(t)
    BY <1>0, <2>2 DEF ReleaseStopsRecorder, Undisturbed, Connected, Subscribed, ScrRecords
  <2>3. CASE ReleaseEndsUtterance(t)
    <3> DEFINE k == ws.socket
    <3>1. /\ ws' = [ws EXCEPT !.server[k] = IF @ = "opened" THEN "ended" ELSE @]
          /\ scr' = scr
      BY <1>0, <2>3 DEF ReleaseEndsUtterance, Connected, Subscribed
    <3>2. k \in Sockets
      BY WsIs, <1>0 DEF Connected, None
    <3> HIDE DEF k
    <3>3. /\ ws'.closing = ws.closing /\ ws'.textOpen = ws.textOpen /\ ws'.pending = ws.pending
          /\ ws'.connected = ws.connected /\ ws'.socket = ws.socket /\ ws'.heard = ws.heard
          /\ ws'.listeners = ws.listeners /\ ws'.text = ws.text
      BY <1>0, <3>1 DEF WsRecords
    <3>4. ws'.server[k] = IF ws.server[k] = "opened" THEN "ended" ELSE ws.server[k]
      BY <1>0, <3>1, <3>2 DEF WsRecords
    <3> QED BY <1>0, <3>1, <3>3, <3>4 DEF k, Undisturbed, Connected, Subscribed
  <2> QED BY <1>1, <2>1, <2>2, <2>3
<1>5. scr'.ptt = "ending"
  BY <1>0, <1>1 DEF Release, ReleaseStopsRecorder, ReleaseEndsUtterance, ScrRecords
<1> QED BY <1>3, <1>4, <1>5 DEF Served, Ending

\* What does not change the connection, or who listens to it.
LEMMA StillEnding ==
    ASSUME UNCHANGED ws, Ending, NEW t \in TaskIds, Releasing(t)',
           scr'.textSub = scr.textSub, scr'.wsConn = scr.wsConn, scr'.ptt = "ending"
    PROVE  Served'
<1>1. Undisturbed' /\ Connected({"opened", "ended"})' /\ Subscribed'
  BY DEF Ending, Undisturbed, Connected, Subscribed
<1> QED BY <1>1 DEF Served, Ending

LEMMA EndingServed ==
    ASSUME TypeInv, scr.ptt = "ending", Ending, Next, ~Stuck'
    PROVE  Served'
<1>0. /\ scr \in ScrRecords /\ ws.pending = <<>>
      /\ Undisturbed /\ Connected({"opened", "ended"}) /\ Subscribed
  BY ScrIs DEF Ending, Undisturbed
<1>1. PICK t \in TaskIds : Releasing(t)
  BY DEF Ending
<1>2. \A u \in TaskIds : Alive(u) => u = t
  BY <1>1 DEF Releasing, Alone, Alive
<1>3. ASSUME Alive(t) PROVE IsEnd(Top(t))
  BY <1>1, <1>3, TopOn DEF Releasing
<1>4. ASSUME NEW u \in TaskIds, WsStep(u), Alive(u)
      PROVE  FALSE
  <2>1. WsStep(t) /\ IsEnd(Top(t))
    BY <1>2, <1>3, <1>4
  <2>2. ~(\/ Connect(t) \/ ConnectReturns(t) \/ ConnectFails(t) \/ ConnectGivesUp(t)
          \/ ConnectBacksOff(t) \/ ConnectAgain(t))
    BY <2>1 DEF IsEnd, Connect, ConnectReturns, ConnectFails, ConnectGivesUp, ConnectBacksOff,
       ConnectAgain, At, Caught
  <2>3. ~(OpenSocket(t) \/ KeepSocket(t) \/ ListenAndStart(t) \/ OpenDone(t))
    BY <2>1 DEF IsEnd, OpenSocket, KeepSocket, ListenAndStart, OpenDone, At
  <2>4. ~\E fn \in Closers : \/ StartClose(t, fn) \/ CloseSocket(t, fn)
                             \/ CloseText(t, fn) \/ EndClose(t, fn)
    BY <2>1 DEF IsEnd, Closers, StartClose, CloseSocket, CloseText, EndClose, At
  <2> QED BY <2>1, <2>2, <2>3, <2>4 DEF WsStep
<1>5. ASSUME NEW u \in TaskIds, Alive(u), UNCHANGED <<ws, scr>>,
             RecStep(u) \/ RecorderReleased(u) \/ InputClosed(u)
      PROVE  Served'
  <2>1. Releasing(t)'
    BY <1>1, <1>2, <1>5, RecorderReleases
  <2> QED BY <1>5, <2>1, StillEnding
<1>6. ASSUME NEW u \in TaskIds, Alive(u), ScreenStep(u)
      PROVE  Served'
  BY <1>1, <1>2, <1>6, ReleaseServed
<1>7. ASSUME Step PROVE Served'
  <2>1. \A u \in TaskIds : MayRun(u) => Alive(u)
    BY DEF MayRun, Ready
  <2>2. \A u \in TaskIds : InputClosed(u) => Alive(u)
    BY DEF InputClosed, InputCloses, At
  <2>3. ~DeliverText
    BY <1>0 DEF DeliverText
  <2> QED BY <1>4, <1>5, <1>6, <1>7, <2>1, <2>2, <2>3 DEF Step
<1>8. ASSUME WsEvent, UNCHANGED scr PROVE Served'
  <2>1. ASSUME NEW u \in TaskIds
        PROVE  ~(SocketReady(u) \/ SocketFails(u) \/ BackoffElapses(u) \/ SocketClosed(u))
    <3>1. Alive(u) => IsEnd(Top(u))
      BY <1>2, <1>3
    <3> QED BY <3>1 DEF IsEnd, SocketReady, SocketFails, BackoffElapses, SocketClosed, Closers, At
  <2> QED BY <1>0, <1>8, <2>1, ReceivedServed DEF WsEvent
<1>9. ASSUME RecEvent, UNCHANGED <<ws, scr>> PROVE Served'
  <2>1. PICK u \in TaskIds : PermissionAnswered(u) \/ RecorderOpened(u) \/ RecorderReleased(u)
    BY <1>9, FailedReleaseSticks DEF RecEvent
  <2>2. Alive(u) /\ IsEnd(Top(u))
    BY <1>2, <1>3, <2>1 DEF PermissionAnswered, RecorderOpened, RecorderReleased, At
  <2>3. RecorderReleased(u)
    BY <2>1, <2>2 DEF IsEnd, PermissionAnswered, RecorderOpened, At
  <2> QED BY <1>5, <1>9, <2>2, <2>3
<1>10. \A u \in TaskIds : ~SessionAnswered(u)
  BY <1>2, <1>3 DEF IsEnd, SessionAnswered, At
<1>11. ASSUME PressDown \/ PressAges \/ CooldownElapses
       PROVE  Served'
  <2>1. Aside /\ scr'.ptt = scr.ptt
    <3>1. CASE PressDown
      BY <1>0, <3>1 DEF Aside, PressDown, Accepts, ScrRecords
    <3>2. CASE PressAges \/ CooldownElapses
      BY <1>0, <3>2 DEF Aside, PressAges, CooldownElapses, ScrRecords
    <3> QED BY <1>11, <3>1, <3>2
  <2>2. scr'.textSub = scr.textSub /\ scr'.wsConn = scr.wsConn /\ UNCHANGED <<tasks, ws, rec>>
    BY <2>1, AsideShows DEF Aside
  <2>3. Releasing(t)'
    BY <1>1, <2>2 DEF Releasing, Alone, On, IsEnd
  <2> QED BY <2>1, <2>2, <2>3, StillEnding
<1>12. ASSUME PressUp PROVE Served'
  <2>1. CASE scr' = [scr EXCEPT !.finger = "up", !.ptt = "ending"] /\ UNCHANGED <<ws, tasks>>
    <3>1. scr'.textSub = scr.textSub /\ scr'.wsConn = scr.wsConn /\ scr'.ptt = "ending"
      BY <1>0, <2>1 DEF ScrRecords
    <3>2. Releasing(t)'
      BY <1>1, <2>1 DEF Releasing, Alone, On, IsEnd
    <3> QED BY <2>1, <3>1, <3>2, StillEnding
  <2>2. CASE scr' = [scr EXCEPT !.finger = "up", !.ptt = "aborting"]
    BY <1>0, <2>2 DEF Served, ScrRecords
  <2> QED BY <1>12, <2>1, <2>2 DEF PressUp
<1>13. ASSUME Event PROVE Served'
  BY <1>8, <1>9, <1>10, <1>11, <1>12, <1>13, TimeOutServed DEF Event
<1> QED BY <1>7, <1>13 DEF Next

----------------------------------------------------------------------------
\* The screen before its first press.

LEMMA FirstPressStarts ==
    ASSUME TypeInv, scr.presses = 0, Unpressed, PressDown, Accepts
    PROVE  scr'.presses = 1 /\ Served'
<1> DEFINE f == Call("press", "start", 1)
<1>1. /\ scr \in ScrRecords /\ CanSpawn /\ tasks' = Spawns(tasks, "press", 1)
      /\ UNCHANGED <<ws, rec>>
      /\ scr' = [scr EXCEPT !.finger = "down", !.ptt = "starting", !.age = "short",
                            !.presses = 1]
  BY ScrIs DEF PressDown
<1>2. scr'.presses = 1 /\ scr'.ptt = "starting"
  BY <1>1 DEF ScrRecords
<1>3. PICK t \in TaskIds : Puts(t, <<f>>)
  BY <1>1, SpawnPuts
<1>4. f.fn = "press" /\ f.pc = "start" /\ f.exc = "none"
  BY CallFields
<1> HIDE DEF f
<1>5. tasks'[t] = <<f>> /\ \A u \in TaskIds \ {t} : tasks'[u] = <<>>
  BY <1>3 DEF Puts, TypeInv, Stacks, Unpressed, NoTask
<1>6. On(<<f>>) = {f} /\ <<f>>[1] = f
  BY DEF On
<1>7. IsStart(f)
  BY <1>4 DEF IsStart
<1>8. Undisturbed' /\ Unheard' /\ ~rec'.recording
  BY <1>1 DEF Unpressed, Undisturbed, Unheard
<1>9. Attempting(f)'
  BY <1>4 DEF Attempting
<1>10. InOrder(f)'
  BY <1>4, <1>8, <1>9, UnheardInOrder DEF IsOpen, IsLater, IsWaiting
<1>11. Alone(t)' /\ Alive(t)'
  BY <1>5 DEF Alone, Alive
<1>12. (\A g \in On(tasks[t]) : IsStart(g))'
  BY <1>5, <1>6, <1>7 DEF On, IsStart
<1>13. InOrder(tasks[t][1])'
  BY <1>5, <1>6, <1>10 DEF InOrder, Undisturbed, WsStarts, RecStarts, IsOpen, IsLater, IsWaiting,
     Attempting, Waiting, Connected, Subscribed, Unheard
<1> QED BY <1>2, <1>11, <1>12, <1>13 DEF Starting, Served, OnTheWay

LEMMA UnpressedServed ==
    ASSUME TypeInv, scr.presses = 0, Unpressed, Next
    PROVE  (scr'.presses = 0 /\ Unpressed') \/ (scr'.presses = 1 /\ Served')
<1>0. /\ scr \in ScrRecords /\ ws.pending = <<>> /\ ws.heard = {} /\ scr.ptt = "idle"
      /\ \A u \in TaskIds : ~Alive(u)
  BY ScrIs DEF Unpressed, Undisturbed, Unheard, NoTask, Alive
<1>1. ~Step
  <2>1. \A u \in TaskIds : ~MayRun(u) /\ ~InputClosed(u)
    BY <1>0 DEF MayRun, Ready, InputClosed, InputCloses, At
  <2>2. ~DeliverText
    BY <1>0 DEF DeliverText
  <2> QED BY <2>1, <2>2 DEF Step
<1>2. ~WsEvent
  <2>1. \A u \in TaskIds :
           ~(SocketReady(u) \/ SocketFails(u) \/ BackoffElapses(u) \/ SocketClosed(u))
    BY <1>0 DEF SocketReady, SocketFails, BackoffElapses, SocketClosed, At
  <2>2. \A s \in Sockets :
           ~(ReceiveOpened(s) \/ ReceiveFinal(s) \/ ReceiveError(s) \/ SocketEnds(s))
    BY <1>0 DEF ReceiveOpened, ReceiveFinal, ReceiveError, SocketEnds
  <2> QED BY <2>1, <2>2 DEF WsEvent
<1>3. ~RecEvent /\ ~RunTimesOut /\ \A u \in TaskIds : ~SessionAnswered(u)
  BY <1>0 DEF RecEvent, PermissionAnswered, RecorderOpened, RecorderReleased,
     RecorderReleaseFails, SessionAnswered, At,
     RunTimesOut
<1>4. CASE PressDown /\ Accepts
  BY <1>4, FirstPressStarts
<1>5. CASE (PressDown /\ ~Accepts) \/ PressUp \/ PressAges \/ CooldownElapses
  <2>1. UNCHANGED <<tasks, ws, rec>> /\ scr'.ptt = "idle" /\ scr'.presses = 0
    <3>1. CASE PressDown /\ ~Accepts
      BY <1>0, <3>1 DEF PressDown, ScrRecords
    <3>2. CASE PressUp
      BY <1>0, <3>2 DEF PressUp, ScrRecords
    <3>3. CASE PressAges \/ CooldownElapses
      BY <1>0, <3>3 DEF PressAges, CooldownElapses, ScrRecords
    <3> QED BY <1>5, <3>1, <3>2, <3>3
  <2>2. Unpressed'
    BY <2>1 DEF Unpressed, NoTask, Undisturbed, Unheard
  <2> QED BY <2>1, <2>2
<1> QED BY <1>1, <1>2, <1>3, <1>4, <1>5 DEF Next, Event

----------------------------------------------------------------------------
\* Every step.

\* A press is accepted, or a screen that is idle or aborting stays so.
PressesOrRests ==
    \/ scr'.presses = scr.presses + 1
    \/ /\ scr'.presses = scr.presses
       /\ scr.ptt \in {"idle", "aborting"} => scr'.ptt \in {"idle", "aborting"}

LEMMA EachPressesOrRests ==
    ASSUME TypeInv, Next
    PROVE  PressesOrRests
<1> USE DEF PressesOrRests
<1>0. scr \in ScrRecords
  BY ScrIs
<1>1. ASSUME UNCHANGED scr PROVE PressesOrRests
  BY <1>1
<1>2. ASSUME NEW t \in TaskIds, ScreenStep(t) PROVE PressesOrRests
  <2>1. CASE PressSessionCreated(t) \/ PressConnected(t)
    BY <1>0, <2>1 DEF PressSessionCreated, PressConnected, ScrRecords
  <2>2. CASE PressRecorder(t)
    <3> DEFINE a == Top(t).x
               v == Top(t).val
    <3>1. \/ UNCHANGED scr
          \/ scr.ptt = "starting" /\ scr' = [scr EXCEPT !.ptt = "recording", !.audioSub = a,
                                                        !.audible = @ \cup {v}]
      BY <2>2 DEF PressRecorder
    <3> HIDE DEF a, v
    <3> QED BY <1>0, <1>1, <3>1 DEF ScrRecords
  <2>3. CASE ReleaseStopsRecorder(t) \/ TeardownStopsRecorder(t) \/ TeardownDisconnects(t)
             \/ TeardownEnds(t)
    BY <1>0, <2>3 DEF ReleaseStopsRecorder, TeardownStopsRecorder, TeardownDisconnects,
       TeardownEnds, ScrRecords
  <2>4. CASE Press(t) \/ PressStopped(t) \/ PressFails(t) \/ Ends(t) \/ Release(t)
             \/ ReleaseEndsUtterance(t) \/ Teardown(t) \/ TeardownCancelsText(t)
    BY <1>1, <2>4 DEF Press, PressStopped, PressFails, Ends, Release, ReleaseEndsUtterance,
       Teardown, TeardownCancelsText
  <2> QED BY <1>2, <2>1, <2>2, <2>3, <2>4 DEF ScreenStep
<1>3. ASSUME DeliverText PROVE PressesOrRests
  BY <1>0, <1>3 DEF DeliverText, ScrRecords
<1>4. ASSUME PressDown \/ PressUp PROVE PressesOrRests
  <2>1. CASE PressDown
    BY <1>0, <2>1 DEF PressDown, ScrRecords
  <2>2. CASE PressUp
    BY <1>0, <2>2 DEF PressUp, ScrRecords
  <2> QED BY <1>4, <2>1, <2>2
<1>5. ASSUME PressAges \/ CooldownElapses \/ RunTimesOut PROVE PressesOrRests
  BY <1>0, <1>5 DEF PressAges, CooldownElapses, RunTimesOut, ScrRecords
<1>6. ASSUME Step PROVE PressesOrRests
  BY <1>1, <1>2, <1>3, <1>6 DEF Step
<1>7. ASSUME Event PROVE PressesOrRests
  BY <1>1, <1>4, <1>5, <1>7 DEF Event, SessionAnswered
<1> QED BY <1>6, <1>7 DEF Next

LEMMA ServedStarts == Init => ServedInv
<1> SUFFICES ASSUME Init PROVE ServedInv
  OBVIOUS
<1>1. scr.presses = 0 /\ scr.ptt = "idle" /\ NoTask
  BY DEF Init, NoTask
<1>2. Undisturbed /\ Unheard
  BY DEF Init, WsInit, Undisturbed, Unheard
<1>3. ~rec.recording
  BY DEF Init, RecInit
<1> QED BY <1>1, <1>2, <1>3 DEF ServedInv, Unpressed

\* The first press, while it lasts.
LEMMA PressServed ==
    ASSUME TypeInv, Served, Next, scr'.presses = scr.presses, ~Stuck'
    PROVE  Served'
<1>1. ASSUME Doomed, scr'.ptt # "idle" PROVE Served'
  <2>1. Doomed'
    BY <1>1, DoomStays
  <2> QED BY <2>1 DEF Served, OnTheWay
<1>2. ASSUME scr'.ptt = "idle" PROVE Served'
  BY <1>2 DEF Served
<1>3. CASE scr.ptt = "starting"
  BY <1>1, <1>2, <1>3, StartingServed DEF Served, OnTheWay
<1>4. CASE scr.ptt = "recording"
  BY <1>1, <1>2, <1>4, RecordingServed DEF Served
<1>5. CASE scr.ptt = "ending"
  BY <1>1, <1>2, <1>5, EndingServed DEF Served
<1>6. CASE scr.ptt \in {"idle", "aborting"}
  <2>1. scr'.ptt \in {"idle", "aborting"}
    BY <1>6, EachPressesOrRests, ScrIs DEF PressesOrRests
  <2> QED BY <2>1 DEF Served
<1> QED BY <1>3, <1>4, <1>5, <1>6, ScrIs

LEMMA ServedStays ==
    TypeInv /\ ServedInv /\ [Next]_vars => ServedInv'
<1> SUFFICES ASSUME TypeInv, ServedInv, [Next]_vars PROVE ServedInv'
  OBVIOUS
<1>0. scr.presses \in Nat
  BY ScrIs DEF ScrRecords
<1>1. CASE Next
  <2>1. CASE scr.presses = 0
    BY <1>1, <2>1, UnpressedServed DEF ServedInv
  <2>2. CASE scr.presses = 1
    <3>1. scr'.presses = 1 \/ scr'.presses = 2
      BY <1>1, <2>2, EachPressesOrRests DEF PressesOrRests
    <3> QED BY <1>1, <2>2, <3>1, PressServed, StuckStays DEF ServedInv
  <2>3. CASE scr.presses > 1
    <3>1. scr'.presses > 1
      BY <1>0, <1>1, <2>3, EachPressesOrRests DEF PressesOrRests
    <3> QED BY <3>1 DEF ServedInv
  <2> QED BY <1>0, <2>1, <2>2, <2>3
<1>2. CASE UNCHANGED vars
  <2>0. UNCHANGED <<tasks, ws, rec, scr>>
    BY <1>2 DEF vars
  <2>1. Unpressed => Unpressed'
    BY <2>0 DEF Unpressed, NoTask, Undisturbed, Unheard
  <2>2. Doomed => Doomed'
    BY <2>0 DEF Doomed, HasDoom, Pends, IsDoom, On
  <2>3. ASSUME NEW t \in TaskIds, Starting(t) PROVE Starting(t)'
    <3>1. Alone(t)' /\ Alive(t)' /\ (\A g \in On(tasks[t]) : IsStart(g))'
      BY <2>0, <2>3 DEF Starting, Alone, Alive, On, IsStart
    <3>2. InOrder(tasks[t][1])'
      BY <2>0, <2>3 DEF Starting, InOrder, Undisturbed, WsStarts, RecStarts, IsOpen, IsLater,
         IsWaiting, Connected, Subscribed, Waiting, Unheard, Attempting
    <3> QED BY <3>1, <3>2 DEF Starting
  <2>4. Recording => Recording'
    BY <2>0 DEF Recording, NoTask, Undisturbed, Connected, Subscribed
  <2>5. Ending => Ending'
    BY <2>0 DEF Ending, Releasing, Alone, IsEnd, On, Undisturbed, Connected, Subscribed
  <2>6. Served => Served'
    BY <2>0, <2>2, <2>3, <2>4, <2>5 DEF Served, OnTheWay
  <2> QED BY <2>0, <2>1, <2>6 DEF ServedInv, Stuck
<1> QED BY <1>1, <1>2

LEMMA ServedInvHolds == Spec => []ServedInv
<1>1. Init => ServedInv
  BY ServedStarts
<1>2. TypeInv /\ ServedInv /\ [Next]_vars => ServedInv'
  BY ServedStays
<1> QED BY <1>1, <1>2, TypeInvHolds, PTL DEF Spec

LEMMA QuietIsNotDoomed == TypeInv /\ Quiet => ~Doomed
<1> SUFFICES ASSUME TypeInv, Quiet PROVE ~Doomed
  OBVIOUS
<1>1. \A t \in TaskIds : On(tasks[t]) = {}
  BY DEF Quiet, Alive, On
<1>2. DOMAIN ws.pending = {}
  BY DEF Quiet
<1> QED BY <1>1, <1>2 DEF Doomed, HasDoom, Pends

LEMMA RecordingServedInv == TypeInv /\ ServedInv => (scr.presses <= 1 => RecordingIsServed)
<1> SUFFICES ASSUME TypeInv, ServedInv, scr.presses <= 1, scr.ptt = "recording", Quiet, ~Stuck
             PROVE  Recording
  BY DEF RecordingIsServed, Recording, Undisturbed, Connected, Subscribed
<1>1. scr.presses = 0 \/ scr.presses = 1
  BY ScrIs DEF ScrRecords
<1>2. scr.presses # 0
  BY DEF ServedInv, Unpressed
<1> QED BY <1>1, <1>2, QuietIsNotDoomed DEF ServedInv, Served

LEMMA EndingServedInv == TypeInv /\ ServedInv => (scr.presses <= 1 => EndingIsServed)
<1> SUFFICES ASSUME TypeInv, ServedInv, scr.presses <= 1, scr.ptt = "ending", Quiet, ~Stuck
             PROVE  Ending
  BY DEF EndingIsServed, Ending, Undisturbed, Connected, Subscribed
<1>1. scr.presses = 0 \/ scr.presses = 1
  BY ScrIs DEF ScrRecords
<1>2. scr.presses # 0
  BY DEF ServedInv, Unpressed
<1> QED BY <1>1, <1>2, QuietIsNotDoomed DEF ServedInv, Served

\* Throughout the first press of the screen: a screen that shows "recording"
\* with nothing under way does record, subscribed to the text of an open
\* connection, whatever failed or was retried while the press was starting.
THEOREM PushToTalkRecordingIsServed == Spec => [](scr.presses <= 1 => RecordingIsServed)
BY RecordingServedInv, TypeInvHolds, ServedInvHolds, PTL

\* Throughout the first press of the screen: a screen that waits for the final
\* with nothing under way is subscribed to an open connection that it hears of.
THEOREM PushToTalkEndingIsServed == Spec => [](scr.presses <= 1 => EndingIsServed)
BY EndingServedInv, TypeInvHolds, ServedInvHolds, PTL
=============================================================================
