--------------------------- MODULE OledViewProofs ----------------------------
(***************************************************************************)
(* A subtitle that no status line was on its way to overwrite stays, for   *)
(* all texts and sizes of the glass, however the two tasks interleave.     *)
(***************************************************************************)
EXTENDS OledView, TLAPS

HasStatus(cells) == \E c \in cells : c.of = Status

ViewShape(v) ==
    /\ v = [of |-> v.of, lines |-> v.lines, starts |-> v.starts,
            index |-> v.index, count |-> v.count, next |-> v.next]
    /\ v.of \in Nat

LoopShape(l) ==
    /\ l = [at |-> l.at, job |-> l.job, held |-> l.held]
    /\ l.at \in {"clear", "fill"} => l.job = "status"

HostShape(h) ==
    /\ h = [at |-> h.at, text |-> h.text]
    /\ h.at \in {"idle", "clear", "fill", "erase", "draw", "upper", "lower", "clock"}

\* Inductive: the frame buffer holds a status line while the paging state belongs
\* to a subtitle only until the write callback erases it.
BufferInv ==
    /\ total \in Nat
    /\ host.at # "idle" => total > 0
    /\ HostShape(host) /\ LoopShape(loop) /\ ViewShape(view)
    /\ HasStatus(buffer) => view.of = Status \/ host.at = "erase"

\* Once true, true for good: no status line in the paging state, in the frame
\* buffer or on the glass, nor on its way there.
Clean ==
    /\ total > 0 /\ loop.job # "status" /\ view.of # Status
    /\ ~HasStatus(buffer) /\ ~HasStatus(oled)

\* What the steps of a task keep.
Kept == BufferInv' /\ (Clean => Clean')

----------------------------------------------------------------------------
LEMMA ClearedOwner ==
    ASSUME ViewShape(view)
    PROVE  ViewShape(Cleared) /\ Cleared.of = view.of
BY DEF ViewShape, Cleared, EmptyView

LEMMA ChangedOwner ==
    ASSUME NEW v, ViewShape(v), NEW x
    PROVE  /\ ViewShape([v EXCEPT !.lines = x]) /\ [v EXCEPT !.lines = x].of = v.of
           /\ ViewShape([v EXCEPT !.starts = x]) /\ [v EXCEPT !.starts = x].of = v.of
           /\ ViewShape([v EXCEPT !.count = x]) /\ [v EXCEPT !.count = x].of = v.of
           /\ x \in Nat =>
                 ViewShape([v EXCEPT !.of = x]) /\ [v EXCEPT !.of = x].of = x
BY DEF ViewShape

\* A paging state with the lines and the pages of a text.
Refilled(v, lines, starts, count) ==
    [v EXCEPT !.lines = lines, !.starts = starts, !.count = count]

LEMMA RefilledOwner ==
    ASSUME NEW v, ViewShape(v), NEW lines, NEW starts, NEW count
    PROVE  /\ ViewShape(Refilled(v, lines, starts, count))
           /\ Refilled(v, lines, starts, count).of = v.of
<1> DEFINE v1 == [v EXCEPT !.lines = lines]
           v2 == [v1 EXCEPT !.starts = starts]
<1>1. ViewShape(v1) /\ v1.of = v.of
  BY ChangedOwner
<1> HIDE DEF v1
<1>2. ViewShape(v2) /\ v2.of = v.of
  BY <1>1, ChangedOwner
<1> HIDE DEF v2
<1>3. ViewShape([v2 EXCEPT !.count = count]) /\ [v2 EXCEPT !.count = count].of = v.of
  BY <1>2, ChangedOwner
<1> QED BY <1>3 DEF v1, v2, Refilled

LEMMA FilledOwner ==
    ASSUME ViewShape(view), NEW of \in Nat, NEW text
    PROVE  ViewShape(Filled(of, text)) /\ Filled(of, text).of = of
<1> DEFINE v == [view EXCEPT !.of = of]
           lines == LaidOut[text].lines
           starts == LaidOut[text].starts
           count == Len(LaidOut[text].starts)
<1>1. Filled(of, text) = Refilled(v, lines, starts, count)
  BY DEF Filled, Refilled
<1>2. ViewShape(v) /\ v.of = of
  BY ChangedOwner
<1> HIDE DEF v, lines, starts, count
<1> QED BY <1>1, <1>2, RefilledOwner

LEMMA ClockedOwner ==
    ASSUME ViewShape(view), NEW from
    PROVE  ViewShape(Clocked(from)) /\ Clocked(from).of = view.of
<1>1. \A next : LET v == [view EXCEPT !.next = next] IN ViewShape(v) /\ v.of = view.of
  BY DEF ViewShape
<1> QED BY <1>1 DEF Clocked

LEMMA TurnedOwner ==
    ASSUME ViewShape(view), NEW count
    PROVE  LET v == [view EXCEPT !.index = (@ + 1) % count]
           IN ViewShape(v) /\ v.of = view.of
<1>1. \A index : LET v == [view EXCEPT !.index = index] IN ViewShape(v) /\ v.of = view.of
  BY DEF ViewShape
<1> QED BY <1>1

\* Going on in one's own task.
LEMMA LoopGoes ==
    ASSUME NEW at, LoopTo(at), LoopShape(loop), at \notin {"clear", "fill"}
    PROVE  LoopShape(loop') /\ loop'.at = at /\ loop'.job = loop.job
BY DEF LoopTo, LoopShape

LEMMA HostGoes ==
    ASSUME NEW at \in {"idle", "fill", "erase", "draw", "upper", "lower", "clock"},
           HostTo(at), HostShape(host)
    PROVE  HostShape(host') /\ host'.at = at
BY DEF HostTo, HostShape

\* A page belongs to the text in the paging state.
LEMMA PageOwner ==
    ASSUME NEW index, HasStatus(Page(index))
    PROVE  view.of = Status
BY DEF HasStatus, Page

\* A stretch of drawing brings a status line to the frame buffer or to the glass
\* only from the paging state or from the frame buffer.
LEMMA DrawnOwner ==
    ASSUME NEW at, Draws(at)
    PROVE  /\ HasStatus(buffer') => HasStatus(buffer) \/ view.of = Status
           /\ HasStatus(oled') => HasStatus(oled) \/ HasStatus(buffer)
           /\ at = "erase" => ~HasStatus(buffer')
<1>1. CASE at = "erase" /\ buffer' = {} /\ UNCHANGED oled
  BY <1>1 DEF HasStatus
<1>2. CASE at = "draw" /\ buffer' = buffer \cup Page(view.index) /\ UNCHANGED oled
  BY <1>2, PageOwner DEF HasStatus
<1>3. ASSUME NEW half, Sends(half), at # "erase", UNCHANGED buffer
      PROVE  /\ HasStatus(oled') => HasStatus(oled) \/ HasStatus(buffer)
             /\ HasStatus(buffer') => HasStatus(buffer)
  BY <1>3 DEF HasStatus, Sends
<1> QED BY <1>1, <1>2, <1>3 DEF Draws

LEMMA DrawGoesOn ==
    ASSUME NEW at, Draws(at)
    PROVE  /\ at \in {"erase", "draw", "upper", "lower"}
           /\ AfterDraw[at] \in {"draw", "upper", "lower", "clock"}
<1>1. at \in {"erase", "draw", "upper", "lower"}
  BY DEF Draws
<1> QED BY <1>1 DEF AfterDraw

----------------------------------------------------------------------------
\* tick() leaves the owner of the paging state alone.
LEMMA TickKeeps ==
    ASSUME BufferInv, TickIdle \/ TickDue \/ TickTurns
    PROVE  Kept
<1>1. LoopShape(loop') /\ loop'.job = loop.job
  BY LoopGoes DEF BufferInv, LoopShape, TickIdle, TickDue, TickTurns
<1>2. ViewShape(view') /\ view'.of = view.of
  BY TurnedOwner DEF BufferInv, TickIdle, TickDue, TickTurns
<1>3. UNCHANGED <<buffer, oled, total, host>>
  BY DEF TickIdle, TickDue, TickTurns
<1> QED BY <1>1, <1>2, <1>3 DEF BufferInv, Clean, Kept

\* loop() draws what is in the paging state, its own status or not.
LEMMA LoopDrawsKeeps ==
    ASSUME BufferInv, LoopDraws
    PROVE  Kept
<1>1. LoopShape(loop') /\ loop'.job = loop.job
  BY DrawGoesOn, LoopGoes DEF BufferInv, LoopDraws
<1>2. /\ HasStatus(buffer') => HasStatus(buffer) \/ view.of = Status
      /\ HasStatus(oled') => HasStatus(oled) \/ HasStatus(buffer)
  BY DrawnOwner DEF LoopDraws
<1>3. UNCHANGED <<view, total, host>>
  BY DEF LoopDraws
<1> QED BY <1>1, <1>2, <1>3 DEF BufferInv, Clean, Kept

\* loop() after tick().
LEMMA LoopKeeps ==
    ASSUME BufferInv,
           LoopReads \/ LoopClears \/ LoopFills \/ LoopSetsClock \/ LoopDelays
    PROVE  Kept
<1>0. LoopShape(loop) /\ ViewShape(view) /\ total \in Nat
  BY DEF BufferInv
<1>1. CASE LoopReads
  <2>1. LoopShape(loop') /\ (total > 0 => loop'.job = loop.job)
    <3>1. CASE total = 0
      <4> DEFINE l == [loop EXCEPT !.at = "clear"]
      <4>1. loop' = [l EXCEPT !.job = "status"]
        BY <1>1, <3>1 DEF LoopReads
      <4>2. l = [at |-> l.at, job |-> l.job, held |-> l.held]
        BY <1>0 DEF LoopShape
      <4> HIDE DEF l
      <4> QED BY <3>1, <4>1, <4>2 DEF LoopShape
    <3>2. CASE total # 0
      BY <1>0, <1>1, <3>2 DEF LoopReads, LoopShape
    <3> QED BY <1>0, <3>1, <3>2
  <2> QED BY <1>1, <2>1 DEF LoopReads, BufferInv, Clean, Kept
<1>2. CASE LoopClears
  <2>1. LoopShape(loop') /\ loop'.job = loop.job
    BY <1>0, <1>2 DEF LoopClears, LoopTo, LoopShape
  <2>2. ViewShape(view') /\ view'.of = view.of
    BY <1>0, <1>2, ClearedOwner DEF LoopClears
  <2> QED BY <1>2, <2>1, <2>2 DEF LoopClears, BufferInv, Clean, Kept
<1>3. CASE LoopFills
  <2>1. LoopShape(loop') /\ loop.job = "status"
    BY <1>0, <1>3, LoopGoes DEF LoopFills, LoopShape
  <2>2. ViewShape(view') /\ view'.of = Status
    BY <1>0, <1>3, FilledOwner DEF LoopFills, Status
  <2> QED BY <1>3, <2>1, <2>2 DEF LoopFills, BufferInv, Clean, Kept
<1>4. CASE LoopSetsClock
  <2>1. LoopShape(loop') /\ loop'.job = "tick"
    BY <1>0, <1>4 DEF LoopSetsClock, LoopShape
  <2>2. ViewShape(view') /\ view'.of = view.of
    BY <1>0, <1>4, ClockedOwner DEF LoopSetsClock
  <2> QED BY <1>4, <2>1, <2>2 DEF LoopSetsClock, BufferInv, Clean, Kept
<1>5. CASE LoopDelays
  <2>1. LoopShape(loop') /\ loop'.job = loop.job
    BY <1>0, <1>5 DEF LoopDelays, LoopShape
  <2> QED BY <1>5, <2>1 DEF LoopDelays, BufferInv, Clean, Kept
<1> QED BY <1>1, <1>2, <1>3, <1>4, <1>5

\* The write callback: only subtitles become owners.
LEMMA HostKeeps ==
    ASSUME BufferInv, Host \/ \E text \in Texts : SubtitleArrives(text)
    PROVE  Kept
<1>0. HostShape(host) /\ ViewShape(view) /\ total \in Nat
  BY DEF BufferInv
<1>1. ASSUME NEW text, SubtitleArrives(text) PROVE Kept
  <2>1. HostShape(host') /\ host.at = "idle"
    BY <1>1 DEF SubtitleArrives, HostShape
  <2> QED BY <1>0, <1>1, <2>1 DEF SubtitleArrives, BufferInv, Clean, Kept
<1>2. CASE HostClears
  <2>1. HostShape(host') /\ host.at = "clear"
    BY <1>0, <1>2, HostGoes DEF HostClears
  <2>2. ViewShape(view') /\ view'.of = view.of
    BY <1>0, <1>2, ClearedOwner DEF HostClears
  <2> QED BY <1>2, <2>1, <2>2 DEF HostClears, BufferInv, Clean, Kept
<1>3. CASE HostFills
  <2>1. HostShape(host') /\ host'.at = "erase" /\ host.at = "fill"
    BY <1>0, <1>3, HostGoes DEF HostFills
  <2>2. ViewShape(view') /\ view'.of = total /\ total > 0
    BY <1>0, <1>3, <2>1, FilledOwner DEF HostFills, BufferInv
  <2> QED BY <1>3, <2>1, <2>2 DEF HostFills, BufferInv, Clean, Kept, Status
<1>4. CASE HostDraws
  <2>1. HostShape(host') /\ host.at # "idle"
    BY <1>0, <1>4, DrawGoesOn, HostGoes DEF HostDraws
  <2>2. /\ HasStatus(buffer') => HasStatus(buffer) \/ view.of = Status
        /\ HasStatus(oled') => HasStatus(oled) \/ HasStatus(buffer)
        /\ host.at = "erase" => ~HasStatus(buffer')
    BY <1>4, DrawnOwner DEF HostDraws
  <2>3. UNCHANGED <<view, total, loop>>
    BY <1>4 DEF HostDraws
  <2> QED BY <2>1, <2>2, <2>3 DEF BufferInv, Clean, Kept
<1>5. CASE HostSetsClock
  <2>1. HostShape(host') /\ host.at = "clock"
    BY <1>0, <1>5, HostGoes DEF HostSetsClock
  <2>2. ViewShape(view') /\ view'.of = view.of
    BY <1>0, <1>5, ClockedOwner DEF HostSetsClock
  <2> QED BY <1>5, <2>1, <2>2 DEF HostSetsClock, BufferInv, Clean, Kept
<1> QED BY <1>1, <1>2, <1>3, <1>4, <1>5 DEF Host

LEMMA StepKeeps ==
    ASSUME BufferInv, [Next]_vars
    PROVE  Kept
<1>1. CASE UNCHANGED vars
  BY <1>1 DEF vars, BufferInv, Clean, Kept
<1> QED BY <1>1, TickKeeps, LoopDrawsKeeps, LoopKeeps, HostKeeps DEF Next, Loop

LEMMA InitBuffer == Init => BufferInv
<1> SUFFICES ASSUME Init PROVE BufferInv
  OBVIOUS
<1>1. ViewShape(view) /\ view.of = Status
  <2>1. ViewShape(EmptyView) /\ EmptyView.of = Status
    BY DEF ViewShape, EmptyView, Status
  <2> DEFINE lines == LaidOut[StatusText].lines
             starts == LaidOut[StatusText].starts
  <2>2. view = Refilled(EmptyView, lines, starts, 1)
    BY DEF Init, Refilled
  <2> HIDE DEF lines, starts
  <2> QED BY <2>1, <2>2, RefilledOwner
<1>2. HostShape(host) /\ LoopShape(loop) /\ total = 0 /\ host.at = "idle"
  BY DEF Init, HostShape, LoopShape
<1> QED BY <1>1, <1>2 DEF BufferInv

\* "last subtitle stays on OLED until next one arrives" (main.cpp:348), once no
\* status line is under way: whatever texts arrive and wherever the two tasks
\* meet, no status overwrites it or any subtitle after it.
THEOREM SettledSubtitleStays == Spec => SettledStays
<1>1. BufferInv /\ [Next]_vars => BufferInv'
  BY StepKeeps DEF Kept
<1>2. BufferInv /\ [Next]_vars => (Clean => Clean')
  BY StepKeeps DEF Kept
<1>3. BufferInv /\ Settled => Clean
  BY DEF BufferInv, Settled, Clean, ShowsStatus, HasStatus
<1>4. Clean => ~ShowsStatus
  BY DEF Clean, ShowsStatus, HasStatus
<1> QED BY <1>1, <1>2, <1>3, <1>4, InitBuffer, PTL DEF Spec, SettledStays
==============================================================================
