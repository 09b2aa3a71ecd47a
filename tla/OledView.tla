------------------------------ MODULE OledView -------------------------------
(***************************************************************************)
(* The display of the glasses: oled_view.cpp and the two tasks of main.cpp *)
(* that use it without a lock, loop() on one core and onSubtitleWrite() of *)
(* the BLE host on the other.                                              *)
(*                                                                         *)
(* A text is a sequence of glyphs, a glyph the width, the bytes and the    *)
(* height it takes and whether a line may break at it.  The calls of the   *)
(* two tasks are cut where one of them can meet the other: before the      *)
(* paging state is cleared and filled, before the frame buffer they share  *)
(* is erased, drawn in and sent, half-way through its sending, and before  *)
(* the clock is set.                                                       *)
(***************************************************************************)
EXTENDS Integers, Sequences, FiniteSets

SX == INSTANCE SequencesExt

CONSTANTS
    Texts,              \* bound: the subtitles that arrive
    StatusText,         \* what loop() shows until the first one
    Width, Height,      \* OLED_WIDTH_PX, OLED_HEIGHT_PX
    HeaderHeight,       \* of the title
    MaxLines,           \* MAX_WRAPPED_LINES
    MaxBytes,           \* what g_last_subtitle holds
    PageHold,           \* PAGE_HOLD_MS
    LoopDelay,          \* delay() of loop()
    ClockModulus,       \* of millis(), 2^32
    MaxSubtitles        \* bound

ASSUME DisplayConstants ==
    /\ {Width, Height, HeaderHeight, MaxBytes} \subseteq Nat
    /\ {MaxLines, PageHold, LoopDelay, ClockModulus} \subseteq Nat \ {0}
    /\ MaxSubtitles \in Nat

----------------------------------------------------------------------------
\* Wrapping.

\* The marker of a text that has too many lines.
Marker == [break |-> "marker", width |-> 1, bytes |-> 3, height |-> 4]

WidthOf(glyphs) == SX!FoldLeft(LAMBDA w, g : w + g.width, 0, glyphs)
BytesOf(glyphs) == SX!FoldLeft(LAMBDA w, g : w + g.bytes, 0, glyphs)
IsSpace(g) == g.break = "space"

Least(S) == CHOOSE i \in S : \A j \in S : i <= j
Greatest(S) == CHOOSE i \in S : \A j \in S : j <= i

\* skip_leading_spaces
Skip(text, i) == Least({j \in i..Len(text) : ~IsSpace(text[j])} \cup {Len(text) + 1})


\* trimmed_slice, of glyphs first to last
Trimmed(text, first, last) ==
    SubSeq(text, first,
           Greatest({j \in first..last : ~IsSpace(text[j])} \cup {first - 1}))

\* The last glyph of the line that starts at first and leaves nothing out.
Fitting(text, first) ==
    Greatest({j \in first..Len(text) : WidthOf(SubSeq(text, first, j)) <= Width}
                 \cup {first - 1})

\* Where it ends: before the last space, or after the last punctuation, that
\* fits; without either, after what fits, one glyph at least.
LineEnd(text, first) ==
    LET fit == Fitting(text, first)
        breaks == {i - 1 : i \in {j \in (first + 1)..fit : IsSpace(text[j])}}
                  \cup {i \in first..fit : text[i].break = "punct"}
    IN IF fit = Len(text) THEN fit
       ELSE IF breaks # {} THEN Greatest(breaks)
       ELSE IF fit >= first THEN fit ELSE first

\* All lines of the text from one glyph on.
LinesFrom(text) ==
    LET lines[i \in 1..(Len(text) + 1)] ==
          IF i > Len(text) THEN <<>>
          ELSE <<Trimmed(text, i, LineEnd(text, i))>>
               \o lines[Skip(text, LineEnd(text, i) + 1)]
    IN lines[Skip(text, 1)]

\* add_truncation_marker
Marked(line) ==
    LET kept == Greatest({n \in 1..Len(line) :
                    WidthOf(SubSeq(line, 1, n)) + Marker.width <= Width} \cup {0})
    IN Append(SubSeq(line, 1, kept), Marker)

\* wrap_utf8_lines
Wrap(text) ==
    LET lines == LinesFrom(text)
    IN IF Len(lines) <= MaxLines THEN lines
       ELSE Append(SubSeq(lines, 1, MaxLines - 1), Marked(lines[MaxLines]))

\* memcpy into g_last_subtitle; a glyph cut in the middle is not drawn.
Copied(text) ==
    SubSeq(text, 1, Greatest({n \in 1..Len(text) :
                        BytesOf(SubSeq(text, 1, n)) <= MaxBytes} \cup {0}))

----------------------------------------------------------------------------
\* Pages.

\* pick_font: one Japanese glyph makes the line one of the smaller font.
HasJapanese(line) == \E i \in DOMAIN line : line[i].height = 3
LineHeight(line) == IF HasJapanese(line) THEN 3 ELSE 4

\* Mutant: a page takes a line that starts inside it.
OverflowsLate(y, height) == y > Height

Overflows(y, height) == y + height > Height

\* compute_pages: the first line of every page.
PageStarts(lines) ==
    IF lines = <<>> THEN <<>>
    ELSE SX!FoldLeftDomain(
            LAMBDA acc, i :
                LET height == LineHeight(lines[i])
                IN IF i # SX!Last(acc.starts) /\ Overflows(acc.y, height)
                   THEN [starts |-> Append(acc.starts, i), y |-> HeaderHeight + height]
                   ELSE [acc EXCEPT !.y = @ + height],
            [starts |-> <<1>>, y |-> HeaderHeight], lines).starts

\* The lines draw_current_page draws, as far as they are on the glass.
FirstLine(starts, index) == IF index < Len(starts) THEN starts[index + 1] ELSE 1

Visible(lines, starts, index) ==
    LET first == FirstLine(starts, index)
        last == IF index + 1 < Len(starts) THEN starts[index + 2] - 1 ELSE Len(lines)
        bottom(i) == HeaderHeight
            + SX!FoldLeft(LAMBDA y, line : y + LineHeight(line), 0, SubSeq(lines, first, i))
    IN {i \in first..last : bottom(i) <= Height}

\* What the display function makes of the texts that can reach it.
LaidOut ==
    [text \in {StatusText} \cup {Copied(t) : t \in Texts} |->
        [lines |-> Wrap(text), starts |-> PageStarts(Wrap(text))]]

----------------------------------------------------------------------------
VARIABLES
    view,   \* the paging state: lines, page starts, index, count, next page time,
            \* and of which subtitle they are
    buffer, \* the frame buffer of g_display: the lines drawn in it
    oled,   \* the lines that the glass shows
    total,  \* g_total_subtitles
    loop,   \* where loop() is: at, for tick() or its status, the count it holds
    host,   \* where the write callback is: at, and g_last_subtitle
    now     \* millis()

vars == <<view, buffer, oled, total, loop, host, now>>

Status == 0     \* the owner of a status text; a subtitle is its number

EmptyView == [of |-> Status, lines |-> <<>>, starts |-> <<>>,
              index |-> 0, count |-> 0, next |-> 0]

\* The lines of a page, and whether they are in the upper half of the glass.
Page(index) ==
    {[of |-> view.of, line |-> i, upper |-> i = FirstLine(view.starts, index)] :
        i \in Visible(view.lines, view.starts, index)}

\* setup() has shown its last status.
Init ==
    /\ view = [EmptyView EXCEPT !.lines = LaidOut[StatusText].lines,
                                !.starts = LaidOut[StatusText].starts, !.count = 1]
    /\ buffer = Page(0) /\ oled = Page(0)
    /\ total = 0
    /\ loop = [at |-> "tick", job |-> "tick", held |-> 0]
    /\ host = [at |-> "idle", text |-> <<>>]
    /\ now = 0

\* The stretches of show_status.
Cleared == [EmptyView EXCEPT !.of = view.of]
Filled(of, text) ==
    [view EXCEPT !.of = of, !.lines = LaidOut[text].lines,
                 !.starts = LaidOut[text].starts, !.count = Len(LaidOut[text].starts)]

\* reset_paging_clock
Clocked(from) ==
    LET hold == IF view.index + 1 = view.count THEN 2 * PageHold ELSE PageHold
    IN [view EXCEPT !.next = IF view.count <= 1 THEN 0 ELSE (from + hold) % ClockModulus]

\* static_cast<int32_t>(now_ms - g_next_page_ms) < 0
Pending(time) == (now - time) % ClockModulus >= ClockModulus \div 2

\* draw_current_page() of a task that is at one of its stretches: clearBuffer,
\* the lines, and two halves of sendBuffer.  Two sendBuffer at once share the
\* address the glass writes to, and a half may not get where it should.
Sending == {"upper", "lower"}

Sends(half) ==
    \/ oled' = {c \in buffer : c.upper = half} \cup {c \in oled : c.upper # half}
    \/ {loop.at, host.at} \subseteq Sending /\ UNCHANGED oled

Draws(at) ==
    \/ at = "erase" /\ buffer' = {} /\ UNCHANGED oled
    \/ at = "draw" /\ buffer' = buffer \cup Page(view.index) /\ UNCHANGED oled
    \/ at = "upper" /\ Sends(TRUE) /\ UNCHANGED buffer
    \/ at = "lower" /\ Sends(FALSE) /\ UNCHANGED buffer

AfterDraw == [erase |-> "draw", draw |-> "upper", upper |-> "lower", lower |-> "clock"]

----------------------------------------------------------------------------
\* loop()

LoopTo(at) == loop' = [loop EXCEPT !.at = at]

\* tick() until its last read of the page count: not due.
TickIdle ==
    /\ loop.at = "tick"
    /\ view.count <= 1 \/ view.next = 0 \/ Pending(view.next)
    /\ LoopTo("read")
    /\ UNCHANGED <<view, buffer, oled, total, host, now>>

\* Due: it holds the count it has read.
TickDue ==
    /\ loop.at = "tick"
    /\ view.count > 1 /\ view.next # 0 /\ ~Pending(view.next)
    /\ loop' = [loop EXCEPT !.at = "turn", !.held = view.count]
    /\ UNCHANGED <<view, buffer, oled, total, host, now>>

\* The build may use that count or read it again; a count of zero by then is a
\* division by zero, whose outcome on this core is a restart (not modelled).
TickTurns ==
    /\ loop.at = "turn"
    /\ \E count \in {loop.held, view.count} \ {0} :
          view' = [view EXCEPT !.index = (@ + 1) % count]
    /\ LoopTo("erase")
    /\ UNCHANGED <<buffer, oled, total, host, now>>

\* Mutant: the status is shown again when no subtitle is being drawn.
LoopReadsHost ==
    /\ loop.at = "read"
    /\ loop' = IF host.at = "idle" THEN [loop EXCEPT !.at = "clear", !.job = "status"]
               ELSE [loop EXCEPT !.at = "delay"]
    /\ UNCHANGED <<view, buffer, oled, total, host, now>>

\* "If we have a rendered subtitle, keep it on screen."
LoopReads ==
    /\ loop.at = "read"
    /\ loop' = IF total = 0 THEN [loop EXCEPT !.at = "clear", !.job = "status"]
               ELSE [loop EXCEPT !.at = "delay"]
    /\ UNCHANGED <<view, buffer, oled, total, host, now>>

LoopClears ==
    /\ loop.at = "clear" /\ LoopTo("fill")
    /\ view' = Cleared
    /\ UNCHANGED <<buffer, oled, total, host, now>>

LoopFills ==
    /\ loop.at = "fill" /\ LoopTo("erase")
    /\ view' = Filled(Status, StatusText)
    /\ UNCHANGED <<buffer, oled, total, host, now>>

\* The page that tick() turned to, or the status.
LoopDraws ==
    /\ Draws(loop.at) /\ LoopTo(AfterDraw[loop.at])
    /\ UNCHANGED <<view, total, host, now>>

LoopSetsClock ==
    /\ loop.at = "clock"
    /\ loop' = [loop EXCEPT !.at = IF loop.job = "tick" THEN "read" ELSE "delay",
                            !.job = "tick"]
    /\ view' = Clocked(now)
    /\ UNCHANGED <<buffer, oled, total, host, now>>

LoopDelays ==
    /\ loop.at = "delay"
    /\ loop' = [loop EXCEPT !.at = "tick", !.held = 0]
    /\ now' = (now + LoopDelay) % ClockModulus
    /\ UNCHANGED <<view, buffer, oled, total, host>>

Loop ==
    \/ TickIdle \/ TickDue \/ TickTurns
    \/ LoopReads \/ LoopClears \/ LoopFills \/ LoopDraws \/ LoopSetsClock \/ LoopDelays

----------------------------------------------------------------------------
\* onSubtitleWrite() with a subtitle that is complete.

HostTo(at) == host' = [host EXCEPT !.at = at]

SubtitleArrives(text) ==
    /\ host.at = "idle" /\ total < MaxSubtitles
    /\ total' = total + 1
    /\ host' = [at |-> "clear", text |-> Copied(text)]
    /\ UNCHANGED <<view, buffer, oled, loop, now>>

HostClears ==
    /\ host.at = "clear" /\ HostTo("fill")
    /\ view' = Cleared
    /\ UNCHANGED <<buffer, oled, total, loop, now>>

HostFills ==
    /\ host.at = "fill" /\ HostTo("erase")
    /\ view' = Filled(total, host.text)
    /\ UNCHANGED <<buffer, oled, total, loop, now>>

HostDraws ==
    /\ Draws(host.at) /\ HostTo(AfterDraw[host.at])
    /\ UNCHANGED <<view, total, loop, now>>

\* The clock is set, and the Ok ack sent.
HostSetsClock ==
    /\ host.at = "clock" /\ HostTo("idle")
    /\ view' = Clocked(now)
    /\ UNCHANGED <<buffer, oled, total, loop, now>>

Host == HostClears \/ HostFills \/ HostDraws \/ HostSetsClock

Next == Loop \/ Host \/ \E text \in Texts : SubtitleArrives(text)

Spec == Init /\ [][Next]_vars

\* Both tasks run; nothing makes a subtitle arrive.
FairSpec == Spec /\ WF_vars(Loop) /\ WF_vars(Host)

----------------------------------------------------------------------------
NoSpaces(glyphs) == SelectSeq(glyphs, LAMBDA g : ~IsSpace(g))

\* The lines of the newest subtitle have been laid out.
HasLines == view.of = total /\ view.of # Status /\ view.lines # <<>>


\* g_next_page_ms = 0 means that there are no pages to turn.  It is a time too:
\* a page shown PAGE_HOLD_MS before millis() wraps stays for good.
ClockLost ==
    host.at = "idle" /\ loop.at = "tick" /\ view.count > 1 /\ view.next = 0

\* A subtitle of one page is drawn once: torn by two sendBuffer at once, it stays
\* torn.
Torn == view.count <= 1 /\ {loop.at, host.at} \subseteq Sending

\* "Word-wraps and auto-pages long subtitles" (oled_view.h:3): whatever meets in
\* the two tasks, every line laid out for a subtitle that is about to be drawn
\* gets on the glass, with its page and nothing else, unless a status or another
\* subtitle replaces it, the clock is lost, or its only page is torn.
EveryLineShown ==
    \A i \in 1..MaxLines :
        host.at = "erase" /\ view.of # Status /\ i \in DOMAIN view.lines
            ~> \/ \E p \in 1..view.count : oled = Page(p - 1) /\ \E c \in oled : c.line = i
               \/ view.of = Status \/ host.at = "fill"
               \/ ClockLost \/ Torn

ShowsStatus == \E c \in oled : c.of = Status

\* "If we have a rendered subtitle, keep it on screen" (main.cpp:336).
SubtitleIsKept == total > 0 ~> []~ShowsStatus

\* A subtitle is laid out and on the glass; loop() is not about to show a status,
\* and the write callback is not running.
Settled ==
    /\ total > 0 /\ view.of # Status /\ ~ShowsStatus
    /\ loop.job # "status" /\ host.at = "idle"

\* "last subtitle stays on OLED until next one arrives" (main.cpp:348), as far as
\* it is true: a subtitle that no status line was on its way to overwrite is not
\* overwritten by one later, nor any subtitle after it, although the two tasks go
\* on to draw in one buffer.
SettledStays == [](Settled => []~ShowsStatus)

=============================================================================
