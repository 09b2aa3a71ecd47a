------------------------- MODULE SubtitleAssembler -------------------------
(***************************************************************************)
(* The firmware's subtitle assembler                                       *)
(* (firmware/esp32s3/lib/subtitle_assembler): puts the fragments of one    *)
(* subtitle back together, keyed by a sequence number that wraps.          *)
(*                                                                         *)
(* A fragment is its decoded header: seq, index, count and the length len  *)
(* of its payload.  Payload bytes are not modelled: the buffer holds the   *)
(* fragments whose payloads were copied into it, in order, which tells     *)
(* whose bytes it holds and in which order.  A fragment record may carry   *)
(* further fields; nothing here looks at them.                             *)
(***************************************************************************)
EXTENDS Integers, Sequences

CONSTANTS
    SeqSpace,       \* sequence numbers are taken modulo this (2^16)
    ByteMod,        \* header fields are bytes (2^8)
    MaxFragments,   \* MAX_FRAGMENTS (64)
    AssembledMax    \* ASSEMBLED_MAX (1024)

ASSUME AssemblerConstants ==
    /\ SeqSpace \in Nat \ {0}
    /\ ByteMod \in Nat \ {0}
    /\ MaxFragments \in 1..(ByteMod - 1)
    /\ AssembledMax \in Nat

SeqIds == 0..(SeqSpace - 1)
Bytes  == 0..(ByteMod - 1)

\* What decode_fragment can hand over: any header whose CRC matched.
Packets == [seq : SeqIds, index : Bytes, count : Bytes, len : Bytes]

VARIABLES
    asm,        \* the members of SubtitleAssembler
    result      \* what the last feed() returned

asmVars == <<asm, result>>

Cleared(completed) ==
    [active |-> FALSE, currentSeq |-> 0, expectedCount |-> 0,
     nextExpected |-> 0, assembled |-> <<>>, assembledLength |-> 0,
     completedSeq |-> completed]

Idle == Cleared(0)

\* reset() clears everything but the last completed sequence number.
ResetOf(st) == Cleared(st.completedSeq)

----------------------------------------------------------------------------
\* Mutant: plain comparison, blind to the wrap.
IsNewerSeqUnwrapped(candidate, reference) == candidate > reference

\* int16(candidate - reference) > 0: newer by less than half the circle.
IsNewerSeq(candidate, reference) ==
    (candidate - reference) % SeqSpace \in 1..((SeqSpace - 1) \div 2)

IsStale(st, p) ==
    /\ st.active
    /\ p.seq # st.currentSeq
    /\ ~IsNewerSeq(p.seq, st.currentSeq)

Malformed(p) ==
    \/ p.count = 0
    \/ p.count > MaxFragments
    \/ p.index >= p.count

Continues(st, p) == st.active /\ p.seq = st.currentSeq

\* Mutant: fragment_count is not compared with that of fragment 0.
CountChangedUnchecked(st, p) == FALSE

CountChanged(st, p) == Continues(st, p) /\ p.count # st.expectedCount

\* Only fragment 0 may start a sequence; a running one takes the next index.
Expected(st, p) == p.index = IF Continues(st, p) THEN st.nextExpected ELSE 0

\* Mutant: start_new_sequence() leaves the old bytes in the buffer.
BaseKept(st, p) == [pieces |-> st.assembled, length |-> st.assembledLength]

\* start_new_sequence() empties the buffer; a continuing fragment keeps it.
Base(st, p) ==
    IF Continues(st, p)
    THEN [pieces |-> st.assembled, length |-> st.assembledLength]
    ELSE [pieces |-> <<>>, length |-> 0]

\* Mutant: one byte beyond the buffer.
FitsOffByOne(st, p) == Base(st, p).length + p.len <= AssembledMax + 1

Fits(st, p) == Base(st, p).length + p.len <= AssembledMax

\* Mutant: validation before the stale check, the bug that the comment at
\* feed, lines 38-44, warns of.
FeedResultValidatesFirst(st, p) ==
    IF Malformed(p) \/ CountChanged(st, p) THEN "Inconsistent"
    ELSE IF IsStale(st, p) THEN "Stale"
    ELSE IF ~Expected(st, p) THEN "OutOfOrder"
    ELSE IF ~Fits(st, p) THEN "Overflow"
    ELSE IF p.index + 1 = p.count THEN "Complete"
    ELSE "Incomplete"

\* feed(): its return value, the checks in the order of the code.
FeedResult(st, p) ==
    IF IsStale(st, p) THEN "Stale"
    ELSE IF Malformed(p) \/ CountChanged(st, p) THEN "Inconsistent"
    ELSE IF ~Expected(st, p) THEN "OutOfOrder"
    ELSE IF ~Fits(st, p) THEN "Overflow"
    ELSE IF p.index + 1 = p.count THEN "Complete"
    ELSE "Incomplete"

Accepted(st, p) ==
    LET done == p.index + 1 = p.count IN
    [active          |-> ~done,
     currentSeq      |-> p.seq,
     expectedCount   |-> p.count,
     nextExpected    |-> (p.index + 1) % ByteMod,
     assembled       |-> Append(Base(st, p).pieces, p),
     assembledLength |-> Base(st, p).length + p.len,
     completedSeq    |-> IF done THEN p.seq ELSE st.completedSeq]

\* feed(): the state it leaves.  Every rejection resets, except that a stale
\* fragment, and a fragment out of order on an idle assembler, change nothing.
AfterFeed(st, p) ==
    LET r == FeedResult(st, p) IN
    IF r \in {"Complete", "Incomplete"} THEN Accepted(st, p)
    ELSE IF r = "Stale" \/ (r = "OutOfOrder" /\ ~st.active) THEN st
    ELSE ResetOf(st)

----------------------------------------------------------------------------
Init ==
    /\ asm = Idle
    /\ result = "None"

Feed(p) ==
    /\ asm' = AfterFeed(asm, p)
    /\ result' = FeedResult(asm, p)

\* The central disconnected: onBleDisconnect() calls reset().
Disconnect ==
    /\ asm' = ResetOf(asm)
    /\ result' = "None"

Next == Disconnect \/ \E p \in Packets : Feed(p)

Spec == Init /\ [][Next]_asmVars

----------------------------------------------------------------------------
Results == {"None", "Incomplete", "Complete", "Stale", "OutOfOrder",
            "Inconsistent", "Overflow"}

\* The states of an assembler that is fed fragments of F.
AssemblerStates(F) ==
    [active : BOOLEAN, currentSeq : SeqIds, expectedCount : Bytes,
     nextExpected : Bytes, assembled : Seq(F),
     assembledLength : 0..AssembledMax, completedSeq : SeqIds]

TypeOK ==
    /\ asm \in AssemblerStates(Packets)
    /\ result \in Results

\* The buffer holds fragments 0, 1, 2, ... of one sequence number and one
\* fragment count, the ones the counters describe: no byte of another
\* subtitle, whatever arrived in between (feed, lines 67-91).
OneSequence(st) ==
    \A i \in 1..Len(st.assembled) :
        /\ st.assembled[i].index = i - 1
        /\ st.assembled[i].seq = st.currentSeq
        /\ st.assembled[i].count = st.expectedCount

\* While a sequence is being assembled exactly nextExpected of its fragments
\* are in the buffer and at least one is missing, so fragment_count never
\* exceeds MAX_FRAGMENTS and the comparison that detects completion is met.
Midway(st) ==
    st.active => /\ Len(st.assembled) = st.nextExpected
                 /\ st.nextExpected \in 1..(st.expectedCount - 1)
                 /\ st.expectedCount <= MaxFragments

BufferCoherent == OneSequence(asm) /\ Midway(asm)

\* Complete is returned only when the buffer holds every fragment of the
\* sequence that completed_sequence_id() names, so what main.cpp then renders
\* is one whole subtitle.
CompleteIsWhole ==
    result = "Complete" =>
        /\ ~asm.active
        /\ asm.completedSeq = asm.currentSeq
        /\ Len(asm.assembled) = asm.expectedCount
        /\ asm.expectedCount \in 1..MaxFragments
        /\ OneSequence(asm)

----------------------------------------------------------------------------
\* Where a text of at most room bytes can be cut into n payloads: payload i
\* ends at cut[i], and its length fits a byte.
Cuts(n, room) ==
    {cut \in [0..n -> 0..room] :
        cut[0] = 0 /\ \A i \in 1..n : cut[i] - cut[i - 1] \in Bytes}

\* Fragments b, b + 1, ... of the c fragments of subtitle s, in order.
Fragments(s, c, b, cut) ==
    [i \in 1..(c - b) |->
        [seq |-> s, index |-> b + i - 1, count |-> c, len |-> cut[i] - cut[i - 1]]]

\* The states the fragments ps take the assembler through.
AfterFeeds(st, ps) ==
    LET run[k \in 0..Len(ps)] ==
            IF k = 0 THEN st ELSE AfterFeed(run[k - 1], ps[k])
    IN  run

\* Feeding ps in order returns Complete at its end and leaves whole in the
\* buffer.
Completes(st, ps, whole) ==
    LET run == AfterFeeds(st, ps) IN
    /\ FeedResult(run[Len(ps) - 1], ps[Len(ps)]) = "Complete"
    /\ run[Len(ps)].assembled = whole

\* Whatever was fed before, a subtitle that fits the buffer, sent whole and in
\* order under a newer sequence number (ahead by less than half the circle),
\* completes, and the buffer then holds that subtitle alone: no past loss or
\* garbage blocks the next one (feed, lines 46-91).
FreshSubtitleCompletes ==
    \A d \in 1..((SeqSpace - 1) \div 2), n \in 1..MaxFragments :
        \A cut \in Cuts(n, AssembledMax) :
            LET ps == Fragments((asm.currentSeq + d) % SeqSpace, n, 0, cut)
            IN  Completes(asm, ps, ps)

\* "A stale fragment may have garbage fragment_count / fragment_index fields"
\* (feed, lines 38-44): one older fragment in the middle of a sequence, whatever
\* it contains, does not keep the sequence from completing with all its bytes.
StaleCostsNothing ==
    \A cut \in Cuts(asm.expectedCount - asm.nextExpected, AssembledMax - asm.assembledLength) :
        LET ps == Fragments(asm.currentSeq, asm.expectedCount, asm.nextExpected, cut)
        IN  \A p \in Packets :
                IsStale(asm, p) => Completes(AfterFeed(asm, p), ps, asm.assembled \o ps)
============================================================================
