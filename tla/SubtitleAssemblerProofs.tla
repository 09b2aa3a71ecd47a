---------------------- MODULE SubtitleAssemblerProofs ----------------------
(***************************************************************************)
(* Proofs about SubtitleAssembler, for every modulus, fragment limit and   *)
(* buffer size.  AfterFeed is a function of the old state and the fragment *)
(* alone, so each invariant is a property of states that AfterFeed keeps.  *)
(***************************************************************************)
EXTENDS SubtitleAssembler, SequenceTheorems, WellFoundedInduction, TLAPS

\* What feed() needs of its old state.  CompleteIsWhole is about the fragment
\* just fed, hence about the new state; it needs nothing of the old one but
\* that the buffer is coherent.
Inv == TypeOK /\ BufferCoherent /\ CompleteIsWhole

\* The lemmas hold of fragments with whatever fields beside the header.
HaveHeaders(F) ==
    \A p \in F : p.seq \in SeqIds /\ p.index \in Bytes /\ p.count \in Bytes /\ p.len \in Bytes

Coherent(st, F) == st \in AssemblerStates(F) /\ OneSequence(st) /\ Midway(st)

LEMMA PacketsHaveHeaders == HaveHeaders(Packets)
  BY DEF HaveHeaders, Packets

\* A value within the width is not changed by wrapping.
LEMMA WithinWidth ==
  ASSUME NEW m \in Nat \ {0}, NEW k \in 0..(m - 1)
  PROVE  k % m = k
  OBVIOUS

\* The initial state is coherent.
LEMMA IdleCoherent == \A F : Coherent(Idle, F)
  BY AssemblerConstants DEF Coherent, Idle, Cleared, AssemblerStates, OneSequence, Midway, SeqIds, Bytes

\* reset() leaves a coherent state.
LEMMA ResetCoherent ==
  ASSUME NEW F, NEW st \in AssemblerStates(F)
  PROVE  Coherent(ResetOf(st), F)
  BY AssemblerConstants
     DEF Coherent, ResetOf, Cleared, AssemblerStates, OneSequence, Midway, SeqIds, Bytes

\* The fragments an accepted one is appended to are those with the lower
\* indices of the same sequence.
LEMMA BaseCoherent ==
  ASSUME NEW F, HaveHeaders(F), NEW st, Coherent(st, F), NEW p \in F,
         ~CountChanged(st, p), Expected(st, p)
  PROVE  /\ Base(st, p).pieces \in Seq(F)
         /\ Base(st, p).length \in 0..AssembledMax
         /\ Len(Base(st, p).pieces) = p.index
         /\ \A i \in 1..Len(Base(st, p).pieces) :
              /\ Base(st, p).pieces[i].index = i - 1
              /\ Base(st, p).pieces[i].seq = p.seq
              /\ Base(st, p).pieces[i].count = p.count
<1>1. CASE Continues(st, p)
  BY <1>1 DEF Base, Coherent, CountChanged, Expected, Continues, OneSequence, Midway, AssemblerStates
<1>2. CASE ~Continues(st, p)
  <2>1. Base(st, p) = [pieces |-> <<>>, length |-> 0]
    BY <1>2 DEF Base
  <2>2. p.index = 0
    BY <1>2 DEF Expected
  <2>. QED
    BY <2>1, <2>2, AssemblerConstants
<1>. QED
  BY <1>1, <1>2

\* An accepted fragment extends a coherent state to a coherent state, and one
\* that completes its sequence leaves all of it in the buffer.
LEMMA AcceptedCoherent ==
  ASSUME NEW F, HaveHeaders(F), NEW st, Coherent(st, F), NEW p \in F,
         ~Malformed(p), ~CountChanged(st, p), Expected(st, p), Fits(st, p)
  PROVE  /\ Coherent(Accepted(st, p), F)
         /\ Len(Accepted(st, p).assembled) = p.index + 1
<1> DEFINE b == Base(st, p)
           new == Accepted(st, p)
<1>1. /\ b.pieces \in Seq(F)
      /\ b.length \in 0..AssembledMax
      /\ Len(b.pieces) = p.index
      /\ \A i \in 1..Len(b.pieces) :
           /\ b.pieces[i].index = i - 1
           /\ b.pieces[i].seq = p.seq
           /\ b.pieces[i].count = p.count
  BY BaseCoherent
<1>2. /\ p.seq \in SeqIds /\ p.index \in Nat /\ p.count \in Bytes /\ p.len \in Nat
      /\ p.index < p.count /\ p.count \in 1..MaxFragments
  BY AssemblerConstants DEF HaveHeaders, Bytes, Malformed
<1>3. /\ new.assembled = Append(b.pieces, p)
      /\ new.assembledLength = b.length + p.len
      /\ new.currentSeq = p.seq
      /\ new.expectedCount = p.count
      /\ new.active = (p.index + 1 # p.count)
      /\ new.nextExpected = (p.index + 1) % ByteMod
  BY DEF Accepted
<1>4. new.nextExpected = p.index + 1
  <2>1. p.index + 1 \in 0..(ByteMod - 1)
    BY <1>2, AssemblerConstants DEF Bytes
  <2>. QED
    BY <2>1, <1>3, WithinWidth, AssemblerConstants
<1>5. new.assembled \in Seq(F) /\ Len(new.assembled) = p.index + 1
  BY <1>1, <1>3
<1>6. new \in AssemblerStates(F)
  <2>1. new.assembledLength \in 0..AssembledMax
    BY <1>1, <1>2, <1>3, AssemblerConstants DEF Fits
  <2>2. new.nextExpected \in Bytes
    BY <1>2, <1>4, AssemblerConstants DEF Bytes
  <2>3. new.completedSeq \in SeqIds
    BY <1>2 DEF Accepted, Coherent, AssemblerStates
  <2>. QED
    BY <2>1, <2>2, <2>3, <1>2, <1>3, <1>5 DEF Accepted, AssemblerStates
<1>7. OneSequence(new)
  <2> SUFFICES ASSUME NEW i \in 1..Len(new.assembled)
               PROVE  /\ new.assembled[i].index = i - 1
                      /\ new.assembled[i].seq = p.seq
                      /\ new.assembled[i].count = p.count
    BY <1>3 DEF OneSequence
  <2>1. CASE i = p.index + 1
    BY <2>1, <1>1, <1>2, <1>3
  <2>2. CASE i # p.index + 1
    <3>1. i \in 1..Len(b.pieces)
      BY <2>2, <1>1, <1>2, <1>5
    <3>2. new.assembled[i] = b.pieces[i]
      BY <3>1, <1>1, <1>3
    <3>. QED
      BY <3>1, <3>2, <1>1
  <2>. QED
    BY <2>1, <2>2
<1>8. Midway(new)
  <2> SUFFICES ASSUME new.active
               PROVE  /\ Len(new.assembled) = new.nextExpected
                      /\ new.nextExpected \in 1..(new.expectedCount - 1)
                      /\ new.expectedCount <= MaxFragments
    BY DEF Midway
  <2>1. p.index + 1 # p.count
    BY <1>3
  <2>2. new.expectedCount = p.count
    BY <1>3
  <2>3. p.index + 1 \in 1..(p.count - 1) /\ p.count <= MaxFragments
    BY <2>1, <1>2, AssemblerConstants DEF Bytes
  <2>. QED
    BY <2>2, <2>3, <1>4, <1>5
<1>. QED
  BY <1>5, <1>6, <1>7, <1>8 DEF Coherent

\* feed() keeps the state coherent, whatever fragment it is given.
LEMMA FeedCoherent ==
  ASSUME NEW F, HaveHeaders(F), NEW st, Coherent(st, F), NEW p \in F
  PROVE  /\ Coherent(AfterFeed(st, p), F)
         /\ FeedResult(st, p) \in Results \ {"None"}
         /\ FeedResult(st, p) = "Complete" =>
              LET new == AfterFeed(st, p) IN
              /\ ~new.active
              /\ new.completedSeq = new.currentSeq
              /\ Len(new.assembled) = new.expectedCount
              /\ new.expectedCount \in 1..MaxFragments
<1> DEFINE r == FeedResult(st, p)
<1>1. r \in Results \ {"None"}
  BY DEF FeedResult, Results
<1>2. CASE r \in {"Complete", "Incomplete"}
  <2>1. /\ ~Malformed(p) /\ ~CountChanged(st, p) /\ Expected(st, p) /\ Fits(st, p)
        /\ r = "Complete" => p.index + 1 = p.count
    BY <1>2 DEF FeedResult
  <2>2. AfterFeed(st, p) = Accepted(st, p)
    BY <1>2 DEF AfterFeed
  <2>3. p.count \in 1..MaxFragments /\ p.index \in Nat
    BY <2>1, AssemblerConstants DEF Malformed, HaveHeaders, Bytes
  <2>4. /\ Coherent(Accepted(st, p), F)
        /\ Len(Accepted(st, p).assembled) = p.index + 1
    BY <2>1, AcceptedCoherent
  <2>5. ASSUME r = "Complete"
        PROVE  /\ ~Accepted(st, p).active
               /\ Accepted(st, p).completedSeq = Accepted(st, p).currentSeq
               /\ Len(Accepted(st, p).assembled) = Accepted(st, p).expectedCount
               /\ Accepted(st, p).expectedCount \in 1..MaxFragments
    <3>1. p.index + 1 = p.count
      BY <2>1, <2>5
    <3>. QED
      BY <2>3, <2>4, <3>1 DEF Accepted
  <2>. QED
    BY <1>1, <2>2, <2>4, <2>5
<1>3. CASE r = "Stale" \/ (r = "OutOfOrder" /\ ~st.active)
  <2>1. AfterFeed(st, p) = st
    BY <1>3 DEF AfterFeed
  <2>. QED
    BY <1>1, <1>3, <2>1
<1>4. CASE r \in {"Inconsistent", "Overflow"} \/ (r = "OutOfOrder" /\ st.active)
  <2>1. AfterFeed(st, p) = ResetOf(st)
    BY <1>4 DEF AfterFeed
  <2>2. st \in AssemblerStates(F)
    BY DEF Coherent
  <2>. QED
    BY <1>1, <1>4, <2>1, <2>2, ResetCoherent
<1>. QED
  BY <1>1, <1>2, <1>3, <1>4 DEF Results

----------------------------------------------------------------------------
\* Every reachable state satisfies the invariant: types, the coherence of the
\* buffer, and that Complete is only returned for a whole subtitle.
THEOREM AssemblerInvariant == Spec => []Inv
<1>1. Init => Inv
  BY IdleCoherent
     DEF Init, Inv, TypeOK, BufferCoherent, CompleteIsWhole, Coherent, Results
<1>2. Inv /\ [Next]_asmVars => Inv'
  <2> SUFFICES ASSUME Inv, [Next]_asmVars
               PROVE  Inv'
    OBVIOUS
  <2>1. Coherent(asm, Packets)
    BY DEF Inv, TypeOK, BufferCoherent, Coherent
  <2>2. CASE Disconnect
    <3>1. Coherent(ResetOf(asm), Packets)
      BY <2>1, ResetCoherent DEF Coherent
    <3>. QED
      BY <2>2, <3>1
         DEF Disconnect, Inv, TypeOK, BufferCoherent, CompleteIsWhole, Coherent, Results
  <2>3. ASSUME NEW p \in Packets, Feed(p)
        PROVE  Inv'
    <3>1. asm' = AfterFeed(asm, p) /\ result' = FeedResult(asm, p)
      BY <2>3 DEF Feed
    <3>2. Coherent(asm', Packets) /\ result' \in Results
      BY <2>1, <3>1, PacketsHaveHeaders, FeedCoherent
    <3>3. result' = "Complete" =>
            /\ ~asm'.active
            /\ asm'.completedSeq = asm'.currentSeq
            /\ Len(asm'.assembled) = asm'.expectedCount
            /\ asm'.expectedCount \in 1..MaxFragments
      <4>1. FeedResult(asm, p) = "Complete" =>
              LET new == AfterFeed(asm, p) IN
              /\ ~new.active
              /\ new.completedSeq = new.currentSeq
              /\ Len(new.assembled) = new.expectedCount
              /\ new.expectedCount \in 1..MaxFragments
        BY <2>1, PacketsHaveHeaders, FeedCoherent
      <4>. QED
        BY <4>1, <3>1
    <3>4. CompleteIsWhole'
      BY <3>2, <3>3 DEF CompleteIsWhole, Coherent
    <3>. QED
      BY <3>2, <3>4 DEF Inv, TypeOK, BufferCoherent, Coherent
  <2>4. CASE UNCHANGED asmVars
    BY <2>4 DEF asmVars, Inv, TypeOK, BufferCoherent, CompleteIsWhole
  <2>. QED
    BY <2>2, <2>3, <2>4 DEF Next
<1>. QED
  BY <1>1, <1>2, PTL DEF Spec

\* Types, for every value of the constants.
THEOREM AssemblerTypeOK == Spec => []TypeOK
  BY AssemblerInvariant, PTL DEF Inv

\* The buffer never mixes fragments of two sequences.
THEOREM AssemblerBufferCoherent == Spec => []BufferCoherent
  BY AssemblerInvariant, PTL DEF Inv

\* Complete is returned for whole subtitles only.
THEOREM AssemblerCompleteIsWhole == Spec => []CompleteIsWhole
  BY AssemblerInvariant, PTL DEF Inv

----------------------------------------------------------------------------
\* Feeding a whole subtitle.

\* Induction over the numbers, on a set in place of a predicate.
LEMMA InductionOnSet ==
  ASSUME NEW T, 0 \in T, \A n \in Nat : n \in T => n + 1 \in T
  PROVE  Nat \subseteq T
<1> DEFINE R == OpToRel(<, Nat)
           Rest == Nat \ T
<1> SUFFICES ASSUME Rest # {} PROVE FALSE
  OBVIOUS
<1>1. PICK x \in Rest : \A y \in Rest : <<y, x>> \notin R
  <2>1. IsWellFoundedOn(R, Nat) /\ Rest \subseteq Nat
    BY NatLessThanWellFounded
  <2> HIDE DEF Rest, R
  <2>. QED
    BY <2>1, WFMin
<1>2. x - 1 \in Nat /\ <<x - 1, x>> \in R
  BY DEF OpToRel
<1>3. x - 1 \in T
  BY <1>1, <1>2
<1> HIDE DEF R
<1>4. x \in Nat /\ x \notin T /\ (x - 1) + 1 = x
  OBVIOUS
<1>. QED
  BY <1>2, <1>3, <1>4

\* f is a solution of the recursion behind AfterFeeds.
Solves(f, st, ps) ==
  f = [k \in 0..Len(ps) |-> IF k = 0 THEN st ELSE AfterFeed(f[k - 1], ps[k])]

\* If there is one, AfterFeeds is it.
LEMMA FeedsUnfold ==
  ASSUME NEW st, NEW ps, Len(ps) \in Nat, NEW f, Solves(f, st, ps)
  PROVE  AfterFeeds(st, ps) = f
<1> DEFINE run == AfterFeeds(st, ps)
           T == {k \in Nat : k <= Len(ps) => run[k] = f[k]}
<1>1. run = [k \in 0..Len(ps) |-> IF k = 0 THEN st ELSE AfterFeed(run[k - 1], ps[k])]
  <2> DEFINE run0 == CHOOSE g :
                g = [k \in 0..Len(ps) |-> IF k = 0 THEN st ELSE AfterFeed(g[k - 1], ps[k])]
  <2>1. run0 = [k \in 0..Len(ps) |-> IF k = 0 THEN st ELSE AfterFeed(run0[k - 1], ps[k])]
    BY DEF Solves
  <2>2. run = run0
    BY DEF AfterFeeds
  <2>. QED
    BY <2>1, <2>2
<1> HIDE DEF run
<1>2. 0 \in T
  BY <1>1 DEF Solves
<1>3. ASSUME NEW k \in Nat, k \in T PROVE k + 1 \in T
  <2> SUFFICES ASSUME k + 1 <= Len(ps) PROVE run[k + 1] = f[k + 1]
    OBVIOUS
  <2>1. run[k] = f[k] /\ k + 1 \in 0..Len(ps) /\ (k + 1) - 1 = k /\ k + 1 # 0
    BY <1>3
  <2>2. run[k + 1] = AfterFeed(run[k], ps[k + 1])
    BY <1>1, <2>1
  <2>3. f[k + 1] = AfterFeed(f[k], ps[k + 1])
    BY <2>1 DEF Solves
  <2>. QED
    BY <2>1, <2>2, <2>3
<1>4. \A k \in 0..Len(ps) : run[k] = f[k]
  <2> HIDE DEF T
  <2>1. Nat \subseteq T
    BY <1>2, <1>3, InductionOnSet
  <2>2. \A k \in 0..Len(ps) : k \in T /\ k <= Len(ps)
    BY <2>1
  <2>. QED
    BY <2>2 DEF T
<1>. QED
  BY <1>1, <1>4 DEF run, Solves

\* A fragment that passes every check is appended.
LEMMA FeedAccepts ==
  ASSUME NEW st, NEW p,
         ~IsStale(st, p), ~Malformed(p), ~CountChanged(st, p), Expected(st, p), Fits(st, p)
  PROVE  /\ AfterFeed(st, p) = Accepted(st, p)
         /\ FeedResult(st, p) = IF p.index + 1 = p.count THEN "Complete" ELSE "Incomplete"
  BY DEF AfterFeed, FeedResult

\* The states on the way, once fragment k of ps has been appended.
Fed(st, ps, cut, k) ==
  LET base == Base(st, ps[1])
      all  == k = Len(ps)
  IN  [active          |-> ~all,
       currentSeq      |-> ps[1].seq,
       expectedCount   |-> ps[1].count,
       nextExpected    |-> (ps[k].index + 1) % ByteMod,
       assembled       |-> base.pieces \o SubSeq(ps, 1, k),
       assembledLength |-> base.length + cut[k],
       completedSeq    |-> IF all THEN ps[1].seq ELSE st.completedSeq]

\* ps are fragments b, ... of the c of subtitle s, as decoded.
AreFragments(ps, s, c, b, cut) ==
  /\ ps \in Seq(Packets)
  /\ Len(ps) = c - b
  /\ \A i \in 1..(c - b) :
       /\ ps[i].seq = s /\ ps[i].index = b + i - 1 /\ ps[i].count = c
       /\ ps[i].len = cut[i] - cut[i - 1]
       /\ ps[i] \in Packets
       /\ ~Malformed(ps[i])

LEMMA FragmentsInOrder ==
  ASSUME NEW s \in SeqIds, NEW c \in 1..MaxFragments, NEW b \in 0..(c - 1),
         NEW room \in Nat, NEW cut \in Cuts(c - b, room)
  PROVE  AreFragments(Fragments(s, c, b, cut), s, c, b, cut)
<1> DEFINE ps == Fragments(s, c, b, cut)
<1>1. c \in Nat /\ b \in Nat /\ c - b \in Nat /\ c <= MaxFragments /\ c \in Bytes /\ c # 0
  BY AssemblerConstants DEF Bytes
<1>2. ASSUME NEW i \in 1..(c - b)
      PROVE  /\ b + i - 1 \in Bytes /\ b + i - 1 < c
             /\ cut[i] - cut[i - 1] \in Bytes
  BY <1>1, AssemblerConstants DEF Bytes, Cuts
<1> DEFINE p(i) == [seq |-> s, index |-> b + i - 1, count |-> c, len |-> cut[i] - cut[i - 1]]
<1>3. ASSUME NEW i \in 1..(c - b)
      PROVE  /\ p(i).seq = s /\ p(i).index = b + i - 1 /\ p(i).count = c
             /\ p(i).len = cut[i] - cut[i - 1]
             /\ p(i) \in Packets
             /\ ~Malformed(p(i))
  <2>1. p(i) \in Packets
    BY <1>1, <1>2 DEF Packets
  <2>2. ~Malformed(p(i))
    BY <1>1, <1>2, AssemblerConstants DEF Malformed, Bytes
  <2>. QED
    BY <2>1, <2>2
<1>4. ps = [i \in 1..(c - b) |-> p(i)]
  BY DEF Fragments
<1> HIDE DEF ps, p
<1>5. ps \in Seq(Packets) /\ Len(ps) = c - b /\ \A i \in 1..(c - b) : ps[i] = p(i)
  BY <1>1, <1>3, <1>4
<1>6. \A i \in 1..(c - b) :
        /\ ps[i].seq = s /\ ps[i].index = b + i - 1 /\ ps[i].count = c
        /\ ps[i].len = cut[i] - cut[i - 1]
        /\ ps[i] \in Packets
        /\ ~Malformed(ps[i])
  BY <1>3, <1>5
<1>7. AreFragments(ps, s, c, b, cut)
  BY <1>5, <1>6 DEF AreFragments
<1>. QED
  BY <1>7 DEF ps

\* One more piece at the end.
LEMMA PiecesGrow ==
  ASSUME NEW S, NEW q \in Seq(S), NEW ps \in Seq(S), NEW k \in 0..(Len(ps) - 1)
  PROVE  Append(q \o SubSeq(ps, 1, k), ps[k + 1]) = q \o SubSeq(ps, 1, k + 1)
<1> DEFINE u == q \o SubSeq(ps, 1, k)
           v == q \o SubSeq(ps, 1, k + 1)
           e == ps[k + 1]
<1>1. /\ SubSeq(ps, 1, k) \in Seq(S) /\ Len(SubSeq(ps, 1, k)) = k
      /\ SubSeq(ps, 1, k + 1) \in Seq(S) /\ Len(SubSeq(ps, 1, k + 1)) = k + 1
      /\ e \in S
      /\ \A i \in 1..k : SubSeq(ps, 1, k)[i] = ps[i]
      /\ \A i \in 1..(k + 1) : SubSeq(ps, 1, k + 1)[i] = ps[i]
  OBVIOUS
<1>2. /\ u \in Seq(S) /\ Len(u) = Len(q) + k
      /\ \A i \in 1..(Len(q) + k) : u[i] = IF i <= Len(q) THEN q[i] ELSE ps[i - Len(q)]
  BY <1>1, ConcatProperties
<1>3. /\ v \in Seq(S) /\ Len(v) = Len(q) + (k + 1)
      /\ \A i \in 1..(Len(q) + (k + 1)) : v[i] = IF i <= Len(q) THEN q[i] ELSE ps[i - Len(q)]
  BY <1>1, ConcatProperties
<1> HIDE DEF u, v
<1>4. /\ Append(u, e) \in Seq(S) /\ Len(Append(u, e)) = Len(u) + 1
      /\ \A i \in 1..Len(u) : Append(u, e)[i] = u[i]
      /\ Append(u, e)[Len(u) + 1] = e
  <2> HIDE DEF e
  <2>1. Append(u, e) \in Seq(S) /\ Len(Append(u, e)) = Len(u) + 1
    BY <1>1, <1>2
  <2>. QED
    BY <1>1, <1>2, <2>1
<1>5. \A i \in 1..Len(v) : Append(u, e)[i] = v[i]
  <2> SUFFICES ASSUME NEW i \in 1..Len(v) PROVE Append(u, e)[i] = v[i]
    OBVIOUS
  <2>1. Len(q) \in Nat
    OBVIOUS
  <2>2. i \in 1..(Len(q) + (k + 1))
    BY <1>3
  <2>3. CASE i \in 1..(Len(q) + k)
    BY <1>2, <1>3, <1>4, <2>2, <2>3
  <2>4. CASE i = Len(q) + (k + 1)
    <3>1. i = Len(u) + 1 /\ ~(i <= Len(q)) /\ i - Len(q) = k + 1
      BY <1>2, <2>1, <2>4
    <3>2. v[i] = ps[i - Len(q)]
      BY <1>3, <2>2, <3>1
    <3>3. Append(u, e)[i] = e
      BY <1>4, <3>1
    <3>. QED
      BY <3>1, <3>2, <3>3
  <2>5. \A a \in Nat : \A j \in 1..(a + (k + 1)) : j \in 1..(a + k) \/ j = a + (k + 1)
    OBVIOUS
  <2>6. i \in 1..(Len(q) + k) \/ i = Len(q) + (k + 1)
    BY <2>1, <2>2, <2>5
  <2>. QED
    BY <2>3, <2>4, <2>6
<1>6. Append(u, e) = v
  <2>1. Len(Append(u, e)) = Len(v)
    BY <1>2, <1>3, <1>4
  <2> HIDE DEF e
  <2>2. \A i \in 1..Len(Append(u, e)) : Append(u, e)[i] = v[i]
    BY <2>1, <1>5
  <2>. QED
    BY <1>3, <1>4, <2>1, <2>2, SeqEqual
<1>. QED
  BY <1>6 DEF u, v

\* The situation the following lemmas are about: st is fed the fragments b, ...
\* of subtitle s, the first of which it does not reject.
InOrder(st, s, c, b, cut, ps) ==
  /\ s \in SeqIds /\ c \in 1..MaxFragments /\ b \in 0..(c - 1)
  /\ cut \in Cuts(c - b, AssembledMax - Base(st, ps[1]).length)
  /\ ps = Fragments(s, c, b, cut)
  /\ Base(st, ps[1]).pieces \in Seq(Packets)
  /\ Base(st, ps[1]).length \in 0..AssembledMax
  /\ ~IsStale(st, ps[1]) /\ ~CountChanged(st, ps[1]) /\ Expected(st, ps[1])

\* What the fragments then are.
LEMMA InOrderFragments ==
  ASSUME NEW s, NEW c, NEW b, NEW st, NEW ps, NEW cut,
         InOrder(st, s, c, b, cut, ps)
  PROVE  /\ AreFragments(ps, s, c, b, cut)
         /\ \A i \in 0..(c - b) : cut[i] \in 0..(AssembledMax - Base(st, ps[1]).length)
         /\ cut[0] = 0
<1> DEFINE room == AssembledMax - Base(st, ps[1]).length
<1>1. /\ s \in SeqIds /\ c \in 1..MaxFragments /\ b \in 0..(c - 1)
      /\ room \in Nat /\ cut \in Cuts(c - b, room) /\ ps = Fragments(s, c, b, cut)
  BY AssemblerConstants DEF InOrder
<1> HIDE DEF room
<1>2. (\A i \in 0..(c - b) : cut[i] \in 0..room) /\ cut[0] = 0
  BY <1>1 DEF Cuts
<1>3. AreFragments(ps, s, c, b, cut)
  BY <1>1, FragmentsInOrder
<1>. QED
  BY <1>2, <1>3 DEF room

\* x holds the first k of the fragments, and does not reject the next one.
Ready(x, st, ps, cut, k) ==
  /\ Base(x, ps[k + 1]).pieces = Base(st, ps[1]).pieces \o SubSeq(ps, 1, k)
  /\ Base(x, ps[k + 1]).length = Base(st, ps[1]).length + cut[k]
  /\ ~IsStale(x, ps[k + 1]) /\ ~CountChanged(x, ps[k + 1]) /\ Expected(x, ps[k + 1])
  /\ x.completedSeq = st.completedSeq

\* Such a state takes the next one.
LEMMA FedNext ==
  ASSUME NEW s, NEW c, NEW b, NEW st, NEW ps, NEW cut,
         InOrder(st, s, c, b, cut, ps),
         NEW k \in 0..(c - b - 1), NEW x, Ready(x, st, ps, cut, k)
  PROVE  /\ AfterFeed(x, ps[k + 1]) = Fed(st, ps, cut, k + 1)
         /\ FeedResult(x, ps[k + 1]) =
              IF k + 1 = Len(ps) THEN "Complete" ELSE "Incomplete"
<1> DEFINE p == ps[k + 1]
           base == Base(st, ps[1])
           room == AssembledMax - base.length
<1>1. /\ s \in SeqIds /\ c \in 1..MaxFragments /\ b \in 0..(c - 1)
      /\ room \in Nat /\ cut \in Cuts(c - b, room) /\ ps = Fragments(s, c, b, cut)
      /\ base.pieces \in Seq(Packets) /\ base.length \in Nat
  BY AssemblerConstants DEF InOrder
<1>2. /\ c \in Nat /\ b \in Nat /\ c - b \in Nat /\ c - b >= 1
      /\ k + 1 \in 1..(c - b) /\ 1 \in 1..(c - b) /\ (k + 1) - 1 = k
      /\ b + (k + 1) - 1 = b + k
      /\ ((b + k) + 1 = c) <=> (k + 1 = c - b)
  BY <1>1, AssemblerConstants
<1>3. /\ ps \in Seq(Packets) /\ Len(ps) = c - b
      /\ ps[1].seq = s /\ ps[1].count = c
      /\ p.seq = s /\ p.count = c /\ p.index = b + k
      /\ p.len = cut[k + 1] - cut[k]
      /\ p \in Packets /\ ~Malformed(p)
  <2>0. AreFragments(ps, s, c, b, cut)
    BY InOrderFragments
  <2>1. /\ ps \in Seq(Packets) /\ Len(ps) = c - b
        /\ ps[1].seq = s /\ ps[1].count = c
    BY <1>2, <2>0 DEF AreFragments
  <2>2. /\ p.seq = s /\ p.count = c /\ p.index = b + (k + 1) - 1
        /\ p.len = cut[k + 1] - cut[(k + 1) - 1]
        /\ p \in Packets /\ ~Malformed(p)
    BY <1>2, <2>0 DEF AreFragments
  <2>. QED
    BY <1>2, <2>1, <2>2
<1>4. cut[k] \in 0..room /\ cut[k + 1] \in 0..room
  <2>1. k \in 0..(c - b) /\ k + 1 \in 0..(c - b)
    BY <1>2
  <2>. QED
    BY <2>1, InOrderFragments
<1>5. (base.length + cut[k]) + (cut[k + 1] - cut[k]) = base.length + cut[k + 1]
  BY <1>1, <1>4
<1>6. /\ Base(x, p).pieces = base.pieces \o SubSeq(ps, 1, k)
      /\ Base(x, p).length = base.length + cut[k]
      /\ ~IsStale(x, p) /\ ~CountChanged(x, p) /\ Expected(x, p)
      /\ x.completedSeq = st.completedSeq
  BY DEF Ready
<1>7. Fits(x, p)
  <2>1. base.length + cut[k + 1] <= AssembledMax
    BY <1>1, <1>4, AssemblerConstants
  <2>. QED
    BY <1>3, <1>5, <1>6, <2>1 DEF Fits
<1>8. p.index + 1 = p.count <=> k + 1 = Len(ps)
  BY <1>2, <1>3
<1>9. /\ AfterFeed(x, p) = Accepted(x, p)
      /\ FeedResult(x, p) = IF k + 1 = Len(ps) THEN "Complete" ELSE "Incomplete"
  BY <1>3, <1>6, <1>7, <1>8, FeedAccepts
<1>10. Append(base.pieces \o SubSeq(ps, 1, k), p) = base.pieces \o SubSeq(ps, 1, k + 1)
  <2>1. k \in 0..(Len(ps) - 1)
    BY <1>2, <1>3
  <2>. QED
    BY <1>1, <1>3, <2>1, PiecesGrow
<1>11. Accepted(x, p) = Fed(st, ps, cut, k + 1)
  <2>1. /\ Append(Base(x, p).pieces, p) = base.pieces \o SubSeq(ps, 1, k + 1)
        /\ Base(x, p).length + p.len = base.length + cut[k + 1]
    BY <1>3, <1>5, <1>6, <1>10, Zenon
  <2>2. /\ p.seq = ps[1].seq /\ p.count = ps[1].count
        /\ x.completedSeq = st.completedSeq
    BY <1>3, <1>6
  <2> HIDE DEF base
  <2>. QED
    BY <1>8, <2>1, <2>2 DEF Accepted, Fed, base
<1>. QED
  BY <1>9, <1>11

\* Each state on the way takes the next fragment.
LEMMA FedSteps ==
  ASSUME NEW s, NEW c, NEW b, NEW st, NEW ps, NEW cut,
         InOrder(st, s, c, b, cut, ps), NEW k \in 1..(c - b - 1)
  PROVE  /\ AfterFeed(Fed(st, ps, cut, k), ps[k + 1]) = Fed(st, ps, cut, k + 1)
         /\ FeedResult(Fed(st, ps, cut, k), ps[k + 1]) =
              IF k + 1 = Len(ps) THEN "Complete" ELSE "Incomplete"
<1> DEFINE x == Fed(st, ps, cut, k)
           p == ps[k + 1]
           base == Base(st, ps[1])
           room == AssembledMax - base.length
<1>1. /\ s \in SeqIds /\ c \in 1..MaxFragments /\ b \in 0..(c - 1)
      /\ room \in Nat /\ cut \in Cuts(c - b, room) /\ ps = Fragments(s, c, b, cut)
  BY AssemblerConstants DEF InOrder
<1>2. /\ k \in 0..(c - b - 1) /\ k \in 1..(c - b) /\ k + 1 \in 1..(c - b) /\ 1 \in 1..(c - b)
      /\ k # c - b /\ b + (k + 1) - 1 = b + k /\ b + k \in 0..(ByteMod - 1)
      /\ (b + k - 1) + 1 = b + k
  BY <1>1, AssemblerConstants
<1>3. /\ Len(ps) = c - b /\ ps[1].seq = s /\ ps[1].count = c
      /\ ps[k].index = b + k - 1
      /\ p.seq = s /\ p.count = c /\ p.index = b + k
  <2>1. AreFragments(ps, s, c, b, cut)
    BY InOrderFragments
  <2>2. Len(ps) = c - b /\ ps[1].seq = s /\ ps[1].count = c
    BY <1>2, <2>1 DEF AreFragments
  <2>3. ps[k].index = b + k - 1
    BY <1>2, <2>1 DEF AreFragments
  <2>4. p.seq = s /\ p.count = c /\ p.index = b + (k + 1) - 1
    BY <1>2, <2>1 DEF AreFragments
  <2>. QED
    BY <1>2, <2>2, <2>3, <2>4
<1>4. /\ x.active /\ x.currentSeq = s /\ x.expectedCount = c
      /\ x.nextExpected = b + k
      /\ x.assembled = base.pieces \o SubSeq(ps, 1, k)
      /\ x.assembledLength = base.length + cut[k]
      /\ x.completedSeq = st.completedSeq
  <2>1. (b + k) % ByteMod = b + k
    BY <1>2, WithinWidth, AssemblerConstants
  <2>. QED
    BY <1>2, <1>3, <2>1 DEF Fed
<1> HIDE DEF x
<1>5. /\ Base(x, p).pieces = base.pieces \o SubSeq(ps, 1, k)
      /\ Base(x, p).length = base.length + cut[k]
  BY <1>3, <1>4 DEF Base, Continues
<1>6. ~IsStale(x, p) /\ ~CountChanged(x, p) /\ Expected(x, p)
  BY <1>3, <1>4 DEF IsStale, CountChanged, Expected, Continues
<1> HIDE DEF p, base
<1>7. /\ AfterFeed(x, p) = Fed(st, ps, cut, k + 1)
      /\ FeedResult(x, p) = IF k + 1 = Len(ps) THEN "Complete" ELSE "Incomplete"
  <2>1. Ready(x, st, ps, cut, k)
    BY <1>4, <1>5, <1>6 DEF Ready, p, base
  <2>. QED
    BY <1>2, <2>1, FedNext DEF p
<1>. QED
  BY <1>7 DEF x, p

\* So does st.
LEMMA FedStarts ==
  ASSUME NEW s, NEW c, NEW b, NEW st, NEW ps, NEW cut,
         InOrder(st, s, c, b, cut, ps)
  PROVE  /\ AfterFeed(st, ps[1]) = Fed(st, ps, cut, 1)
         /\ FeedResult(st, ps[1]) = IF 1 = Len(ps) THEN "Complete" ELSE "Incomplete"
<1> DEFINE p == ps[1]
           base == Base(st, p)
           room == AssembledMax - base.length
<1>1. /\ s \in SeqIds /\ c \in 1..MaxFragments /\ b \in 0..(c - 1)
      /\ room \in Nat /\ cut \in Cuts(c - b, room) /\ ps = Fragments(s, c, b, cut)
      /\ base.pieces \in Seq(Packets) /\ base.length \in Nat
      /\ ~IsStale(st, p) /\ ~CountChanged(st, p) /\ Expected(st, p)
  BY AssemblerConstants DEF InOrder
<1>2. 0 \in 0..(c - b - 1) /\ 0 + 1 = 1
  BY <1>1, AssemblerConstants
<1>3. base.pieces \o SubSeq(ps, 1, 0) = base.pieces
  <2>1. ps \in Seq(Packets)
    BY InOrderFragments DEF AreFragments
  <2>2. SubSeq(ps, 1, 0) = <<>>
    BY <2>1, SubSeqEmpty
  <2>. QED
    BY <1>1, <2>2, ConcatEmptySeq
<1>4. base.length + cut[0] = base.length
  BY <1>1, InOrderFragments
<1> HIDE DEF base, p
<1>5. Ready(st, st, ps, cut, 0)
  BY <1>1, <1>2, <1>3, <1>4 DEF Ready, base, p
<1>6. /\ AfterFeed(st, ps[0 + 1]) = Fed(st, ps, cut, 0 + 1)
      /\ FeedResult(st, ps[0 + 1]) =
           IF 0 + 1 = Len(ps) THEN "Complete" ELSE "Incomplete"
  BY <1>2, <1>5, FedNext
<1>. QED
  BY <1>2, <1>6

\* Fed in order, the fragments complete, behind what the buffer held of their
\* sequence.
LEMMA InOrderCompletes ==
  ASSUME NEW s, NEW c, NEW b, NEW st, NEW ps, NEW cut,
         InOrder(st, s, c, b, cut, ps)
  PROVE  Completes(st, ps, Base(st, ps[1]).pieces \o ps)
<1> DEFINE n == Len(ps)
           pieces == Base(st, ps[1]).pieces
           f == [k \in 0..n |-> IF k = 0 THEN st ELSE Fed(st, ps, cut, k)]
<1>1. ps \in Seq(Packets) /\ pieces \in Seq(Packets) /\ n = c - b /\ n \in Nat /\ n >= 1
  <2>1. ps \in Seq(Packets) /\ n = c - b
    BY InOrderFragments DEF AreFragments
  <2>2. pieces \in Seq(Packets) /\ c \in 1..MaxFragments /\ b \in 0..(c - 1)
    BY DEF InOrder
  <2>3. c - b \in Nat /\ c - b >= 1
    BY <2>2, AssemblerConstants
  <2>. QED
    BY <2>1, <2>2, <2>3
<1>2. ASSUME NEW k \in 1..n
      PROVE  /\ AfterFeed(f[k - 1], ps[k]) = f[k]
             /\ FeedResult(f[k - 1], ps[k]) = IF k = n THEN "Complete" ELSE "Incomplete"
  <2>1. CASE k = 1
    <3>1. f[0] = st /\ f[1] = Fed(st, ps, cut, 1) /\ k - 1 = 0
      BY <1>1, <2>1
    <3> HIDE DEF f
    <3>. QED
      BY <2>1, <3>1, FedStarts
  <2>2. CASE k # 1
    <3> DEFINE j == k - 1
    <3>1. j \in 1..(c - b - 1) /\ j \in 0..n /\ k \in 0..n /\ j # 0 /\ k # 0 /\ j + 1 = k
      BY <1>1, <2>2
    <3>2. f[j] = Fed(st, ps, cut, j) /\ f[k] = Fed(st, ps, cut, k)
      BY <3>1
    <3> HIDE DEF f, j
    <3>3. /\ AfterFeed(Fed(st, ps, cut, j), ps[j + 1]) = Fed(st, ps, cut, j + 1)
          /\ FeedResult(Fed(st, ps, cut, j), ps[j + 1]) =
               IF j + 1 = n THEN "Complete" ELSE "Incomplete"
      BY <3>1, FedSteps
    <3>. QED
      BY <3>1, <3>2, <3>3 DEF j
  <2>. QED
    BY <2>1, <2>2
<1>3. f[0] = st /\ f[n] = Fed(st, ps, cut, n)
  BY <1>1
<1>4. f = [k \in 0..n |-> IF k = 0 THEN st ELSE AfterFeed(f[k - 1], ps[k])]
  <2>1. \A k \in 0..n : k # 0 => k \in 1..n
    BY <1>1
  <2> DEFINE h == [k \in 0..n |-> IF k = 0 THEN st ELSE AfterFeed(f[k - 1], ps[k])]
  <2>2. \A k \in 0..n : f[k] = h[k]
    <3> SUFFICES ASSUME NEW k \in 0..n PROVE f[k] = h[k]
      OBVIOUS
    <3>1. CASE k = 0
      BY <1>3, <3>1
    <3>2. CASE k # 0
      <4>1. h[k] = AfterFeed(f[k - 1], ps[k])
        BY <3>2
      <4> HIDE DEF f, h
      <4>. QED
        BY <3>2, <4>1, <2>1, <1>2
    <3>. QED
      BY <3>1, <3>2
  <2>. QED
    BY <2>2
<1> HIDE DEF f
<1>5. AfterFeeds(st, ps) = f
  <2>1. Solves(f, st, ps)
    BY <1>4 DEF Solves
  <2>. QED
    BY <1>1, <2>1, FeedsUnfold
<1>6. FeedResult(f[n - 1], ps[n]) = "Complete"
  BY <1>1, <1>2
<1>7. Fed(st, ps, cut, n).assembled = pieces \o ps
  <2>1. SubSeq(ps, 1, n) = ps
    BY <1>1, SubSeqFull
  <2>. QED
    BY <2>1 DEF Fed
<1>. QED
  BY <1>3, <1>5, <1>6, <1>7 DEF Completes

----------------------------------------------------------------------------
\* A difference within the circle survives the wrap.
LEMMA WrappedDifference ==
  ASSUME NEW N \in Nat \ {0}, NEW a \in 0..(N - 1), NEW d \in 0..(N - 1)
  PROVE  (((a + d) % N) - a) % N = d
<1>1. CASE a + d < N
  <2>1. (a + d) % N = a + d /\ (a + d) - a = d
    BY <1>1, WithinWidth
  <2>. QED
    BY <2>1, WithinWidth
<1>2. CASE a + d >= N
  <2>1. (a + d) - N \in 0..(N - 1)
    BY <1>2
  <2>2. (a + d) % N = (a + d) - N
    BY <2>1
  <2>3. ((a + d) - N) - a = d - N
    OBVIOUS
  <2>4. (d - N) % N = d
    OBVIOUS
  <2>. QED
    BY <2>2, <2>3, <2>4
<1>. QED
  BY <1>1, <1>2

\* A coherent assembler completes every whole subtitle newer than its own.
LEMMA FreshCompletes ==
  ASSUME Coherent(asm, Packets)
  PROVE  FreshSubtitleCompletes
<1> SUFFICES ASSUME NEW d \in 1..((SeqSpace - 1) \div 2), NEW n \in 1..MaxFragments,
                    NEW cut \in Cuts(n, AssembledMax)
             PROVE  LET ps == Fragments((asm.currentSeq + d) % SeqSpace, n, 0, cut)
                    IN  Completes(asm, ps, ps)
  BY DEF FreshSubtitleCompletes
<1> DEFINE s == (asm.currentSeq + d) % SeqSpace
           ps == Fragments(s, n, 0, cut)
<1>1. asm.currentSeq \in 0..(SeqSpace - 1) /\ d \in 0..(SeqSpace - 1) /\ d # 0
  BY AssemblerConstants DEF Coherent, AssemblerStates, SeqIds
<1>2. s \in SeqIds /\ (s - asm.currentSeq) % SeqSpace = d
  <2>1. s \in SeqIds
    BY <1>1, AssemblerConstants DEF SeqIds
  <2>2. (((asm.currentSeq + d) % SeqSpace) - asm.currentSeq) % SeqSpace = d
    BY <1>1, WrappedDifference, AssemblerConstants
  <2>. QED
    BY <2>1, <2>2
<1>3. s # asm.currentSeq
  <2>1. (asm.currentSeq - asm.currentSeq) % SeqSpace = 0
    BY <1>1, AssemblerConstants
  <2>. QED
    BY <1>1, <1>2, <2>1
<1>4. IsNewerSeq(s, asm.currentSeq)
  BY <1>2 DEF IsNewerSeq
<1> HIDE DEF s
<1>5. n - 0 = n /\ 0 \in 0..(n - 1) /\ 1 \in 1..n
  BY AssemblerConstants
<1>6. ps \in Seq(Packets) /\ ps[1].seq = s /\ ps[1].index = 0
  <2>1. AssembledMax \in Nat /\ cut \in Cuts(n - 0, AssembledMax) /\ 0 + 1 - 1 = 0
    BY <1>5, AssemblerConstants
  <2>2. AreFragments(ps, s, n, 0, cut)
    BY <1>2, <1>5, <2>1, FragmentsInOrder
  <2> HIDE DEF ps
  <2>. QED
    BY <1>5, <2>1, <2>2 DEF AreFragments
<1> HIDE DEF ps
<1>7. ~Continues(asm, ps[1])
  BY <1>3, <1>6 DEF Continues
<1>8. Base(asm, ps[1]).pieces = <<>> /\ Base(asm, ps[1]).length = 0
  BY <1>7 DEF Base
<1>9. InOrder(asm, s, n, 0, cut, ps)
  <2>1. AssembledMax - 0 = AssembledMax /\ 0 \in 0..AssembledMax /\ <<>> \in Seq(Packets)
    BY AssemblerConstants
  <2>2. ~IsStale(asm, ps[1]) /\ ~CountChanged(asm, ps[1]) /\ Expected(asm, ps[1])
    BY <1>4, <1>6, <1>7 DEF IsStale, CountChanged, Expected
  <2>. QED
    BY <1>2, <1>5, <1>8, <2>1, <2>2 DEF InOrder, ps
<1>10. Completes(asm, ps, <<>> \o ps)
  BY <1>8, <1>9, InOrderCompletes
<1>11. <<>> \o ps = ps
  BY <1>6, ConcatEmptySeq
<1>. QED
  BY <1>10, <1>11 DEF ps, s

\* A coherent assembler completes its sequence whatever stale fragment comes.
LEMMA StaleIsHarmless ==
  ASSUME Coherent(asm, Packets)
  PROVE  StaleCostsNothing
<1> DEFINE c == asm.expectedCount
           b == asm.nextExpected
<1> SUFFICES ASSUME NEW cut \in Cuts(c - b, AssembledMax - asm.assembledLength),
                    NEW p \in Packets, IsStale(asm, p)
             PROVE  LET ps == Fragments(asm.currentSeq, c, b, cut)
                    IN  Completes(AfterFeed(asm, p), ps, asm.assembled \o ps)
  BY DEF StaleCostsNothing
<1> DEFINE ps == Fragments(asm.currentSeq, c, b, cut)
<1>1. AfterFeed(asm, p) = asm
  BY DEF AfterFeed, FeedResult
<1>2. /\ asm.active /\ asm.currentSeq \in SeqIds /\ c \in Bytes
      /\ c <= MaxFragments /\ b \in 1..(c - 1)
      /\ asm.assembled \in Seq(Packets) /\ asm.assembledLength \in 0..AssembledMax
  BY DEF IsStale, Coherent, Midway, AssemblerStates
<1>3. c \in 1..MaxFragments /\ b \in 0..(c - 1) /\ 1 \in 1..(c - b) /\ b + 1 - 1 = b
  BY <1>2, AssemblerConstants DEF Bytes
<1>4. ps[1].seq = asm.currentSeq /\ ps[1].index = b /\ ps[1].count = c
  <2>1. AssembledMax - asm.assembledLength \in Nat
    BY <1>2, AssemblerConstants
  <2> HIDE DEF c, b
  <2>2. AreFragments(ps, asm.currentSeq, c, b, cut)
    BY <1>2, <1>3, <2>1, FragmentsInOrder
  <2> HIDE DEF ps
  <2>. QED
    BY <1>3, <2>2 DEF AreFragments
<1> HIDE DEF ps
<1>5. Continues(asm, ps[1])
  BY <1>2, <1>4 DEF Continues
<1>6. Base(asm, ps[1]).pieces = asm.assembled /\ Base(asm, ps[1]).length = asm.assembledLength
  BY <1>5 DEF Base
<1>7. InOrder(asm, asm.currentSeq, c, b, cut, ps)
  <2>1. ~IsStale(asm, ps[1]) /\ ~CountChanged(asm, ps[1]) /\ Expected(asm, ps[1])
    BY <1>4, <1>5 DEF IsStale, CountChanged, Expected
  <2>. QED
    BY <1>2, <1>3, <1>6, <2>1 DEF InOrder, ps
<1>8. Completes(asm, ps, asm.assembled \o ps)
  BY <1>6, <1>7, InOrderCompletes
<1>. QED
  BY <1>1, <1>8 DEF ps

\* A subtitle that fits, sent whole and in order under a newer number, is
\* assembled whole in every reachable state.
THEOREM AssemblerFreshSubtitleCompletes == Spec => []FreshSubtitleCompletes
<1>1. Inv => FreshSubtitleCompletes
  BY FreshCompletes DEF Inv, TypeOK, BufferCoherent, Coherent
<1>. QED
  BY <1>1, AssemblerInvariant, PTL

\* A stale fragment, whatever its fields, never costs the sequence in progress.
THEOREM AssemblerStaleCostsNothing == Spec => []StaleCostsNothing
<1>1. Inv => StaleCostsNothing
  BY StaleIsHarmless DEF Inv, TypeOK, BufferCoherent, Coherent
<1>. QED
  BY <1>1, AssemblerInvariant, PTL
============================================================================
