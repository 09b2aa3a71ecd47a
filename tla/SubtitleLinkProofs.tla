------------------------- MODULE SubtitleLinkProofs -------------------------
(***************************************************************************)
(* Proofs about SubtitleLink, for every number of subtitles, sends in      *)
(* flight, losses and breaks, and every size of the buffers: the display   *)
(* shows whole subtitles, the firmware's verdicts are final, the times in  *)
(* an ack are those of its subtitle, and the link implements               *)
(* SubtitleDelivery.                                                       *)
(*                                                                         *)
(* Two premises cannot be dropped, and are those of the widths the header  *)
(* gives its fields: a fragment count that does not fit in its byte, or    *)
(* more subtitles than sequence numbers while an old one is still being    *)
(* written, and the firmware cannot tell what belongs together.            *)
(***************************************************************************)
EXTENDS SubtitleLink, SubtitleAssemblerProofs, TLAPS

WithinWidths == FragmentCounts \subseteq Bytes /\ MaxTexts <= SeqSpace

----------------------------------------------------------------------------
\* The inductive invariant.  first is _bleSeq before the first subtitle.

\* The sequence number of subtitle t.
SeqOf(first, t) == IF first + t < SeqSpace THEN first + t ELSE first + t - SeqSpace

LinkPackets == [seq : SeqIds, index : Bytes, count : Bytes, len : {1},
                text : Texts, of : Nat, intact : BOOLEAN]
Sends == [text : Texts, seq : SeqIds, n : Bytes, next : Nat]
Verdicts == [Texts -> [ok : Nat, error : Nat]]
Acks == [text : Texts, seq : SeqIds, status : {"Ok", "DecodeError"}, recv : Nat \X Nat]

\* A packet is a fragment of one of the first last subtitles.
FragmentOf(first, last, p) ==
    /\ p.text \in 1..last
    /\ p.seq = SeqOf(first, p.text)
    /\ p.count = p.of
    /\ p.index < p.of /\ p.of < ByteMod

\* The subtitles whose first fragment is in d.
Starts(d) == {d[i].text : i \in {j \in DOMAIN d : d[j].index = 0}}

\* What is under way or unsent of subtitle t has index k at least.
From(d, ss, t, k) ==
    /\ \A i \in DOMAIN d : d[i].text = t => d[i].index >= k
    /\ \A s \in ss : s.text = t => s.next >= k

\* What is under way (d) and what is unsent (ss): fragments of a subtitle
\* travel in order, and no fragment of a subtitle or of a newer one is ahead
\* of its first.
InTransit(first, last, d, ss) ==
    /\ d \in Seq(LinkPackets)
    /\ ss \subseteq Sends
    /\ \A i \in DOMAIN d : FragmentOf(first, last, d[i])
    /\ \A i, j \in DOMAIN d : i < j =>
        /\ d[i].text = d[j].text => d[i].index < d[j].index
        /\ d[j].index = 0 => d[i].text < d[j].text
    /\ \A i, j \in DOMAIN d : d[i].text = d[j].text => d[i].of = d[j].of
    /\ \A s \in ss : /\ s.text \in 1..last
                     /\ s.seq = SeqOf(first, s.text)
                     /\ s.next \in 1..(s.n - 1)
    /\ \A s \in ss, i \in DOMAIN d :
        d[i].text = s.text => d[i].index < s.next /\ d[i].of = s.n
    /\ \A s, z \in ss : s.text = z.text => s = z

\* Phone: the sequence number counts the subtitles.
Numbered(first) ==
    /\ first \in SeqIds
    /\ sent \in 0..MaxTexts
    /\ bleSeq = SeqOf(first, sent)

\* Firmware: the assembler holds fragments that were sent.
Holds(first) ==
    /\ Coherent(asm, LinkPackets)
    /\ \A i \in DOMAIN asm.assembled : FragmentOf(first, sent, asm.assembled[i])

\* What is displayed is whole, and everything that can still start or is being
\* assembled is newer.
ShownInOrder ==
    /\ shown \in Seq(LinkPackets)
    /\ DisplayWhole
    /\ ShownText \in 0..sent
    /\ \A t \in Starts(down) : t > ShownText
    /\ asm.active => asm.assembled[1].text > ShownText

\* A verdict on a subtitle was passed on fragments that are no longer under
\* way: on one whose first fragment is still to come there is none; one that
\* is being assembled may be in error, but then it can no longer complete; of
\* one that was displayed nothing is left.
VerdictsSettled ==
    /\ verdicts \in Verdicts
    /\ \A t \in Texts : t > sent \/ t \in Starts(down) =>
            verdicts[t].ok = 0 /\ verdicts[t].error = 0
    /\ asm.active =>
        LET t == asm.assembled[1].text IN
        /\ verdicts[t].ok = 0
        /\ From(down, sends, t, asm.nextExpected)
        /\ verdicts[t].error > 0 => From(down, sends, t, asm.nextExpected + 1)
    /\ \A t \in Texts : verdicts[t].ok > 0 =>
        /\ verdicts[t].ok = 1 /\ verdicts[t].error = 0
        /\ From(down, sends, t, ByteMod)

\* A latched time belongs to the subtitle of the latched number.
LatchOwn(first) ==
    /\ seqRecv \in Nat \X Nat
    /\ seqInProgress \in SeqIds
    /\ seqInProgress # NoSeq =>
        seqRecv[1] \in 1..sent /\ seqInProgress = SeqOf(first, seqRecv[1])

\* An Ok ack is for a subtitle that was displayed.
AcksTrue(first) ==
    /\ up \in Seq(Acks)
    /\ \A i \in DOMAIN up : up[i].status = "Ok" =>
        /\ up[i].text \in 1..ShownText
        /\ up[i].seq = SeqOf(first, up[i].text)
    /\ AckTimesOwnSubtitle

LinkInvFrom(first) ==
    /\ Numbered(first)
    /\ InTransit(first, sent, down, sends)
    /\ Holds(first)
    /\ ShownInOrder
    /\ VerdictsSettled
    /\ LatchOwn(first)
    /\ AcksTrue(first)

LinkInv == \E first \in SeqIds : LinkInvFrom(first)

----------------------------------------------------------------------------
\* Sequence numbers.

LEMMA SeqOfType ==
  ASSUME NEW first \in SeqIds, NEW t \in 0..SeqSpace
  PROVE  SeqOf(first, t) \in SeqIds
  BY AssemblerConstants DEF SeqOf, SeqIds

\* Within one turn of the circle a number belongs to one subtitle.
LEMMA SeqOfInjective ==
  ASSUME WithinWidths, NEW first \in SeqIds,
         NEW t \in 1..MaxTexts, NEW u \in 1..MaxTexts, SeqOf(first, t) = SeqOf(first, u)
  PROVE  t = u
  BY AssemblerConstants, LinkConstants DEF WithinWidths, SeqOf, SeqIds

LEMMA NextSeqOf ==
  ASSUME NEW first \in SeqIds, NEW t \in Nat, t < SeqSpace
  PROVE  NextSeq(SeqOf(first, t)) = SeqOf(first, t + 1)
<1> DEFINE x == SeqOf(first, t)
<1>1. x \in 0..(SeqSpace - 1) /\ SeqSpace \in Nat \ {0}
  BY SeqOfType, AssemblerConstants DEF SeqIds
<1>2. CASE x + 1 < SeqSpace
  <2>1. x + 1 \in 0..(SeqSpace - 1)
    BY <1>1, <1>2
  <2>2. NextSeq(x) = x + 1
    BY <1>1, <2>1, WithinWidth DEF NextSeq
  <2>. QED
    BY <1>1, <1>2, <2>2 DEF SeqOf, SeqIds
<1>3. CASE x + 1 = SeqSpace
  <2>1. NextSeq(x) = 0
    BY <1>1, <1>3 DEF NextSeq
  <2>. QED
    BY <1>1, <1>3, <2>1 DEF SeqOf, SeqIds
<1>. QED
  BY <1>1, <1>2, <1>3

----------------------------------------------------------------------------
\* What is in transit.

LEMMA LinkPacketsHaveHeaders == HaveHeaders(LinkPackets)
<1>1. ByteMod \in Nat /\ ByteMod >= 2
  BY AssemblerConstants
<1>. QED
  BY <1>1 DEF HaveHeaders, LinkPackets, Bytes

LEMMA TailFacts ==
  ASSUME NEW S, NEW q \in Seq(S), q # <<>>
  PROVE  /\ Head(q) \in S /\ Head(q) = q[1] /\ 1 \in DOMAIN q
         /\ Tail(q) \in Seq(S)
         /\ \A i \in DOMAIN Tail(q) : /\ i + 1 \in DOMAIN q /\ i \in Nat
                                     /\ Tail(q)[i] = q[i + 1] /\ Tail(q)[i] \in S
  OBVIOUS

LEMMA StartsFacts ==
  ASSUME NEW d, NEW t
  PROVE  t \in Starts(d) <=> \E i \in DOMAIN d : d[i].index = 0 /\ d[i].text = t
  BY DEF Starts

\* Taking the first packet off the link.
LEMMA TransitTail ==
  ASSUME NEW first, NEW last, NEW d, NEW ss, InTransit(first, last, d, ss), d # <<>>
  PROVE  /\ InTransit(first, last, Tail(d), ss)
         /\ Head(d) \in LinkPackets /\ FragmentOf(first, last, Head(d))
         /\ \A t, k : From(d, ss, t, k) => From(Tail(d), ss, t, k)
         /\ \A k : From(d, ss, Head(d).text, k) => Head(d).index >= k
         /\ From(Tail(d), ss, Head(d).text, Head(d).index + 1)
         /\ \A t \in Starts(Tail(d)) : t \in Starts(d) /\ t > Head(d).text
         /\ Head(d).index = 0 => Head(d).text \in Starts(d)
<1> DEFINE p == Head(d)
           e == Tail(d)
<1>1. d \in Seq(LinkPackets)
  BY DEF InTransit
<1>2. /\ p \in LinkPackets /\ p = d[1] /\ 1 \in DOMAIN d
      /\ e \in Seq(LinkPackets)
      /\ \A i \in DOMAIN e : i + 1 \in DOMAIN d /\ i \in Nat /\ e[i] = d[i + 1]
  BY <1>1, TailFacts
<1>12. \A i \in DOMAIN e : e[i] \in LinkPackets
  BY <1>1, TailFacts
<1>3. \A i, j \in DOMAIN e : i < j => i + 1 < j + 1
  BY <1>2
<1>4. \A i \in DOMAIN e : 1 < i + 1
  BY <1>2, <1>1
<1> HIDE DEF p, e
<1>5. InTransit(first, last, e, ss)
  <2>1. \A i \in DOMAIN e : FragmentOf(first, last, e[i])
    BY <1>2 DEF InTransit
  <2>2. ASSUME NEW i \in DOMAIN e, NEW j \in DOMAIN e, i < j
        PROVE  /\ e[i].text = e[j].text => e[i].index < e[j].index
               /\ e[j].index = 0 => e[i].text < e[j].text
    <3>1. i + 1 \in DOMAIN d /\ j + 1 \in DOMAIN d /\ e[i] = d[i + 1] /\ e[j] = d[j + 1]
      BY <1>2
    <3>2. i + 1 < j + 1
      BY <1>3, <2>2
    <3>3. \A m, n \in DOMAIN d : m < n =>
              /\ d[m].text = d[n].text => d[m].index < d[n].index
              /\ d[n].index = 0 => d[m].text < d[n].text
      BY DEF InTransit
    <3> QED BY <3>1, <3>2, <3>3
  <2>3. \A i, j \in DOMAIN e : e[i].text = e[j].text => e[i].of = e[j].of
    <3>1. \A m, n \in DOMAIN d : d[m].text = d[n].text => d[m].of = d[n].of
      BY DEF InTransit
    <3> QED BY <1>2, <3>1
  <2>4. \A s \in ss, i \in DOMAIN e :
            e[i].text = s.text => e[i].index < s.next /\ e[i].of = s.n
    BY <1>2 DEF InTransit
  <2> QED BY <1>2, <2>1, <2>2, <2>3, <2>4 DEF InTransit
<1>6. FragmentOf(first, last, p)
  BY <1>2 DEF InTransit
<1>7. \A t, k : From(d, ss, t, k) => From(e, ss, t, k)
  BY <1>2 DEF From
<1>8. \A k : From(d, ss, p.text, k) => p.index >= k
  BY <1>2 DEF From
<1>9. From(e, ss, p.text, p.index + 1)
  <2>1. \A i \in DOMAIN e : e[i].text = p.text => p.index < e[i].index
    BY <1>2, <1>4 DEF InTransit
  <2>2. \A s \in ss : s.text = p.text => p.index < s.next
    BY <1>2 DEF InTransit
  <2>3. \A i \in DOMAIN e : e[i].index \in Int
    BY <1>12 DEF LinkPackets, Bytes
  <2>4. \A s \in ss : s.next \in Int
    BY DEF InTransit, Sends
  <2>5. p.index \in Int
    BY <1>2 DEF LinkPackets, Bytes
  <2>. QED
    BY <2>1, <2>2, <2>3, <2>4, <2>5 DEF From
<1>10. ASSUME NEW t \in Starts(e) PROVE t \in Starts(d) /\ t > p.text
  <2>1. PICK i \in DOMAIN e : e[i].index = 0 /\ e[i].text = t
    BY StartsFacts
  <2>2. t \in Starts(d)
    BY <2>1, <1>2, StartsFacts
  <2>3. p.text < t
    BY <2>1, <1>2, <1>4 DEF InTransit
  <2>4. p.text \in Int /\ t \in Int
    BY <2>1, <1>2, <1>12 DEF LinkPackets, Texts
  <2>. QED
    BY <2>2, <2>3, <2>4
<1>11. p.index = 0 => p.text \in Starts(d)
  BY <1>2, StartsFacts
<1>. QED
  BY <1>2, <1>5, <1>6, <1>7, <1>8, <1>9, <1>10, <1>11 DEF p, e

LEMMA AppendFacts ==
  ASSUME NEW S, NEW q \in Seq(S), NEW x \in S
  PROVE  /\ Append(q, x) \in Seq(S)
         /\ \A i \in DOMAIN Append(q, x) : i \in DOMAIN q \/ i = Len(q) + 1
         /\ \A i \in DOMAIN q : Append(q, x)[i] = q[i] /\ i \in Nat /\ i < Len(q) + 1
         /\ Append(q, x)[Len(q) + 1] = x
         /\ Len(q) \in Nat
  OBVIOUS

\* A new subtitle leaves what is in transit as it is.
LEMMA TransitLast ==
  ASSUME NEW first, NEW last \in Nat, NEW d, NEW ss, InTransit(first, last, d, ss)
  PROVE  InTransit(first, last + 1, d, ss)
<1>1. \A t \in 1..last : t \in 1..(last + 1)
  OBVIOUS
<1>2. \A p : FragmentOf(first, last, p) => FragmentOf(first, last + 1, p)
  BY <1>1 DEF FragmentOf
<1>3. \A i \in DOMAIN d : FragmentOf(first, last + 1, d[i])
  BY <1>2 DEF InTransit
<1>4. \A s \in ss : s.text \in 1..(last + 1)
  BY <1>1 DEF InTransit
<1>. QED
  BY <1>3, <1>4 DEF InTransit

\* Putting a packet on the link.
LEMMA TransitAppend ==
  ASSUME NEW first, NEW last, NEW d, NEW ss, InTransit(first, last, d, ss),
         NEW p \in LinkPackets, FragmentOf(first, last, p),
         \A i \in DOMAIN d : /\ d[i].text = p.text => d[i].index < p.index /\ d[i].of = p.of
                             /\ p.index = 0 => d[i].text < p.text,
         \A s \in ss : s.text = p.text => p.index < s.next /\ s.n = p.of
  PROVE  InTransit(first, last, Append(d, p), ss)
<1> DEFINE e == Append(d, p)
           k == Len(d) + 1
<1>1. d \in Seq(LinkPackets)
  BY DEF InTransit
<1>2. /\ e \in Seq(LinkPackets)
      /\ \A i \in DOMAIN e : i \in DOMAIN d \/ i = k
      /\ \A i \in DOMAIN d : e[i] = d[i] /\ i \in Nat /\ i < k
      /\ e[k] = p
      /\ Len(d) \in Nat
  BY <1>1, AppendFacts
<1> HIDE DEF e, k
<1>3. \A i \in DOMAIN e : FragmentOf(first, last, e[i])
  BY <1>2 DEF InTransit
<1>4. ASSUME NEW i \in DOMAIN e, NEW j \in DOMAIN e, i < j
      PROVE  /\ e[i].text = e[j].text => e[i].index < e[j].index
             /\ e[j].index = 0 => e[i].text < e[j].text
  <2>1. i \in DOMAIN d /\ e[i] = d[i]
    <3>1. j \in Nat /\ k \in Nat /\ j <= k
      BY <1>2 DEF k
    <3>. QED
      BY <1>2, <1>4, <3>1
  <2>2. CASE j \in DOMAIN d
    BY <2>1, <2>2, <1>2, <1>4 DEF InTransit
  <2>3. CASE j = k
    BY <2>1, <2>3, <1>2
  <2>. QED
    BY <2>2, <2>3, <1>2
<1>5. ASSUME NEW i \in DOMAIN e, NEW j \in DOMAIN e, e[i].text = e[j].text
      PROVE  e[i].of = e[j].of
  BY <1>2, <1>5 DEF InTransit
<1>6. ASSUME NEW s \in ss, NEW i \in DOMAIN e, e[i].text = s.text
      PROVE  e[i].index < s.next /\ e[i].of = s.n
  BY <1>2, <1>6 DEF InTransit
<1>. QED
  BY <1>2, <1>3, <1>4, <1>5, <1>6 DEF InTransit, e

\* The fragment that a send writes.
LEMMA EncodeFacts ==
  ASSUME NEW first \in SeqIds, NEW s \in Sends, NEW i \in 0..(s.n - 1)
  PROVE  /\ Encode(s, i) \in LinkPackets
         /\ Encode(s, i).text = s.text
         /\ Encode(s, i).index = i
         /\ Encode(s, i).of = s.n
         /\ \A last : s.text \in 1..last /\ s.seq = SeqOf(first, s.text)
                        => FragmentOf(first, last, Encode(s, i))
<1>1. s.n \in Bytes /\ i \in Bytes /\ i < s.n
  BY AssemblerConstants DEF Sends, Bytes
<1>2. i % ByteMod = i /\ s.n % ByteMod = s.n
  BY <1>1, WithinWidth, AssemblerConstants DEF Bytes
<1>3. Encode(s, i) = [seq |-> s.seq, index |-> i, count |-> s.n, len |-> 1,
                      text |-> s.text, of |-> s.n, intact |-> TRUE]
  BY <1>2 DEF Encode
<1>4. s.text \in Texts /\ s.seq \in SeqIds /\ s.n \in Nat /\ s.n < ByteMod
  BY <1>1, AssemblerConstants DEF Sends, Bytes
<1>. QED
  BY <1>1, <1>3, <1>4 DEF LinkPackets, FragmentOf

\* A send that has given up, or has nothing left to write.
LEMMA TransitFewer ==
  ASSUME NEW first, NEW last, NEW d, NEW ss, InTransit(first, last, d, ss), NEW s
  PROVE  /\ InTransit(first, last, d, ss \ {s})
         /\ \A t, k : From(d, ss, t, k) => From(d, ss \ {s}, t, k)
<1>1. InTransit(first, last, d, ss \ {s})
  BY DEF InTransit
<1>2. \A t, k : From(d, ss, t, k) => From(d, ss \ {s}, t, k)
  BY DEF From
<1>. QED
  BY <1>1, <1>2

\* The sends after s wrote its next fragment.
SendsAfter(ss, s) ==
    (ss \ {s}) \cup (IF s.next + 1 < s.n THEN {[s EXCEPT !.next = @ + 1]} ELSE {})

\* A send writes its next fragment.
LEMMA TransitNext ==
  ASSUME NEW first \in SeqIds, NEW last, NEW d, NEW ss, InTransit(first, last, d, ss),
         NEW s \in ss
  PROVE  LET e == Append(d, Encode(s, s.next)) IN
         /\ InTransit(first, last, e, SendsAfter(ss, s))
         /\ \A t : \A k \in Nat : From(d, ss, t, k) => From(e, SendsAfter(ss, s), t, k)
         /\ \A t \in Starts(e) : t \in Starts(d)
<1> DEFINE p == Encode(s, s.next)
           e == Append(d, p)
           z == [s EXCEPT !.next = @ + 1]
           ss2 == SendsAfter(ss, s)
<1>1. /\ s \in Sends /\ s.text \in 1..last /\ s.seq = SeqOf(first, s.text)
      /\ s.next \in 1..(s.n - 1) /\ s.n \in Nat /\ s.next \in Nat
  BY AssemblerConstants DEF InTransit, Sends, Bytes
<1>2. /\ z \in Sends /\ z.text = s.text /\ z.seq = s.seq /\ z.n = s.n
      /\ z.next = s.next + 1
  BY <1>1 DEF Sends
<1>3. \A y \in ss2 : \/ y \in ss /\ y # s
                     \/ y = z /\ s.next + 1 < s.n
  BY DEF SendsAfter
<1>4. \A y \in ss : y.text = s.text => y = s
  BY DEF InTransit
<1>5. d \in Seq(LinkPackets) /\ \A i \in DOMAIN d : d[i] \in LinkPackets
  BY DEF InTransit
<1>6. \A i \in DOMAIN d : d[i].index \in Nat /\ d[i].text \in Nat
  BY <1>5, AssemblerConstants DEF LinkPackets, Bytes, Texts
<1>7. \A i \in DOMAIN d : d[i].text = s.text => d[i].index < s.next /\ d[i].of = s.n
  BY DEF InTransit
<1> HIDE DEF z, ss2
<1>8. InTransit(first, last, d, ss2)
  <2>1. ss2 \subseteq Sends
    BY <1>2, <1>3 DEF InTransit
  <2>2. ASSUME NEW y \in ss2
        PROVE  y.text \in 1..last /\ y.seq = SeqOf(first, y.text) /\ y.next \in 1..(y.n - 1)
    <3>1. CASE y \in ss
      BY <3>1 DEF InTransit
    <3>2. CASE y = z /\ s.next + 1 < s.n
      BY <3>2, <1>1, <1>2
    <3>. QED
      BY <1>3, <3>1, <3>2
  <2>3. ASSUME NEW y \in ss2, NEW i \in DOMAIN d, d[i].text = y.text
        PROVE  d[i].index < y.next /\ d[i].of = y.n
    <3>1. CASE y \in ss
      BY <3>1, <2>3 DEF InTransit
    <3>2. CASE y = z /\ s.next + 1 < s.n
      BY <3>2, <2>3, <1>1, <1>2, <1>6, <1>7
    <3>. QED
      BY <1>3, <3>1, <3>2
  <2>4. ASSUME NEW y \in ss2, NEW x \in ss2, y.text = x.text
        PROVE  y = x
    BY <1>2, <1>3, <1>4, <2>4 DEF InTransit
  <2>. QED
    BY <2>1, <2>2, <2>3, <2>4 DEF InTransit
<1>9. /\ p \in LinkPackets /\ FragmentOf(first, last, p)
      /\ p.text = s.text /\ p.index = s.next /\ p.of = s.n
  <2>1. s.next \in 0..(s.n - 1)
    BY <1>1
  <2>. QED
    BY <1>1, <2>1, EncodeFacts
<1> HIDE DEF p
<1>10. \A i \in DOMAIN d : /\ d[i].text = p.text => d[i].index < p.index /\ d[i].of = p.of
                           /\ p.index = 0 => d[i].text < p.text
  BY <1>1, <1>7, <1>9
<1>11. \A y \in ss2 : y.text = p.text => p.index < y.next /\ y.n = p.of
  BY <1>1, <1>2, <1>3, <1>4, <1>9
<1>12. InTransit(first, last, e, ss2)
  BY <1>8, <1>9, <1>10, <1>11, TransitAppend
<1>13. /\ \A i \in DOMAIN e : i \in DOMAIN d \/ i = Len(d) + 1
       /\ \A i \in DOMAIN d : e[i] = d[i]
       /\ e[Len(d) + 1] = p
  BY <1>5, <1>9, AppendFacts
<1> HIDE DEF e
<1>14. ASSUME NEW t, NEW k \in Nat, From(d, ss, t, k)
       PROVE  From(e, ss2, t, k)
  <2>1. ASSUME NEW i \in DOMAIN e, e[i].text = t
        PROVE  e[i].index >= k
    BY <2>1, <1>13, <1>14, <1>9 DEF From
  <2>2. ASSUME NEW y \in ss2, y.text = t
        PROVE  y.next >= k
    <3>1. CASE y \in ss
      BY <2>2, <3>1, <1>14 DEF From
    <3>2. CASE y = z
      <4>1. s.next >= k
        BY <2>2, <3>2, <1>2, <1>14 DEF From
      <4>. QED
        BY <4>1, <3>2, <1>1, <1>2
    <3>. QED
      BY <1>3, <3>1, <3>2
  <2>. QED
    BY <2>1, <2>2 DEF From
<1>15. ASSUME NEW t \in Starts(e) PROVE t \in Starts(d)
  <2>1. PICK i \in DOMAIN e : e[i].index = 0 /\ e[i].text = t
    BY StartsFacts
  <2>2. i \in DOMAIN d /\ d[i] = e[i]
    BY <2>1, <1>13, <1>9, <1>1
  <2>. QED
    BY <2>1, <2>2, StartsFacts
<1>. QED
  BY <1>12, <1>14, <1>15 DEF e, p, ss2

\* A new subtitle is sent, its first fragment at once if the link is up.
LEMMA TransitFirst ==
  ASSUME NEW first \in SeqIds, NEW last \in Nat, last < MaxTexts, WithinWidths,
         NEW d, NEW ss, InTransit(first, last, d, ss),
         NEW n \in Bytes, NEW here \in BOOLEAN
  PROVE  LET s == [text |-> last + 1, seq |-> SeqOf(first, last + 1), n |-> n, next |-> 1]
             d2 == IF here /\ n > 0 THEN Append(d, Encode(s, 0)) ELSE d
             ss2 == IF here /\ n > 1 THEN ss \cup {s} ELSE ss
         IN
         /\ InTransit(first, last + 1, d2, ss2)
         /\ \A t \in 1..last : \A k \in Nat : From(d, ss, t, k) => From(d2, ss2, t, k)
         /\ \A t \in Starts(d2) : t \in Starts(d) \/ t = last + 1
<1> DEFINE s == [text |-> last + 1, seq |-> SeqOf(first, last + 1), n |-> n, next |-> 1]
           d2 == IF here /\ n > 0 THEN Append(d, Encode(s, 0)) ELSE d
           ss2 == IF here /\ n > 1 THEN ss \cup {s} ELSE ss
<1> SUFFICES /\ InTransit(first, last + 1, d2, ss2)
             /\ \A t \in 1..last : \A k \in Nat : From(d, ss, t, k) => From(d2, ss2, t, k)
             /\ \A t \in Starts(d2) : t \in Starts(d) \/ t = last + 1
  OBVIOUS
<1>1. /\ s \in Sends /\ s.text = last + 1 /\ s.seq = SeqOf(first, last + 1)
      /\ s.n = n /\ s.next = 1 /\ n \in Nat /\ last + 1 \in 1..MaxTexts
  BY SeqOfType, LinkConstants, AssemblerConstants
     DEF Sends, Texts, WithinWidths, Bytes
<1>2. InTransit(first, last + 1, d, ss)
  BY TransitLast
<1> HIDE DEF s
<1>3. d \in Seq(LinkPackets) /\ \A i \in DOMAIN d : d[i].text \in Nat /\ d[i].text < last + 1
  <2>1. \A i \in DOMAIN d : d[i].text \in 1..last
    BY DEF InTransit, FragmentOf
  <2>. QED
    BY <2>1 DEF InTransit
<1>4. \A y \in ss : y.text \in Nat /\ y.text < last + 1
  <2>1. \A y \in ss : y.text \in 1..last
    BY DEF InTransit
  <2>. QED
    BY <2>1
<1>5. InTransit(first, last + 1, d, ss2)
  <2>1. CASE here /\ n > 1
    <3>1. ss2 = ss \cup {s}
      BY <2>1
    <3>2. s.next \in 1..(s.n - 1) /\ s.text \in 1..(last + 1) /\ s.seq = SeqOf(first, s.text)
      BY <1>1, <2>1
    <3>. QED
      <4>1. \A y \in ss2, i \in DOMAIN d :
              d[i].text = y.text => d[i].index < y.next /\ d[i].of = y.n
        BY <1>1, <1>2, <1>3, <3>1 DEF InTransit
      <4>2. \A y, z \in ss2 : y.text = z.text => y = z
        BY <1>1, <1>2, <1>4, <3>1 DEF InTransit
      <4>3. \A y \in ss2 : /\ y.text \in 1..(last + 1)
                            /\ y.seq = SeqOf(first, y.text)
                            /\ y.next \in 1..(y.n - 1)
        BY <1>1, <1>2, <3>1, <3>2 DEF InTransit
      <4>4. ss2 \subseteq Sends
        BY <1>1, <1>2, <3>1 DEF InTransit
      <4>. QED
        BY <1>2, <4>1, <4>2, <4>3, <4>4 DEF InTransit
  <2>2. CASE ~(here /\ n > 1)
    BY <1>2, <2>2
  <2>. QED
    BY <2>1, <2>2
<1>6. CASE ~(here /\ n > 0)
  <2>1. d2 = d /\ ss2 = ss
    BY <1>1, <1>6
  <2>. QED
    BY <1>2, <2>1
<1>7. CASE here /\ n > 0
  <2> DEFINE p == Encode(s, 0)
  <2>1. d2 = Append(d, p)
    BY <1>7
  <2> HIDE DEF d2, ss2
  <2>2. /\ p \in LinkPackets /\ FragmentOf(first, last + 1, p)
        /\ p.text = last + 1 /\ p.index = 0 /\ p.of = n
    <3>1. 0 \in 0..(s.n - 1)
      BY <1>1, <1>7
    <3>2. s.text \in 1..(last + 1) /\ s.seq = SeqOf(first, s.text)
      BY <1>1
    <3>. QED
      BY <1>1, <3>1, <3>2, EncodeFacts
  <2> HIDE DEF p
  <2>3. \A i \in DOMAIN d : /\ d[i].text = p.text => d[i].index < p.index /\ d[i].of = p.of
                            /\ p.index = 0 => d[i].text < p.text
    BY <1>3, <2>2
  <2>4. \A y \in ss2 : y.text = p.text => p.index < y.next /\ y.n = p.of
    <3>1. \A y \in ss2 : y \in ss \/ y = s
      BY DEF ss2
    <3>. QED
      BY <1>1, <1>4, <2>2, <3>1
  <2>5. InTransit(first, last + 1, d2, ss2)
    BY <1>5, <2>1, <2>2, <2>3, <2>4, TransitAppend
  <2>6. /\ \A i \in DOMAIN d2 : i \in DOMAIN d \/ i = Len(d) + 1
        /\ \A i \in DOMAIN d : d2[i] = d[i]
        /\ d2[Len(d) + 1] = p
    BY <1>3, <2>1, <2>2, AppendFacts
  <2>7. ASSUME NEW t \in 1..last, NEW k \in Nat, From(d, ss, t, k)
        PROVE  From(d2, ss2, t, k)
    <3>1. t # last + 1
      OBVIOUS
    <3>2. \A i \in DOMAIN d2 : d2[i].text = t => d2[i].index >= k
      BY <2>2, <2>6, <2>7, <3>1 DEF From
    <3>3. \A y \in ss2 : y.text = t => y.next >= k
      <4>1. \A y \in ss2 : y \in ss \/ y = s
        BY DEF ss2
      <4>. QED
        BY <1>1, <2>7, <3>1, <4>1 DEF From
    <3>. QED
      BY <3>2, <3>3 DEF From
  <2>8. ASSUME NEW t \in Starts(d2) PROVE t \in Starts(d) \/ t = last + 1
    <3>1. PICK i \in DOMAIN d2 : d2[i].index = 0 /\ d2[i].text = t
      BY StartsFacts
    <3>. QED
      BY <2>2, <2>6, <3>1, StartsFacts
  <2>. QED
    BY <2>5, <2>7, <2>8
<1>. QED
  BY <1>6, <1>7

\* A packet is garbled on its way.
LEMMA TransitCorrupt ==
  ASSUME NEW first, NEW last, NEW d, NEW ss, InTransit(first, last, d, ss), d # <<>>
  PROVE  LET e == [d EXCEPT ![1].intact = FALSE] IN
         /\ InTransit(first, last, e, ss)
         /\ \A t, k : From(d, ss, t, k) => From(e, ss, t, k)
         /\ \A t \in Starts(e) : t \in Starts(d)
<1> DEFINE p == [d[1] EXCEPT !.intact = FALSE]
           e == [d EXCEPT ![1].intact = FALSE]
<1>1. d \in Seq(LinkPackets) /\ d[1] \in LinkPackets /\ 1 \in DOMAIN d
  BY TailFacts DEF InTransit
<1>2. /\ p \in LinkPackets /\ p.text = d[1].text /\ p.seq = d[1].seq
      /\ p.index = d[1].index /\ p.count = d[1].count /\ p.of = d[1].of
  BY <1>1 DEF LinkPackets
<1> HIDE DEF p
<1>3. /\ e \in Seq(LinkPackets)
      /\ DOMAIN e = DOMAIN d
      /\ e[1] = p
      /\ \A i \in DOMAIN d : i # 1 => e[i] = d[i]
  BY <1>1, <1>2 DEF p
<1> HIDE DEF e
<1>4. \A i \in DOMAIN d : /\ e[i].text = d[i].text /\ e[i].seq = d[i].seq
                          /\ e[i].index = d[i].index /\ e[i].count = d[i].count
                          /\ e[i].of = d[i].of
  BY <1>2, <1>3
<1>5. InTransit(first, last, e, ss)
  <2>1. \A i \in DOMAIN e : FragmentOf(first, last, e[i])
    <3>1. DOMAIN e = DOMAIN d
      BY <1>3
    <3>. QED
      BY <1>4, <3>1 DEF InTransit, FragmentOf
  <2>2. e \in Seq(LinkPackets) /\ DOMAIN e = DOMAIN d
    BY <1>3
  <2>. QED
    BY <1>4, <2>1, <2>2 DEF InTransit
<1>6. \A t, k : From(d, ss, t, k) => From(e, ss, t, k)
  BY <1>3, <1>4 DEF From
<1>7. \A t \in Starts(e) : t \in Starts(d)
  BY <1>3, <1>4, StartsFacts
<1>. QED
  BY <1>5, <1>6, <1>7 DEF e

----------------------------------------------------------------------------
\* The steps that pass no verdict.  The firmware keeps what it assembles, or
\* forgets it, while packets and acks move.

LEMMA QuietShown ==
  ASSUME ShownInOrder,
         sent' \in Int, sent <= sent', sent \in Int,
         \A t \in Starts(down') : t \in Starts(down) \/ t = sent + 1,
         asm' = asm \/ ~asm'.active,
         shown' = shown
  PROVE  ShownInOrder'
<1>1. ShownText' = ShownText /\ ShownText \in 0..sent
  BY DEF ShownText, ShownInOrder
<1>2. ShownText \in 0..sent'
  BY <1>1
<1>3. ASSUME NEW t \in Starts(down') PROVE t > ShownText
  <2>1. CASE t \in Starts(down)
    BY <2>1 DEF ShownInOrder
  <2>2. CASE t = sent + 1
    BY <2>2, <1>1
  <2>. QED
    BY <2>1, <2>2
<1>4. DisplayWhole'
  BY DEF ShownInOrder, DisplayWhole
<1>. QED
  BY <1>1, <1>2, <1>3, <1>4 DEF ShownInOrder

LEMMA QuietVerdicts ==
  ASSUME VerdictsSettled, Coherent(asm, LinkPackets),
         sent <= sent', sent \in Int, sent' \in Int,
         \A t \in Starts(down') : t \in Starts(down) \/ t = sent + 1,
         \A t \in 1..sent : \A k \in Nat : From(down, sends, t, k) => From(down', sends', t, k),
         asm.active => asm.assembled[1].text \in 1..sent,
         asm' = asm \/ ~asm'.active,
         verdicts' = verdicts
  PROVE  VerdictsSettled'
<1>1. \A t \in Texts : t \in Int
  BY DEF Texts
<1>2. \A t \in Texts : t > sent' \/ t \in Starts(down') =>
        verdicts'[t].ok = 0 /\ verdicts'[t].error = 0
  BY <1>1 DEF VerdictsSettled
<1>3. ASSUME asm'.active
      PROVE  LET t == asm'.assembled[1].text IN
             /\ verdicts'[t].ok = 0
             /\ From(down', sends', t, asm'.nextExpected)
             /\ verdicts'[t].error > 0 => From(down', sends', t, asm'.nextExpected + 1)
  <2>1. asm' = asm
    BY <1>3
  <2>2. asm.nextExpected \in Nat /\ asm.nextExpected + 1 \in Nat
    BY AssemblerConstants DEF Coherent, AssemblerStates, Bytes
  <2>. QED
    BY <1>3, <2>1, <2>2 DEF VerdictsSettled
<1>4. ASSUME NEW t \in Texts, verdicts'[t].ok > 0
      PROVE  /\ verdicts'[t].ok = 1 /\ verdicts'[t].error = 0
             /\ From(down', sends', t, ByteMod)
  <2>1. /\ verdicts[t].ok = 1 /\ verdicts[t].error = 0
        /\ From(down, sends, t, ByteMod)
    BY <1>4 DEF VerdictsSettled
  <2>2. t \in 1..sent
    <3>1. ~(t > sent)
      BY <2>1 DEF VerdictsSettled
    <3>. QED
      BY <3>1, <1>1 DEF Texts
  <2>. QED
    BY <2>1, <2>2, AssemblerConstants
<1>. QED
  BY <1>2, <1>3, <1>4 DEF VerdictsSettled

LEMMA QuietAcks ==
  ASSUME NEW first, AcksTrue(first), shown' = shown,
         up' \in Seq(Acks), \A i \in DOMAIN up' : \E j \in DOMAIN up : up'[i] = up[j]
  PROVE  AcksTrue(first)'
<1>1. ShownText' = ShownText
  BY DEF ShownText
<1>. QED
  BY <1>1 DEF AcksTrue, AckTimesOwnSubtitle

LEMMA QuietLatch ==
  ASSUME NEW first, LatchOwn(first), sent \in Int, sent' \in Int, sent <= sent', seqRecv' = seqRecv,
         seqInProgress' = seqInProgress \/ seqInProgress' = NoSeq
  PROVE  LatchOwn(first)'
<1>1. NoSeq \in SeqIds
  BY AssemblerConstants DEF NoSeq, SeqIds
<1>2. \A t \in 1..sent : t \in 1..sent'
  OBVIOUS
<1>. QED
  BY <1>1, <1>2 DEF LatchOwn

----------------------------------------------------------------------------
\* What the assembler holds.

AllOf(first, last, st) ==
    \A i \in DOMAIN st.assembled : FragmentOf(first, last, st.assembled[i])

LEMMA CoherentFacts ==
  ASSUME NEW st, Coherent(st, LinkPackets)
  PROVE  /\ st.assembled \in Seq(LinkPackets)
         /\ DOMAIN st.assembled = 1..Len(st.assembled) /\ Len(st.assembled) \in Nat
         /\ st.nextExpected \in Nat
         /\ \A i \in DOMAIN st.assembled : /\ st.assembled[i] \in LinkPackets
                                           /\ st.assembled[i].seq = st.currentSeq
         /\ st.active => st.nextExpected > 0 /\ 1 \in DOMAIN st.assembled
<1>1. st.assembled \in Seq(LinkPackets) /\ st.nextExpected \in Nat
  BY AssemblerConstants DEF Coherent, AssemblerStates, Bytes
<1>2. \A i \in DOMAIN st.assembled : /\ st.assembled[i] \in LinkPackets
                                     /\ st.assembled[i].seq = st.currentSeq
  BY <1>1 DEF Coherent, OneSequence
<1>3. st.active => st.nextExpected > 0 /\ 1 \in DOMAIN st.assembled
  BY <1>1 DEF Coherent, Midway
<1>. QED
  BY <1>1, <1>2, <1>3

\* One sequence number in the buffer is one subtitle.
LEMMA OneSubtitle ==
  ASSUME WithinWidths, NEW first \in SeqIds, NEW last \in 0..MaxTexts,
         NEW st, Coherent(st, LinkPackets), AllOf(first, last, st),
         NEW p, FragmentOf(first, last, p), st.currentSeq = p.seq
  PROVE  \A i \in DOMAIN st.assembled : st.assembled[i].text = p.text
<1> SUFFICES ASSUME NEW i \in DOMAIN st.assembled
             PROVE  st.assembled[i].text = p.text
  OBVIOUS
<1>1. FragmentOf(first, last, st.assembled[i]) /\ st.assembled[i].seq = p.seq
  BY CoherentFacts DEF AllOf
<1>2. /\ st.assembled[i].text \in 1..MaxTexts /\ p.text \in 1..MaxTexts
      /\ SeqOf(first, st.assembled[i].text) = SeqOf(first, p.text)
  BY <1>1, LinkConstants DEF FragmentOf
<1>. QED
  BY <1>2, SeqOfInjective

\* What an accepted fragment leaves in the buffer is of its subtitle.
LEMMA AcceptedOne ==
  ASSUME WithinWidths, NEW first \in SeqIds, NEW last \in 0..MaxTexts,
         NEW st, Coherent(st, LinkPackets), AllOf(first, last, st),
         NEW p \in LinkPackets, FragmentOf(first, last, p),
         FeedResult(st, p) \in {"Complete", "Incomplete"}
  PROVE  LET new == AfterFeed(st, p) IN
         /\ new = Accepted(st, p)
         /\ ~Malformed(p) /\ ~CountChanged(st, p) /\ Expected(st, p) /\ Fits(st, p)
         /\ Coherent(new, LinkPackets)
         /\ Len(new.assembled) = p.index + 1
         /\ AllOf(first, last, new)
         /\ \A i \in DOMAIN new.assembled : new.assembled[i].text = p.text
<1> DEFINE new == AfterFeed(st, p)
           b == Base(st, p).pieces
<1>1. new = Accepted(st, p)
  BY DEF AfterFeed
<1>2. ~Malformed(p) /\ ~CountChanged(st, p) /\ Expected(st, p) /\ Fits(st, p)
  BY DEF FeedResult
<1>3. Coherent(new, LinkPackets) /\ Len(new.assembled) = p.index + 1
  BY <1>1, <1>2, AcceptedCoherent, LinkPacketsHaveHeaders
<1>4. b \in Seq(LinkPackets) /\ \A i \in DOMAIN b : FragmentOf(first, last, b[i])
  <2>1. CASE Continues(st, p)
    BY <2>1, CoherentFacts DEF Base, AllOf
  <2>2. CASE ~Continues(st, p)
    BY <2>2 DEF Base
  <2>. QED
    BY <2>1, <2>2
<1>5. AllOf(first, last, new)
  <2>1. new.assembled = Append(b, p)
    BY <1>1 DEF Accepted
  <2> HIDE DEF b, new
  <2>2. /\ \A i \in DOMAIN new.assembled : i \in DOMAIN b \/ i = Len(b) + 1
        /\ \A i \in DOMAIN b : new.assembled[i] = b[i]
        /\ new.assembled[Len(b) + 1] = p
    BY <1>4, <2>1, AppendFacts
  <2>. QED
    BY <1>4, <2>2 DEF AllOf
<1>6. new.currentSeq = p.seq
  BY <1>1 DEF Accepted
<1>. QED
  BY <1>1, <1>2, <1>3, <1>5, <1>6, OneSubtitle

\* feed() keeps fragments that were sent.
LEMMA FeedHolds ==
  ASSUME WithinWidths, NEW first \in SeqIds, NEW last \in 0..MaxTexts,
         NEW st, Coherent(st, LinkPackets), AllOf(first, last, st),
         NEW p \in LinkPackets, FragmentOf(first, last, p)
  PROVE  /\ Coherent(AfterFeed(st, p), LinkPackets)
         /\ AllOf(first, last, AfterFeed(st, p))
         /\ FeedResult(st, p) \notin {"Complete", "Incomplete"} =>
              AfterFeed(st, p) = st \/ ~AfterFeed(st, p).active
<1>1. Coherent(AfterFeed(st, p), LinkPackets)
  BY FeedCoherent, LinkPacketsHaveHeaders
<1>2. CASE FeedResult(st, p) \in {"Complete", "Incomplete"}
  BY <1>1, <1>2, AcceptedOne
<1>3. CASE FeedResult(st, p) \notin {"Complete", "Incomplete"}
  <2>1. AfterFeed(st, p) = st \/ AfterFeed(st, p) = ResetOf(st)
    BY <1>3 DEF AfterFeed
  <2>2. ~ResetOf(st).active /\ AllOf(first, last, ResetOf(st))
    BY DEF ResetOf, Cleared, AllOf
  <2>. QED
    BY <1>1, <2>1, <2>2
<1>. QED
  BY <1>2, <1>3

----------------------------------------------------------------------------
\* The steps that pass a verdict on the packet they take off the link.

\* An error ack: the subtitle can no longer complete.
LEMMA ErrorVerdict ==
  ASSUME NEW first, sent \in Nat, VerdictsSettled, InTransit(first, sent, down, sends),
         Coherent(asm, LinkPackets), down # <<>>,
         asm' = asm \/ ~asm'.active,
         down' = Tail(down), sends' = sends, sent' = sent,
         verdicts' = [verdicts EXCEPT ![Head(down).text].error = @ + 1]
  PROVE  VerdictsSettled'
<1> DEFINE p == Head(down)
<1>1. /\ p \in LinkPackets /\ FragmentOf(first, sent, p)
      /\ \A t, k : From(down, sends, t, k) => From(down', sends', t, k)
      /\ \A k : From(down, sends, p.text, k) => p.index >= k
      /\ From(down', sends', p.text, p.index + 1)
      /\ \A t \in Starts(down') : t \in Starts(down) /\ t > p.text
  BY TransitTail
<1>2. p.text \in Texts /\ p.text \in 1..sent /\ p.index \in Nat /\ p.index < ByteMod
  BY <1>1, AssemblerConstants DEF LinkPackets, Bytes, FragmentOf
<1> HIDE DEF p
<1>3. verdicts \in Verdicts
  BY DEF VerdictsSettled
<1>4. /\ verdicts' \in Verdicts
      /\ verdicts'[p.text].ok = verdicts[p.text].ok
      /\ \A t \in Texts : t # p.text => verdicts'[t] = verdicts[t]
  <2> DEFINE v == [verdicts EXCEPT ![p.text].error = @ + 1]
  <2>1. verdicts' = v
    BY DEF p
  <2>2. v \in Verdicts
    BY <1>2, <1>3 DEF Verdicts
  <2>3. v[p.text].ok = verdicts[p.text].ok
    BY <1>2, <1>3 DEF Verdicts
  <2>4. \A t \in Texts : t # p.text => v[t] = verdicts[t]
    BY <1>3 DEF Verdicts
  <2> HIDE DEF v
  <2> QED BY <2>1, <2>2, <2>3, <2>4
<1>5. ASSUME NEW t \in Texts, t > sent' \/ t \in Starts(down')
      PROVE  verdicts'[t].ok = 0 /\ verdicts'[t].error = 0
  <2>1. t # p.text /\ (t > sent \/ t \in Starts(down))
    BY <1>1, <1>2, <1>5
  <2>. QED
    BY <1>4, <2>1 DEF VerdictsSettled
<1>6. ASSUME asm'.active
      PROVE  LET t == asm'.assembled[1].text IN
             /\ verdicts'[t].ok = 0
             /\ From(down', sends', t, asm'.nextExpected)
             /\ verdicts'[t].error > 0 => From(down', sends', t, asm'.nextExpected + 1)
  <2> DEFINE t == asm.assembled[1].text
  <2>1. asm' = asm
    BY <1>6
  <2>2. t \in Texts
    BY <1>6, <2>1, CoherentFacts DEF LinkPackets
  <2>3. /\ verdicts[t].ok = 0
        /\ From(down, sends, t, asm.nextExpected)
        /\ verdicts[t].error > 0 => From(down, sends, t, asm.nextExpected + 1)
    BY <1>6, <2>1 DEF VerdictsSettled
  <2>4. From(down', sends', t, asm.nextExpected)
    BY <1>1, <2>3
  <2>5. CASE t = p.text
    <3>1. p.index >= asm.nextExpected /\ asm.nextExpected \in Nat
      BY <1>1, <2>3, <2>5, CoherentFacts
    <3>2. \A i \in DOMAIN down' : down'[i].index \in Nat
      <4>1. down' \in Seq(LinkPackets)
        BY TransitTail DEF InTransit
      <4>2. \A i \in DOMAIN down' : down'[i] \in LinkPackets
        BY <4>1
      <4>. QED
        BY <4>2, AssemblerConstants DEF LinkPackets, Bytes
    <3>3. \A s \in sends' : s.next \in Nat
      BY DEF InTransit, Sends
    <3>4. \A x \in Nat : x > p.index => x >= asm.nextExpected + 1
      BY <1>2, <3>1
    <3>5. From(down', sends', t, asm.nextExpected + 1)
      BY <1>1, <1>2, <2>5, <3>2, <3>3, <3>4 DEF From
    <3>. QED
      BY <1>4, <2>1, <2>2, <2>3, <2>4, <2>5, <3>5
  <2>6. CASE t # p.text
    BY <1>1, <1>4, <2>1, <2>2, <2>3, <2>4, <2>6
  <2>. QED
    BY <2>5, <2>6
<1>7. ASSUME NEW t \in Texts, verdicts'[t].ok > 0
      PROVE  /\ verdicts'[t].ok = 1 /\ verdicts'[t].error = 0
             /\ From(down', sends', t, ByteMod)
  <2>1. t # p.text
    <3>1. ~(p.index >= ByteMod)
      BY <1>2, AssemblerConstants
    <3>2. ~From(down, sends, p.text, ByteMod)
      BY <1>1, <3>1
    <3>3. ~(verdicts[p.text].ok > 0)
      BY <1>2, <3>2 DEF VerdictsSettled
    <3>. QED
      BY <1>4, <1>7, <3>3
  <2>. QED
    BY <1>1, <1>4, <1>7, <2>1 DEF VerdictsSettled
<1>. QED
  BY <1>4, <1>5, <1>6, <1>7 DEF VerdictsSettled

\* A subtitle whose next fragment is accepted has had no verdict.
LEMMA AcceptedUnjudged ==
  ASSUME WithinWidths, NEW first \in SeqIds, sent \in 0..MaxTexts,
         VerdictsSettled, InTransit(first, sent, down, sends), Holds(first), down # <<>>,
         FeedResult(asm, Head(down)) \in {"Complete", "Incomplete"}
  PROVE  /\ verdicts[Head(down).text].ok = 0
         /\ verdicts[Head(down).text].error = 0
<1> DEFINE p == Head(down)
<1>1. /\ p \in LinkPackets /\ FragmentOf(first, sent, p)
      /\ \A k : From(down, sends, p.text, k) => p.index >= k
      /\ p.index = 0 => p.text \in Starts(down)
  BY TransitTail
<1> HIDE DEF p
<1>2. p.text \in Texts /\ p.index \in Nat
  BY <1>1, AssemblerConstants DEF LinkPackets, Bytes
<1>3. Expected(asm, p)
  BY DEF FeedResult, p
<1>4. CASE Continues(asm, p)
  <2>1. asm.active /\ p.seq = asm.currentSeq /\ p.index = asm.nextExpected
    BY <1>3, <1>4 DEF Expected, Continues
  <2>2. 1 \in DOMAIN asm.assembled /\ asm.assembled[1].text = p.text
    BY <1>1, <2>1, CoherentFacts, OneSubtitle DEF Holds, AllOf
  <2>3. /\ verdicts[p.text].ok = 0
        /\ verdicts[p.text].error > 0 => From(down, sends, p.text, asm.nextExpected + 1)
    BY <2>1, <2>2 DEF VerdictsSettled
  <2>4. ~(p.index >= asm.nextExpected + 1)
    BY <1>2, <2>1
  <2>5. ~(verdicts[p.text].error > 0)
    BY <1>1, <2>3, <2>4
  <2>6. verdicts[p.text].error \in Nat
    BY <1>2 DEF VerdictsSettled, Verdicts
  <2>. QED
    BY <2>3, <2>5, <2>6 DEF p
<1>5. CASE ~Continues(asm, p)
  <2>1. p.text \in Starts(down)
    BY <1>1, <1>3, <1>5 DEF Expected
  <2>. QED
    BY <1>2, <2>1 DEF VerdictsSettled, p
<1>. QED
  BY <1>4, <1>5

\* No ack: the subtitle is being assembled.
LEMMA NoVerdict ==
  ASSUME WithinWidths, NEW first \in SeqIds, sent \in 0..MaxTexts,
         VerdictsSettled, InTransit(first, sent, down, sends), Holds(first), down # <<>>,
         asm' = AfterFeed(asm, Head(down)), FeedResult(asm, Head(down)) = "Incomplete",
         down' = Tail(down), sends' = sends, sent' = sent, verdicts' = verdicts
  PROVE  VerdictsSettled'
<1> DEFINE p == Head(down)
<1>1. /\ p \in LinkPackets /\ FragmentOf(first, sent, p)
      /\ \A t, k : From(down, sends, t, k) => From(down', sends', t, k)
      /\ From(down', sends', p.text, p.index + 1)
      /\ \A t \in Starts(down') : t \in Starts(down) /\ t > p.text
  BY TransitTail
<1>2. verdicts[p.text].ok = 0 /\ verdicts[p.text].error = 0
  BY AcceptedUnjudged
<1>3. /\ Coherent(asm', LinkPackets)
      /\ Len(asm'.assembled) = p.index + 1
      /\ \A i \in DOMAIN asm'.assembled : asm'.assembled[i].text = p.text
  <2>1. FeedResult(asm, p) \in {"Complete", "Incomplete"}
    OBVIOUS
  <2>2. asm' = AfterFeed(asm, p)
    OBVIOUS
  <2> HIDE DEF p
  <2>. QED
    BY <1>1, <2>1, <2>2, AcceptedOne DEF Holds, AllOf
<1> HIDE DEF p
<1>4. asm'.active => asm'.assembled[1].text = p.text /\ asm'.nextExpected = p.index + 1
  BY <1>3 DEF Coherent, Midway, AssemblerStates
<1>. QED
  BY <1>1, <1>2, <1>4 DEF VerdictsSettled

\* An Ok ack: nothing is left of the subtitle.
LEMMA OkVerdict ==
  ASSUME WithinWidths, NEW first \in SeqIds, sent \in 0..MaxTexts,
         VerdictsSettled, InTransit(first, sent, down, sends), Holds(first), down # <<>>,
         FeedResult(asm, Head(down)) = "Complete", ~asm'.active,
         down' = Tail(down), sends' = sends, sent' = sent,
         verdicts' = [verdicts EXCEPT ![Head(down).text].ok = @ + 1]
  PROVE  VerdictsSettled'
<1> DEFINE p == Head(down)
<1>1. /\ p \in LinkPackets /\ FragmentOf(first, sent, p)
      /\ InTransit(first, sent, down', sends')
      /\ \A t, k : From(down, sends, t, k) => From(down', sends', t, k)
      /\ From(down', sends', p.text, p.index + 1)
      /\ \A t \in Starts(down') : t \in Starts(down) /\ t > p.text
  BY TransitTail
<1>2. verdicts[p.text].ok = 0 /\ verdicts[p.text].error = 0
  BY AcceptedUnjudged
<1>3. p.index + 1 = p.of
  <2>1. p.index + 1 = p.count
    BY DEF FeedResult
  <2>. QED
    BY <1>1, <2>1 DEF FragmentOf
<1>4. From(down', sends', p.text, ByteMod)
  <2>1. \A i \in DOMAIN down' : down'[i].text = p.text => down'[i].of = p.of
    <3>1. down \in Seq(LinkPackets)
      BY DEF InTransit
    <3>2. /\ p = down[1] /\ 1 \in DOMAIN down
          /\ \A i \in DOMAIN down' : i + 1 \in DOMAIN down /\ down'[i] = down[i + 1]
      BY <3>1, TailFacts
    <3> HIDE DEF p
    <3>. QED
      BY <3>2 DEF InTransit
  <2>2. \A s \in sends : s.text = p.text => s.n = p.of
    <3>1. down \in Seq(LinkPackets)
      BY DEF InTransit
    <3>2. p = down[1] /\ 1 \in DOMAIN down
      BY <3>1, TailFacts
    <3> HIDE DEF p
    <3>. QED
      BY <3>2 DEF InTransit
  <2> HIDE DEF p
  <2>3. \A i \in DOMAIN down' : /\ down'[i].index \in Nat /\ down'[i].index < down'[i].of
    <3>1. \A i \in DOMAIN down' : down'[i] \in LinkPackets
      BY <1>1 DEF InTransit
    <3>2. \A i \in DOMAIN down' : down'[i].index < down'[i].of
      BY <1>1 DEF InTransit, FragmentOf
    <3>. QED
      BY <3>1, <3>2, AssemblerConstants DEF LinkPackets, Bytes
  <2>4. \A s \in sends' : s.next \in Nat /\ s.n \in Nat /\ s.next < s.n
    BY AssemblerConstants DEF InTransit, Sends, Bytes
  <2>5. p.index \in Nat /\ p.of \in Nat
    BY <1>1, AssemblerConstants DEF LinkPackets, Bytes
  <2>6. ASSUME NEW i \in DOMAIN down', down'[i].text = p.text PROVE FALSE
    <3>1. down'[i].index >= p.index + 1 /\ down'[i].of = p.of
      BY <1>1, <2>1, <2>6 DEF From
    <3>2. down'[i].index \in Nat /\ down'[i].index < down'[i].of
      BY <2>3
    <3> QED BY <1>3, <2>5, <3>1, <3>2
  <2>7. \A s \in sends' : s.text # p.text
    BY <1>1, <1>3, <2>2, <2>4, <2>5 DEF From
  <2>. QED
    BY <2>6, <2>7 DEF From
<1>5. p.text \in Texts /\ p.text \in 1..sent
  BY <1>1 DEF LinkPackets, FragmentOf
<1>6. /\ verdicts' \in Verdicts
      /\ verdicts'[p.text].ok = 1 /\ verdicts'[p.text].error = 0
      /\ \A t \in Texts : t # p.text => verdicts'[t] = verdicts[t]
  BY <1>2, <1>5 DEF VerdictsSettled, Verdicts
<1> HIDE DEF p
<1>7. ASSUME NEW t \in Texts, t > sent' \/ t \in Starts(down')
      PROVE  verdicts'[t].ok = 0 /\ verdicts'[t].error = 0
  <2>1. t # p.text /\ (t > sent \/ t \in Starts(down))
    BY <1>1, <1>5, <1>7
  <2>. QED
    BY <1>6, <2>1 DEF VerdictsSettled
<1>8. ASSUME NEW t \in Texts, verdicts'[t].ok > 0
      PROVE  /\ verdicts'[t].ok = 1 /\ verdicts'[t].error = 0
             /\ From(down', sends', t, ByteMod)
  BY <1>1, <1>4, <1>6, <1>8 DEF VerdictsSettled
<1>. QED
  BY <1>6, <1>7, <1>8 DEF VerdictsSettled

----------------------------------------------------------------------------
\* The steps of the system.

LEMMA ActiveText ==
  ASSUME NEW first, Holds(first), asm.active
  PROVE  asm.assembled[1].text \in 1..sent
  BY CoherentFacts DEF Holds, FragmentOf

\* A step that sends nothing new and passes no verdict.
LEMMA Quiet ==
  ASSUME NEW first \in SeqIds, LinkInvFrom(first),
         sent' = sent, bleSeq' = bleSeq,
         InTransit(first, sent, down', sends'),
         \A t : \A k \in Nat : From(down, sends, t, k) => From(down', sends', t, k),
         \A t \in Starts(down') : t \in Starts(down),
         asm' = asm \/ asm' = ResetOf(asm),
         shown' = shown, verdicts' = verdicts, seqRecv' = seqRecv,
         seqInProgress' = seqInProgress \/ seqInProgress' = NoSeq,
         up' \in Seq(Acks), \A i \in DOMAIN up' : \E j \in DOMAIN up : up'[i] = up[j]
  PROVE  LinkInvFrom(first)'
<1>1. sent \in Nat /\ sent' \in Int /\ sent <= sent'
  BY LinkConstants DEF LinkInvFrom, Numbered
<1>2. Numbered(first)'
  BY DEF LinkInvFrom, Numbered
<1>3. Holds(first) /\ Coherent(asm, LinkPackets)
  BY DEF LinkInvFrom, Holds
<1>4. Holds(first)'
  <2>1. CASE asm' = asm
    BY <1>3, <2>1 DEF Holds
  <2>2. CASE asm' = ResetOf(asm)
    <3>1. Coherent(asm', LinkPackets)
      BY <1>3, <2>2, ResetCoherent DEF Coherent
    <3>2. asm'.assembled = <<>>
      BY <2>2 DEF ResetOf, Cleared
    <3>. QED
      BY <3>1, <3>2 DEF Holds
  <2>. QED
    BY <2>1, <2>2
<1>5. asm' = asm \/ ~asm'.active
  BY DEF ResetOf, Cleared
<1>6. ShownInOrder'
  BY <1>1, <1>5, QuietShown DEF LinkInvFrom
<1>7. VerdictsSettled'
  BY <1>1, <1>3, <1>5, ActiveText, QuietVerdicts DEF LinkInvFrom
<1>8. LatchOwn(first)'
  BY <1>1, QuietLatch DEF LinkInvFrom
<1>9. AcksTrue(first)'
  BY QuietAcks DEF LinkInvFrom
<1>. QED
  BY <1>2, <1>4, <1>6, <1>7, <1>8, <1>9 DEF LinkInvFrom

LEMMA SendToBleStep ==
  ASSUME WithinWidths, NEW first \in SeqIds, LinkInvFrom(first),
         NEW n \in FragmentCounts, SendToBle(n)
  PROVE  LinkInvFrom(first)'
<1> DEFINE s == [text |-> sent + 1, seq |-> SeqOf(first, sent + 1), n |-> n, next |-> 1]
<1>1. /\ sent \in 0..MaxTexts /\ sent \in Nat /\ sent < MaxTexts /\ sent + 1 \in 1..MaxTexts
      /\ sent' = sent + 1 /\ n \in Bytes
  BY LinkConstants DEF SendToBle, LinkInvFrom, Numbered, WithinWidths
<1>2. NextSeq(bleSeq) = SeqOf(first, sent + 1)
  <2>1. sent < SeqSpace /\ bleSeq = SeqOf(first, sent)
    BY <1>1, LinkConstants, AssemblerConstants DEF WithinWidths, LinkInvFrom, Numbered
  <2>. QED
    BY <1>1, <2>1, NextSeqOf
<1>3. /\ bleSeq' = SeqOf(first, sent + 1)
      /\ down' = IF linkUp /\ n > 0 THEN Append(down, Encode(s, 0)) ELSE down
      /\ sends' = IF linkUp /\ n > 1 THEN sends \cup {s} ELSE sends
      /\ UNCHANGED <<up, firmwareVars, verdicts>>
  BY <1>2 DEF SendToBle
<1>4. InTransit(first, sent, down, sends)
  BY DEF LinkInvFrom
<1> HIDE DEF s
<1>5. /\ InTransit(first, sent + 1, down', sends')
      /\ \A t \in 1..sent : \A k \in Nat : From(down, sends, t, k) => From(down', sends', t, k)
      /\ \A t \in Starts(down') : t \in Starts(down) \/ t = sent + 1
  <2> DEFINE here == (linkUp = TRUE)
  <2>1. here \in BOOLEAN
    OBVIOUS
  <2>2. /\ down' = IF here /\ n > 0 THEN Append(down, Encode(s, 0)) ELSE down
        /\ sends' = IF here /\ n > 1 THEN sends \cup {s} ELSE sends
    BY <1>3
  <2> HIDE DEF here
  <2> DEFINE d2 == IF here /\ n > 0 THEN Append(down, Encode(s, 0)) ELSE down
             ss2 == IF here /\ n > 1 THEN sends \cup {s} ELSE sends
  <2>3. /\ InTransit(first, sent + 1, d2, ss2)
        /\ \A t \in 1..sent : \A k \in Nat : From(down, sends, t, k) => From(d2, ss2, t, k)
        /\ \A t \in Starts(d2) : t \in Starts(down) \/ t = sent + 1
    BY <1>1, <1>4, <2>1, TransitFirst DEF s
  <2>. QED
    BY <2>2, <2>3
<1>6. UNCHANGED <<asm, shown, verdicts, up, seqRecv, seqInProgress>>
  BY <1>3 DEF firmwareVars
<1>7. sent' \in Int /\ sent \in Int /\ sent <= sent'
  BY <1>1
<1>8. Numbered(first)'
  BY <1>1, <1>3 DEF Numbered
<1>9. Holds(first)'
  <2>1. \A p : FragmentOf(first, sent, p) => FragmentOf(first, sent', p)
    BY <1>7 DEF FragmentOf
  <2>. QED
    BY <1>6, <2>1 DEF LinkInvFrom, Holds
<1>10. ShownInOrder'
  BY <1>5, <1>6, <1>7, QuietShown DEF LinkInvFrom
<1>11. VerdictsSettled'
  <2>1. Holds(first) /\ Coherent(asm, LinkPackets)
    BY DEF LinkInvFrom, Holds
  <2>. QED
    BY <1>5, <1>6, <1>7, <2>1, ActiveText, QuietVerdicts DEF LinkInvFrom
<1>12. LatchOwn(first)'
  BY <1>6, <1>7, QuietLatch DEF LinkInvFrom
<1>13. AcksTrue(first)'
  <2>1. up' \in Seq(Acks) /\ \A i \in DOMAIN up' : \E j \in DOMAIN up : up'[i] = up[j]
    BY <1>6 DEF LinkInvFrom, AcksTrue
  <2>. QED
    BY <1>6, <2>1, QuietAcks DEF LinkInvFrom
<1>. QED
  BY <1>1, <1>5, <1>8, <1>9, <1>10, <1>11, <1>12, <1>13 DEF LinkInvFrom

LEMMA WriteFragmentStep ==
  ASSUME NEW first \in SeqIds, LinkInvFrom(first), NEW s \in sends, WriteFragment(s)
  PROVE  LinkInvFrom(first)'
<1>1. /\ down' = Append(down, Encode(s, s.next)) /\ sends' = SendsAfter(sends, s)
      /\ UNCHANGED <<sent, bleSeq, up, asm, shown, verdicts, seqRecv, seqInProgress>>
  BY DEF WriteFragment, SendsAfter, firmwareVars
<1>2. InTransit(first, sent, down, sends)
  BY DEF LinkInvFrom
<1>3. /\ InTransit(first, sent, down', sends')
      /\ \A t : \A k \in Nat : From(down, sends, t, k) => From(down', sends', t, k)
      /\ \A t \in Starts(down') : t \in Starts(down)
  BY <1>1, <1>2, TransitNext
<1>4. up' \in Seq(Acks) /\ \A i \in DOMAIN up' : \E j \in DOMAIN up : up'[i] = up[j]
  BY <1>1 DEF LinkInvFrom, AcksTrue
<1>. QED
  BY <1>1, <1>3, <1>4, Quiet

LEMMA WriteFailsStep ==
  ASSUME NEW first \in SeqIds, LinkInvFrom(first), NEW s \in sends, WriteFails(s)
  PROVE  LinkInvFrom(first)'
<1>1. /\ sends' = sends \ {s}
      /\ UNCHANGED <<sent, bleSeq, down, up, asm, shown, verdicts, seqRecv, seqInProgress>>
  BY DEF WriteFails, firmwareVars
<1>2. InTransit(first, sent, down, sends)
  BY DEF LinkInvFrom
<1>3. /\ InTransit(first, sent, down', sends')
      /\ \A t : \A k \in Nat : From(down, sends, t, k) => From(down', sends', t, k)
      /\ \A t \in Starts(down') : t \in Starts(down)
  BY <1>1, <1>2, TransitFewer
<1>4. up' \in Seq(Acks) /\ \A i \in DOMAIN up' : \E j \in DOMAIN up : up'[i] = up[j]
  BY <1>1 DEF LinkInvFrom, AcksTrue
<1>. QED
  BY <1>1, <1>3, <1>4, Quiet

\* The phone's handlers, the loss of an ack, and no step at all.
LEMMA AckStep ==
  ASSUME NEW first \in SeqIds, LinkInvFrom(first),
         OnBleAck \/ HandleExternalDisconnect \/ ScanAndConnect \/ DropAck \/ UNCHANGED vars
  PROVE  LinkInvFrom(first)'
<1>1. /\ up' = up \/ (up # <<>> /\ up' = Tail(up))
      /\ UNCHANGED <<sent, bleSeq, sends, down, asm, shown, verdicts, seqRecv, seqInProgress>>
  BY DEF OnBleAck, HandleExternalDisconnect, ScanAndConnect, DropAck, vars, phoneVars, firmwareVars
<1>2. /\ InTransit(first, sent, down', sends')
      /\ \A t : \A k \in Nat : From(down, sends, t, k) => From(down', sends', t, k)
      /\ \A t \in Starts(down') : t \in Starts(down)
  BY <1>1 DEF LinkInvFrom
<1>3. up \in Seq(Acks)
  BY DEF LinkInvFrom, AcksTrue
<1>4. up' \in Seq(Acks) /\ \A i \in DOMAIN up' : \E j \in DOMAIN up : up'[i] = up[j]
  <2>1. CASE up' = up
    BY <1>3, <2>1
  <2>2. CASE up # <<>> /\ up' = Tail(up)
    BY <1>3, <2>2, TailFacts
  <2>. QED
    BY <1>1, <2>1, <2>2
<1>. QED
  BY <1>1, <1>2, <1>4, Quiet

LEMMA LossStep ==
  ASSUME NEW first \in SeqIds, LinkInvFrom(first), DropPacket \/ CorruptPacket
  PROVE  LinkInvFrom(first)'
<1>1. /\ down # <<>>
      /\ down' = Tail(down) \/ down' = [down EXCEPT ![1].intact = FALSE]
      /\ UNCHANGED <<sent, bleSeq, sends, up, asm, shown, verdicts, seqRecv, seqInProgress>>
  BY DEF DropPacket, CorruptPacket, phoneVars, firmwareVars
<1>2. InTransit(first, sent, down, sends)
  BY DEF LinkInvFrom
<1>3. /\ InTransit(first, sent, down', sends')
      /\ \A t : \A k \in Nat : From(down, sends, t, k) => From(down', sends', t, k)
      /\ \A t \in Starts(down') : t \in Starts(down)
  <2>1. CASE down' = Tail(down)
    BY <1>1, <1>2, <2>1, TransitTail
  <2>2. CASE down' = [down EXCEPT ![1].intact = FALSE]
    BY <1>1, <1>2, <2>2, TransitCorrupt
  <2>. QED
    BY <1>1, <2>1, <2>2
<1>4. up' \in Seq(Acks) /\ \A i \in DOMAIN up' : \E j \in DOMAIN up : up'[i] = up[j]
  BY <1>1 DEF LinkInvFrom, AcksTrue
<1>. QED
  BY <1>1, <1>3, <1>4, Quiet

LEMMA LinkBreaksStep ==
  ASSUME NEW first \in SeqIds, LinkInvFrom(first), LinkBreaks
  PROVE  LinkInvFrom(first)'
<1>1. /\ down' = <<>> /\ up' = <<>> /\ asm' = ResetOf(asm) /\ seqInProgress' = NoSeq
      /\ UNCHANGED <<sent, bleSeq, sends, shown, verdicts, seqRecv>>
  BY DEF LinkBreaks, Disconnect, phoneVars
<1>2. /\ InTransit(first, sent, down', sends')
      /\ \A t : \A k \in Nat : From(down, sends, t, k) => From(down', sends', t, k)
      /\ \A t \in Starts(down') : t \in Starts(down)
  <2>1. down' \in Seq(LinkPackets) /\ DOMAIN down' = {}
    BY <1>1
  <2>. QED
    BY <1>1, <2>1 DEF LinkInvFrom, InTransit, From, Starts
<1>3. up' \in Seq(Acks) /\ \A i \in DOMAIN up' : \E j \in DOMAIN up : up'[i] = up[j]
  BY <1>1
<1>. QED
  BY <1>1, <1>2, <1>3, Quiet

\* A notification is queued behind the others.
LEMMA AckSent ==
  ASSUME NEW first, AcksTrue(first), NEW a \in Acks, up' = Append(up, a),
         ShownText' \in Nat, ShownText \in Nat, ShownText <= ShownText',
         a.status = "Ok" => /\ a.text \in 1..ShownText'
                            /\ a.seq = SeqOf(first, a.text)
                            /\ a.seq # NoSeq => a.recv[1] = a.text
  PROVE  AcksTrue(first)'
<1>1. up \in Seq(Acks)
  BY DEF AcksTrue
<1>2. /\ up' \in Seq(Acks)
      /\ \A i \in DOMAIN up' : i \in DOMAIN up \/ i = Len(up) + 1
      /\ \A i \in DOMAIN up : up'[i] = up[i]
      /\ up'[Len(up) + 1] = a
  BY <1>1, AppendFacts
<1>3. \A t \in 1..ShownText : t \in 1..ShownText'
  OBVIOUS
<1>4. ASSUME NEW i \in DOMAIN up', up'[i].status = "Ok"
      PROVE  /\ up'[i].text \in 1..ShownText'
             /\ up'[i].seq = SeqOf(first, up'[i].text)
             /\ up'[i].seq # NoSeq => up'[i].recv[1] = up'[i].text
  <2>1. CASE i \in DOMAIN up
    BY <1>2, <1>3, <1>4, <2>1 DEF AcksTrue, AckTimesOwnSubtitle
  <2>2. CASE i = Len(up) + 1
    BY <1>2, <1>4, <2>2
  <2>. QED
    BY <1>2, <2>1, <2>2
<1>. QED
  BY <1>2, <1>4 DEF AcksTrue, AckTimesOwnSubtitle

\* The time that goes with a decoded packet is of its subtitle.
LEMMA LatchedOwn ==
  ASSUME WithinWidths, NEW first \in SeqIds, sent \in 0..MaxTexts, LatchOwn(first),
         NEW p \in LinkPackets, FragmentOf(first, sent, p)
  PROVE  LET r == Latched(p, <<p.text, p.index>>) IN
         /\ r \in Nat \X Nat
         /\ p.seq # NoSeq => r[1] = p.text
<1>1. p.text \in Nat /\ p.index \in Nat /\ p.text \in 1..sent
  BY AssemblerConstants DEF LinkPackets, Texts, Bytes, FragmentOf
<1>2. CASE p.seq = seqInProgress
  <2>1. Latched(p, <<p.text, p.index>>) = seqRecv
    BY <1>2 DEF Latched
  <2>2. ASSUME p.seq # NoSeq PROVE seqRecv[1] = p.text
    <3>1. seqRecv[1] \in 1..sent /\ SeqOf(first, seqRecv[1]) = SeqOf(first, p.text)
      BY <1>2, <2>2 DEF LatchOwn, FragmentOf
    <3>2. seqRecv[1] \in 1..MaxTexts /\ p.text \in 1..MaxTexts
      BY <1>1, <3>1, LinkConstants
    <3>. QED
      BY <3>1, <3>2, SeqOfInjective
  <2>. QED
    BY <2>1, <2>2 DEF LatchOwn
<1>3. CASE p.seq # seqInProgress
  BY <1>1, <1>3 DEF Latched
<1>. QED
  BY <1>2, <1>3

\* What every step of the firmware does with the packet it takes.
LEMMA TakeFacts ==
  ASSUME NEW first \in SeqIds, LinkInvFrom(first), down # <<>>
  PROVE  LET p == Head(down) IN
         /\ p \in LinkPackets /\ FragmentOf(first, sent, p)
         /\ p.text \in Texts /\ p.seq \in SeqIds /\ <<p.text, p.index>> \in Nat \X Nat
         /\ InTransit(first, sent, Tail(down), sends)
         /\ \A t \in Starts(Tail(down)) : t \in Starts(down) /\ t > p.text
         /\ sent \in 0..MaxTexts /\ sent \in Nat
         /\ ShownText \in 0..sent /\ ShownText \in Nat
         /\ NoSeq \in SeqIds
         /\ Coherent(asm, LinkPackets) /\ AllOf(first, sent, asm)
<1> DEFINE p == Head(down)
<1>1. /\ p \in LinkPackets /\ FragmentOf(first, sent, p)
      /\ InTransit(first, sent, Tail(down), sends)
      /\ \A t \in Starts(Tail(down)) : t \in Starts(down) /\ t > p.text
  <2>1. InTransit(first, sent, down, sends)
    BY DEF LinkInvFrom
  <2>. QED
    BY <2>1, TransitTail
<1> HIDE DEF p
<1>2. p.text \in Texts /\ p.seq \in SeqIds /\ <<p.text, p.index>> \in Nat \X Nat
  BY <1>1, AssemblerConstants DEF LinkPackets, Texts, Bytes
<1>3. sent \in 0..MaxTexts /\ sent \in Nat /\ ShownText \in 0..sent
  BY LinkConstants DEF LinkInvFrom, Numbered, ShownInOrder
<1>4. ShownText \in Nat
  BY <1>3
<1>5. NoSeq \in SeqIds
  BY AssemblerConstants DEF NoSeq, SeqIds
<1>6. Coherent(asm, LinkPackets) /\ AllOf(first, sent, asm)
  BY DEF LinkInvFrom, Holds, AllOf
<1>. QED
  BY <1>1, <1>2, <1>3, <1>4, <1>5, <1>6 DEF p

\* An error ack for the packet taken.
LEMMA ErrorStep ==
  ASSUME NEW first \in SeqIds, LinkInvFrom(first), down # <<>>,
         sent' = sent, bleSeq' = bleSeq, sends' = sends, down' = Tail(down), shown' = shown,
         asm' = asm \/ ~asm'.active, Holds(first)',
         LatchOwn(first)',
         NEW seq \in SeqIds, NEW recv \in Nat \X Nat,
         SendAck(Head(down), seq, "DecodeError", recv)
  PROVE  LinkInvFrom(first)'
<1> DEFINE p == Head(down)
           a == [text |-> p.text, seq |-> seq, status |-> "DecodeError", recv |-> recv]
<1>1. /\ p \in LinkPackets /\ FragmentOf(first, sent, p) /\ p.text \in Texts
      /\ InTransit(first, sent, down', sends')
      /\ \A t \in Starts(down') : t \in Starts(down)
      /\ sent \in 0..MaxTexts /\ sent \in Nat
      /\ ShownText \in 0..sent /\ ShownText \in Nat /\ Coherent(asm, LinkPackets)
  BY TakeFacts
<1>2. /\ up' = Append(up, a)
      /\ verdicts' = [verdicts EXCEPT ![p.text].error = @ + 1]
  BY DEF SendAck
<1>3. a \in Acks /\ a.status = "DecodeError"
  BY <1>1 DEF Acks
<1>4. Numbered(first)'
  BY DEF LinkInvFrom, Numbered
<1>5. ShownInOrder'
  <2>1. sent' \in Int /\ sent \in Int /\ sent <= sent'
    BY <1>1
  <2>. QED
    BY <1>1, <2>1, QuietShown DEF LinkInvFrom
<1>6. VerdictsSettled'
  BY <1>1, <1>2, ErrorVerdict DEF LinkInvFrom
<1>7. AcksTrue(first)'
  <2>1. ShownText' = ShownText
    BY DEF ShownText
  <2>2. ShownText' \in Nat /\ ShownText <= ShownText'
    BY <1>1, <2>1
  <2>3. AcksTrue(first)
    BY DEF LinkInvFrom
  <2> HIDE DEF a, p
  <2>. QED
    BY <1>1, <1>2, <1>3, <2>2, <2>3, AckSent
<1>. QED
  BY <1>1, <1>4, <1>5, <1>6, <1>7 DEF LinkInvFrom

LEMMA OnUndecodableWriteStep ==
  ASSUME NEW first \in SeqIds, LinkInvFrom(first), OnUndecodableWrite
  PROVE  LinkInvFrom(first)'
<1> DEFINE p == Head(down)
<1>1. /\ down # <<>> /\ down' = Tail(down)
      /\ UNCHANGED <<sent, bleSeq, sends, asm, shown, seqRecv, seqInProgress>>
  BY DEF OnUndecodableWrite, phoneVars, firmwareVars
<1>2. PICK seq \in {p.seq, NoSeq} : SendAck(p, seq, "DecodeError", <<p.text, p.index>>)
  BY DEF OnUndecodableWrite
<1>3. seq \in SeqIds /\ <<p.text, p.index>> \in Nat \X Nat
  BY <1>1, TakeFacts
<1>4. Holds(first)' /\ LatchOwn(first)'
  BY <1>1 DEF LinkInvFrom, Holds, LatchOwn
<1>. QED
  BY <1>1, <1>2, <1>3, <1>4, ErrorStep

LEMMA OnSubtitleWriteStep ==
  ASSUME WithinWidths, NEW first \in SeqIds, LinkInvFrom(first), OnSubtitleWrite
  PROVE  /\ LinkInvFrom(first)'
         /\ shown' = shown \/ ShownText' \in (ShownText + 1)..sent
<1> DEFINE p == Head(down)
           arrival == <<p.text, p.index>>
           latched == Latched(p, arrival)
<1>1. /\ down # <<>> /\ down' = Tail(down)
      /\ asm' = AfterFeed(asm, p) /\ result' = FeedResult(asm, p)
      /\ seqRecv' = latched
      /\ UNCHANGED <<sent, bleSeq, sends>>
  BY DEF OnSubtitleWrite, Feed, phoneVars
<1>2. /\ p \in LinkPackets /\ FragmentOf(first, sent, p)
      /\ p.text \in Texts /\ p.seq \in SeqIds /\ arrival \in Nat \X Nat
      /\ InTransit(first, sent, down', sends')
      /\ \A t \in Starts(down') : t \in Starts(down) /\ t > p.text
      /\ sent \in 0..MaxTexts /\ sent \in Nat
      /\ ShownText \in 0..sent /\ ShownText \in Nat
      /\ NoSeq \in SeqIds
      /\ Coherent(asm, LinkPackets) /\ AllOf(first, sent, asm)
  BY <1>1, TakeFacts
<1>3. latched \in Nat \X Nat /\ (p.seq # NoSeq => latched[1] = p.text)
  BY <1>2, LatchedOwn DEF LinkInvFrom
<1>4. p.text \in 1..sent /\ p.seq = SeqOf(first, p.text)
  BY <1>2 DEF FragmentOf
<1>5. \/ result' = "Incomplete" /\ seqInProgress' = p.seq /\ UNCHANGED <<shown, up, verdicts>>
      \/ /\ result' = "Complete" /\ shown' = asm'.assembled
         /\ SendAck(p, p.seq, "Ok", latched) /\ seqInProgress' = NoSeq
      \/ /\ result' \in {"Stale", "OutOfOrder", "Inconsistent", "Overflow"}
         /\ seqInProgress' \in {p.seq, NoSeq} /\ UNCHANGED shown
         /\ \E recv \in {arrival, latched} : SendAck(p, p.seq, "DecodeError", recv)
  BY DEF OnSubtitleWrite
<1> HIDE DEF p, arrival, latched
<1>6. /\ Coherent(asm', LinkPackets) /\ AllOf(first, sent, asm')
      /\ FeedResult(asm, p) \notin {"Complete", "Incomplete"} => asm' = asm \/ ~asm'.active
  BY <1>1, <1>2, FeedHolds
<1>7. Holds(first)'
  BY <1>1, <1>6 DEF Holds, AllOf
<1>8. LatchOwn(first)'
  <2>1. seqInProgress' \in {p.seq, NoSeq}
    BY <1>5
  <2>. QED
    BY <1>1, <1>2, <1>3, <1>4, <2>1 DEF LatchOwn
<1>9. Numbered(first)'
  BY <1>1 DEF LinkInvFrom, Numbered
<1>10. VerdictsSettled /\ ShownInOrder /\ AcksTrue(first) /\ Holds(first)
       /\ InTransit(first, sent, down, sends)
  BY DEF LinkInvFrom
<1>11. FeedResult(asm, p) \in {"Complete", "Incomplete"} =>
         /\ asm' = Accepted(asm, p)
         /\ Expected(asm, p)
         /\ Len(asm'.assembled) = p.index + 1
         /\ \A i \in DOMAIN asm'.assembled : asm'.assembled[i].text = p.text
         /\ p.text > ShownText
  <2> SUFFICES ASSUME FeedResult(asm, p) \in {"Complete", "Incomplete"}
               PROVE  /\ asm' = Accepted(asm, p)
                      /\ Expected(asm, p)
                      /\ Len(asm'.assembled) = p.index + 1
                      /\ \A i \in DOMAIN asm'.assembled : asm'.assembled[i].text = p.text
                      /\ p.text > ShownText
    OBVIOUS
  <2>1. /\ asm' = Accepted(asm, p)
        /\ Expected(asm, p)
        /\ Len(asm'.assembled) = p.index + 1
        /\ \A i \in DOMAIN asm'.assembled : asm'.assembled[i].text = p.text
    BY <1>1, <1>2, AcceptedOne
  <2>2. p.text > ShownText
    <3>1. CASE Continues(asm, p)
      <4>1. asm.active /\ 1 \in DOMAIN asm.assembled
        BY <1>2, <3>1, CoherentFacts DEF Continues
      <4>2. asm.assembled[1].text = p.text
        BY <1>2, <3>1, <4>1, OneSubtitle DEF Continues
      <4>. QED
        BY <1>10, <4>1, <4>2 DEF ShownInOrder
    <3>2. CASE ~Continues(asm, p)
      <4>1. p.index = 0
        BY <2>1, <3>2 DEF Expected
      <4>2. p.text \in Starts(down)
        BY <1>1, <1>10, <4>1, TransitTail DEF p
      <4>. QED
        BY <1>10, <4>2 DEF ShownInOrder
    <3>. QED
      BY <3>1, <3>2
  <2>. QED
    BY <2>1, <2>2
<1>12. CASE result' = "Incomplete" /\ UNCHANGED <<shown, up, verdicts>>
  <2>1. VerdictsSettled'
    BY <1>1, <1>2, <1>10, <1>12, NoVerdict DEF p
  <2>2. ShownText' = ShownText
    BY <1>12 DEF ShownText
  <2>3. asm'.active => asm'.assembled[1].text > ShownText
    BY <1>1, <1>6, <1>11, <1>12, CoherentFacts
  <2>4. ShownInOrder'
    BY <1>1, <1>2, <1>10, <1>12, <2>2, <2>3 DEF ShownInOrder, DisplayWhole
  <2>5. AcksTrue(first)'
    <3>1. up' \in Seq(Acks) /\ \A i \in DOMAIN up' : \E j \in DOMAIN up : up'[i] = up[j]
      BY <1>10, <1>12 DEF AcksTrue
    <3>. QED
      BY <1>10, <1>12, <3>1, QuietAcks
  <2>. QED
    BY <1>1, <1>2, <1>7, <1>8, <1>9, <1>12, <2>1, <2>4, <2>5 DEF LinkInvFrom
<1>13. CASE result' = "Complete" /\ shown' = asm'.assembled /\ SendAck(p, p.seq, "Ok", latched)
  <2>1. p.index + 1 = p.count /\ p.count = p.of /\ p.index \in Nat
    BY <1>1, <1>2, <1>13, AssemblerConstants DEF FeedResult, FragmentOf, LinkPackets, Bytes
  <2>2. ~asm'.active /\ asm'.currentSeq = p.seq /\ asm'.expectedCount = p.count
    <3>1. asm' = Accepted(asm, p)
      BY <1>1, <1>11, <1>13
    <3>. QED
      BY <2>1, <3>1 DEF Accepted
  <2>3. VerdictsSettled'
    <3>1. verdicts' = [verdicts EXCEPT ![p.text].ok = @ + 1]
      BY <1>13 DEF SendAck
    <3>. QED
      BY <1>1, <1>2, <1>10, <1>13, <2>2, <3>1, OkVerdict DEF p
  <2>4. /\ shown' \in Seq(LinkPackets) /\ DOMAIN shown' = 1..Len(shown')
        /\ Len(shown') = p.of /\ p.of \in Nat /\ p.of >= 1
        /\ \A i \in DOMAIN shown' : /\ shown'[i].text = p.text
                                    /\ shown'[i].index = i - 1
                                    /\ shown'[i].of = p.of
    <3>1. \A i \in DOMAIN shown' : shown'[i].index = i - 1 /\ shown'[i].count = p.count
      <4>1. DOMAIN shown' = 1..Len(shown')
        BY <1>6, <1>13, CoherentFacts
      <4>. QED
        BY <1>6, <1>13, <2>2, <4>1 DEF Coherent, OneSequence
    <3>2. \A i \in DOMAIN shown' : shown'[i].of = shown'[i].count
      BY <1>6, <1>13 DEF AllOf, FragmentOf
    <3>3. Len(shown') = p.of
      BY <1>1, <1>11, <1>13, <2>1
    <3>4. p.of \in Nat /\ p.of >= 1
      BY <2>1
    <3>5. \A i \in DOMAIN shown' : shown'[i].text = p.text
      BY <1>1, <1>11, <1>13
    <3>. QED
      BY <1>6, <1>13, <2>1, <3>1, <3>2, <3>3, <3>4, <3>5, CoherentFacts
  <2>5. shown' # <<>> /\ 1 \in DOMAIN shown'
    BY <2>4
  <2>6. DisplayWhole'
    BY <2>4, <2>5 DEF DisplayWhole
  <2>7. ShownText' = p.text
    BY <2>4, <2>5 DEF ShownText
  <2>8. ShownInOrder'
    <3>1. ShownText' \in 0..sent' /\ \A t \in Starts(down') : t > ShownText'
      BY <1>1, <1>2, <1>4, <2>7
    <3>. QED
      BY <2>2, <2>4, <2>6, <3>1 DEF ShownInOrder
  <2>9. AcksTrue(first)'
    <3> DEFINE a == [text |-> p.text, seq |-> p.seq, status |-> "Ok", recv |-> latched]
    <3>1. up' = Append(up, a)
      BY <1>13 DEF SendAck
    <3>2. a \in Acks /\ a.text = p.text /\ a.seq = p.seq /\ a.recv = latched
      BY <1>2, <1>3 DEF Acks
    <3>3. /\ ShownText' \in Nat /\ ShownText <= ShownText' /\ p.text \in 1..ShownText'
      BY <1>2, <1>4, <1>1, <1>11, <1>13, <2>7
    <3> HIDE DEF a
    <3>4. a.text \in 1..ShownText' /\ a.seq = SeqOf(first, a.text)
          /\ (a.seq # NoSeq => a.recv[1] = a.text)
      BY <1>3, <1>4, <3>2, <3>3
    <3>. QED
      BY <1>2, <1>10, <3>1, <3>2, <3>3, <3>4, AckSent
  <2>10. ShownText' \in (ShownText + 1)..sent
    BY <1>1, <1>2, <1>4, <1>11, <1>13, <2>7
  <2>. QED
    BY <1>1, <1>2, <1>7, <1>8, <1>9, <2>3, <2>8, <2>9, <2>10 DEF LinkInvFrom
<1>14. CASE /\ result' \in {"Stale", "OutOfOrder", "Inconsistent", "Overflow"}
            /\ UNCHANGED shown
            /\ \E recv \in {arrival, latched} : SendAck(p, p.seq, "DecodeError", recv)
  <2>1. PICK recv \in {arrival, latched} : SendAck(p, p.seq, "DecodeError", recv)
    BY <1>14
  <2>2. asm' = asm \/ ~asm'.active
    BY <1>1, <1>6, <1>14
  <2>3. recv \in Nat \X Nat
    BY <1>2, <1>3, <2>1
  <2>. QED
    BY <1>1, <1>2, <1>7, <1>8, <1>14, <2>1, <2>2, <2>3, ErrorStep DEF p
<1>. QED
  BY <1>5, <1>12, <1>13, <1>14

LEMMA LinkStarts ==
  ASSUME LinkInit PROVE LinkInvFrom(bleSeq)
<1>1. /\ asm = Idle /\ bleSeq \in SeqIds /\ sent = 0 /\ down = <<>> /\ up = <<>> /\ sends = {}
      /\ seqInProgress = NoSeq /\ seqRecv = <<0, 0>> /\ shown = <<>>
      /\ verdicts = [t \in Texts |-> [ok |-> 0, error |-> 0]]
  BY LinkConstants DEF LinkInit, Init
<1>2. Numbered(bleSeq)
  BY <1>1, AssemblerConstants, LinkConstants DEF Numbered, SeqOf, SeqIds
<1>3. down \in Seq(LinkPackets) /\ DOMAIN down = {} /\ Starts(down) = {}
  BY <1>1 DEF Starts
<1>4. InTransit(bleSeq, sent, down, sends)
  BY <1>1, <1>3 DEF InTransit
<1>5. Holds(bleSeq)
  BY <1>1, IdleCoherent DEF Holds, Idle, Cleared
<1>6. ~asm.active
  BY <1>1 DEF Idle, Cleared
<1>7. ShownInOrder
  BY <1>1, <1>3, <1>6 DEF ShownInOrder, DisplayWhole, ShownText
<1>8. VerdictsSettled
  BY <1>1, <1>3, <1>6 DEF VerdictsSettled, Verdicts
<1>9. LatchOwn(bleSeq)
  BY <1>1, AssemblerConstants DEF LatchOwn, NoSeq, SeqIds
<1>10. AcksTrue(bleSeq)
  BY <1>1 DEF AcksTrue, AckTimesOwnSubtitle
<1>. QED
  BY <1>2, <1>4, <1>5, <1>7, <1>8, <1>9, <1>10 DEF LinkInvFrom

LEMMA LinkStep ==
  ASSUME WithinWidths, NEW first \in SeqIds, LinkInvFrom(first), [LinkNext]_vars
  PROVE  LinkInvFrom(first)'
<1>1. ASSUME NEW n \in FragmentCounts, SendToBle(n) PROVE LinkInvFrom(first)'
  BY <1>1, SendToBleStep
<1>2. ASSUME NEW s \in sends, WriteFragment(s) PROVE LinkInvFrom(first)'
  BY <1>2, WriteFragmentStep
<1>3. ASSUME NEW s \in sends, WriteFails(s) PROVE LinkInvFrom(first)'
  BY <1>3, WriteFailsStep
<1>4. CASE OnBleAck \/ HandleExternalDisconnect \/ ScanAndConnect \/ DropAck \/ UNCHANGED vars
  BY <1>4, AckStep
<1>5. CASE DropPacket \/ CorruptPacket
  BY <1>5, LossStep
<1>6. CASE LinkBreaks
  BY <1>6, LinkBreaksStep
<1>7. CASE OnUndecodableWrite
  BY <1>7, OnUndecodableWriteStep
<1>8. CASE OnSubtitleWrite
  BY <1>8, OnSubtitleWriteStep
<1>. QED
  BY <1>1, <1>2, <1>3, <1>4, <1>5, <1>6, <1>7, <1>8 DEF LinkNext

\* The parts of the invariant hold of every reachable state, whatever the
\* number of subtitles under way and the packets and acks that are lost.
THEOREM LinkInvariant ==
  ASSUME WithinWidths PROVE LinkSpec => []LinkInv
<1>1. LinkInit => LinkInv
  <2>1. LinkInit => bleSeq \in SeqIds
    BY LinkConstants DEF LinkInit
  <2>. QED
    BY <2>1, LinkStarts DEF LinkInv
<1>2. LinkInv /\ [LinkNext]_vars => LinkInv'
  <2> SUFFICES ASSUME LinkInv, [LinkNext]_vars PROVE LinkInv'
    OBVIOUS
  <2>1. PICK first \in SeqIds : LinkInvFrom(first)
    BY DEF LinkInv
  <2>2. LinkInvFrom(first)'
    BY <2>1, LinkStep
  <2>. QED
    BY <2>2 DEF LinkInv
<1>. QED
  BY <1>1, <1>2, PTL DEF LinkSpec

\* The display shows all of one subtitle, whatever was lost, garbled or
\* interleaved on the way (onSubtitleWrite, the Complete branch).
THEOREM LinkDisplayWhole ==
  ASSUME WithinWidths PROVE LinkSpec => []DisplayWhole
<1>1. LinkInv => DisplayWhole
  BY DEF LinkInv, LinkInvFrom, ShownInOrder
<1>. QED
  BY <1>1, LinkInvariant, PTL

\* No subtitle gets a second verdict that contradicts its first.
THEOREM LinkVerdictFinal ==
  ASSUME WithinWidths PROVE LinkSpec => []VerdictFinal
<1>1. LinkInv => VerdictFinal
  <2> SUFFICES ASSUME VerdictsSettled, NEW t \in Texts
               PROVE  verdicts[t].ok <= 1 /\ (verdicts[t].ok = 0 \/ verdicts[t].error = 0)
    BY DEF LinkInv, LinkInvFrom, VerdictFinal
  <2>1. verdicts[t].ok \in Nat
    BY DEF VerdictsSettled, Verdicts
  <2>2. verdicts[t].ok > 0 => verdicts[t].ok = 1 /\ verdicts[t].error = 0
    BY DEF VerdictsSettled
  <2>. QED
    BY <2>1, <2>2
<1>. QED
  BY <1>1, LinkInvariant, PTL

\* An Ok ack carries the arrival time of a fragment of its own subtitle.
THEOREM LinkAckTimesOwnSubtitle ==
  ASSUME WithinWidths PROVE LinkSpec => []AckTimesOwnSubtitle
<1>1. LinkInv => AckTimesOwnSubtitle
  BY DEF LinkInv, LinkInvFrom, AcksTrue
<1>. QED
  BY <1>1, LinkInvariant, PTL

----------------------------------------------------------------------------
\* The link implements SubtitleDelivery: the abstract state is the number of
\* subtitles sent, the one displayed and the one the phone took as displayed.

LEMMA AckConfirms ==
  ASSUME WithinWidths, NEW first \in SeqIds, LinkInvFrom(first), OnBleAck
  PROVE  accepted' = accepted \/ (ShownText = sent /\ accepted' = sent)
<1> DEFINE a == Head(up)
<1>1. up \in Seq(Acks) /\ up # <<>>
  BY DEF OnBleAck, LinkInvFrom, AcksTrue
<1>2. a = up[1] /\ 1 \in DOMAIN up
  BY <1>1, TailFacts
<1>3. accepted' = IF AnswersCurrent(a) THEN a.text ELSE accepted
  BY DEF OnBleAck
<1>4. CASE AnswersCurrent(a)
  <2>1. a.status = "Ok" /\ a.seq = SeqOf(first, sent)
    BY <1>4 DEF AnswersCurrent, LinkInvFrom, Numbered
  <2>2. a.text \in 1..ShownText /\ a.seq = SeqOf(first, a.text)
    BY <1>2, <2>1 DEF LinkInvFrom, AcksTrue
  <2>3. ShownText \in 0..sent /\ sent \in 0..MaxTexts
    BY DEF LinkInvFrom, ShownInOrder, Numbered
  <2>4. a.text \in 1..MaxTexts /\ sent \in 1..MaxTexts
    BY <2>2, <2>3, LinkConstants
  <2>5. a.text = sent
    BY <2>1, <2>2, <2>4, SeqOfInjective
  <2>. QED
    BY <1>3, <1>4, <2>2, <2>3, <2>5
<1>5. CASE ~AnswersCurrent(a)
  BY <1>3, <1>5
<1>. QED
  BY <1>4, <1>5

LEMMA DeliveryStep ==
  ASSUME WithinWidths, NEW first \in SeqIds, LinkInvFrom(first), [LinkNext]_vars
  PROVE  [Delivery!Next]_(Delivery!vars)
<1> USE DEF Delivery!vars, Delivery!Next
<1>1. ASSUME NEW n \in FragmentCounts, SendToBle(n) PROVE Delivery!Send
  BY <1>1 DEF SendToBle, firmwareVars, ShownText, Delivery!Send
<1>2. ASSUME NEW s \in sends, WriteFragment(s) \/ WriteFails(s)
      PROVE  UNCHANGED <<sent, ShownText, accepted>>
  BY <1>2 DEF WriteFragment, WriteFails, firmwareVars, ShownText
<1>3. CASE OnBleAck
  <2>1. UNCHANGED <<sent, ShownText>>
    BY <1>3 DEF OnBleAck, firmwareVars, ShownText
  <2>. QED
    BY <1>3, <2>1, AckConfirms DEF Delivery!Confirm
<1>4. CASE \/ HandleExternalDisconnect \/ ScanAndConnect \/ DropPacket \/ DropAck
           \/ CorruptPacket \/ LinkBreaks \/ UNCHANGED vars
  BY <1>4 DEF HandleExternalDisconnect, ScanAndConnect, DropPacket, DropAck, CorruptPacket,
              LinkBreaks, vars, phoneVars, firmwareVars, ShownText
<1>5. CASE OnUndecodableWrite
  BY <1>5 DEF OnUndecodableWrite, phoneVars, firmwareVars, ShownText
<1>6. CASE OnSubtitleWrite
  <2>1. UNCHANGED <<sent, accepted>>
    BY <1>6 DEF OnSubtitleWrite, phoneVars
  <2>2. ShownText' = ShownText \/ ShownText' \in (ShownText + 1)..sent
    BY <1>6, OnSubtitleWriteStep DEF ShownText
  <2>. QED
    BY <2>1, <2>2 DEF Delivery!Show
<1>. QED
  BY <1>1, <1>2, <1>3, <1>4, <1>5, <1>6 DEF LinkNext

\* Every behaviour of the link is one of SubtitleDelivery: subtitles appear in
\* the order they were sent, and the phone only confirms the last one, while
\* it is the one displayed (_onBleAck, _sendToBle and onSubtitleWrite).
THEOREM LinkDelivers ==
  ASSUME WithinWidths PROVE LinkSpec => DeliverySpec
<1>1. LinkInit => Delivery!Init
  BY DEF LinkInit, Delivery!Init, ShownText
<1>2. LinkInv /\ [LinkNext]_vars => [Delivery!Next]_(Delivery!vars)
  BY DeliveryStep DEF LinkInv
<1>. QED
  BY <1>1, <1>2, LinkInvariant, PTL DEF LinkSpec, DeliverySpec, Delivery!Spec
=============================================================================
