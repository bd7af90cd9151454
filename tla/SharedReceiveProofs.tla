-------------------------- MODULE SharedReceiveProofs --------------------------
(***************************************************************************)
(* Proofs about receiving in SharedChannel: a subscriber that goes by the  *)
(* low bits of the sequence numbers reads exactly the frames it wants.     *)
(* With the steps of SharedDeliveryProofs this makes DeliveryInv an        *)
(* invariant, and the properties of what is delivered follow from it.      *)
(* The second half assumes nothing of publishers: however long they keep   *)
(* claims open, subscribers stand clear of them (RoomInv), the byte window *)
(* holds and types stay.                                                   *)
(***************************************************************************)
EXTENDS SharedDeliveryProofs

-----------------------------------------------------------------------------
(* The low bits say it all *)

\* sequence_low_window_fits(), without the division: the units the other rings
\* can have unread are fewer than the low bits can number.
LEMMA WindowLow == Ordered => ProducerCount = 1 \/ Cap * (ProducerCount - 1) < Period
<1> SUFFICES ASSUME Ordered PROVE ProducerCount = 1 \/ Cap * (ProducerCount - 1) < Period
  OBVIOUS
<1> DEFINE w == (Period + Cap - 1) \div Cap
<1>1. /\ Cap \in Nat /\ Cap > 0 /\ Period \in Nat /\ Period > 0
      /\ ProducerCount \in Nat /\ ProducerCount > 0
      /\ ProducerCount = 1 \/ ProducerCount - 1 < w
  BY ChannelAssumption DEF SequenceLowWindowFits, SequenceDomains
<1>2. Period + Cap - 1 \in Nat
  BY <1>1
<1>3. w \in Nat /\ (Period + Cap - 1) % Cap \in Nat
      /\ Period + Cap - 1 = Cap * w + ((Period + Cap - 1) % Cap)
  BY <1>1, <1>2, Division
<1> HIDE DEF w
<1>4. ASSUME ProducerCount - 1 < w PROVE Cap * (ProducerCount - 1) < Period
  <2>1. ProducerCount - 1 \in Nat
    BY <1>1
  <2>2. Cap * (ProducerCount - 1) + Cap <= Cap * w /\ Cap * (ProducerCount - 1) \in Nat
        /\ Cap * w \in Nat
    BY <2>1, <1>1, <1>3, <1>4, Multiples
  <2> QED BY <2>2, <1>1, <1>3
<1> QED BY <1>1, <1>4

\* Frames of a ring that lie at one place are one.
LEMMA SamePlace ==
  ASSUME NEW cs, NEW end, NEW taken, LaidOut(cs, end, taken),
         NEW f \in FramesOf(cs), NEW g \in FramesOf(cs), f.position = g.position
  PROVE  f = g
<1>1. PICK i \in DOMAIN cs : \E j \in 0 .. cs[i].count - 1 :
        f = [position |-> At(cs[i], j), sequence |-> Number(cs[i], j)]
  BY FrameOf
<1>2. PICK j \in 0 .. cs[i].count - 1 :
        f = [position |-> At(cs[i], j), sequence |-> Number(cs[i], j)]
  BY <1>1
<1>3. f.position = At(cs[i], j)
  BY <1>2
<1>4. \/ g = f \/ At(cs[i], j) + cs[i].len <= g.position \/ g.position < At(cs[i], j)
  BY <1>2, FrameOrder
<1>5. At(cs[i], j) \in Nat /\ cs[i].len \in Nat /\ cs[i].len > 0
  BY FrameBounds, ClaimTypes
<1> QED BY <1>3, <1>4, <1>5

\* Numbers with the same low bits are one, or a period apart.
LEMMA PeriodApart ==
  ASSUME NEW m \in Nat, NEW n \in Nat, n < m, SequenceLow(m) = SequenceLow(n)
  PROVE  n + Period <= m
<1> DEFINE a == m \div Period  b == n \div Period
<1>1. Period \in Nat /\ Period > 0
  BY ChannelAssumption
<1>2. /\ a \in Nat /\ b \in Nat /\ m % Period \in Nat /\ n % Period \in Nat
      /\ m = Period * a + (m % Period) /\ n = Period * b + (n % Period)
  BY <1>1, Division
<1>3. m % Period = n % Period
  BY DEF SequenceLow
<1> HIDE DEF a, b
<1>4. /\ a <= b => Period * a <= Period * b
      /\ b < a => Period * b + Period <= Period * a
      /\ Period * a \in Nat /\ Period * b \in Nat
  BY <1>1, <1>2, Multiples
<1> QED BY <1>1, <1>2, <1>3, <1>4

\* Where an unread frame lies that has the number a reader wants, or one after it.
LEMMA UnreadFrame ==
  ASSUME DeliveryInv, NEW r \in [Producers -> Kept], Reads(r), NEW q \in Producers,
         producer_pos[q] <= r[q].read + Cap,
         NEW f \in FramesOf(claims[q]), f.sequence >= r[q].next
  PROVE  f.position - r[q].read \in 0 .. Cap - 1
<1>1. /\ RingOk(RingOf(q)) /\ ReadsAt(r[q], RingOf(q)) /\ r[q] \in Kept
      /\ Cap \in Nat /\ Cap > 0
  BY ChannelAssumption DEF DeliveryInv, ProducerInv, Reads
<1>2. LaidOut(claims[q], producer_pos[q], Taken(q)) /\ producer_pos[q] \in Nat
  BY <1>1, RingParts DEF RingOk, LaidOut
<1>3. f.position \in Nat /\ f.position < producer_pos[q] /\ r[q].read \in Nat
  BY <1>1, <1>2, FrameTypes DEF Kept
<1>4. f.position >= r[q].read
  BY <1>1, RingParts DEF ReadsAt
<1> QED BY <1>1, <1>2, <1>3, <1>4

\* A frame at the place a reader has come to, whose number has the low bits of the
\* number wanted, has that number: otherwise a whole period of numbers would be in
\* the unread parts of the other rings, which hold fewer.  (In a Fifo channel the
\* numbers of a ring are its own, and nothing can come between.)
LEMMA NumberWanted ==
  ASSUME DeliveryInv, NEW r \in [Producers -> Kept], Reads(r),
         \A q \in Producers : producer_pos[q] <= r[q].read + Cap,
         NEW p \in Producers, NEW i \in DOMAIN claims[p],
         NEW j \in 0 .. claims[p][i].count - 1,
         At(claims[p][i], j) = r[p].read, Number(claims[p][i], j) >= r[p].next,
         SequenceLow(Number(claims[p][i], j)) = SequenceLow(r[p].next)
  PROVE  Number(claims[p][i], j) = r[p].next
<1> DEFINE n == r[p].next
           m == Number(claims[p][i], j)
           others == Producers \ {p}
           places == others \X (0 .. Cap - 1)
           lies(d, z) == \E f \in FramesOf(claims[z[1]]) :
                           f.sequence = n + d /\ f.position - r[z[1]].read = z[2]
           pair == [d \in 0 .. Period - 1 |-> CHOOSE z \in places : lies(d, z)]
<1>1. \A q \in Producers :
        /\ LaidOut(claims[q], producer_pos[q], Taken(q)) /\ r[q] \in Kept
        /\ r[q].read \in Nat /\ r[q].next \in Nat
        /\ ReadsAt(r[q], RingOf(q))
  BY RingParts DEF DeliveryInv, ProducerInv, RingOk, Kept, Reads
<1>2. /\ n \in Nat /\ m \in Nat /\ m < Taken(p) /\ Taken(p) \in Nat
      /\ Period \in Nat /\ Period > 0 /\ Cap \in Nat /\ Cap > 0
      /\ ProducerCount \in Nat /\ ProducerCount > 0
  <2>1. LaidOut(claims[p], producer_pos[p], Taken(p)) /\ r[p].next \in Nat
    BY <1>1
  <2>2. m \in Nat /\ m < Taken(p)
    BY <2>1, FrameBounds
  <2>3. Taken(p) \in Nat
    BY <2>1 DEF LaidOut
  <2> QED BY <2>1, <2>2, <2>3, ChannelAssumption
<1>3. SUFFICES ASSUME n < m PROVE FALSE
  BY <1>2
<1>4. n + Period <= m
  BY <1>2, <1>3, PeriodApart
<1>5. ASSUME NEW d \in 0 .. Period - 1
      PROVE  Ordered /\ \E z \in places : lies(d, z)
  <2>1. d \in Nat /\ n + d \in 0 .. Taken(p) - 1 /\ n + d < m /\ n <= n + d
    BY <1>2, <1>4
  <2>2. PICK q \in Domain(p) : \E f \in FramesOf(claims[q]) : f.sequence = n + d
    BY <2>1 DEF DeliveryInv, Numbered
  <2>3. PICK f \in FramesOf(claims[q]) : f.sequence = n + d
    BY <2>2
  <2>4. q # p
    <3>1. SUFFICES ASSUME q = p PROVE FALSE
      OBVIOUS
    <3>2. \/ f = [position |-> At(claims[p][i], j), sequence |-> m]
          \/ m < f.sequence
          \/ f.position < At(claims[p][i], j)
      BY <3>1, <1>1, FrameOrder
    <3>3. f.position < r[p].read
      BY <3>2, <2>1, <2>3, <1>2
    <3>4. f.position >= r[p].read
      BY <3>1, <2>1, <2>3, <1>1, RingParts DEF ReadsAt
    <3>5. f.position \in Nat
      BY <3>1, <1>1, FrameTypes
    <3> QED BY <3>3, <3>4, <3>5, <1>1
  <2>5. Ordered /\ q \in others
    BY <2>2, <2>4 DEF Domain
  <2>6. f.sequence >= r[q].next
    <3>1. r[q].next = n
      BY <2>5 DEF Reads
    <3> QED BY <3>1, <2>1, <2>3
  <2>7. f.position - r[q].read \in 0 .. Cap - 1
    BY <2>5, <2>6, UnreadFrame
  <2>8. <<q, f.position - r[q].read>> \in places
    BY <2>5, <2>7
  <2> QED BY <2>3, <2>5, <2>8
<1>6. \A d \in 0 .. Period - 1 : pair[d] \in places /\ lies(d, pair[d])
  BY <1>5
<1> HIDE DEF pair
<1>7. ASSUME NEW d \in 0 .. Period - 1, NEW e \in 0 .. Period - 1, pair[d] = pair[e]
      PROVE  d = e
  <2>1. PICK q \in others, x \in 0 .. Cap - 1 : pair[d] = <<q, x>>
    BY <1>6
  <2>2. PICK f \in FramesOf(claims[q]) : f.sequence = n + d /\ f.position - r[q].read = x
    BY <2>1, <1>6
  <2>3. PICK g \in FramesOf(claims[q]) : g.sequence = n + e /\ g.position - r[q].read = x
    BY <2>1, <1>6, <1>7
  <2>4. f.position \in Nat /\ g.position \in Nat
    BY <1>1, FrameTypes
  <2>5. f = g
    <3>1. f.position = g.position
      BY <2>2, <2>3, <2>4, <1>1
    <3> QED BY <3>1, <1>1, SamePlace
  <2> QED BY <2>2, <2>3, <2>5, <1>2
<1>8. pair \in Injection(0 .. Period - 1, places)
  <2>1. pair \in [0 .. Period - 1 -> places]
    BY <1>6 DEF pair
  <2> QED BY <2>1, <1>7 DEF Injection, IsInjective
<1>9. /\ IsFiniteSet(places) /\ Cardinality(places) = (ProducerCount - 1) * Cap
  <2>1. /\ IsFiniteSet(Producers) /\ Cardinality(Producers) = ProducerCount
        /\ IsFiniteSet(0 .. Cap - 1) /\ Cardinality(0 .. Cap - 1) = Cap
    BY <1>2, FirstNumbers DEF Producers
  <2>2. IsFiniteSet(others) /\ Cardinality(others) = ProducerCount - 1
    BY <2>1, FS_RemoveElement
  <2>3. /\ IsFiniteSet(others \X (0 .. Cap - 1))
        /\ Cardinality(others \X (0 .. Cap - 1))
             = Cardinality(others) * Cardinality(0 .. Cap - 1)
    BY <2>1, <2>2, FS_Product
  <2> HIDE DEF others
  <2> QED BY <2>1, <2>2, <2>3, Zenon
<1>10. Period <= (ProducerCount - 1) * Cap
  <2>1. Cardinality(0 .. Period - 1) = Period
    BY <1>2, FirstNumbers
  <2>2. Cardinality(0 .. Period - 1) <= Cardinality(places)
    BY <1>8, <1>9, FS_Injection
  <2> QED BY <2>1, <2>2, <1>9
<1>11. (ProducerCount - 1) * Cap = Cap * (ProducerCount - 1)
  BY <1>2
<1>12. CASE ProducerCount = 1
  BY <1>2, <1>10, <1>12
<1>13. CASE Cap * (ProducerCount - 1) < Period
  <2>1. Cap * (ProducerCount - 1) \in Int
    BY <1>2
  <2> QED BY <2>1, <1>2, <1>10, <1>11, <1>13
<1>14. Ordered
  <2>1. 0 \in 0 .. Period - 1
    BY <1>2
  <2> QED BY <2>1, <1>5
<1> QED BY <1>12, <1>13, <1>14, WindowLow

-----------------------------------------------------------------------------
(* Reading one frame *)

\* A reader that the windows hold every producer back for.
Reader(r) ==
  /\ r \in [Producers -> Kept] /\ Reads(r)
  /\ \A q \in Producers : producer_pos[q] <= r[q].read + Cap

\* s is r further on, with the announcements it had.
Further(r, s) ==
  \A q \in Producers :
    /\ r[q].read <= s[q].read /\ r[q].messages <= s[q].messages
    /\ s[q].flushed = r[q].flushed

\* Going further is transitive.
LEMMA FurtherStill ==
  ASSUME NEW r \in [Producers -> Kept], NEW s \in [Producers -> Kept],
         NEW t \in [Producers -> Kept], Further(r, s), Further(s, t)
  PROVE  Further(r, t)
<1>1. \A q \in Producers : /\ r[q].read \in Nat /\ s[q].read \in Nat /\ t[q].read \in Nat
                           /\ r[q].messages \in Nat /\ s[q].messages \in Nat
                           /\ t[q].messages \in Nat
  BY DEF Kept
<1> QED BY <1>1 DEF Further

\* What going on does to each ring.
LEMMA AdvanceParts ==
  ASSUME NEW r, NEW p \in Producers, NEW x, NEW n, NEW a \in Nat
  PROVE  /\ Advance(r, p, x, n, a)[p]
              = [r[p] EXCEPT !.read = x, !.next = n, !.messages = @ + a]
         /\ \A q \in Producers \ {p} :
              Advance(r, p, x, n, a)[q] = IF Ordered THEN [r[q] EXCEPT !.next = n] ELSE r[q]
         /\ Advance(r, p, x, n, a)
              \in [Producers -> {Advance(r, p, x, n, a)[q] : q \in Producers}]
BY DEF Advance

\* What a reader's words are.
LEMMA ReaderParts ==
  ASSUME NEW r \in [Producers -> Kept], NEW p \in Producers
  PROVE  /\ r[p] \in Kept /\ r[p].read \in Nat /\ r[p].next \in Nat
         /\ r[p].messages \in Nat /\ r[p].visible \in Nat /\ r[p].flushed \in Nat
BY DEF Kept

\* try_read_from_ring() accepts only the frame the reader wants, with the header
\* its publisher wrote.
LEMMA Wanted ==
  ASSUME DeliveryInv, NEW r, Reader(r), NEW p \in Producers,
         NEW bound \in Nat, bound <= visible[p],
         Readable(p, r[p].read, r[p].next, bound)
  PROVE  \E i \in DOMAIN claims[p] : \E j \in 0 .. claims[p][i].count - 1 :
           /\ At(claims[p][i], j) = r[p].read /\ Number(claims[p][i], j) = r[p].next
           /\ header[p][Unit(r[p].read)] = Header(r[p].next, claims[p][i].len)
           /\ r[p].read + claims[p][i].len <= bound
<1>1. /\ r \in [Producers -> Kept] /\ r[p] \in Kept /\ r[p].read \in Nat
      /\ ReadsAt(r[p], RingOf(p)) /\ producer_pos[p] <= r[p].read + Cap
  BY ReaderParts DEF Reader, Reads
<1>2. /\ RingOk(RingOf(p)) /\ Headed(p) /\ visible[p] = ContiguousEnd(claims[p])
      /\ visible[p] \in Nat
  BY DEF DeliveryInv, ProducerInv, Shown, RingTypes
<1>3. /\ r[p].read < bound
      /\ header[p][Unit(r[p].read)].low = SequenceLow(r[p].next)
      /\ r[p].read + header[p][Unit(r[p].read)].len <= bound
  BY DEF Readable
<1>4. r[p].read < visible[p]
  BY <1>1, <1>2, <1>3
<1>5. \E i \in DOMAIN claims[p] : \E j \in 0 .. claims[p][i].count - 1 :
        /\ At(claims[p][i], j) = r[p].read /\ Number(claims[p][i], j) >= r[p].next
        /\ claims[p][i].committed
  BY <1>1, <1>2, <1>4, RingParts, HeadFrame
<1>6. PICK i \in DOMAIN claims[p] : \E j \in 0 .. claims[p][i].count - 1 :
        /\ At(claims[p][i], j) = r[p].read /\ Number(claims[p][i], j) >= r[p].next
        /\ claims[p][i].committed
  BY <1>5
<1>7. PICK j \in 0 .. claims[p][i].count - 1 :
        /\ At(claims[p][i], j) = r[p].read /\ Number(claims[p][i], j) >= r[p].next
        /\ claims[p][i].committed
  BY <1>6
<1>8. header[p][Unit(r[p].read)] = Header(Number(claims[p][i], j), claims[p][i].len)
  BY <1>1, <1>2, <1>7 DEF Headed
<1>9. Number(claims[p][i], j) = r[p].next
  <2>1. SequenceLow(Number(claims[p][i], j)) = SequenceLow(r[p].next)
    BY <1>3, <1>8 DEF Header
  <2> QED BY <2>1, <1>1, <1>7, NumberWanted DEF Reader
<1>10. header[p][Unit(r[p].read)].len = claims[p][i].len
  BY <1>8 DEF Header
<1> QED BY <1>3, <1>7, <1>8, <1>9, <1>10

\* A reader goes past the frame it wants.
LEMMA PassFrame ==
  ASSUME DeliveryInv, NEW r, Reader(r), NEW p \in Producers,
         NEW i \in DOMAIN claims[p], NEW j \in 0 .. claims[p][i].count - 1,
         At(claims[p][i], j) = r[p].read, Number(claims[p][i], j) = r[p].next,
         r[p].read + claims[p][i].len <= visible[p],
         NEW s, s = Advance(r, p, r[p].read + claims[p][i].len, r[p].next + 1, 1)
  PROVE  Reader(s) /\ Further(r, s) /\ r[p].read < s[p].read
<1> DEFINE len == claims[p][i].len
<1>1. \A q \in Producers :
        /\ r[q] \in Kept /\ r[q].read \in Nat /\ r[q].next \in Nat
        /\ r[q].messages \in Nat /\ r[q].visible \in Nat /\ r[q].flushed \in Nat
        /\ ReadsAt(r[q], RingOf(q)) /\ RingOk(RingOf(q))
        /\ LaidOut(claims[q], producer_pos[q], Taken(q))
        /\ producer_pos[q] \in Nat /\ Taken(q) \in Nat
        /\ producer_pos[q] <= r[q].read + Cap
  <2> TAKE q \in Producers
  <2>1. /\ r[q] \in Kept /\ r[q].read \in Nat /\ r[q].next \in Nat
        /\ r[q].messages \in Nat /\ r[q].visible \in Nat /\ r[q].flushed \in Nat
    BY ReaderParts DEF Reader
  <2>2. ReadsAt(r[q], RingOf(q)) /\ producer_pos[q] <= r[q].read + Cap
    BY DEF Reader, Reads
  <2>3. RingOk(RingOf(q))
    BY DEF DeliveryInv, ProducerInv
  <2>4. LaidOut(claims[q], producer_pos[q], Taken(q))
    BY <2>3, RingParts DEF RingOk
  <2>5. producer_pos[q] \in Nat /\ Taken(q) \in Nat
    BY <2>4 DEF LaidOut
  <2> QED BY <2>1, <2>2, <2>3, <2>4, <2>5
<1>2. len \in Nat /\ len > 0 /\ Cap \in Nat
  BY <1>1, ClaimTypes, ChannelAssumption
<1> HIDE DEF len
<1>3. /\ s[p] = [r[p] EXCEPT !.read = r[p].read + len, !.next = r[p].next + 1,
                              !.messages = @ + 1]
      /\ \A q \in Producers \ {p} :
           s[q] = IF Ordered THEN [r[q] EXCEPT !.next = r[p].next + 1] ELSE r[q]
      /\ s \in [Producers -> {s[q] : q \in Producers}]
  BY DEF Advance, len
<1>4. /\ s[p] \in Kept /\ s[p].read = r[p].read + len /\ s[p].next = r[p].next + 1
      /\ s[p].messages = r[p].messages + 1 /\ s[p].visible = r[p].visible
      /\ s[p].flushed = r[p].flushed
  <2>1. r[p].read + len \in Nat /\ r[p].next + 1 \in Nat /\ r[p].messages + 1 \in Nat
    BY <1>1, <1>2
  <2>2. /\ r[p] \in Kept
        /\ s[p] = [r[p] EXCEPT !.read = r[p].read + len, !.next = r[p].next + 1,
                                !.messages = @ + 1]
    BY <1>1, <1>3
  <2> QED BY <2>1, <2>2 DEF Kept
<1>5. ASSUME NEW q \in Producers, q # p
      PROVE  /\ s[q] \in Kept /\ s[q].read = r[q].read /\ s[q].messages = r[q].messages
             /\ s[q].visible = r[q].visible /\ s[q].flushed = r[q].flushed
             /\ s[q].next = IF Ordered THEN r[p].next + 1 ELSE r[q].next
             /\ ~Ordered => s[q] = r[q]
  <2>1. r[p].next + 1 \in Nat /\ r[q] \in Kept
    BY <1>1
  <2>2. s[q] = IF Ordered THEN [r[q] EXCEPT !.next = r[p].next + 1] ELSE r[q]
    BY <1>3, <1>5
  <2>3. CASE Ordered
    <3>1. s[q] = [r[q] EXCEPT !.next = r[p].next + 1]
      BY <2>2, <2>3
    <3> QED BY <2>1, <2>3, <3>1 DEF Kept
  <2>4. CASE ~Ordered
    BY <2>1, <2>2, <2>4
  <2> QED BY <2>3, <2>4
<1>6. s \in [Producers -> Kept]
  BY <1>3, <1>4, <1>5
<1>7. ReadsAt(s[p], RingOf(p))
  <2>1. PICK g, t, u : g = RingOf(p) /\ t = r[p] /\ u = s[p]
    OBVIOUS
  <2>2. g.claims = claims[p] /\ g.visible = visible[p]
    BY <2>1, RingParts
  <2>3. RingOk(g) /\ t \in Kept /\ ReadsAt(t, g) /\ u \in Kept
    BY <2>1, <1>1, <1>4
  <2>4. /\ i \in DOMAIN g.claims /\ j \in 0 .. g.claims[i].count - 1
        /\ At(g.claims[i], j) = t.read /\ Number(g.claims[i], j) = t.next
        /\ t.read + g.claims[i].len <= g.visible
    BY <2>1, <2>2
  <2>5. /\ u.read = t.read + g.claims[i].len /\ u.next = t.next + 1
        /\ u.messages = t.messages + 1 /\ u.visible = t.visible
    BY <2>1, <2>2, <1>4 DEF len
  <2>6. ReadsAt(u, g)
    BY <2>3, <2>4, <2>5, ReadsNext
  <2> QED BY <2>1, <2>6
<1>8. ASSUME NEW q \in Producers, q # p PROVE ReadsAt(s[q], RingOf(q))
  <2>1. CASE ~Ordered
    BY <2>1, <1>1, <1>5, <1>8
  <2>2. CASE Ordered
    <3>1. r[q].next = r[p].next
      BY <2>2 DEF Reader, Reads
    <3>2. [position |-> r[p].read, sequence |-> r[p].next] \in FramesOf(claims[p])
      BY FrameOf
    <3>3. \A f \in FramesOf(claims[q]) : f.sequence # r[q].next
      BY <2>2, <3>1, <3>2, <1>8 DEF DeliveryInv, Numbered
    <3>4. r[q].next < Taken(q)
      <4>1. Number(claims[p][i], j) < Taken(p)
        BY <1>1, FrameBounds
      <4>2. Taken(p) = Taken(q)
        BY <2>2 DEF Taken
      <4> QED BY <3>1, <4>1, <4>2
    <3>5. PICK g, t, u : g = RingOf(q) /\ t = r[q] /\ u = s[q]
      OBVIOUS
    <3>6. RingOk(g) /\ t \in Kept /\ ReadsAt(t, g) /\ u \in Kept
      BY <3>5, <1>1, <1>5, <1>8
    <3>7. (\A f \in FramesOf(g.claims) : f.sequence # t.next) /\ t.next < g.taken
      BY <3>3, <3>4, <3>5, RingParts
    <3>8. /\ u.read = t.read /\ u.next = t.next + 1 /\ u.messages = t.messages
          /\ u.visible = t.visible
      BY <2>2, <3>1, <3>5, <1>5, <1>8
    <3>9. ReadsAt(u, g)
      BY <3>6, <3>7, <3>8, ReadsOther
    <3> QED BY <3>5, <3>9
  <2> QED BY <2>1, <2>2
<1>9. Ordered => \A a, b \in Producers : s[a].next = s[b].next
  BY <1>4, <1>5
<1>10. \A q \in Producers : producer_pos[q] <= s[q].read + Cap
  <2>1. producer_pos[p] <= s[p].read + Cap
    BY <1>1, <1>2, <1>4
  <2> QED BY <2>1, <1>1, <1>5
<1>11. Reader(s)
  BY <1>6, <1>7, <1>8, <1>9, <1>10 DEF Reader, Reads
<1>12. Further(r, s)
  <2>1. r[p].read <= s[p].read /\ r[p].messages <= s[p].messages
    BY <1>1, <1>2, <1>4
  <2>2. \A q \in Producers : r[q].read <= r[q].read /\ r[q].messages <= r[q].messages
    BY <1>1
  <2> QED BY <2>1, <2>2, <1>4, <1>5 DEF Further
<1>13. r[p].read < s[p].read
  BY <1>1, <1>2, <1>4
<1> QED BY <1>11, <1>12, <1>13

\* It reads the frame try_read_from_ring() accepts: a visible message, whose end is
\* where the header says.
LEMMA ReadFrame ==
  ASSUME DeliveryInv, NEW r, Reader(r), NEW p \in Producers,
         NEW bound \in Nat, bound <= visible[p],
         Readable(p, r[p].read, r[p].next, bound),
         NEW m, m = Message(p, r[p].read, r[p].next)
  PROVE  LET s == Advance(r, p, m.next, r[p].next + 1, 1) IN
         /\ Reader(s) /\ Further(r, s) /\ r[p].read < m.next
         /\ m \in Given /\ IsMessage(m, RingOf(p))
<1>1. PICK i \in DOMAIN claims[p] : \E j \in 0 .. claims[p][i].count - 1 :
        /\ At(claims[p][i], j) = r[p].read /\ Number(claims[p][i], j) = r[p].next
        /\ header[p][Unit(r[p].read)] = Header(r[p].next, claims[p][i].len)
        /\ r[p].read + claims[p][i].len <= bound
  BY Wanted
<1>2. PICK j \in 0 .. claims[p][i].count - 1 :
        /\ At(claims[p][i], j) = r[p].read /\ Number(claims[p][i], j) = r[p].next
        /\ header[p][Unit(r[p].read)] = Header(r[p].next, claims[p][i].len)
        /\ r[p].read + claims[p][i].len <= bound
  BY <1>1
<1>3. /\ m.next = r[p].read + claims[p][i].len
      /\ m = [producer |-> p, position |-> r[p].read, sequence |-> r[p].next,
              next |-> r[p].read + claims[p][i].len]
  BY <1>2 DEF Message, Header
<1>4. /\ r[p].read \in Nat /\ r[p].next \in Nat /\ claims[p][i].len \in Nat
      /\ claims[p][i].len > 0 /\ visible[p] \in Nat
  <2>1. LaidOut(claims[p], producer_pos[p], Taken(p)) /\ visible[p] \in Nat
    BY RingParts DEF DeliveryInv, ProducerInv, RingOk, RingTypes
  <2> QED BY <2>1, ClaimTypes, ReaderParts DEF Reader
<1>5. r[p].read + claims[p][i].len <= visible[p]
  BY <1>2, <1>4
<1>6. PICK s : s = Advance(r, p, r[p].read + claims[p][i].len, r[p].next + 1, 1)
  OBVIOUS
<1>7. Reader(s) /\ Further(r, s)
  BY <1>2, <1>5, <1>6, PassFrame
<1>8. m \in Given /\ r[p].read < m.next
  BY <1>3, <1>4 DEF Given
<1>9. IsMessage(m, RingOf(p))
  BY <1>2, <1>3, <1>5, RingParts DEF IsMessage
<1> QED BY <1>3, <1>6, <1>7, <1>8, <1>9

-----------------------------------------------------------------------------
(* A client that receives *)

\* The windows hold every producer back for what a receiving client has read.
LEMMA ClientReads ==
  ASSUME DeliveryInv, RegInv, NEW k \in LiveClients, kpc[k] \in Receiving
  PROVE  /\ Reader(rx[k]) /\ Follows(k) /\ Holds(k)
         /\ \A q \in Producers : Windowed(q, mine[k])
         /\ mine[k] \in Slots /\ slot[mine[k]].pid = k
<1>1. ClientInv(k) /\ k \in Clients
  BY DEF DeliveryInv, LiveClients
<1>2. Subscribing(k) /\ kpc[k] # "closing" /\ View(k) = rx[k]
  BY DEF Subscribing, Joined, Receiving, View
<1>3. /\ Reads(rx[k]) /\ Follows(k) /\ Holds(k)
      /\ \A q \in Producers : Windowed(q, mine[k])
  BY <1>1, <1>2 DEF ClientInv
<1>4. mine[k] \in Slots /\ slot[mine[k]].pid = k
  BY <1>2, OwnSlot
<1>5. rx[k] \in [Producers -> Kept]
  BY <1>1 DEF DeliveryInv, RxTypes
<1>6. ASSUME NEW q \in Producers PROVE producer_pos[q] <= rx[k][q].read + Cap
  <2>1. /\ cursor[q][mine[k]].position \in Nat /\ producer_pos[q] \in Nat
        /\ Cap \in Nat
    BY <1>4, ChannelAssumption DEF DeliveryInv, RxTypes, ProducerTypes, Cursors
  <2>2. rx[k][q].read \in Nat /\ rx[k][q].flushed \in Nat
    BY <1>5, ReaderParts
  <2>3. /\ producer_pos[q] - cursor[q][mine[k]].position <= EffectiveCapacity
        /\ EffectiveCapacity \in Nat /\ EffectiveCapacity <= Cap
    BY <1>3, CapacityType DEF Windowed
  <2>4. cursor[q][mine[k]].position = rx[k][q].flushed
        /\ rx[k][q].flushed <= rx[k][q].read
    BY <1>3 DEF Follows
  <2> QED BY <2>1, <2>2, <2>3, <2>4
<1> QED BY <1>3, <1>4, <1>5, <1>6 DEF Reader

\* The bound a receiver uses is visible.
LEMMA BoundVisible ==
  ASSUME DeliveryInv, NEW k \in Clients, Reader(rx[k]), NEW p \in Producers
  PROVE  Bound(k, p) \in Nat /\ Bound(k, p) <= visible[p] /\ visible[p] \in Nat
<1>1. rx[k][p].visible <= visible[p]
  BY RingParts DEF Reader, Reads, ReadsAt
<1>2. visible[p] \in Nat /\ rx[k][p].visible \in Nat
  BY ReaderParts DEF DeliveryInv, RingTypes, Reader
<1> QED BY <1>1, <1>2 DEF Bound

\* Looking at the bounds again moves nothing.
LEMMA RefreshedReads ==
  ASSUME DeliveryInv, NEW k \in Clients, Reader(rx[k]), NEW n,
         NEW s, s = Refreshed(k, n)
  PROVE  /\ Reader(s)
         /\ \A q \in Producers :
              /\ s[q].read = rx[k][q].read /\ s[q].next = rx[k][q].next
              /\ s[q].messages = rx[k][q].messages /\ s[q].flushed = rx[k][q].flushed
         /\ Further(rx[k], s)
<1>1. s \in [Producers -> {s[q] : q \in Producers}]
  BY DEF Refreshed
<1>2. ASSUME NEW q \in Producers
      PROVE  \E b \in Nat : b <= visible[q] /\ s[q] = [rx[k][q] EXCEPT !.visible = b]
  <2>1. s[q] = rx[k][q] \/ s[q] = [rx[k][q] EXCEPT !.visible = Bound(k, q)]
    BY DEF Refreshed
  <2>2. rx[k][q] \in Kept /\ rx[k][q].visible \in Nat /\ rx[k][q].visible <= visible[q]
    BY ReaderParts, RingParts DEF Reader, Reads, ReadsAt
  <2>3. rx[k][q] = [rx[k][q] EXCEPT !.visible = rx[k][q].visible]
    BY <2>2 DEF Kept
  <2> QED BY <2>1, <2>2, <2>3, BoundVisible
<1>3. ASSUME NEW q \in Producers
      PROVE  /\ s[q] \in Kept /\ ReadsAt(s[q], RingOf(q))
             /\ s[q].read = rx[k][q].read /\ s[q].next = rx[k][q].next
             /\ s[q].messages = rx[k][q].messages /\ s[q].flushed = rx[k][q].flushed
  <2>1. PICK b \in Nat : b <= visible[q] /\ s[q] = [rx[k][q] EXCEPT !.visible = b]
    BY <1>2
  <2>2. rx[k][q] \in Kept /\ ReadsAt(rx[k][q], RingOf(q))
    BY ReaderParts DEF Reader, Reads
  <2>3. /\ s[q] \in Kept /\ s[q].visible = b
        /\ s[q].read = rx[k][q].read /\ s[q].next = rx[k][q].next
        /\ s[q].messages = rx[k][q].messages /\ s[q].flushed = rx[k][q].flushed
    BY <2>1, <2>2 DEF Kept
  <2>4. ReadsAt(s[q], RingOf(q))
    BY <2>1, <2>2, <2>3, RingParts DEF ReadsAt
  <2> QED BY <2>3, <2>4
<1>4. Ordered => \A p, q \in Producers : s[p].next = s[q].next
  BY <1>3 DEF Reader, Reads
<1>5. Reader(s)
  BY <1>1, <1>3, <1>4 DEF Reader, Reads
<1>6. Further(rx[k], s)
  <2>1. \A q \in Producers : rx[k][q].read \in Nat /\ rx[k][q].messages \in Nat
    BY ReaderParts DEF Reader
  <2> QED BY <2>1, <1>3 DEF Further
<1> QED BY <1>3, <1>5, <1>6

\* The first ring with something to read.
LEMMA FirstHit ==
  ASSUME RxTypes, NEW k \in Clients, Hits(k) # {}
  PROVE  LET p == Ring(k, Min(Hits(k))) IN
         /\ p \in Producers /\ (p + 1) % ProducerCount \in Producers
         /\ Readable(p, rx[k][p].read, rx[k][p].next, Bound(k, p))
<1>1. Hits(k) \subseteq Nat
  BY DEF Hits, Producers
<1>2. Min(Hits(k)) \in Hits(k)
  BY <1>1, MinNatural
<1>3. PICK i : i = Min(Hits(k))
  OBVIOUS
<1>4. i \in Producers /\ last_hit[k] \in Producers
  BY <1>2, <1>3 DEF Hits, RxTypes
<1>5. ProducerCount \in Nat /\ ProducerCount > 0
  BY ChannelAssumption
<1>6. \A n \in Nat : n % ProducerCount \in Producers
  BY <1>5 DEF Producers
<1>7. Ring(k, i) \in Producers
  BY <1>4, <1>6 DEF Ring, Producers
<1>8. (Ring(k, i) + 1) % ProducerCount \in Producers
  BY <1>6, <1>7 DEF Producers
<1>9. Readable(Ring(k, i), rx[k][Ring(k, i)].read, rx[k][Ring(k, i)].next,
               Bound(k, Ring(k, i)))
  BY <1>2, <1>3 DEF Hits
<1> QED BY <1>3, <1>7, <1>8, <1>9

\* A step in which k only moves on in the rings and announces no more than it has
\* read.
LEMMA ReceiveStep ==
  ASSUME DeliveryInv, RegInv, NEW k \in LiveClients,
         kpc[k] \in Receiving, kpc'[k] \in Receiving,
         UNCHANGED <<ringVars, producerVars, slot, mine, token, alive>>,
         \A j \in Clients \ {k} : UNCHANGED <<kpc[j], rx[j], held[j]>>,
         RxTypes', NEW s, s = rx'[k], Reader(s),
         \A q \in Producers, x \in Slots \ {mine[k]} : cursor'[q][x] = cursor[q][x],
         \A q \in Producers :
           /\ cursor'[q][mine[k]].position = s[q].flushed /\ s[q].flushed <= s[q].read
           /\ cursor[q][mine[k]].position <= cursor'[q][mine[k]].position
           /\ cursor[q][mine[k]].messages <= cursor'[q][mine[k]].messages
           /\ cursor'[q][mine[k]].messages <= s[q].messages,
         Holds(k)'
  PROVE  DeliveryInv'
<1>1. k \in Clients /\ alive[k] /\ mine[k] \in Slots /\ slot[mine[k]].pid = k
  BY ClientReads DEF LiveClients
<1>2. UNCHANGED <<header, visible, reservation, global_seq, ppc, ask, claims,
                  producer_pos, messages, cached_pos, cached_messages>>
  BY DEF ringVars, producerVars
<1>3. \A q \in Producers : RingOf(q)' = RingOf(q)
  BY <1>2 DEF RingOf, Taken
<1>4. \A q \in Producers :
        /\ cursor[q][mine[k]].position \in Nat /\ cursor[q][mine[k]].messages \in Nat
        /\ cursor'[q][mine[k]].position \in Nat /\ cursor'[q][mine[k]].messages \in Nat
        /\ producer_pos[q] \in Nat /\ messages[q] \in Nat
        /\ reservation[q].position \in Nat /\ reservation[q].messages \in Nat
  <2>1. \A q \in Producers : cursor[q][mine[k]] \in Cursors
                             /\ cursor'[q][mine[k]] \in Cursors
    BY <1>1 DEF DeliveryInv, RxTypes
  <2> QED BY <2>1 DEF Cursors, DeliveryInv, ProducerTypes, RingTypes
<1>5. ASSUME NEW j \in LiveClients, j # k, Subscribing(j), NEW q \in Producers
      PROVE  cursor'[q][mine[j]] = cursor[q][mine[j]]
  <2>1. mine[j] \in Slots /\ slot[mine[j]].pid = j
    BY <1>5, OwnSlot
  <2> QED BY <2>1, <1>1, <1>5
<1>6. ASSUME NEW q \in Producers
      PROVE  /\ cursor'[q][mine[k]].position <= reservation[q].position
             /\ cursor'[q][mine[k]].messages <= reservation[q].messages
  <2>1. /\ ReadsAt(s[q], RingOf(q)) /\ s[q].read \in Nat /\ s[q].flushed \in Nat
        /\ s[q].messages \in Nat
    BY ReaderParts DEF Reader, Reads
  <2>2. /\ s[q].read <= reservation[q].position
        /\ s[q].messages = Cardinality(Before(claims[q], s[q].read))
    BY <2>1, RingParts DEF ReadsAt
  <2>3. LaidOut(claims[q], producer_pos[q], Taken(q)) /\ Announced(q)
    BY RingParts DEF DeliveryInv, ProducerInv, RingOk
  <2>4. reservation[q].messages = Cardinality(Before(claims[q], reservation[q].position))
    BY <2>3 DEF Announced
  <2>5. IsFiniteSet(Before(claims[q], reservation[q].position))
    BY <2>3, FramesFinite
  <2>6. Before(claims[q], s[q].read) \in SUBSET Before(claims[q], reservation[q].position)
    <3>1. \A f \in FramesOf(claims[q]) : f.position \in Nat
      BY <2>3, FrameTypes
    <3>2. \A f \in FramesOf(claims[q]) :
            f.position < s[q].read => f.position < reservation[q].position
      BY <3>1, <2>1, <2>2, <1>4
    <3> QED BY <3>2 DEF Before
  <2>7. s[q].messages <= reservation[q].messages
    BY <2>2, <2>4, <2>5, <2>6, FS_Subset
  <2> QED BY <2>1, <2>2, <2>7, <1>4
<1>7. \A q \in Producers, x \in Slots :
        /\ cursor'[q][x].position <= reservation[q].position
        /\ cursor'[q][x].messages <= reservation[q].messages
  <2>1. ASSUME NEW q \in Producers, NEW x \in Slots
        PROVE  /\ cursor'[q][x].position <= reservation[q].position
               /\ cursor'[q][x].messages <= reservation[q].messages
    <3>1. CASE x = mine[k]
      BY <3>1, <1>6
    <3>2. CASE x # mine[k]
      <4>1. cursor'[q][x] = cursor[q][x]
        BY <3>2
      <4> QED BY <4>1, CursorsBehind
    <3> QED BY <3>1, <3>2
  <2> QED BY <2>1
<1>8. \A x \in Slots : SlotOwned(x)'
  <2>1. \A x \in Slots : slot'[x].pid = k => mine'[k] = x
    BY AllOwned, NoSlot
  <2>2. HasSlot(k)'
    BY DEF HasSlot, Joined
  <2>3. \A x \in Processes \ {k} : alive'[x] = alive[x]
    OBVIOUS
  <2>4. \A j \in Clients \ {k} : UNCHANGED <<kpc[j], mine[j], token[j]>>
    OBVIOUS
  <2> QED BY <2>1, <2>2, <2>3, <2>4, <1>1, AllOwned, SlotsOwned
<1>9. ASSUME NEW q \in Producers PROVE Windowed(q, mine[k])'
  <2>1. Windowed(q, mine[k])
    BY ClientReads
  <2>2. PICK c : c = cursor[q][mine[k]]
    OBVIOUS
  <2>3. PICK d : d = cursor'[q][mine[k]]
    OBVIOUS
  <2>4. /\ c.position \in Nat /\ c.messages \in Nat /\ d.position \in Nat /\ d.messages \in Nat
        /\ c.position <= d.position /\ c.messages <= d.messages
    BY <2>2, <2>3, <1>4
  <2>5. /\ ppc[q] = "room" => ask[q].len * ask[q].count \in Nat /\ ask[q].count \in Nat
        /\ producer_pos[q] \in Nat /\ messages[q] \in Nat
        /\ cached_pos[q] \in Nat /\ cached_messages[q] \in Nat
        /\ EffectiveCapacity \in Nat /\ MessageWindow \in Nat
    <3>1. ask[q].len \in Nat /\ ask[q].count \in Nat
      BY ChannelAssumption DEF DeliveryInv, ProducerTypes
    <3> QED BY <3>1, CapacityType, ChannelAssumption, Multiples
            DEF DeliveryInv, ProducerTypes
  <2>6. \A a, w \in Nat : /\ a - c.position <= w => a - d.position <= w
                          /\ a - c.messages <= w => a - d.messages <= w
                          /\ a <= c.position => a <= d.position
                          /\ a <= c.messages => a <= d.messages
    BY <2>4
  <2>7. /\ producer_pos[q] - d.position <= EffectiveCapacity
        /\ cached_pos[q] <= d.position
    BY <2>1, <2>2, <2>5, <2>6 DEF Windowed
  <2>8. ppc[q] = "room" =>
          (producer_pos[q] + ask[q].len * ask[q].count) - d.position <= EffectiveCapacity
    <3>1. SUFFICES ASSUME ppc[q] = "room"
                   PROVE  (producer_pos[q] + ask[q].len * ask[q].count) - d.position
                            <= EffectiveCapacity
      OBVIOUS
    <3>2. PICK a : a = ask[q].len * ask[q].count
      OBVIOUS
    <3>3. a \in Nat /\ producer_pos[q] + a \in Nat
      BY <3>1, <3>2, <2>5
    <3>4. producer_pos[q] + a - c.position <= EffectiveCapacity
      BY <3>1, <3>2, <2>1, <2>2 DEF Windowed
    <3>5. (producer_pos[q] + a) - c.position <= EffectiveCapacity
      BY <3>3, <3>4, <2>4, <2>5
    <3> QED BY <3>2, <3>3, <3>5, <2>5, <2>6
  <2>9. ASSUME MessageWindow # 0
        PROVE  /\ messages[q] - d.messages <= MessageWindow
               /\ cached_messages[q] <= d.messages
               /\ ppc[q] = "room" =>
                    (messages[q] + ask[q].count) - d.messages <= MessageWindow
    <3>1. /\ messages[q] - c.messages <= MessageWindow
          /\ cached_messages[q] <= c.messages
          /\ ppc[q] = "room" => messages[q] + ask[q].count - c.messages <= MessageWindow
      BY <2>1, <2>2, <2>9 DEF Windowed
    <3>2. ppc[q] = "room" => /\ messages[q] + ask[q].count \in Nat
                             /\ (messages[q] + ask[q].count) - c.messages <= MessageWindow
      BY <3>1, <2>4, <2>5
    <3> QED BY <3>1, <3>2, <2>5, <2>6
  <2>10. cursor'[q][mine'[k]] = d
    BY <2>3
  <2>11. ppc[q] = "room" =>
           producer_pos[q] + ask[q].len * ask[q].count - d.position <= EffectiveCapacity
    BY <2>4, <2>5, <2>8
  <2>12. MessageWindow # 0 /\ ppc[q] = "room" =>
           messages[q] + ask[q].count - d.messages <= MessageWindow
    BY <2>4, <2>5, <2>9
  <2> QED BY <2>7, <2>9, <2>10, <2>11, <2>12, <1>2 DEF Windowed
<1>10. ClientInv(k)'
  <2>1. Quiet(k)'
    BY DEF Quiet, Receiving
  <2>2. View(k)' = s
    BY DEF View
  <2>3. Reads(View(k))'
    <3>1. /\ \A q \in Producers : ReadsAt(s[q], RingOf(q)')
          /\ Ordered => \A p, q \in Producers : s[p].next = s[q].next
      BY <1>3 DEF Reader, Reads
    <3> QED BY <3>1, <2>2 DEF Reads
  <2>4. Follows(k)'
    BY DEF Follows
  <2> QED BY <2>1, <2>3, <2>4, <1>9 DEF ClientInv
<1> QED BY <1>1, <1>5, <1>7, <1>8, <1>10, ClientStep

-----------------------------------------------------------------------------
(* Reading a run of frames *)

\* Going on twice is going on.
LEMMA AdvanceTwice ==
  ASSUME NEW r \in [Producers -> Kept], NEW p \in Producers,
         NEW x, NEW n, NEW a \in Nat, NEW y, NEW m, NEW b \in Nat
  PROVE  Advance(Advance(r, p, x, n, a), p, y, m, b) = Advance(r, p, y, m, a + b)
<1>a. PICK s : s = Advance(r, p, x, n, a)
  OBVIOUS
<1>b. PICK t : t = Advance(s, p, y, m, b)
  OBVIOUS
<1>c. PICK d \in Nat : d = a + b
  OBVIOUS
<1>d. PICK u : u = Advance(r, p, y, m, d)
  OBVIOUS
<1>1. /\ s[p] = [r[p] EXCEPT !.read = x, !.next = n, !.messages = @ + a]
      /\ \A q \in Producers \ {p} :
           s[q] = IF Ordered THEN [r[q] EXCEPT !.next = n] ELSE r[q]
  <2>1. s[p] = [r[p] EXCEPT !.read = x, !.next = n, !.messages = @ + a]
    BY <1>a DEF Advance
  <2>2. \A q \in Producers \ {p} :
           s[q] = IF Ordered THEN [r[q] EXCEPT !.next = n] ELSE r[q]
    BY <1>a DEF Advance
  <2> QED BY <2>1, <2>2
<1>2. /\ t[p] = [s[p] EXCEPT !.read = y, !.next = m, !.messages = @ + b]
      /\ \A q \in Producers \ {p} :
           t[q] = IF Ordered THEN [s[q] EXCEPT !.next = m] ELSE s[q]
      /\ t \in [Producers -> {t[q] : q \in Producers}]
  <2>1. t[p] = [s[p] EXCEPT !.read = y, !.next = m, !.messages = @ + b]
    BY <1>b DEF Advance
  <2>2. \A q \in Producers \ {p} :
          t[q] = IF Ordered THEN [s[q] EXCEPT !.next = m] ELSE s[q]
    BY <1>b DEF Advance
  <2>3. t \in [Producers -> {t[q] : q \in Producers}]
    BY <1>b DEF Advance
  <2> QED BY <2>1, <2>2, <2>3
<1>3. /\ u[p] = [r[p] EXCEPT !.read = y, !.next = m, !.messages = @ + d]
      /\ \A q \in Producers \ {p} :
           u[q] = IF Ordered THEN [r[q] EXCEPT !.next = m] ELSE r[q]
      /\ u \in [Producers -> {u[q] : q \in Producers}]
  <2>1. u[p] = [r[p] EXCEPT !.read = y, !.next = m, !.messages = @ + d]
    BY <1>d DEF Advance
  <2>2. \A q \in Producers \ {p} :
          u[q] = IF Ordered THEN [r[q] EXCEPT !.next = m] ELSE r[q]
    BY <1>d DEF Advance
  <2>3. u \in [Producers -> {u[q] : q \in Producers}]
    BY <1>d DEF Advance
  <2> QED BY <2>1, <2>2, <2>3
<1>4. \A q \in Producers : r[q] \in Kept
  OBVIOUS
<1>5. t[p] = u[p]
  <2>1. r[p].messages \in Nat
    BY <1>4 DEF Kept
  <2>2. (r[p].messages + a) + b = r[p].messages + d
    BY <2>1, <1>c
  <2>3. s[p] = [read |-> x, next |-> n, messages |-> r[p].messages + a,
                visible |-> r[p].visible, flushed |-> r[p].flushed]
    BY <1>1, <1>4 DEF Kept
  <2>4. t[p] = [read |-> y, next |-> m, messages |-> (r[p].messages + a) + b,
                visible |-> r[p].visible, flushed |-> r[p].flushed]
    <3>1. t[p] = [s[p] EXCEPT !.read = y, !.next = m, !.messages = @ + b]
      BY <1>2
    <3>2. s[p].messages + b = (r[p].messages + a) + b
      BY <2>3
    <3>3. t[p] = [s[p] EXCEPT !.read = y, !.next = m, !.messages = s[p].messages + b]
      BY <3>1
    <3>4. PICK c : c = s[p].messages + b
      OBVIOUS
    <3> DEFINE v == [read |-> x, next |-> n, messages |-> r[p].messages + a,
                     visible |-> r[p].visible, flushed |-> r[p].flushed]
    <3>6. t[p] = [v EXCEPT !.read = y, !.next = m, !.messages = c]
      BY <2>3, <3>3, <3>4, Zenon
    <3>5. t[p] = [read |-> y, next |-> m, messages |-> c,
                  visible |-> r[p].visible, flushed |-> r[p].flushed]
      BY <3>6
    <3> QED BY <3>2, <3>4, <3>5
  <2>5. u[p] = [read |-> y, next |-> m, messages |-> r[p].messages + d,
                visible |-> r[p].visible, flushed |-> r[p].flushed]
    BY <1>3, <1>4 DEF Kept
  <2> QED BY <2>2, <2>4, <2>5
<1>6. ASSUME NEW q \in Producers, q # p PROVE t[q] = u[q]
  <2>1. CASE ~Ordered
    <3>1. t[q] = s[q] /\ s[q] = r[q] /\ u[q] = r[q]
      BY <2>1, <1>1, <1>2, <1>3, <1>6
    <3> QED BY <3>1
  <2>2. CASE Ordered
    <3>1. s[q] = [r[q] EXCEPT !.next = n] /\ t[q] = [s[q] EXCEPT !.next = m]
          /\ u[q] = [r[q] EXCEPT !.next = m]
      BY <2>2, <1>1, <1>2, <1>3, <1>6
    <3> QED BY <3>1, <1>4 DEF Kept
  <2> QED BY <2>1, <2>2
<1>7. t = u
  <2>1. \A q \in Producers : t[q] = u[q]
    BY <1>5, <1>6
  <2>2. /\ t \in [Producers -> {t[q] : q \in Producers}]
        /\ u \in [Producers -> {u[q] : q \in Producers}]
    BY <1>2, <1>3
  <2> QED BY <2>1, <2>2
<1> QED BY <1>7, <1>a, <1>b, <1>c, <1>d

\* Going nowhere is staying.
LEMMA AdvanceNone ==
  ASSUME NEW r, Reader(r), NEW p \in Producers
  PROVE  Advance(r, p, r[p].read, r[p].next, 0) = r
<1> DEFINE s == Advance(r, p, r[p].read, r[p].next, 0)
<1>1. r \in [Producers -> Kept] /\ (Ordered => \A q \in Producers : r[q].next = r[p].next)
  BY DEF Reader, Reads
<1>2. /\ s[p] = [r[p] EXCEPT !.read = r[p].read, !.next = r[p].next, !.messages = @ + 0]
      /\ \A q \in Producers \ {p} :
           s[q] = IF Ordered THEN [r[q] EXCEPT !.next = r[p].next] ELSE r[q]
      /\ s \in [Producers -> {s[q] : q \in Producers}]
  BY AdvanceParts
<1> HIDE DEF s
<1>3. \A q \in Producers : r[q] \in Kept /\ r[q].messages \in Nat
  BY <1>1, ReaderParts
<1>4. s[p] = r[p]
  <2>1. r[p].messages + 0 = r[p].messages
    BY <1>3
  <2>2. r[p] = [read |-> r[p].read, next |-> r[p].next, messages |-> r[p].messages,
                visible |-> r[p].visible, flushed |-> r[p].flushed]
    BY <1>3 DEF Kept
  <2>3. s[p] = [read |-> r[p].read, next |-> r[p].next, messages |-> r[p].messages + 0,
                visible |-> r[p].visible, flushed |-> r[p].flushed]
    BY <1>2, <1>3 DEF Kept
  <2> QED BY <2>1, <2>2, <2>3
<1>5. ASSUME NEW q \in Producers, q # p PROVE s[q] = r[q]
  <2>1. CASE Ordered
    <3>1. r[q].next = r[p].next /\ s[q] = [r[q] EXCEPT !.next = r[p].next]
      BY <2>1, <1>1, <1>2, <1>5
    <3> QED BY <3>1, <1>3 DEF Kept
  <2>2. CASE ~Ordered
    <3>1. s[q] = IF Ordered THEN [r[q] EXCEPT !.next = r[p].next] ELSE r[q]
      BY <1>2, <1>5
    <3> QED BY <2>2, <3>1
  <2> QED BY <2>1, <2>2
<1>6. s = r
  <2>1. \A q \in Producers : s[q] = r[q]
    BY <1>4, <1>5
  <2>2. s \in [Producers -> {s[q] : q \in Producers}] /\ r \in [Producers -> Kept]
    BY <1>1, <1>2
  <2> QED BY <2>1, <2>2
<1> QED BY <1>6 DEF s

\* f is the walk over headers h that begins at position x.
Walk(f, h, x) ==
  f = [j \in 0 .. Cap |-> IF j = 0 THEN x ELSE f[j - 1] + h[Unit(f[j - 1])].len]

\* Such a walk exists, whatever the headers say: otherwise there is a shortest
\* length no walk has, and the walk one shorter can be continued.
LEMMA WalkExists == \A h, x : \E f : Walk(f, h, x)
<1> TAKE h, x
<1> SUFFICES \E f : f = [j \in 0 .. Cap |->
                           IF j = 0 THEN x ELSE f[j - 1] + h[Unit(f[j - 1])].len]
  BY DEF Walk
<1> DEFINE Def(f, j) == IF j = 0 THEN x ELSE f[j - 1] + h[Unit(f[j - 1])].len
           Good(n) == \E f : f = [j \in 0 .. n |-> Def(f, j)]
           Bad == {n \in Nat : ~Good(n)}
<1>1. SUFFICES ASSUME Bad # {} PROVE FALSE
  BY ChannelAssumption
<1>2. PICK n \in Bad : \A l \in Bad : n <= l
  BY <1>1, LeastNatural
<1>3. n # 0
  <2>1. Good(0)
    <3> DEFINE f == [j \in 0 .. 0 |-> x]
    <3>1. f = [j \in 0 .. 0 |-> Def(f, j)]
      OBVIOUS
    <3> QED BY <3>1
  <2> QED BY <2>1, <1>2
<1>4. n - 1 \in Nat /\ Good(n - 1)
  BY <1>2, <1>3
<1>5. PICK f : f = [j \in 0 .. n - 1 |-> Def(f, j)]
  BY <1>4
<1> DEFINE g == [j \in 0 .. n |->
                   IF j < n THEN f[j] ELSE f[n - 1] + h[Unit(f[n - 1])].len]
<1>6. g = [j \in 0 .. n |-> Def(g, j)]
  <2>1. ASSUME NEW j \in 0 .. n PROVE g[j] = Def(g, j)
    <3>1. CASE j = 0
      <4>1. 0 \in 0 .. n - 1 /\ 0 < n
        BY <1>4
      <4>2. f[0] = x
        BY <4>1, <1>5
      <4> QED BY <3>1, <4>1, <4>2
    <3>2. CASE j # 0 /\ j < n
      <4>1. j \in 0 .. n - 1 /\ j - 1 \in 0 .. n /\ j - 1 < n
        BY <3>2, <1>4
      <4>2. g[j] = f[j] /\ g[j - 1] = f[j - 1]
        BY <4>1, <3>2
      <4>3. f[j] = Def(f, j)
        BY <4>1, <1>5
      <4> QED BY <4>2, <4>3
    <3>3. CASE j = n
      BY <3>3, <1>3, <1>4
    <3>4. j = 0 \/ (j # 0 /\ j < n) \/ j = n
      BY <1>4
    <3> HIDE DEF g
    <3> QED BY <3>1, <3>2, <3>3, <3>4
  <2> QED BY <2>1
<1> QED BY <1>6, <1>2

\* A run begins where the reader is and goes on by the lengths it finds.
LEMMA RunSteps ==
  ASSUME NEW k, NEW p
  PROVE  /\ RunPosition(k, p)[0] = rx[k][p].read
         /\ \A j \in 1 .. Cap : RunPosition(k, p)[j] =
              RunPosition(k, p)[j - 1] + header[p][Unit(RunPosition(k, p)[j - 1])].len
<1> DEFINE w == RunPosition(k, p)
<1>1. w = [j \in 0 .. Cap |->
             IF j = 0 THEN rx[k][p].read ELSE w[j - 1] + header[p][Unit(w[j - 1])].len]
  <2>1. \E f : Walk(f, header[p], rx[k][p].read)
    BY WalkExists
  <2> QED BY <2>1 DEF RunPosition, Walk
<1> HIDE DEF w
<1>2. \A j \in 0 .. Cap : w[j] =
        IF j = 0 THEN rx[k][p].read ELSE w[j - 1] + header[p][Unit(w[j - 1])].len
  BY <1>1
<1>3. 0 \in 0 .. Cap /\ \A j \in 1 .. Cap : j \in 0 .. Cap /\ j # 0
  BY ChannelAssumption
<1>4. w[0] = rx[k][p].read /\ \A j \in 1 .. Cap : w[j] =
        w[j - 1] + header[p][Unit(w[j - 1])].len
  BY <1>2, <1>3
<1> QED BY <1>4 DEF w

\* Every frame of a run can be read.
LEMMA RunReadable ==
  ASSUME NEW k, NEW p, NEW expired
  PROVE  /\ RunLength(k, p, expired) \in 0 .. Cap
         /\ \A j \in 0 .. RunLength(k, p, expired) - 1 :
              Readable(p, RunPosition(k, p)[j], rx[k][p].next + j, Bound(k, p))
<1> DEFINE S == {n \in 0 .. Cap : \A j \in 0 .. n - 1 :
                   /\ Readable(p, RunPosition(k, p)[j], rx[k][p].next + j, Bound(k, p))
                   /\ Cardinality((0 .. j - 1) \ expired) < MaxRun}
<1>1. RunLength(k, p, expired) = Max(S)
  BY DEF RunLength
<1>2. S \subseteq 0 .. Cap /\ 0 \in S /\ Cap \in Nat
  BY ChannelAssumption
<1>3. Max(S) \in S
  <2> HIDE DEF S
  <2> QED BY <1>2, MaxNatural
<1> QED BY <1>1, <1>3

\* A run is read frame by frame: each is the one wanted next.
LEMMA RunReads ==
  ASSUME DeliveryInv, NEW k \in Clients, Reader(rx[k]), NEW p \in Producers,
         NEW n, NEW r, r = Refreshed(k, n),
         NEW run \in 0 .. Cap,
         \A j \in 0 .. run - 1 :
           Readable(p, RunPosition(k, p)[j], rx[k][p].next + j, Bound(k, p))
  PROVE  /\ LET s == Advance(r, p, RunPosition(k, p)[run], rx[k][p].next + run, run)
            IN Reader(s) /\ Further(rx[k], s)
         /\ \A j \in 0 .. run - 1 :
              LET m == Message(p, RunPosition(k, p)[j], rx[k][p].next + j) IN
              /\ m \in Given /\ IsMessage(m, RingOf(p))
              /\ rx[k][p].read <= m.position
<1> DEFINE at == RunPosition(k, p)
           next == rx[k][p].next
           s(j) == Advance(r, p, at[j], next + j, j)
           Good(j) == Reader(s(j)) /\ Further(rx[k], s(j))
           Bad == {j \in 0 .. run : ~Good(j)}
<1>1. /\ Reader(r) /\ Further(rx[k], r) /\ r[p].read = rx[k][p].read /\ r[p].next = next
      /\ r \in [Producers -> Kept] /\ next \in Nat /\ rx[k][p].read \in Nat
      /\ rx[k] \in [Producers -> Kept]
  <2>1. Reader(r) /\ Further(rx[k], r) /\ r[p].read = rx[k][p].read /\ r[p].next = next
    BY RefreshedReads
  <2> QED BY <2>1, ReaderParts DEF Reader
<1>2. run \in Nat /\ run <= Cap /\ Cap \in Nat
  BY ChannelAssumption
<1>3. at[0] = rx[k][p].read /\ \A j \in 0 .. run - 1 :
        at[j + 1] = at[j] + header[p][Unit(at[j])].len
  <2>1. ASSUME NEW j \in 0 .. run - 1
        PROVE  at[j + 1] = at[j] + header[p][Unit(at[j])].len
    <3>1. j + 1 \in 1 .. Cap /\ (j + 1) - 1 = j
      BY <1>2
    <3>2. at[j + 1] = at[(j + 1) - 1] + header[p][Unit(at[(j + 1) - 1])].len
      BY <3>1, RunSteps
    <3> QED BY <3>1, <3>2
  <2> QED BY <2>1, RunSteps
<1> HIDE DEF at
<1>4. Good(0)
  <2>1. next + 0 = next
    BY <1>1
  <2>2. s(0) = r
    BY <2>1, <1>1, <1>3, AdvanceNone
  <2> QED BY <2>2, <1>1
<1>5. ASSUME NEW j \in 0 .. run - 1, Good(j)
      PROVE  /\ Good(j + 1)
             /\ Message(p, at[j], next + j) \in Given
             /\ IsMessage(Message(p, at[j], next + j), RingOf(p))
             /\ rx[k][p].read <= at[j]
  <2>1. s(j)[p].read = at[j] /\ s(j)[p].next = next + j
    <3>1. s(j)[p] = [r[p] EXCEPT !.read = at[j], !.next = next + j, !.messages = @ + j]
      BY DEF Advance
    <3>2. r[p] \in Kept
      BY <1>1
    <3> QED BY <3>1, <3>2 DEF Kept
  <2>2. Readable(p, s(j)[p].read, s(j)[p].next, Bound(k, p))
    BY <2>1 DEF at
  <2>3. PICK m : m = Message(p, s(j)[p].read, s(j)[p].next)
    OBVIOUS
  <2>4. Bound(k, p) \in Nat /\ Bound(k, p) <= visible[p]
    BY BoundVisible
  <2>5. PICK t : t = s(j)
    OBVIOUS
  <2>6. PICK u : u = Advance(t, p, m.next, t[p].next + 1, 1)
    OBVIOUS
  <2>7. /\ Reader(u) /\ Further(t, u) /\ m \in Given /\ IsMessage(m, RingOf(p))
    <3>1. Reader(t)
      BY <1>5, <2>5
    <3> HIDE DEF s
    <3> QED BY <3>1, <2>2, <2>3, <2>4, <2>5, <2>6, ReadFrame
  <2>8. m.next = at[j + 1] /\ m = Message(p, at[j], next + j)
    BY <2>1, <2>3, <1>3 DEF Message
  <2>9. u = s(j + 1)
    <3>1. j \in Nat /\ (next + j) + 1 = next + (j + 1)
      BY <1>1, <1>2
    <3>2. u = Advance(t, p, at[j + 1], next + (j + 1), 1)
      BY <2>1, <2>5, <2>6, <2>8, <3>1
    <3> QED BY <3>1, <3>2, <2>5, <1>1, AdvanceTwice
  <2>10. Good(j + 1)
    <3>1. Further(rx[k], t)
      BY <1>5, <2>5
    <3>2. t \in [Producers -> Kept] /\ u \in [Producers -> Kept]
      BY <1>5, <2>5, <2>7 DEF Reader
    <3>3. Further(rx[k], u)
      BY <3>1, <3>2, <1>1, <2>7, FurtherStill
    <3> QED BY <3>3, <2>7, <2>9
  <2>11. rx[k][p].read <= at[j]
    <3>1. Further(rx[k], s(j))
      BY <1>5
    <3> QED BY <3>1, <2>1 DEF Further
  <2> HIDE DEF Good
  <2> QED BY <2>7, <2>8, <2>10, <2>11
<1>6. Bad = {}
  <2>1. SUFFICES ASSUME Bad # {} PROVE FALSE
    OBVIOUS
  <2> HIDE DEF Good
  <2>2. Bad \subseteq Nat
    BY <1>2
  <2>3. PICK b \in Bad : \A l \in Bad : b <= l
    BY <2>1, <2>2, LeastNatural
  <2>4. b # 0 /\ b \in 0 .. run /\ ~Good(b)
    BY <2>3, <1>4
  <2>5. b - 1 \in 0 .. run - 1 /\ (b - 1) + 1 = b /\ b - 1 \in 0 .. run /\ ~(b <= b - 1)
    BY <2>4, <1>2
  <2>6. Good(b - 1)
    BY <2>3, <2>5
  <2>7. Good((b - 1) + 1)
    BY <2>5, <2>6, <1>5
  <2> QED BY <2>4, <2>5, <2>7
<1>7. Good(run)
  BY <1>2, <1>6
<1>8. ASSUME NEW j \in 0 .. run - 1
      PROVE  /\ Message(p, at[j], next + j) \in Given
             /\ IsMessage(Message(p, at[j], next + j), RingOf(p))
             /\ rx[k][p].read <= Message(p, at[j], next + j).position
  <2>1. Good(j)
    <3>1. j \in 0 .. run
      BY <1>2
    <3> HIDE DEF Good
    <3> QED BY <3>1, <1>6
  <2>2. Message(p, at[j], next + j).position = at[j]
    BY DEF Message
  <2> HIDE DEF Good
  <2> QED BY <2>1, <2>2, <1>5
<1> QED BY <1>7, <1>8 DEF at

-----------------------------------------------------------------------------
(* The steps of a receiver *)

\* k moves on without announcing it: the cursors stay behind.
LEMMA Unannounced ==
  ASSUME DeliveryInv, RegInv, NEW k \in LiveClients,
         kpc[k] \in Receiving, kpc'[k] \in Receiving,
         UNCHANGED <<ringVars, producerVars, slot, cursor, mine, token, alive>>,
         \A j \in Clients \ {k} : UNCHANGED <<kpc[j], rx[j], held[j]>>,
         RxTypes', NEW s, s = rx'[k], Reader(s), Further(rx[k], s),
         Holds(k)'
  PROVE  DeliveryInv'
<1>1. Reader(rx[k]) /\ Follows(k) /\ mine[k] \in Slots
  BY ClientReads
<1>2. ASSUME NEW q \in Producers
      PROVE  /\ cursor'[q][mine[k]].position = s[q].flushed /\ s[q].flushed <= s[q].read
             /\ cursor[q][mine[k]].position <= cursor'[q][mine[k]].position
             /\ cursor[q][mine[k]].messages <= cursor'[q][mine[k]].messages
             /\ cursor'[q][mine[k]].messages <= s[q].messages
  <2>1. /\ cursor[q][mine[k]].position = rx[k][q].flushed
        /\ rx[k][q].flushed <= rx[k][q].read
        /\ cursor[q][mine[k]].messages <= rx[k][q].messages
    BY <1>1 DEF Follows
  <2>2. /\ rx[k][q].read <= s[q].read /\ rx[k][q].messages <= s[q].messages
        /\ s[q].flushed = rx[k][q].flushed
    BY DEF Further
  <2>3. /\ rx[k][q].flushed \in Nat /\ rx[k][q].read \in Nat /\ rx[k][q].messages \in Nat
        /\ s[q].read \in Nat /\ s[q].messages \in Nat
    BY <1>1, ReaderParts DEF Reader
  <2>4. cursor[q][mine[k]].position \in Nat /\ cursor[q][mine[k]].messages \in Nat
    BY <1>1 DEF DeliveryInv, RxTypes, Cursors
  <2>5. cursor'[q][mine[k]] = cursor[q][mine[k]]
    OBVIOUS
  <2> QED BY <2>1, <2>2, <2>3, <2>4, <2>5
<1>3. \A q \in Producers, x \in Slots \ {mine[k]} : cursor'[q][x] = cursor[q][x]
  OBVIOUS
<1> QED BY <1>2, <1>3, ReceiveStep

\* k moves on to r and announces it.
LEMMA FlushStep ==
  ASSUME DeliveryInv, RegInv, NEW k \in LiveClients,
         kpc[k] \in Receiving, kpc'[k] = "open",
         UNCHANGED <<ringVars, producerVars, slot, last_hit, mine, token, alive>>,
         \A j \in Clients \ {k} : UNCHANGED <<kpc[j], held[j]>>,
         NEW r, Reader(r), Further(rx[k], r), Flush(k, r),
         held' \in [Clients -> SUBSET Given], held'[k] = {}
  PROVE  DeliveryInv'
<1>1. Reader(rx[k]) /\ Follows(k) /\ mine[k] \in Slots /\ k \in Clients
  BY ClientReads DEF LiveClients
<1>2. /\ cursor \in [Producers -> [Slots -> Cursors]]
      /\ rx \in [Clients -> [Producers -> Kept]]
      /\ r \in [Producers -> Kept] /\ rx[k] \in [Producers -> Kept]
  BY <1>1 DEF DeliveryInv, RxTypes, Reader
<1>3. PICK s : s = [q \in Producers |-> [r[q] EXCEPT !.flushed = r[q].read]]
  OBVIOUS
<1>4. /\ rx' = [rx EXCEPT ![k] = s]
      /\ cursor' = [q \in Producers |-> IF r[q].read = r[q].flushed THEN cursor[q]
           ELSE [cursor[q] EXCEPT ![mine[k]] = Published(k, r, q)]]
  BY <1>3 DEF Flush
<1>5. ASSUME NEW q \in Producers
      PROVE  /\ s[q] \in Kept /\ s[q].read = r[q].read /\ s[q].next = r[q].next
             /\ s[q].messages = r[q].messages /\ s[q].visible = r[q].visible
             /\ s[q].flushed = r[q].read
  <2>1. r[q] \in Kept /\ r[q].read \in Nat /\ s[q] = [r[q] EXCEPT !.flushed = r[q].read]
    BY <1>2, <1>3, ReaderParts
  <2> QED BY <2>1 DEF Kept
<1>6. s \in [Producers -> Kept]
  <2>1. s \in [Producers -> {s[q] : q \in Producers}]
    BY <1>3
  <2> QED BY <2>1, <1>5
<1>7. Reader(s)
  <2>1. \A q \in Producers : ReadsAt(s[q], RingOf(q))
    BY <1>5 DEF Reader, Reads, ReadsAt
  <2>2. Ordered => \A p, q \in Producers : s[p].next = s[q].next
    BY <1>5 DEF Reader, Reads
  <2>3. \A q \in Producers : producer_pos[q] <= s[q].read + Cap
    BY <1>5 DEF Reader
  <2> QED BY <2>1, <2>2, <2>3, <1>6 DEF Reader, Reads
<1>8. ASSUME NEW q \in Producers
      PROVE  Published(k, r, q) \in Cursors
             /\ Published(k, r, q).position = r[q].read
             /\ Published(k, r, q).messages = r[q].messages
  <2>1. cursor[q][mine[k]] \in Cursors
    BY <1>1, <1>2
  <2>2. r[q].read \in Nat /\ r[q].next \in Nat /\ r[q].messages \in Nat
    BY <1>2, ReaderParts
  <2> QED BY <2>1, <2>2 DEF Published, Cursors
<1>9. ASSUME NEW q \in Producers
      PROVE  /\ cursor'[q] \in [Slots -> Cursors]
             /\ \A x \in Slots \ {mine[k]} : cursor'[q][x] = cursor[q][x]
             /\ cursor'[q][mine[k]] =
                  IF r[q].read = r[q].flushed THEN cursor[q][mine[k]]
                  ELSE Published(k, r, q)
  <2>1. cursor'[q] = IF r[q].read = r[q].flushed THEN cursor[q]
                     ELSE [cursor[q] EXCEPT ![mine[k]] = Published(k, r, q)]
    BY <1>4
  <2>2. cursor[q] \in [Slots -> Cursors]
    BY <1>2
  <2> QED BY <2>1, <2>2, <1>1, <1>8
<1>10. RxTypes'
  <2>1. cursor' \in [Producers -> [Slots -> Cursors]]
    <3>1. cursor' \in [Producers -> {cursor'[q] : q \in Producers}]
      BY <1>4
    <3> QED BY <3>1, <1>9
  <2>2. rx' \in [Clients -> [Producers -> Kept]]
    BY <1>2, <1>4, <1>6
  <2>3. last_hit' \in [Clients -> Producers]
    BY DEF DeliveryInv, RxTypes
  <2> QED BY <2>1, <2>2, <2>3 DEF RxTypes
<1>11. ASSUME NEW q \in Producers
       PROVE  /\ cursor'[q][mine[k]].position = s[q].flushed /\ s[q].flushed <= s[q].read
              /\ cursor[q][mine[k]].position <= cursor'[q][mine[k]].position
              /\ cursor[q][mine[k]].messages <= cursor'[q][mine[k]].messages
              /\ cursor'[q][mine[k]].messages <= s[q].messages
  <2>1. PICK c \in Cursors : c = cursor[q][mine[k]]
    BY <1>1, <1>2
  <2>2. PICK d : d = cursor'[q][mine[k]]
    OBVIOUS
  <2>3. /\ c.position = rx[k][q].flushed /\ rx[k][q].flushed <= rx[k][q].read
        /\ c.messages <= rx[k][q].messages
    BY <2>1, <1>1 DEF Follows
  <2>4. /\ rx[k][q].read <= r[q].read /\ rx[k][q].messages <= r[q].messages
        /\ r[q].flushed = rx[k][q].flushed
    BY DEF Further
  <2>5. /\ rx[k][q].flushed \in Nat /\ rx[k][q].read \in Nat /\ rx[k][q].messages \in Nat
        /\ r[q].read \in Nat /\ r[q].messages \in Nat /\ r[q].flushed \in Nat
        /\ c.position \in Nat /\ c.messages \in Nat
    BY <1>2, <2>1, ReaderParts DEF Cursors
  <2>6. CASE r[q].read = r[q].flushed
    <3>1. d = c
      BY <2>6, <2>1, <2>2, <1>9
    <3> QED BY <3>1, <2>1, <2>2, <2>3, <2>4, <2>5, <2>6, <1>5
  <2>7. CASE r[q].read # r[q].flushed
    <3>1. d.position = r[q].read /\ d.messages = r[q].messages
      BY <2>7, <2>2, <1>8, <1>9
    <3> QED BY <3>1, <2>1, <2>2, <2>3, <2>4, <2>5, <1>5
  <2> QED BY <2>6, <2>7
<1>12. Holds(k)'
  BY DEF Holds
<1>13. kpc'[k] \in Receiving
  BY DEF Receiving
<1>14. \A j \in Clients \ {k} : UNCHANGED <<kpc[j], rx[j], held[j]>>
  BY <1>2, <1>4
<1>15. s = rx'[k]
  BY <1>1, <1>2, <1>4
<1>16. \A q \in Producers, x \in Slots \ {mine[k]} : cursor'[q][x] = cursor[q][x]
  BY <1>9
<1> QED BY <1>7, <1>10, <1>11, <1>12, <1>13, <1>14, <1>15, <1>16, ReceiveStep

\* A receiver's step begins with a live client that reads.
LEMMA ReceiverIs ==
  ASSUME DeliveryInv, RegInv, NEW k \in Clients, alive[k], kpc[k] \in Receiving
  PROVE  /\ k \in LiveClients /\ Reader(rx[k]) /\ Follows(k) /\ Holds(k)
         /\ mine[k] \in Slots
         /\ kpc \in [Clients -> {"out", "joined"} \cup Gated \cup Receiving]
         /\ cursor \in [Producers -> [Slots -> Cursors]]
         /\ rx \in [Clients -> [Producers -> Kept]]
         /\ last_hit \in [Clients -> Producers]
         /\ held \in [Clients -> SUBSET Given]
<1>1. k \in LiveClients
  BY DEF LiveClients
<1> QED BY <1>1, ClientReads DEF RegInv, RegTypes, DeliveryInv, RxTypes

\* try_recv() finds nothing.
LEMMA TryRecvEmptyInd ==
  ASSUME DeliveryInv, RegInv, NEW k \in Clients, TryRecvEmpty(k)
  PROVE  DeliveryInv'
<1>1. /\ alive[k] /\ kpc[k] \in {"open", "skipping"} /\ kpc' = [kpc EXCEPT ![k] = "open"]
      /\ Flush(k, Refreshed(k, ProducerCount))
      /\ UNCHANGED <<ringVars, producerVars, slot, last_hit, held, mine, token, alive>>
  BY DEF TryRecvEmpty, Step
<1>2. kpc[k] \in Receiving /\ kpc[k] \notin {"holding", "polling"}
  BY <1>1 DEF Receiving
<1>3. /\ k \in LiveClients /\ Reader(rx[k]) /\ Holds(k)
      /\ kpc \in [Clients -> {"out", "joined"} \cup Gated \cup Receiving]
      /\ held \in [Clients -> SUBSET Given]
  BY <1>1, <1>2, ReceiverIs
<1>4. held[k] = {}
  BY <1>2, <1>3 DEF Holds
<1>5. PICK r : r = Refreshed(k, ProducerCount)
  OBVIOUS
<1>6. Reader(r) /\ Further(rx[k], r)
  BY <1>3, <1>5, RefreshedReads
<1>7. kpc'[k] = "open" /\ \A j \in Clients \ {k} : UNCHANGED <<kpc[j], held[j]>>
  BY <1>1, <1>3
<1> QED BY <1>1, <1>2, <1>3, <1>4, <1>5, <1>6, <1>7, FlushStep

\* The callbacks of a poll() are done.
LEMMA FlushProgressInd ==
  ASSUME DeliveryInv, RegInv, NEW k \in Clients, FlushProgress(k)
  PROVE  DeliveryInv'
<1>1. /\ alive[k] /\ kpc[k] = "polling" /\ kpc' = [kpc EXCEPT ![k] = "open"]
      /\ Flush(k, rx[k]) /\ held' = [held EXCEPT ![k] = {}]
      /\ UNCHANGED <<ringVars, producerVars, slot, last_hit, mine, token, alive>>
  BY DEF FlushProgress, Step
<1>2. kpc[k] \in Receiving
  BY <1>1 DEF Receiving
<1>3. /\ k \in LiveClients /\ Reader(rx[k])
      /\ kpc \in [Clients -> {"out", "joined"} \cup Gated \cup Receiving]
      /\ held \in [Clients -> SUBSET Given] /\ rx[k] \in [Producers -> Kept]
  BY <1>1, <1>2, ReceiverIs
<1>4. Further(rx[k], rx[k])
  <2>1. \A q \in Producers : rx[k][q].read \in Nat /\ rx[k][q].messages \in Nat
    BY <1>3, ReaderParts
  <2> QED BY <2>1 DEF Further
<1>5. /\ kpc'[k] = "open" /\ held'[k] = {} /\ held' \in [Clients -> SUBSET Given]
      /\ \A j \in Clients \ {k} : UNCHANGED <<kpc[j], held[j]>>
  BY <1>1, <1>3
<1>6. PICK r : r = rx[k]
  OBVIOUS
<1>7. Reader(r) /\ Further(rx[k], r) /\ Flush(k, r)
  BY <1>1, <1>3, <1>4, <1>6
<1> QED BY <1>1, <1>2, <1>3, <1>5, <1>7, FlushStep

\* The first message found has expired.
LEMMA SkipExpiredInd ==
  ASSUME DeliveryInv, RegInv, NEW k \in Clients, SkipExpired(k)
  PROVE  DeliveryInv'
<1>1. PICK i : i = Min(Hits(k))
  OBVIOUS
<1>2. PICK p : p = Ring(k, i)
  OBVIOUS
<1>3. PICK m : m = Message(p, rx[k][p].read, rx[k][p].next)
  OBVIOUS
<1>4. PICK r : r = Refreshed(k, i + 1)
  OBVIOUS
<1>5. PICK s : s = Advance(r, p, m.next, m.sequence + 1, 1)
  OBVIOUS
<1>6. /\ alive[k] /\ kpc[k] = "open" /\ kpc' = [kpc EXCEPT ![k] = "open"]
      /\ Hits(k) # {} /\ Flush(k, s)
      /\ UNCHANGED <<ringVars, producerVars, slot, last_hit, held, mine, token, alive>>
  BY <1>1, <1>2, <1>3, <1>4, <1>5 DEF SkipExpired, Step
<1>7. kpc[k] \in Receiving /\ kpc[k] \notin {"holding", "polling"}
  BY <1>6 DEF Receiving
<1>8. /\ k \in LiveClients /\ Reader(rx[k]) /\ Holds(k)
      /\ kpc \in [Clients -> {"out", "joined"} \cup Gated \cup Receiving]
      /\ held \in [Clients -> SUBSET Given] /\ rx[k] \in [Producers -> Kept]
  BY <1>6, <1>7, ReceiverIs
<1>9. held[k] = {}
  BY <1>7, <1>8 DEF Holds
<1>10. /\ p \in Producers /\ Readable(p, rx[k][p].read, rx[k][p].next, Bound(k, p))
  BY <1>1, <1>2, <1>6, FirstHit DEF DeliveryInv
<1>11. /\ Reader(r) /\ Further(rx[k], r)
       /\ r[p].read = rx[k][p].read /\ r[p].next = rx[k][p].next
  BY <1>4, <1>8, <1>10, RefreshedReads
<1>12. Bound(k, p) \in Nat /\ Bound(k, p) <= visible[p]
  BY <1>8, <1>10, BoundVisible
<1>13. m.sequence = r[p].next /\ m = Message(p, r[p].read, r[p].next)
       /\ Readable(p, r[p].read, r[p].next, Bound(k, p))
  BY <1>3, <1>10, <1>11 DEF Message
<1>14. PICK b : b = Bound(k, p)
  OBVIOUS
<1>15. Reader(s) /\ Further(r, s)
  <2>1. s = Advance(r, p, m.next, r[p].next + 1, 1)
    BY <1>5, <1>13
  <2>2. Readable(p, r[p].read, r[p].next, b) /\ b \in Nat /\ b <= visible[p]
    BY <1>12, <1>13, <1>14
  <2> QED BY <2>1, <2>2, <1>10, <1>11, <1>13, ReadFrame
<1>16. Further(rx[k], s)
  BY <1>8, <1>11, <1>15, FurtherStill DEF Reader
<1>17. kpc'[k] = "open" /\ \A j \in Clients \ {k} : UNCHANGED <<kpc[j], held[j]>>
  BY <1>6, <1>8
<1> QED BY <1>6, <1>7, <1>8, <1>9, <1>15, <1>16, <1>17, FlushStep

\* try_recv() gives a message, and stays before it.
LEMMA TryRecvInd ==
  ASSUME DeliveryInv, RegInv, NEW k \in Clients, TryRecv(k)
  PROVE  DeliveryInv'
<1>1. PICK i : i = Min(Hits(k))
  OBVIOUS
<1>2. PICK p : p = Ring(k, i)
  OBVIOUS
<1>3. PICK m : m = Message(p, rx[k][p].read, rx[k][p].next)
  OBVIOUS
<1>4. PICK s : s = Refreshed(k, i + 1)
  OBVIOUS
<1>5. /\ alive[k] /\ kpc[k] = "open" /\ kpc' = [kpc EXCEPT ![k] = "holding"]
      /\ Hits(k) # {} /\ held' = [held EXCEPT ![k] = {m}] /\ rx' = [rx EXCEPT ![k] = s]
      /\ last_hit' = [last_hit EXCEPT ![k] = (p + 1) % ProducerCount]
      /\ UNCHANGED <<ringVars, producerVars, slot, cursor, mine, token, alive>>
  BY <1>1, <1>2, <1>3, <1>4 DEF TryRecv, Step
<1>6. kpc[k] \in Receiving
  BY <1>5 DEF Receiving
<1>7. /\ k \in LiveClients /\ Reader(rx[k]) /\ Follows(k)
      /\ kpc \in [Clients -> {"out", "joined"} \cup Gated \cup Receiving]
      /\ rx \in [Clients -> [Producers -> Kept]] /\ last_hit \in [Clients -> Producers]
      /\ held \in [Clients -> SUBSET Given] /\ rx[k] \in [Producers -> Kept]
  BY <1>5, <1>6, ReceiverIs
<1>8. /\ p \in Producers /\ (p + 1) % ProducerCount \in Producers
      /\ Readable(p, rx[k][p].read, rx[k][p].next, Bound(k, p))
  BY <1>1, <1>2, <1>5, FirstHit DEF DeliveryInv
<1>9. /\ Reader(s) /\ Further(rx[k], s) /\ s \in [Producers -> Kept]
      /\ s[p].read = rx[k][p].read /\ s[p].next = rx[k][p].next
  <2>1. /\ Reader(s) /\ Further(rx[k], s)
        /\ s[p].read = rx[k][p].read /\ s[p].next = rx[k][p].next
    BY <1>4, <1>7, <1>8, RefreshedReads
  <2> QED BY <2>1 DEF Reader
<1>10. m \in Given /\ IsMessage(m, RingOf(p))
  <2>1. PICK b : b = Bound(k, p)
    OBVIOUS
  <2>2. b \in Nat /\ b <= visible[p] /\ Readable(p, rx[k][p].read, rx[k][p].next, b)
    BY <2>1, <1>7, <1>8, BoundVisible
  <2>3. PICK r : r = rx[k]
    OBVIOUS
  <2>4. /\ Reader(r) /\ Readable(p, r[p].read, r[p].next, b)
        /\ m = Message(p, r[p].read, r[p].next)
    BY <2>2, <2>3, <1>3, <1>7
  <2> QED BY <2>2, <2>4, <1>8, ReadFrame
<1>11. m.producer = p /\ m.position = rx[k][p].read /\ m.sequence = rx[k][p].next
  BY <1>3 DEF Message
<1>12. RxTypes'
  <2>1. rx' \in [Clients -> [Producers -> Kept]]
    BY <1>5, <1>7, <1>9
  <2>2. last_hit' \in [Clients -> Producers]
    BY <1>5, <1>7, <1>8
  <2>3. held' \in [Clients -> SUBSET Given]
    BY <1>5, <1>7, <1>10
  <2> QED BY <2>1, <2>2, <2>3, <1>5 DEF DeliveryInv, RxTypes
<1>13. kpc'[k] = "holding" /\ rx'[k] = s /\ held'[k] = {m} /\ kpc'[k] \in Receiving
       /\ \A j \in Clients \ {k} : UNCHANGED <<kpc[j], rx[j], held[j]>>
  <2>1. kpc'[k] = "holding"
    BY <1>5, <1>7
  <2> QED BY <2>1, <1>5, <1>7 DEF Receiving
<1>14. Holds(k)'
  <2>1. RingOf(p)' = RingOf(p)
    BY <1>5 DEF RingOf, Taken, ringVars, producerVars
  <2>2. cursor[p][mine[k]].position <= m.position
    <3>1. cursor[p][mine[k]].position = rx[k][p].flushed
          /\ rx[k][p].flushed <= rx[k][p].read
      BY <1>7, <1>6, <1>8 DEF Follows
    <3> QED BY <3>1, <1>11
  <2>3. /\ IsMessage(m, RingOf(m.producer)')
        /\ cursor'[m.producer][mine'[k]].position <= m.position
    BY <2>1, <2>2, <1>5, <1>10, <1>11
  <2>4. m.position = rx'[k][m.producer].read /\ m.sequence = rx'[k][m.producer].next
    BY <1>9, <1>11, <1>13
  <2> QED BY <2>3, <2>4, <1>13 DEF Holds
<1> QED BY <1>5, <1>6, <1>7, <1>9, <1>12, <1>13, <1>14, Unannounced

\* release() goes past the message that was given, and announces it.
LEMMA ReleaseInd ==
  ASSUME DeliveryInv, RegInv, NEW k \in Clients, Release(k)
  PROVE  DeliveryInv'
<1>1. /\ alive[k] /\ kpc[k] = "holding" /\ kpc' = [kpc EXCEPT ![k] = "open"]
      /\ held' = [held EXCEPT ![k] = {}]
      /\ UNCHANGED <<ringVars, producerVars, slot, last_hit, mine, token, alive>>
  BY DEF Release, Step
<1>2. PICK m \in held[k] :
        LET r == Advance(rx[k], m.producer, m.next, m.sequence + 1, 1) IN
        /\ rx' = [rx EXCEPT ![k] = [r EXCEPT ![m.producer].flushed = m.next]]
        /\ cursor' = [cursor EXCEPT ![m.producer][mine[k]] = Published(k, r, m.producer)]
  BY DEF Release
<1>3. kpc[k] \in Receiving
  BY <1>1 DEF Receiving
<1>4. /\ k \in LiveClients /\ Reader(rx[k]) /\ Follows(k) /\ Holds(k) /\ mine[k] \in Slots
      /\ kpc \in [Clients -> {"out", "joined"} \cup Gated \cup Receiving]
      /\ cursor \in [Producers -> [Slots -> Cursors]]
      /\ rx \in [Clients -> [Producers -> Kept]]
      /\ held \in [Clients -> SUBSET Given] /\ rx[k] \in [Producers -> Kept]
  BY <1>1, <1>3, ReceiverIs
<1>5. PICK p \in Producers : p = m.producer
  BY <1>4 DEF Given
<1>6. /\ IsMessage(m, RingOf(p)) /\ m.position = rx[k][p].read
      /\ m.sequence = rx[k][p].next
  BY <1>1, <1>4, <1>5 DEF Holds
<1>7. PICK r : r = Advance(rx[k], p, m.next, rx[k][p].next + 1, 1)
  OBVIOUS
<1>8. PICK s : s = [r EXCEPT ![p].flushed = m.next]
  OBVIOUS
<1>9. /\ rx' = [rx EXCEPT ![k] = s]
      /\ cursor' = [cursor EXCEPT ![p][mine[k]] = Published(k, r, p)]
  BY <1>2, <1>5, <1>6, <1>7, <1>8
<1>10. Reader(r) /\ Further(rx[k], r) /\ r \in [Producers -> Kept] /\ m.next \in Nat
  <2>1. PICK i \in DOMAIN claims[p] : \E j \in 0 .. claims[p][i].count - 1 :
          /\ m.position = At(claims[p][i], j) /\ m.sequence = Number(claims[p][i], j)
          /\ m.next = m.position + claims[p][i].len /\ m.next <= visible[p]
    <3>1. PICK g : g = RingOf(p)
      OBVIOUS
    <3>2. PICK i \in DOMAIN g.claims : \E j \in 0 .. g.claims[i].count - 1 :
            /\ m.position = At(g.claims[i], j) /\ m.sequence = Number(g.claims[i], j)
            /\ m.next = m.position + g.claims[i].len /\ m.next <= g.visible
      BY <1>6, <3>1 DEF IsMessage
    <3>3. g.claims = claims[p] /\ g.visible = visible[p]
      BY <3>1, RingParts
    <3> QED BY <3>2, <3>3, Zenon
  <2>2. PICK j \in 0 .. claims[p][i].count - 1 :
          /\ m.position = At(claims[p][i], j) /\ m.sequence = Number(claims[p][i], j)
          /\ m.next = m.position + claims[p][i].len /\ m.next <= visible[p]
    BY <2>1
  <2>3. PICK t : t = rx[k]
    OBVIOUS
  <2>4. /\ At(claims[p][i], j) = t[p].read /\ Number(claims[p][i], j) = t[p].next
        /\ m.next = t[p].read + claims[p][i].len /\ m.next <= visible[p]
        /\ Reader(t) /\ r = Advance(t, p, m.next, t[p].next + 1, 1)
    BY <2>2, <2>3, <1>4, <1>6, <1>7
  <2>5. /\ t[p].read + claims[p][i].len <= visible[p]
        /\ r = Advance(t, p, t[p].read + claims[p][i].len, t[p].next + 1, 1)
    BY <2>4, Zenon
  <2>6. Reader(r) /\ Further(t, r)
    BY <2>4, <2>5, PassFrame
  <2>7. m.next \in Nat
    BY <1>4 DEF Given
  <2> QED BY <2>3, <2>6, <2>7 DEF Reader
<1>11. /\ r[p].read = m.next /\ r[p] \in Kept
       /\ r[p].messages \in Nat /\ r[p].next \in Nat
  <2>1. r[p] = [rx[k][p] EXCEPT !.read = m.next, !.next = rx[k][p].next + 1,
                                !.messages = @ + 1]
    BY <1>7 DEF Advance
  <2>2. rx[k][p] \in Kept
    BY <1>4
  <2>3. r[p].read = m.next
    BY <2>1, <2>2 DEF Kept
  <2> QED BY <2>3, <1>10, ReaderParts
<1>12. /\ s[p] \in Kept /\ s[p].read = m.next /\ s[p].next = r[p].next
       /\ s[p].messages = r[p].messages /\ s[p].visible = r[p].visible
       /\ s[p].flushed = m.next
       /\ \A q \in Producers \ {p} : s[q] = r[q]
  <2>1. s[p] = [r[p] EXCEPT !.flushed = m.next] /\ \A q \in Producers \ {p} : s[q] = r[q]
    BY <1>8, <1>10
  <2> QED BY <2>1, <1>10, <1>11 DEF Kept
<1>13. s \in [Producers -> Kept]
  <2>1. s \in [Producers -> {s[q] : q \in Producers}]
    BY <1>8, <1>10
  <2>2. \A q \in Producers : s[q] \in Kept
    BY <1>10, <1>12
  <2> QED BY <2>1, <2>2
<1>14. Reader(s)
  <2>1. \A q \in Producers : /\ s[q].read = r[q].read /\ s[q].next = r[q].next
                             /\ s[q].messages = r[q].messages
                             /\ s[q].visible = r[q].visible
    BY <1>11, <1>12
  <2>2. \A q \in Producers : ReadsAt(s[q], RingOf(q))
    BY <2>1, <1>10 DEF Reader, Reads, ReadsAt
  <2> QED BY <2>1, <2>2, <1>10, <1>13 DEF Reader, Reads
<1>15. PICK d : d = Published(k, r, p)
  OBVIOUS
<1>16. d \in Cursors /\ d.position = m.next /\ d.messages = r[p].messages
  <2>1. cursor[p][mine[k]] \in Cursors
    BY <1>4
  <2> QED BY <2>1, <1>10, <1>11, <1>15 DEF Published, Cursors
<1>17. /\ \A q \in Producers, x \in Slots \ {mine[k]} : cursor'[q][x] = cursor[q][x]
       /\ cursor'[p][mine[k]] = d
       /\ \A q \in Producers \ {p} : cursor'[q] = cursor[q]
       /\ cursor' \in [Producers -> [Slots -> Cursors]]
  <2>1. cursor' = [cursor EXCEPT ![p] = [cursor[p] EXCEPT ![mine[k]] = d]]
    BY <1>4, <1>9, <1>15
  <2>2. [cursor[p] EXCEPT ![mine[k]] = d] \in [Slots -> Cursors]
    BY <1>4, <1>16
  <2>3. cursor'[p] = [cursor[p] EXCEPT ![mine[k]] = d]
        /\ \A q \in Producers \ {p} : cursor'[q] = cursor[q]
    BY <2>1, <1>4
  <2>4. cursor' \in [Producers -> [Slots -> Cursors]]
    BY <2>1, <2>2, <1>4
  <2>5. cursor[p] \in [Slots -> Cursors]
    BY <1>4
  <2>6. cursor'[p][mine[k]] = d /\ \A x \in Slots \ {mine[k]} : cursor'[p][x] = cursor[p][x]
    BY <2>3, <2>5, <1>4
  <2> QED BY <2>3, <2>4, <2>6
<1>18. RxTypes'
  <2>1. rx' \in [Clients -> [Producers -> Kept]]
    BY <1>4, <1>9, <1>13
  <2>2. held' \in [Clients -> SUBSET Given]
    BY <1>1, <1>4
  <2>3. last_hit' \in [Clients -> Producers]
    BY <1>1 DEF DeliveryInv, RxTypes
  <2> QED BY <2>1, <2>2, <2>3, <1>17 DEF RxTypes
<1>19. ASSUME NEW q \in Producers
       PROVE  /\ cursor'[q][mine[k]].position = s[q].flushed /\ s[q].flushed <= s[q].read
              /\ cursor[q][mine[k]].position <= cursor'[q][mine[k]].position
              /\ cursor[q][mine[k]].messages <= cursor'[q][mine[k]].messages
              /\ cursor'[q][mine[k]].messages <= s[q].messages
  <2>1. /\ cursor[q][mine[k]].position = rx[k][q].flushed
        /\ rx[k][q].flushed <= rx[k][q].read
        /\ cursor[q][mine[k]].messages <= rx[k][q].messages
    BY <1>3, <1>4 DEF Follows
  <2>2. /\ rx[k][q].read <= r[q].read /\ rx[k][q].messages <= r[q].messages
        /\ r[q].flushed = rx[k][q].flushed
    BY <1>10 DEF Further
  <2>3. /\ rx[k][q].flushed \in Nat /\ rx[k][q].read \in Nat /\ rx[k][q].messages \in Nat
        /\ r[q].read \in Nat /\ r[q].messages \in Nat /\ r[q].flushed \in Nat
    BY <1>4, <1>10, ReaderParts
  <2>4. cursor[q][mine[k]].position \in Nat /\ cursor[q][mine[k]].messages \in Nat
    <3>1. cursor[q][mine[k]] \in Cursors
      BY <1>4
    <3> QED BY <3>1 DEF Cursors
  <2>5. CASE q = p
    <3>1. cursor'[q][mine[k]].position = m.next /\ cursor'[q][mine[k]].messages = r[q].messages
          /\ s[q].flushed = m.next /\ s[q].read = m.next /\ r[q].read = m.next
          /\ s[q].messages = r[q].messages
      BY <2>5, <1>11, <1>12, <1>16, <1>17
    <3> QED BY <3>1, <2>1, <2>2, <2>3, <2>4
  <2>6. CASE q # p
    <3>1. cursor'[q] = cursor[q] /\ s[q] = r[q]
      BY <2>6, <1>12, <1>17
    <3> QED BY <3>1, <2>1, <2>2, <2>3, <2>4
  <2> QED BY <2>5, <2>6
<1>20. /\ kpc'[k] = "open" /\ held'[k] = {} /\ s = rx'[k]
       /\ \A j \in Clients \ {k} : UNCHANGED <<kpc[j], rx[j], held[j]>>
  BY <1>1, <1>4, <1>9
<1>21. kpc'[k] \in Receiving
  BY <1>20 DEF Receiving
<1>22. Holds(k)'
  BY <1>20 DEF Holds
<1>23. \A q \in Producers, x \in Slots \ {mine[k]} : cursor'[q][x] = cursor[q][x]
  BY <1>17
<1>24. UNCHANGED <<ringVars, producerVars, slot, mine, token, alive>>
  BY <1>1
<1> QED BY <1>3, <1>4, <1>14, <1>18, <1>19, <1>20, <1>21, <1>22, <1>23, <1>24, ReceiveStep

\* poll() takes a run, without those expired, and moves on past all of it.
LEMMA TryRecvRunInd ==
  ASSUME DeliveryInv, RegInv, NEW k \in Clients, NEW expired, TryRecvRun(k, expired)
  PROVE  DeliveryInv'
<1>1. PICK i : i = Min(Hits(k))
  OBVIOUS
<1>2. PICK p : p = Ring(k, i)
  OBVIOUS
<1>3. PICK run : run = RunLength(k, p, expired)
  OBVIOUS
<1>4. PICK at : at = RunPosition(k, p)
  OBVIOUS
<1>5. PICK r : r = Refreshed(k, i + 1)
  OBVIOUS
<1>6. PICK s : s = Advance(r, p, at[run], rx[k][p].next + run, run)
  OBVIOUS
<1>7. PICK given : given = {Message(p, at[j], rx[k][p].next + j) :
                              j \in (0 .. run - 1) \ expired}
  OBVIOUS
<1>8. /\ alive[k] /\ kpc[k] \in {"open", "skipping"} /\ kpc' = [kpc EXCEPT ![k] = "polling"]
      /\ Hits(k) # {} /\ held' = [held EXCEPT ![k] = given] /\ rx' = [rx EXCEPT ![k] = s]
      /\ last_hit' = [last_hit EXCEPT ![k] = (p + 1) % ProducerCount]
      /\ UNCHANGED <<ringVars, producerVars, slot, cursor, mine, token, alive>>
  BY <1>1, <1>2, <1>3, <1>4, <1>5, <1>6, <1>7 DEF TryRecvRun, Step
<1>9. kpc[k] \in Receiving
  BY <1>8 DEF Receiving
<1>10. /\ k \in LiveClients /\ Reader(rx[k]) /\ Follows(k)
       /\ kpc \in [Clients -> {"out", "joined"} \cup Gated \cup Receiving]
       /\ rx \in [Clients -> [Producers -> Kept]] /\ last_hit \in [Clients -> Producers]
       /\ held \in [Clients -> SUBSET Given] /\ rx[k] \in [Producers -> Kept]
       /\ mine[k] \in Slots /\ cursor \in [Producers -> [Slots -> Cursors]]
  BY <1>8, <1>9, ReceiverIs
<1>11. p \in Producers /\ (p + 1) % ProducerCount \in Producers
  BY <1>1, <1>2, <1>8, FirstHit DEF DeliveryInv
<1>12. /\ run \in 0 .. Cap
       /\ \A j \in 0 .. run - 1 :
            Readable(p, RunPosition(k, p)[j], rx[k][p].next + j, Bound(k, p))
  BY <1>3, RunReadable
<1>13. /\ Reader(s) /\ Further(rx[k], s)
       /\ \A j \in 0 .. run - 1 :
            LET m == Message(p, at[j], rx[k][p].next + j) IN
            m \in Given /\ IsMessage(m, RingOf(p)) /\ rx[k][p].read <= m.position
  BY <1>4, <1>5, <1>6, <1>10, <1>11, <1>12, RunReads
<1>14. ASSUME NEW m \in given
       PROVE  /\ m \in Given /\ m.producer = p /\ IsMessage(m, RingOf(p))
              /\ rx[k][p].read <= m.position
  <2>1. PICK j \in (0 .. run - 1) \ expired : m = Message(p, at[j], rx[k][p].next + j)
    BY <1>7
  <2>2. m.producer = p
    BY <2>1 DEF Message
  <2> QED BY <2>1, <2>2, <1>13
<1>15. RxTypes'
  <2>1. s \in [Producers -> Kept]
    BY <1>13 DEF Reader
  <2>2. rx' \in [Clients -> [Producers -> Kept]]
    BY <2>1, <1>8, <1>10
  <2>3. last_hit' \in [Clients -> Producers]
    BY <1>8, <1>10, <1>11
  <2>4. given \in SUBSET Given
    BY <1>14
  <2>5. held' \in [Clients -> SUBSET Given]
    BY <2>4, <1>8, <1>10
  <2> QED BY <2>2, <2>3, <2>5, <1>8 DEF DeliveryInv, RxTypes
<1>16. kpc'[k] = "polling" /\ rx'[k] = s /\ held'[k] = given
       /\ \A j \in Clients \ {k} : UNCHANGED <<kpc[j], rx[j], held[j]>>
  BY <1>8, <1>10
<1>17. kpc'[k] \in Receiving
  BY <1>16 DEF Receiving
<1>18. Holds(k)'
  <2>1. RingOf(p)' = RingOf(p)
    BY <1>8 DEF RingOf, Taken, ringVars, producerVars
  <2>2. ASSUME NEW m \in given
        PROVE  /\ IsMessage(m, RingOf(m.producer)')
               /\ cursor'[m.producer][mine'[k]].position <= m.position
    <3>1. cursor[p][mine[k]].position = rx[k][p].flushed
          /\ rx[k][p].flushed <= rx[k][p].read
      BY <1>9, <1>10, <1>11 DEF Follows
    <3>2. rx[k][p].flushed \in Nat /\ rx[k][p].read \in Nat /\ m.position \in Nat
      BY <1>10, <1>11, <1>14, ReaderParts DEF Given
    <3>3. cursor[p][mine[k]].position <= m.position
      BY <3>1, <3>2, <1>14
    <3>4. m.producer = p /\ IsMessage(m, RingOf(p)')
      BY <2>1, <1>14
    <3> QED BY <3>3, <3>4, <1>8
  <2> QED BY <2>2, <1>16 DEF Holds
<1> QED BY <1>8, <1>9, <1>10, <1>13, <1>15, <1>16, <1>17, <1>18, Unannounced

\* All of a run has expired: poll() moves past it.
LEMMA PassExpiredRingInd ==
  ASSUME DeliveryInv, RegInv, NEW k \in Clients, PassExpiredRing(k)
  PROVE  DeliveryInv'
<1>1. PICK i : i = Min(Hits(k))
  OBVIOUS
<1>2. PICK p : p = Ring(k, i)
  OBVIOUS
<1>3. PICK run : run = RunLength(k, p, 0 .. Cap)
  OBVIOUS
<1>4. PICK r : r = Refreshed(k, i + 1)
  OBVIOUS
<1>5. PICK s : s = Advance(r, p, RunPosition(k, p)[run], rx[k][p].next + run, run)
  OBVIOUS
<1>6. /\ alive[k] /\ kpc[k] \in {"open", "skipping"} /\ kpc' = [kpc EXCEPT ![k] = "skipping"]
      /\ Hits(k) # {} /\ rx' = [rx EXCEPT ![k] = s]
      /\ UNCHANGED <<ringVars, producerVars, slot, cursor, last_hit, held, mine, token,
                     alive>>
  BY <1>1, <1>2, <1>3, <1>4, <1>5 DEF PassExpiredRing, Step
<1>7. kpc[k] \in Receiving /\ kpc[k] \notin {"holding", "polling"}
  BY <1>6 DEF Receiving
<1>8. /\ k \in LiveClients /\ Reader(rx[k]) /\ Holds(k)
      /\ kpc \in [Clients -> {"out", "joined"} \cup Gated \cup Receiving]
      /\ rx \in [Clients -> [Producers -> Kept]]
  BY <1>6, <1>7, ReceiverIs
<1>9. p \in Producers
  BY <1>1, <1>2, <1>6, FirstHit DEF DeliveryInv
<1>10. /\ run \in 0 .. Cap
       /\ \A j \in 0 .. run - 1 :
            Readable(p, RunPosition(k, p)[j], rx[k][p].next + j, Bound(k, p))
  BY <1>3, RunReadable
<1>11. Reader(s) /\ Further(rx[k], s) /\ s \in [Producers -> Kept]
  <2>1. Reader(s) /\ Further(rx[k], s)
    BY <1>4, <1>5, <1>8, <1>9, <1>10, RunReads
  <2> QED BY <2>1 DEF Reader
<1>12. RxTypes'
  <2>1. rx' \in [Clients -> [Producers -> Kept]]
    BY <1>6, <1>8, <1>11
  <2> QED BY <2>1, <1>6 DEF DeliveryInv, RxTypes
<1>13. kpc'[k] = "skipping" /\ rx'[k] = s /\ held'[k] = {}
       /\ \A j \in Clients \ {k} : UNCHANGED <<kpc[j], rx[j], held[j]>>
  <2>1. held[k] = {}
    BY <1>7, <1>8 DEF Holds
  <2> QED BY <2>1, <1>6, <1>8
<1>14. kpc'[k] \in Receiving
  BY <1>13 DEF Receiving
<1>15. Holds(k)'
  BY <1>13 DEF Holds
<1> QED BY <1>6, <1>7, <1>8, <1>11, <1>12, <1>13, <1>14, <1>15, Unannounced

-----------------------------------------------------------------------------
(* If claims are committed in time: the theorems *)

\* An empty channel is in order.
LEMMA InitDelivery == Init => DeliveryInv
<1> SUFFICES ASSUME Init PROVE DeliveryInv
  OBVIOUS
<1>1. ProducerCount \in Nat \ {0} /\ Cap \in Nat \ {0} /\ MaxBatch \in Nat
      /\ NoClient \notin Clients /\ EffectiveCapacity \in Nat
  BY ChannelAssumption, CapacityType
<1>2. RingTypes
  BY <1>1 DEF Init, RingTypes, NoHeader
<1>3. ProducerTypes
  <2>1. NoClaim \in [len : 0 .. Cap, count : 0 .. MaxBatch]
    BY <1>1 DEF NoClaim
  <2>2. <<>> \in Seq(Claimed)
    OBVIOUS
  <2> QED BY <2>1, <2>2 DEF Init, ProducerTypes
<1>4. RxTypes
  <2>1. NoCursor(0) \in Cursors
    BY DEF NoCursor, Cursors
  <2>2. NoRx \in [Producers -> Kept]
    BY DEF NoRx, Kept
  <2>3. 0 \in Producers
    BY <1>1 DEF Producers
  <2> QED BY <2>1, <2>2, <2>3 DEF Init, RxTypes
<1>5. FramesOf(<<>>) = {} /\ \A x : Before(<<>>, x) = {}
  BY DEF FramesOf, Before
<1>6. LaidOut(<<>>, 0, 0) /\ ContiguousEnd(<<>>) = 0
  BY DEF LaidOut, ContiguousEnd
<1>7. Cardinality({}) = 0
  BY FS_EmptySet
<1>8. ASSUME NEW p \in Producers
      PROVE  /\ claims[p] = <<>> /\ producer_pos[p] = 0 /\ messages[p] = 0
             /\ reservation[p] = [position |-> 0, sequence |-> 0, messages |-> 0]
             /\ visible[p] = 0 /\ cached_pos[p] = 0 /\ cached_messages[p] = 0
             /\ ppc[p] = "idle" /\ Taken(p) = 0 /\ alive[p] \in BOOLEAN
  BY DEF Init, Taken, Processes
<1>9. Numbered
  <2>1. \A p \in Producers : FramesOf(claims[p]) = {} /\ 0 .. Taken(p) - 1 = {}
    BY <1>5, <1>8
  <2> QED BY <2>1 DEF Numbered
<1>10. ASSUME NEW p \in Producers PROVE ProducerInv(p)
  <2>1. RingOf(p) = [claims |-> <<>>, end |-> 0, taken |-> 0, reserved |-> 0,
                     visible |-> 0, alive |-> alive[p]]
    BY <1>8 DEF RingOf
  <2>2. RingOk(RingOf(p))
    <3>1. RingOf(p) \in Rings
      BY <2>1, <1>8 DEF Rings
    <3> QED BY <2>1, <3>1, <1>6 DEF RingOk
  <2>3. Announced(p)
    <3>1. messages[p] = Cardinality(FramesOf(claims[p]))
          /\ reservation[p].messages = Cardinality(Before(claims[p], reservation[p].position))
      <4>1. FramesOf(claims[p]) = {} /\ messages[p] = 0
            /\ Before(claims[p], reservation[p].position) = {}
        BY <1>5, <1>8, Zenon
      <4>2. reservation[p].messages = 0
        BY <1>8
      <4> QED BY <4>1, <4>2, <1>7
    <3>2. /\ ppc[p] # "reserved" /\ claims[p] = <<>>
          /\ reservation[p].position = producer_pos[p]
          /\ reservation[p].messages = messages[p] /\ reservation[p].sequence = messages[p]
      BY <1>8
    <3> QED BY <3>1, <3>2 DEF Announced
  <2>4. Shown(p)
    <3>1. \A s \in Slots : cursor[p][s].position = 0 /\ cursor[p][s].messages = 0
      BY DEF Init, NoCursor
    <3> QED BY <3>1, <1>6, <1>8 DEF Shown
  <2>5. Asked(p)
    BY <1>8 DEF Asked
  <2>6. Exclusive(p) /\ Headed(p)
    BY <1>8 DEF Exclusive, Headed
  <2> QED BY <2>2, <2>3, <2>4, <2>5, <2>6 DEF ProducerInv
<1>11. ASSUME NEW s \in Slots PROVE SlotOwned(s)
  <2>1. slot[s].pid = NoClient
    BY DEF Init, NoToken, Token
  <2> QED BY <2>1, <1>1 DEF SlotOwned, LiveClients
<1>12. ASSUME NEW k \in LiveClients PROVE ClientInv(k)
  <2>1. kpc[k] = "out" /\ held[k] = {}
    BY DEF Init, LiveClients
  <2>2. ~Subscribing(k)
    BY <2>1 DEF Subscribing, Joined, Receiving
  <2>3. Quiet(k) /\ Holds(k)
    BY <2>1 DEF Quiet, Holds
  <2> QED BY <2>2, <2>3 DEF ClientInv
<1>13. \A k \in Clients \ LiveClients : held[k] = {}
  BY DEF Init
<1> QED BY <1>2, <1>3, <1>4, <1>9, <1>10, <1>11, <1>12, <1>13 DEF DeliveryInv

\* Nothing happens.
LEMMA StutterDelivery ==
  ASSUME DeliveryInv, RegInv, UNCHANGED vars
  PROVE  DeliveryInv'
<1>1. /\ UNCHANGED ringVars /\ UNCHANGED producerVars
      /\ UNCHANGED <<slot, cursor, rx, last_hit, held, kpc, mine, token, alive>>
  BY DEF vars, rxVars, clientVars
<1>2. UNCHANGED <<header, visible, reservation, global_seq, ppc, ask, claims,
                  producer_pos, messages, cached_pos, cached_messages>>
  BY <1>1 DEF ringVars, producerVars
<1>3. RingTypes' /\ ProducerTypes' /\ Numbered'
  BY <1>2 DEF DeliveryInv, RingTypes, ProducerTypes, Numbered, Taken, Domain
<1>4. ASSUME NEW q \in Producers
      PROVE  ProducerInv(q)' /\ Grown(RingOf(q), RingOf(q)')
             /\ \A s \in Slots : Windowed(q, s) => Windowed(q, s)'
  <2>1. global_seq' \in Nat /\ global_seq <= global_seq'
    BY <1>2 DEF DeliveryInv, RingTypes
  <2>2. alive'[q] \in BOOLEAN /\ (alive'[q] => alive[q])
    BY <1>1 DEF RegInv, RegTypes, Processes
  <2> QED BY <1>1, <1>2, <2>1, <2>2, OtherProducer
<1>5. \A k \in LiveClients : Quiet(k)'
  BY <1>1, <1>2 DEF DeliveryInv, ClientInv, Quiet, ClaimsQuiet
<1>6. mine \in [Clients -> Slots]
  BY DEF RegInv, RegTypes
<1> QED BY <1>1, <1>3, <1>4, <1>5, <1>6, ProducerStep

\* Every step keeps the invariant, when publishers commit in time.
LEMMA NextDelivery ==
  ASSUME Disciplined, DeliveryInv, RegInv, [Next]_vars
  PROVE  DeliveryInv'
<1>1. ASSUME NEW p \in Producers, Claim(p)
      PROVE  DeliveryInv'
  <2>1. CASE \E len \in FrameLens, count \in 1 .. MaxBatch : EnterClaim(p, len, count)
    BY <2>1, EnterClaimInd
  <2> QED BY <1>1, <2>1, CheckRoomInd, TakeSequenceInd, PublishReservationInd DEF Claim
<1>2. ASSUME NEW p \in Producers, CommitAny(p) \/ ProducerDies(p)
      PROVE  DeliveryInv'
  BY <1>2, CommitInd, ProducerDiesInd DEF CommitAny
<1>3. ASSUME NEW k \in Clients, AcquireConsumer(k) \/ ReleaseConsumer(k) \/ ClientDies(k)
      PROVE  DeliveryInv'
  BY <1>3, AcquireInd, LeaveInd, ClientDiesInd
<1>4. ASSUME NEW k \in Clients, Register(k)
      PROVE  DeliveryInv'
  BY <1>4, AcquireInd, SearchInd, FreeInd, FillCursorsInd, JoinInd, LeaveInd DEF Register
<1>5. ASSUME NEW k \in Clients, Receive(k)
      PROVE  DeliveryInv'
  <2>1. ASSUME NEW expired, TryRecvRun(k, expired)
        PROVE  DeliveryInv'
    BY <2>1, TryRecvRunInd
  <2> QED BY <1>5, <2>1, TryRecvInd, TryRecvEmptyInd, ReleaseInd, SkipExpiredInd,
             PassExpiredRingInd, FlushProgressInd DEF Receive
<1> QED BY <1>1, <1>2, <1>3, <1>4, <1>5, StutterDelivery DEF Next

\* Rings, windows, readers and what subscribers hold stay in order, whoever
\* joins, leaves or dies and in whatever order claims are committed, if
\* publishers commit a claim before the ring comes round to it.
THEOREM DeliveryInvariance == Disciplined => (SafeSpec => []DeliveryInv)
<1>1. SUFFICES ASSUME Disciplined PROVE SafeSpec => []DeliveryInv
  OBVIOUS
<1>2. Init => DeliveryInv /\ RegInv
  BY InitDelivery, InitReg
<1>3. (DeliveryInv /\ RegInv) /\ [Next]_vars => (DeliveryInv /\ RegInv)'
  BY <1>1, NextDelivery, NextReg
<1> QED BY <1>2, <1>3, PTL DEF SafeSpec

\* Flow control: minimum_consumer_position() and the caches never let a producer
\* further ahead of a live subscriber than the windows, however subscribers
\* come, go and die.
THEOREM WindowsHold == Disciplined => (SafeSpec => []WithinWindow)
<1>1. ASSUME DeliveryInv, RegInv PROVE WithinWindow
  <2>1. SUFFICES ASSUME NEW s \in ActiveSlots, NEW p \in Producers,
                        slot[s].pid \in LiveClients
                 PROVE  /\ producer_pos[p] - cursor[p][s].position <= EffectiveCapacity
                        /\ MessageWindow # 0 =>
                             messages[p] - cursor[p][s].messages <= MessageWindow
    BY DEF WithinWindow, WithinPositions
  <2>2. SlotOwned(s)
    BY <1>1 DEF DeliveryInv, ActiveSlots
  <2>3. mine[slot[s].pid] = s /\ Subscribing(slot[s].pid)
    BY <1>1, <2>1, <2>2, ActiveOwner
  <2>4. Windowed(p, s)
    BY <1>1, <2>1, <2>3 DEF DeliveryInv, ClientInv
  <2> QED BY <2>4 DEF Windowed
<1>2. DeliveryInv /\ RegInv => WithinWindow
  BY <1>1
<1> QED BY <1>2, DeliveryInvariance, RegistrationInvariance, PTL

\* try_read_from_ring() by the low sequence bits loses nothing and repeats
\* nothing: from the point a subscriber has reached in a ring on, positions and
\* sequence numbers name the same messages.
THEOREM ReadersGoOn == Disciplined => (SafeSpec => []ReadsOn)
<1>1. ASSUME DeliveryInv, RegInv PROVE ReadsOn
  <2>1. SUFFICES ASSUME NEW k \in Clients, Reading(k), NEW p \in Producers,
                        NEW f \in Frames(p), alive[p] \/ f.position < visible[p]
                 PROVE  f.position >= rx[k][p].read <=> f.sequence >= rx[k][p].next
    BY DEF ReadsOn
  <2>2. k \in LiveClients /\ kpc[k] \in Receiving
    BY <2>1 DEF Reading, LiveClients, Receiving
  <2>3. ReadsAt(rx[k][p], RingOf(p))
    BY <1>1, <2>2, ClientReads DEF Reader, Reads
  <2>4. RingOk(RingOf(p)) /\ reservation[p].position \in Nat /\ visible[p] \in Nat
    BY <1>1 DEF DeliveryInv, ProducerInv, RingTypes
  <2>5. LaidOut(claims[p], producer_pos[p], Taken(p))
        /\ visible[p] <= reservation[p].position
    BY <2>4, RingParts DEF RingOk
  <2>6. f \in FramesOf(claims[p]) /\ f.position \in Nat /\ f.sequence \in Nat
    BY <2>1, <2>5, FramesAre, FrameTypes
  <2>7. alive[p] \/ f.position < reservation[p].position
    BY <2>1, <2>4, <2>5, <2>6
  <2> QED BY <2>3, <2>6, <2>7, RingParts DEF ReadsAt
<1>2. DeliveryInv /\ RegInv => ReadsOn
  BY <1>1
<1> QED BY <1>2, DeliveryInvariance, RegistrationInvariance, PTL

\* A message read in place is the one its number says, and stays where it is
\* until release() or flush_progress(): no claim is given its space.
THEOREM HeldMessagesAreIntact == Disciplined => (SafeSpec => []HeldIntact)
<1>1. ASSUME DeliveryInv, RegInv PROVE HeldIntact
  <2>1. SUFFICES ASSUME NEW k \in Clients, NEW m \in held[k]
                 PROVE  /\ header[m.producer][Unit(m.position)].sequence = m.sequence
                        /\ producer_pos[m.producer] <= m.position + Cap
    BY DEF HeldIntact
  <2>2. k \in LiveClients /\ kpc[k] \in Receiving /\ m \in Given
    <3>1. k \in LiveClients
      BY <1>1, <2>1 DEF DeliveryInv
    <3>2. kpc[k] \in {"holding", "polling"}
      BY <1>1, <2>1, <3>1 DEF DeliveryInv, ClientInv, Holds
    <3> QED BY <1>1, <2>1, <3>1, <3>2 DEF DeliveryInv, RxTypes, Receiving
  <2>3. PICK p \in Producers : p = m.producer
    BY <2>2 DEF Given
  <2>4. /\ IsMessage(m, RingOf(p)) /\ cursor[p][mine[k]].position <= m.position
        /\ Windowed(p, mine[k]) /\ mine[k] \in Slots
    BY <1>1, <2>1, <2>2, <2>3, ClientReads DEF Holds
  <2>5. producer_pos[p] <= m.position + Cap
    <3>1. /\ cursor[p][mine[k]].position \in Nat /\ producer_pos[p] \in Nat
          /\ Cap \in Nat /\ m.position \in Nat
      <4>1. cursor[p][mine[k]] \in Cursors
        BY <1>1, <2>4 DEF DeliveryInv, RxTypes
      <4>2. producer_pos[p] \in Nat
        BY <1>1 DEF DeliveryInv, ProducerTypes
      <4> QED BY <4>1, <4>2, <2>2, ChannelAssumption DEF Cursors, Given
    <3>2. /\ producer_pos[p] - cursor[p][mine[k]].position <= EffectiveCapacity
          /\ EffectiveCapacity \in Nat /\ EffectiveCapacity <= Cap
      BY <2>4, CapacityType DEF Windowed
    <3> QED BY <3>1, <3>2, <2>4
  <2>6. PICK g : g = RingOf(p)
    OBVIOUS
  <2>7. PICK i \in DOMAIN g.claims : \E j \in 0 .. g.claims[i].count - 1 :
          /\ m.position = At(g.claims[i], j) /\ m.sequence = Number(g.claims[i], j)
          /\ m.next = m.position + g.claims[i].len /\ m.next <= g.visible
    BY <2>4, <2>6 DEF IsMessage
  <2>8. g.claims = claims[p] /\ g.visible = visible[p]
    BY <2>6, RingParts
  <2>9. PICK cs : cs = claims[p]
    OBVIOUS
  <2>10. PICK j \in 0 .. cs[i].count - 1 :
          /\ i \in DOMAIN cs
          /\ m.position = At(cs[i], j) /\ m.sequence = Number(cs[i], j)
          /\ m.next = m.position + cs[i].len /\ m.next <= visible[p]
    BY <2>7, <2>8, <2>9, Zenon
  <2>11. LaidOut(cs, producer_pos[p], Taken(p)) /\ visible[p] = ContiguousEnd(cs)
         /\ visible[p] \in Nat /\ Headed(p)
    BY <1>1, <2>9, RingParts DEF DeliveryInv, ProducerInv, RingOk, Shown, RingTypes
  <2>12. At(cs[i], j) < ContiguousEnd(cs)
    <3>1. At(cs[i], j) \in Nat /\ cs[i].len \in Nat /\ cs[i].len > 0
      BY <2>10, <2>11, FrameBounds, ClaimTypes
    <3> QED BY <3>1, <2>10, <2>11
  <2>13. cs[i].committed
    BY <2>10, <2>11, <2>12, CommittedBefore
  <2>14. header[p][Unit(m.position)] = Header(m.sequence, cs[i].len)
    BY <2>5, <2>9, <2>10, <2>11, <2>13 DEF Headed
  <2> QED BY <2>3, <2>5, <2>14 DEF Header
<1>2. DeliveryInv /\ RegInv => HeldIntact
  BY <1>1
<1> QED BY <1>2, DeliveryInvariance, RegistrationInvariance, PTL

-----------------------------------------------------------------------------
(* Claims kept open *)

\* Nothing from here on assumes Disciplined: a claim may be kept open while the
\* ring comes round to it, and headers may then be anything.  What is left is
\* where subscribers stand: never inside an open claim.

\* x is announced and not inside an open claim of p.
Clear(p, x) ==
  /\ x <= reservation[p].position
  /\ \A i \in DOMAIN claims[p] :
       ~claims[p][i].committed => x <= claims[p][i].start \/ End(claims[p][i]) <= x

\* p's claims and what it has announced and shown of them, and the subscribers
\* clear of the open ones.
OpenRing(p) ==
  /\ LaidOut(claims[p], producer_pos[p], Taken(p))
  /\ visible[p] = ContiguousEnd(claims[p]) /\ visible[p] <= reservation[p].position
  /\ ppc[p] = "reserved" =>
       /\ claims[p] # <<>> /\ reservation[p].position = LastClaim(p).start
       /\ LastClaim(p).len * LastClaim(p).count <= EffectiveCapacity
  /\ ppc[p] # "reserved" => reservation[p].position = producer_pos[p]
  /\ cached_pos[p] <= reservation[p].position
  /\ ppc[p] \in {"claim", "room"} => ask[p].len > 0 /\ ask[p].count > 0
  /\ ppc[p] = "room" => ask[p].len * ask[p].count <= EffectiveCapacity
  /\ \A s \in Slots : Clear(p, cursor[p][s].position)

\* The window, seen from slot s.
Roomy(p, s) ==
  /\ producer_pos[p] - cursor[p][s].position <= EffectiveCapacity
  /\ cached_pos[p] <= cursor[p][s].position
  /\ ppc[p] = "room" =>
       producer_pos[p] + ask[p].len * ask[p].count - cursor[p][s].position
         <= EffectiveCapacity

\* What k keeps of p's ring: it has announced no more than it has read, stands
\* clear of open claims and knows no more than is visible.
Stands(k, p) ==
  /\ cursor[p][mine[k]].position = rx[k][p].flushed
  /\ rx[k][p].flushed <= rx[k][p].read
  /\ Clear(p, rx[k][p].read)
  /\ rx[k][p].visible <= visible[p]

\* The message try_recv() gave k ends in what is visible.
Ends(k) ==
  kpc[k] = "holding" => \A m \in held[k] :
    rx[k][m.producer].read <= m.next /\ m.next <= visible[m.producer]

ClientRoom(k) ==
  /\ Quiet(k) /\ Ends(k)
  /\ Subscribing(k) => \A p \in Producers : Roomy(p, mine[k])
  /\ kpc[k] \in Receiving => \A p \in Producers : Stands(k, p)

\* What is inductive, with RegInv.
RoomInv ==
  /\ RingTypes /\ ProducerTypes /\ RxTypes
  /\ \A p \in Producers : OpenRing(p)
  /\ \A s \in Slots : SlotOwned(s)
  /\ \A k \in LiveClients : ClientRoom(k)

\* What is visible is clear of open claims, ...
LEMMA VisibleClear ==
  ASSUME NEW p \in Producers, OpenRing(p), RingTypes, NEW x \in Nat, x <= visible[p]
  PROVE  Clear(p, x)
<1>1. LaidOut(claims[p], producer_pos[p], Taken(p))
  BY DEF OpenRing
<1>2. /\ visible[p] = ContiguousEnd(claims[p]) /\ visible[p] <= reservation[p].position
      /\ visible[p] \in Nat /\ reservation[p].position \in Nat
  BY DEF OpenRing, RingTypes
<1>3. ASSUME NEW i \in DOMAIN claims[p], ~claims[p][i].committed
      PROVE  x <= claims[p][i].start
  <2>1. visible[p] <= claims[p][i].start /\ claims[p][i].start \in Nat
    BY <1>1, <1>2, <1>3, Contiguous, ClaimTypes
  <2> QED BY <2>1, <1>2
<1> QED BY <1>2, <1>3 DEF Clear

\* ... and so is the end of what is announced: a claim that is not announced yet
\* begins there.
LEMMA ReservationClear ==
  ASSUME NEW p \in Producers, OpenRing(p), RingTypes
  PROVE  Clear(p, reservation[p].position)
<1> DEFINE x == reservation[p].position
           cs == claims[p]
<1>1. LaidOut(cs, producer_pos[p], Taken(p)) /\ x \in Nat
  BY DEF OpenRing, RingTypes
<1>2. ASSUME NEW i \in DOMAIN cs PROVE x <= cs[i].start \/ End(cs[i]) <= x
  <2>1. CASE ppc[p] = "reserved"
    <3>1. x = cs[Len(cs)].start /\ Len(cs) \in DOMAIN cs /\ i <= Len(cs) /\ i \in Nat
      BY <2>1, <1>1, <1>2 DEF OpenRing, LastClaim, LaidOut
    <3>2. CASE i = Len(cs)
      BY <3>1, <3>2, <1>1
    <3>3. CASE i < Len(cs)
      BY <3>1, <3>3, <1>1 DEF LaidOut, End
    <3>4. Len(cs) \in Nat
      BY <1>1 DEF LaidOut
    <3> QED BY <3>1, <3>2, <3>3, <3>4
  <2>2. CASE ppc[p] # "reserved"
    BY <2>2, <1>1 DEF OpenRing, LaidOut, End
  <2> QED BY <2>1, <2>2
<1> QED BY <1>1, <1>2 DEF Clear

\* Nothing a step of a producer does moves it into a subscriber's way.
LEMMA RoomStays ==
  ASSUME RoomInv, RegInv,
         UNCHANGED <<slot, cursor, rx, last_hit, held, kpc, mine, token>>,
         \A k \in Clients : alive'[k] = alive[k],
         RingTypes', ProducerTypes',
         \A q \in Producers : OpenRing(q)' /\ visible[q] <= visible'[q],
         \A q \in Producers : \A x \in Nat : Clear(q, x) => Clear(q, x)',
         \A k \in LiveClients : Quiet(k)',
         \A k \in LiveClients, s \in Slots, q \in Producers :
           Subscribing(k) /\ s = mine[k] /\ Roomy(q, s) => Roomy(q, s)'
  PROVE  RoomInv'
<1>1. LiveClients' = LiveClients
  BY DEF LiveClients
<1>2. RxTypes'
  BY DEF RoomInv, RxTypes
<1>3. \A s \in Slots : SlotOwned(s)'
  BY <1>1 DEF RoomInv, SlotOwned, HasSlot
<1>4. \A q \in Producers : visible[q] \in Nat /\ visible'[q] \in Nat
  BY DEF RoomInv, RingTypes
<1>5. ASSUME NEW k \in LiveClients PROVE ClientRoom(k)'
  <2>1. k \in Clients /\ ClientRoom(k) /\ mine[k] \in Slots
    BY DEF LiveClients, RoomInv, RegInv, RegTypes
  <2>2. Ends(k)'
    <3>1. ASSUME kpc[k] = "holding", NEW m \in held[k]
          PROVE  rx[k][m.producer].read <= m.next /\ m.next <= visible'[m.producer]
      <4>1. m.producer \in Producers /\ m.next \in Nat
        BY <2>1 DEF RoomInv, RxTypes, Given
      <4>2. rx[k][m.producer].read <= m.next /\ m.next <= visible[m.producer]
        BY <2>1, <3>1 DEF ClientRoom, Ends
      <4>3. visible[m.producer] <= visible'[m.producer]
        BY <4>1
      <4> QED BY <4>1, <4>2, <4>3, <1>4
    <3> QED BY <3>1 DEF Ends
  <2>3. ASSUME Subscribing(k)', NEW q \in Producers PROVE Roomy(q, mine[k])'
    <3>1. Subscribing(k)
      BY <2>3 DEF Subscribing
    <3>2. PICK s \in Slots : s = mine[k]
      BY <2>1
    <3>3. Roomy(q, s)
      BY <3>1, <3>2, <2>1 DEF ClientRoom
    <3>4. Roomy(q, s)'
      BY <3>1, <3>2, <3>3
    <3>5. s = mine'[k]
      BY <3>2
    <3> QED BY <3>4, <3>5
  <2>4. ASSUME kpc[k] \in Receiving, NEW q \in Producers PROVE Stands(k, q)'
    <3>1. Stands(k, q)
      BY <2>1, <2>4 DEF ClientRoom
    <3>2. rx[k][q] \in Kept
      BY <2>1 DEF RoomInv, RxTypes
    <3>3. PICK x \in Nat : x = rx[k][q].read
      BY <3>2 DEF Kept
    <3>4. Clear(q, x)'
      BY <3>1, <3>3 DEF Stands
    <3>5. Clear(q, rx[k][q].read)'
      BY <3>3, <3>4
    <3>6. rx[k][q].visible <= visible'[q]
      <4>1. rx[k][q].visible \in Nat /\ rx[k][q].visible <= visible[q]
        BY <3>1, <3>2 DEF Stands, Kept
      <4> QED BY <4>1, <1>4
    <3> QED BY <3>1, <3>5, <3>6 DEF Stands
  <2> QED BY <2>2, <2>3, <2>4 DEF ClientRoom
<1> QED BY <1>1, <1>2, <1>3, <1>5 DEF RoomInv

\* A producer that does nothing, while another does.
LEMMA OtherRoom ==
  ASSUME RoomInv, NEW q \in Producers,
         UNCHANGED <<claims[q], producer_pos[q], messages[q], reservation[q],
                     visible[q], cursor[q], ppc[q], ask[q], cached_pos[q]>>,
         global_seq' \in Nat, global_seq <= global_seq'
  PROVE  /\ OpenRing(q)' /\ visible[q] <= visible'[q]
         /\ \A x \in Nat : Clear(q, x) => Clear(q, x)'
         /\ \A s \in Slots : Roomy(q, s) => Roomy(q, s)'
<1>1. OpenRing(q) /\ visible[q] \in Nat
  BY DEF RoomInv, RingTypes
<1>2. Taken(q) \in Nat /\ Taken(q)' \in Nat /\ Taken(q) <= Taken(q)'
  BY DEF RoomInv, ProducerTypes, RingTypes, Taken
<1>3. LaidOut(claims[q], producer_pos[q], Taken(q)')
  BY <1>1, <1>2, TakenElsewhere DEF OpenRing
<1>4. \A x : Clear(q, x) => Clear(q, x)'
  BY DEF Clear
<1>5. OpenRing(q)'
  BY <1>1, <1>3, <1>4 DEF OpenRing, LastClaim
<1>6. \A s \in Slots : Roomy(q, s) => Roomy(q, s)'
  BY DEF Roomy
<1> QED BY <1>1, <1>4, <1>5, <1>6

\* A step of p alone.
LEMMA RoomAlone ==
  ASSUME RoomInv, RegInv, NEW p \in Producers,
         UNCHANGED <<slot, cursor, rx, last_hit, held, kpc, mine, token>>,
         \A k \in Clients : alive'[k] = alive[k],
         \A q \in Producers \ {p} :
           UNCHANGED <<claims[q], producer_pos[q], messages[q], reservation[q],
                       visible[q], ppc[q], ask[q], cached_pos[q]>>,
         global_seq <= global_seq', RingTypes', ProducerTypes',
         OpenRing(p)', visible[p] <= visible'[p],
         \A x \in Nat : Clear(p, x) => Clear(p, x)',
         \A k \in LiveClients : Quiet(k)',
         \A k \in LiveClients, s \in Slots :
           Subscribing(k) /\ s = mine[k] /\ Roomy(p, s) => Roomy(p, s)'
  PROVE  RoomInv'
<1>1. global_seq' \in Nat
  BY DEF RingTypes
<1>2. ASSUME NEW q \in Producers, q # p
      PROVE  /\ OpenRing(q)' /\ visible[q] <= visible'[q]
             /\ \A x \in Nat : Clear(q, x) => Clear(q, x)'
             /\ \A s \in Slots : Roomy(q, s) => Roomy(q, s)'
  <2>1. UNCHANGED <<claims[q], producer_pos[q], messages[q], reservation[q],
                    visible[q], cursor[q], ppc[q], ask[q], cached_pos[q]>>
    BY <1>2
  <2> QED BY <2>1, <1>1, OtherRoom
<1>3. \A q \in Producers : /\ OpenRing(q)' /\ visible[q] <= visible'[q]
                           /\ \A x \in Nat : Clear(q, x) => Clear(q, x)'
  BY <1>2
<1>4. \A k \in LiveClients, s \in Slots, q \in Producers :
        Subscribing(k) /\ s = mine[k] /\ Roomy(q, s) => Roomy(q, s)'
  BY <1>2
<1> QED BY <1>3, <1>4, RoomStays

\* No step of a claim under way, and no commit, disturbs a registration that waits
\* for none.
LEMMA QuietStays ==
  ASSUME RoomInv, NEW p \in Producers, alive[p],
         UNCHANGED <<kpc, alive>>,
         \A q \in Producers \ {p} : UNCHANGED ppc[q],
         ppc[p] = "idle" => ppc'[p] = "idle"
  PROVE  \A k \in LiveClients : Quiet(k)'
<1>1. ASSUME NEW k \in LiveClients, kpc[k] \in {"slots", "reclaim", "fill", "activate"},
             NEW q \in Producers
      PROVE  ppc'[q] = "idle" \/ ~alive'[q]
  <2>1. ppc[q] = "idle" \/ ~alive[q]
    BY <1>1 DEF RoomInv, ClientRoom, Quiet, ClaimsQuiet
  <2>2. CASE q = p
    BY <2>1, <2>2
  <2>3. CASE q # p
    BY <2>1, <2>3
  <2> QED BY <2>2, <2>3
<1> QED BY <1>1 DEF Quiet, ClaimsQuiet

\* The claim's room, found as CheckRoom finds it, seen from a live subscriber.
LEMMA RoomFound ==
  ASSUME NEW a \in Nat, NEW b \in Nat, NEW c \in Nat, NEW d \in Nat, NEW e \in Nat,
         NEW g \in Nat, a <= b, c <= d, a <= g, b - a + d <= e
  PROVE  b + c - g <= e /\ c <= e
OBVIOUS

\* claim() begins: with the gate open, no registration is under way.
LEMMA EnterClaimRoom ==
  ASSUME RoomInv, RegInv, NEW p \in Producers,
         NEW len \in FrameLens, NEW count \in 1 .. MaxBatch, EnterClaim(p, len, count)
  PROVE  RoomInv'
<1>1. /\ ppc[p] = "idle" /\ gate = NoClient
      /\ ppc' = [ppc EXCEPT ![p] = "claim"]
      /\ ask' = [ask EXCEPT ![p] = [len |-> len, count |-> count]]
      /\ UNCHANGED <<header, visible, reservation, global_seq, slot, cursor, claims,
                     producer_pos, messages, cached_pos, cached_messages,
                     rx, last_hit, held, kpc, mine, token, alive>>
  BY DEF EnterClaim, ringVars, rxVars, clientVars
<1>2. /\ ppc \in [Producers -> {"idle", "claim", "room", "reserved"}]
      /\ ask \in [Producers -> [len : 0 .. Cap, count : 0 .. MaxBatch]]
      /\ global_seq \in Nat /\ visible[p] \in Nat /\ OpenRing(p)
  BY DEF RoomInv, ProducerTypes, RingTypes
<1>3. len \in 1 .. Cap /\ count \in 0 .. MaxBatch /\ count > 0 /\ len > 0
  BY ChannelAssumption
<1>4. /\ ppc'[p] = "claim" /\ ask'[p] = [len |-> len, count |-> count]
      /\ \A q \in Producers \ {p} : ppc'[q] = ppc[q] /\ ask'[q] = ask[q]
  BY <1>1, <1>2
<1>5. RingTypes' /\ ProducerTypes'
  <2>1. ppc' \in [Producers -> {"idle", "claim", "room", "reserved"}]
    BY <1>1, <1>2
  <2>2. [len |-> len, count |-> count] \in [len : 0 .. Cap, count : 0 .. MaxBatch]
    BY <1>3
  <2>3. ask' \in [Producers -> [len : 0 .. Cap, count : 0 .. MaxBatch]]
    BY <1>1, <1>2, <2>2
  <2> QED BY <1>1, <2>1, <2>3 DEF RoomInv, RingTypes, ProducerTypes
<1>6. \A x \in Nat : Clear(p, x)' = Clear(p, x)
  BY <1>1 DEF Clear
<1>7. OpenRing(p)'
  <2>1. Taken(p)' = Taken(p)
    BY <1>1 DEF Taken
  <2>2. \A s \in Slots : Clear(p, cursor[p][s].position)'
    BY <1>1, <1>2 DEF OpenRing, Clear
  <2> QED BY <2>1, <2>2, <1>1, <1>2, <1>3, <1>4 DEF OpenRing, LastClaim
<1>8. \A s \in Slots : Roomy(p, s) => Roomy(p, s)'
  BY <1>1, <1>4 DEF Roomy
<1>9. ASSUME NEW k \in LiveClients PROVE Quiet(k)'
  <2>1. Registered(k) /\ k \in Clients /\ k # NoClient
    BY Names DEF RegInv, LiveClients
  <2>2. kpc[k] \notin {"slots", "reclaim", "fill", "activate"}
    BY <1>1, <2>1 DEF Registered, Gated
  <2> QED BY <2>2, <1>1 DEF Quiet
<1>10. /\ \A q \in Producers \ {p} :
            UNCHANGED <<claims[q], producer_pos[q], messages[q], reservation[q],
                        visible[q], ppc[q], ask[q], cached_pos[q]>>
       /\ global_seq <= global_seq' /\ visible[p] <= visible'[p]
       /\ \A k \in Clients : alive'[k] = alive[k]
  BY <1>1, <1>2, <1>4
<1> QED BY <1>1, <1>5, <1>6, <1>7, <1>8, <1>9, <1>10, RoomAlone

\* claim() looks for room, and finds none in the way of a live subscriber.
LEMMA CheckRoomRoom ==
  ASSUME RoomInv, RegInv, NEW p \in Producers, CheckRoom(p)
  PROVE  RoomInv'
<1> DEFINE fitAt(h) == BatchFit(producer_pos[p], h, ask[p].len, ask[p].count)
           head == IF fitAt(cached_pos[p]) = 0 THEN MinimumConsumerPosition(p)
                   ELSE cached_pos[p]
           fit == fitAt(head)
           seen == IF WindowFit(p, cached_messages[p], fit) = 0
                   THEN MinimumConsumerMessages(p) ELSE cached_messages[p]
           room == IF fit = 0 THEN 0 ELSE WindowFit(p, seen, fit)
           noted == IF fit = 0 \/ MessageWindow = 0 THEN cached_messages[p] ELSE seen
           asked == IF room = 0 THEN NoClaim ELSE [ask[p] EXCEPT !.count = room]
<1>1. /\ alive[p] /\ ppc[p] = "claim"
      /\ cached_pos' = [cached_pos EXCEPT ![p] = head]
      /\ cached_messages' = [cached_messages EXCEPT ![p] = noted]
      /\ ppc' = [ppc EXCEPT ![p] = IF room = 0 THEN "idle" ELSE "room"]
      /\ ask' = [ask EXCEPT ![p] = asked]
      /\ UNCHANGED <<header, visible, reservation, global_seq, slot, cursor, claims,
                     producer_pos, messages, rx, last_hit, held, kpc, mine, token,
                     alive>>
  BY DEF CheckRoom, ringVars, rxVars, clientVars
<1>2. /\ ppc \in [Producers -> {"idle", "claim", "room", "reserved"}]
      /\ ask \in [Producers -> [len : 0 .. Cap, count : 0 .. MaxBatch]]
      /\ cached_pos \in [Producers -> Nat] /\ cached_messages \in [Producers -> Nat]
      /\ producer_pos[p] \in Nat /\ messages[p] \in Nat
      /\ visible[p] \in Nat /\ reservation[p].position \in Nat /\ global_seq \in Nat
      /\ OpenRing(p)
  BY DEF RoomInv, ProducerTypes, RingTypes
<1>3. /\ ask[p] \in [len : 0 .. Cap, count : 0 .. MaxBatch]
      /\ ask[p].len \in Nat /\ ask[p].len \in 0 .. Cap /\ ask[p].len > 0
      /\ ask[p].count \in Nat /\ ask[p].count <= MaxBatch /\ MaxBatch \in Nat
  <2>1. ask[p] \in [len : 0 .. Cap, count : 0 .. MaxBatch]
        /\ Cap \in Nat /\ MaxBatch \in Nat
    BY <1>2, ChannelAssumption
  <2>2. ask[p].len > 0
    BY <1>1, <1>2 DEF OpenRing
  <2> QED BY <2>1, <2>2
<1>4. /\ head \in Nat /\ head <= reservation[p].position /\ seen \in Nat
      /\ noted \in Nat
      /\ \A s \in ActiveSlots : slot[s].pid \in LiveClients /\ Roomy(p, s) =>
           head <= cursor[p][s].position
  <2>1. \A s \in Slots : cursor[p][s].position <= reservation[p].position
    BY <1>2 DEF OpenRing, Clear
  <2>2. RxTypes /\ cached_pos[p] <= reservation[p].position
    BY <1>2 DEF RoomInv, OpenRing
  <2> QED BY <2>1, <2>2, <1>2, MinimumPosition, MinimumMessages DEF Roomy
<1>5. /\ fit \in Nat /\ fit <= ask[p].count
      /\ fit # 0 => /\ head <= producer_pos[p]
                    /\ producer_pos[p] - head + ask[p].len * fit <= EffectiveCapacity
  <2>1. fit = BatchFit(producer_pos[p], head, ask[p].len, ask[p].count)
    OBVIOUS
  <2> HIDE DEF fit, head
  <2> QED BY <2>1, <1>2, <1>3, <1>4, BatchFits
<1>6. room \in Nat /\ room <= fit /\ (room # 0 => fit # 0)
  <2>1. CASE fit = 0
    BY <2>1
  <2>2. CASE fit # 0
    <3>1. room = WindowFit(p, seen, fit)
      BY <2>2
    <3> HIDE DEF room, seen, fit
    <3> QED BY <3>1, <2>2, <1>2, <1>4, <1>5, WindowFits
  <2> QED BY <2>1, <2>2
<1>7. asked \in [len : 0 .. Cap, count : 0 .. MaxBatch]
      /\ (room # 0 => asked.len = ask[p].len /\ asked.count = room)
  <2>1. CASE room = 0
    <3>1. 0 \in 0 .. Cap /\ 0 \in 0 .. MaxBatch
      BY ChannelAssumption
    <3>2. asked = [len |-> 0, count |-> 0]
      BY <2>1 DEF NoClaim
    <3> HIDE DEF asked
    <3> QED BY <3>1, <3>2, <2>1
  <2>2. CASE room # 0
    <3>1. room \in 0 .. MaxBatch
      BY <1>3, <1>5, <1>6
    <3> HIDE DEF room
    <3> QED BY <3>1, <2>2, <1>3
  <2> QED BY <2>1, <2>2
<1> HIDE DEF head, fit, seen, room, noted, asked
<1>8. /\ cached_pos'[p] = head /\ ask'[p] = asked
      /\ ppc'[p] = IF room = 0 THEN "idle" ELSE "room"
      /\ \A q \in Producers \ {p} :
           ppc'[q] = ppc[q] /\ ask'[q] = ask[q] /\ cached_pos'[q] = cached_pos[q]
  BY <1>1, <1>2
<1>9. ProducerTypes' /\ RingTypes'
  <2>1. cached_pos' \in [Producers -> Nat] /\ cached_messages' \in [Producers -> Nat]
    BY <1>1, <1>2, <1>4
  <2>2. ask' \in [Producers -> [len : 0 .. Cap, count : 0 .. MaxBatch]]
    BY <1>1, <1>2, <1>7
  <2>3. ppc' \in [Producers -> {"idle", "claim", "room", "reserved"}]
    BY <1>1, <1>2
  <2> QED BY <1>1, <2>1, <2>2, <2>3 DEF RoomInv, ProducerTypes, RingTypes
<1>10. /\ ask[p].len * room \in Nat /\ ask[p].len * fit \in Nat
       /\ ask[p].len * room <= ask[p].len * fit
  BY <1>3, <1>5, <1>6, Multiples
<1>11. ASSUME room # 0, NEW g \in Nat, head <= g
       PROVE  /\ producer_pos[p] + ask[p].len * room - g <= EffectiveCapacity
              /\ ask[p].len * room <= EffectiveCapacity
  <2>1. EffectiveCapacity \in Nat
    BY CapacityType
  <2>2. head <= producer_pos[p]
        /\ producer_pos[p] - head + ask[p].len * fit <= EffectiveCapacity
    BY <1>5, <1>6, <1>11
  <2> QED BY <2>1, <2>2, <1>2, <1>4, <1>10, <1>11, RoomFound
<1>12. OpenRing(p)'
  <2>1. Taken(p)' = Taken(p)
    BY <1>1 DEF Taken
  <2>2. \A s \in Slots : Clear(p, cursor[p][s].position)'
    BY <1>1, <1>2 DEF OpenRing, Clear
  <2>3. room # 0 => ask[p].len * room <= EffectiveCapacity
    BY <1>4, <1>11
  <2>4. /\ ppc'[p] # "reserved" /\ reservation[p].position = producer_pos[p]
        /\ ppc'[p] \in {"claim", "room"} => room # 0 /\ ppc'[p] = "room"
    BY <1>1, <1>2, <1>8 DEF OpenRing
  <2>5. /\ LaidOut(claims[p], producer_pos[p], Taken(p))
        /\ visible[p] = ContiguousEnd(claims[p]) /\ visible[p] <= reservation[p].position
    BY <1>2 DEF OpenRing
  <2>6. /\ ppc'[p] \in {"claim", "room"} => ask'[p].len > 0 /\ ask'[p].count > 0
        /\ ppc'[p] = "room" => ask'[p].len * ask'[p].count <= EffectiveCapacity
    BY <2>3, <2>4, <1>3, <1>6, <1>7, <1>8
  <2> QED BY <2>1, <2>2, <2>4, <2>5, <2>6, <1>1, <1>4, <1>8 DEF OpenRing
<1>13. ASSUME NEW k \in LiveClients, NEW s \in Slots, Subscribing(k), s = mine[k],
              Roomy(p, s)
       PROVE  Roomy(p, s)'
  <2>1. kpc[k] # "activate"
    BY <1>1 DEF RoomInv, ClientRoom, Quiet, ClaimsQuiet
  <2>2. s \in ActiveSlots /\ slot[s].pid \in LiveClients
    BY <2>1, <1>13, OwnSlot
  <2>3. head <= cursor[p][s].position /\ cursor[p][s].position \in Nat
    BY <2>2, <1>13, <1>4 DEF RoomInv, RxTypes, Cursors
  <2>4. producer_pos[p] - cursor[p][s].position <= EffectiveCapacity
    BY <1>13 DEF Roomy
  <2>5. room # 0 => producer_pos[p] + ask[p].len * room - cursor[p][s].position
                      <= EffectiveCapacity
    BY <2>3, <1>11
  <2>6. ppc'[p] = "room" => room # 0 /\ ask'[p].len = ask[p].len /\ ask'[p].count = room
    BY <1>7, <1>8
  <2> QED BY <2>3, <2>4, <2>5, <2>6, <1>1, <1>8 DEF Roomy
<1>14. \A x \in Nat : Clear(p, x) => Clear(p, x)'
  BY <1>1 DEF Clear
<1>15. \A k \in LiveClients : Quiet(k)'
  <2>1. \A q \in Producers \ {p} : UNCHANGED ppc[q]
    BY <1>8
  <2> QED BY <2>1, <1>1, QuietStays
<1>16. /\ \A q \in Producers \ {p} :
            UNCHANGED <<claims[q], producer_pos[q], messages[q], reservation[q],
                        visible[q], ppc[q], ask[q], cached_pos[q]>>
       /\ global_seq <= global_seq' /\ visible[p] <= visible'[p]
       /\ \A k \in Clients : alive'[k] = alive[k]
  BY <1>1, <1>2, <1>8
<1> QED BY <1>1, <1>9, <1>12, <1>13, <1>14, <1>15, <1>16, RoomAlone

\* A claim is appended: whoever was clear of the open claims before is so still.
LEMMA AppendClear ==
  ASSUME NEW p \in Producers, NEW c, NEW ds, LaidOut(ds, producer_pos'[p], Taken(p)'),
         RingTypes, claims'[p] = ds, UNCHANGED reservation,
         reservation[p].position = c.start, c.start \in Nat,
         \A i \in DOMAIN ds : ds[i] = c \/ (i \in DOMAIN claims[p] /\ ds[i] = claims[p][i]),
         NEW x \in Nat, Clear(p, x)
  PROVE  Clear(p, x)'
BY DEF Clear

\* The numbers and the ring space are taken, in the room that was found.
LEMMA TakeSequenceRoom ==
  ASSUME RoomInv, RegInv, NEW p \in Producers, TakeSequence(p)
  PROVE  RoomInv'
<1> DEFINE cs == claims[p]
           end == producer_pos[p]
           taken == Taken(p)
           count == ask[p].count
           len == ask[p].len
           c == [start |-> end, len |-> len, count |-> count,
                 sequence |-> taken, committed |-> FALSE]
           ds == Append(cs, c)
<1>1. /\ alive[p] /\ ppc[p] = "room"
      /\ claims' = [claims EXCEPT ![p] = ds]
      /\ global_seq' = IF Ordered THEN global_seq + count ELSE global_seq
      /\ producer_pos' = [producer_pos EXCEPT ![p] = end + len * count]
      /\ messages' = [messages EXCEPT ![p] = messages[p] + count]
      /\ ppc' = [ppc EXCEPT ![p] = "reserved"]
      /\ ask' = [ask EXCEPT ![p] = NoClaim]
      /\ UNCHANGED <<header, visible, reservation, slot, cursor, cached_pos,
                     cached_messages, rx, last_hit, held, kpc, mine, token, alive>>
  BY DEF TakeSequence, rxVars, clientVars, Taken
<1>2. /\ ppc \in [Producers -> {"idle", "claim", "room", "reserved"}]
      /\ ask \in [Producers -> [len : 0 .. Cap, count : 0 .. MaxBatch]]
      /\ claims \in [Producers -> Seq(Claimed)]
      /\ producer_pos \in [Producers -> Nat] /\ messages \in [Producers -> Nat]
      /\ global_seq \in Nat /\ visible[p] \in Nat
      /\ reservation[p].position \in Nat /\ OpenRing(p) /\ RingTypes /\ RxTypes
  BY DEF RoomInv, ProducerTypes, RingTypes
<1>3. /\ LaidOut(cs, end, taken) /\ reservation[p].position = end
      /\ visible[p] = ContiguousEnd(cs) /\ visible[p] <= end
      /\ cached_pos[p] <= end
      /\ len > 0 /\ count > 0 /\ len * count <= EffectiveCapacity
      /\ \A s \in Slots : Clear(p, cursor[p][s].position)
  BY <1>1, <1>2 DEF OpenRing
<1>4. len \in Nat /\ count \in Nat /\ len * count \in Nat
  <2>1. ask[p] \in [len : 0 .. Cap, count : 0 .. MaxBatch] /\ Cap \in Nat /\ MaxBatch \in Nat
    BY <1>2, ChannelAssumption
  <2>2. len \in Nat /\ count \in Nat
    BY <2>1
  <2> QED BY <2>2, Multiples
<1>5. taken \in Nat /\ end \in Nat /\ cs \in Seq(Claimed)
  BY <1>3 DEF LaidOut
<1>6. /\ c \in Claimed /\ c.start = end /\ c.len = len /\ c.count = count
      /\ ~c.committed /\ c.sequence = taken
  BY <1>4, <1>5 DEF Claimed
<1> HIDE DEF cs, end, taken, count, len, c, ds
<1>7. /\ LaidOut(ds, end + len * count, taken + count)
      /\ ContiguousEnd(ds) = ContiguousEnd(cs)
      /\ Len(ds) = Len(cs) + 1
      /\ \A i \in DOMAIN cs : i \in DOMAIN ds /\ ds[i] = cs[i]
      /\ ds[Len(cs) + 1] = c
  <2>1. c.len > 0 /\ c.count > 0 /\ taken <= c.sequence
    BY <1>3, <1>5, <1>6
  <2>2. /\ LaidOut(ds, end + c.len * c.count, c.sequence + c.count)
        /\ ContiguousEnd(ds) = ContiguousEnd(cs)
        /\ Len(ds) = Len(cs) + 1
        /\ \A i \in DOMAIN cs : i \in DOMAIN ds /\ ds[i] = cs[i]
        /\ ds[Len(cs) + 1] = c
    BY <2>1, <1>3, <1>5, <1>6, AppendClaim DEF ds
  <2> QED BY <2>2, <1>6
<1>8. /\ DOMAIN ds = 1 .. Len(cs) + 1 /\ DOMAIN cs = 1 .. Len(cs) /\ Len(cs) \in Nat
      /\ Len(ds) \in DOMAIN ds /\ ds # <<>> /\ ds[Len(ds)] = c
      /\ \A i \in DOMAIN ds : ds[i] = c \/ (i \in DOMAIN cs /\ ds[i] = cs[i])
  <2>1. /\ DOMAIN ds = 1 .. Len(ds) /\ DOMAIN cs = 1 .. Len(cs) /\ Len(cs) \in Nat
    BY <1>5, <1>7 DEF LaidOut
  <2>2. \A i \in 1 .. Len(cs) + 1 : i \in 1 .. Len(cs) \/ i = Len(cs) + 1
    BY <2>1
  <2>3. DOMAIN ds = 1 .. Len(cs) + 1 /\ Len(ds) = Len(cs) + 1
    BY <2>1, <1>7
  <2>4. Len(ds) \in DOMAIN ds /\ ds # <<>>
    <3>1. Len(ds) \in DOMAIN ds
      BY <2>1, <2>3
    <3> QED BY <3>1, <2>3
  <2>5. ds[Len(ds)] = c
    BY <2>3, <1>7
  <2>6. \A i \in DOMAIN ds : ds[i] = c \/ (i \in DOMAIN cs /\ ds[i] = cs[i])
    <3>1. ASSUME NEW i \in DOMAIN ds, i # Len(cs) + 1
          PROVE  i \in DOMAIN cs /\ ds[i] = cs[i]
      <4>1. i \in DOMAIN cs
        BY <2>1, <2>2, <2>3, <3>1
      <4> QED BY <4>1, <1>7
    <3>2. ASSUME NEW i \in DOMAIN ds, i = Len(cs) + 1 PROVE ds[i] = c
      BY <3>2, <1>7
    <3> QED BY <3>1, <3>2
  <2> QED BY <2>1, <2>3, <2>4, <2>5, <2>6
<1>9. /\ claims'[p] = ds /\ producer_pos'[p] = end + len * count
      /\ ppc'[p] = "reserved" /\ ask'[p] = NoClaim
      /\ \A q \in Producers \ {p} :
           /\ claims'[q] = claims[q] /\ producer_pos'[q] = producer_pos[q]
           /\ messages'[q] = messages[q] /\ ppc'[q] = ppc[q] /\ ask'[q] = ask[q]
  BY <1>1, <1>2
<1>10. ProducerTypes' /\ RingTypes' /\ global_seq <= global_seq'
  <2>1. ds \in Seq(Claimed)
    BY <1>7 DEF LaidOut
  <2>2. claims' \in [Producers -> Seq(Claimed)]
    BY <2>1, <1>1, <1>2
  <2>3. end + len * count \in Nat /\ messages[p] + count \in Nat
    <3>1. \A a, b \in Nat : a + b \in Nat
      OBVIOUS
    <3> QED BY <3>1, <1>2, <1>4, <1>5
  <2>4. producer_pos' \in [Producers -> Nat] /\ messages' \in [Producers -> Nat]
    BY <2>3, <1>1, <1>2
  <2>5. ppc' \in [Producers -> {"idle", "claim", "room", "reserved"}]
    BY <1>1, <1>2
  <2>6. NoClaim \in [len : 0 .. Cap, count : 0 .. MaxBatch]
    BY ChannelAssumption DEF NoClaim
  <2>7. ask' \in [Producers -> [len : 0 .. Cap, count : 0 .. MaxBatch]]
    BY <2>6, <1>1, <1>2
  <2>8. global_seq' \in Nat /\ global_seq <= global_seq'
    BY <1>1, <1>2, <1>4
  <2> QED BY <2>2, <2>4, <2>5, <2>7, <2>8, <1>1 DEF RoomInv, ProducerTypes, RingTypes
<1>11. LaidOut(claims'[p], producer_pos'[p], Taken(p)')
  <2>1. messages'[p] = messages[p] + count
    BY <1>1, <1>2
  <2>2. Taken(p)' = taken + count
    BY <2>1, <1>1 DEF Taken, taken
  <2> QED BY <2>2, <1>7, <1>9
<1>12. \A x \in Nat : Clear(p, x) => Clear(p, x)'
  <2>1. claims'[p] = ds /\ UNCHANGED reservation
    BY <1>1, <1>9
  <2>2. reservation[p].position = c.start /\ c.start \in Nat
    BY <1>3, <1>5, <1>6
  <2>3. \A i \in DOMAIN ds : ds[i] = c \/ (i \in DOMAIN claims[p] /\ ds[i] = claims[p][i])
    BY <1>8 DEF cs
  <2>4. LaidOut(ds, producer_pos'[p], Taken(p)')
    BY <1>11, <1>9
  <2> QED BY <2>1, <2>2, <2>3, <2>4, <1>2, AppendClear
<1>13. OpenRing(p)'
  <2>1. \A s \in Slots : cursor[p][s].position \in Nat
    BY <1>2 DEF RxTypes, Cursors
  <2>2. \A s \in Slots : Clear(p, cursor[p][s].position)'
    <3>1. ASSUME NEW s \in Slots PROVE Clear(p, cursor[p][s].position)'
      <4>1. PICK x \in Nat : x = cursor[p][s].position
        BY <2>1
      <4>2. Clear(p, x)'
        BY <4>1, <1>3, <1>12
      <4>3. x = cursor'[p][s].position
        BY <4>1, <1>1
      <4> QED BY <4>2, <4>3
    <3> QED BY <3>1
  <2>3. /\ claims'[p] # <<>> /\ reservation'[p].position = LastClaim(p)'.start
        /\ LastClaim(p)'.len * LastClaim(p)'.count <= EffectiveCapacity
    BY <1>1, <1>3, <1>6, <1>8, <1>9 DEF LastClaim
  <2>4. /\ visible'[p] = ContiguousEnd(claims'[p]) /\ visible'[p] <= reservation'[p].position
        /\ cached_pos'[p] <= reservation'[p].position
    BY <1>1, <1>3, <1>7, <1>9
  <2> QED BY <2>2, <2>3, <2>4, <1>9, <1>11 DEF OpenRing
<1>14. ASSUME NEW s \in Slots, Roomy(p, s) PROVE Roomy(p, s)'
  <2>1. producer_pos'[p] = producer_pos[p] + ask[p].len * ask[p].count
    BY <1>9 DEF end, len, count
  <2>2. producer_pos'[p] - cursor'[p][s].position <= EffectiveCapacity
    <3>1. ppc[p] = "room" /\ cursor' = cursor
      BY <1>1
    <3>2. producer_pos[p] + ask[p].len * ask[p].count - cursor[p][s].position
            <= EffectiveCapacity
      BY <3>1, <1>14 DEF Roomy
    <3>3. producer_pos'[p] - cursor[p][s].position <= EffectiveCapacity
      <4>1. PICK need \in Nat : need = ask[p].len * ask[p].count
        BY <1>4 DEF len, count
      <4>2. cursor[p][s].position \in Nat /\ producer_pos[p] \in Nat
        BY <1>2 DEF RxTypes, Cursors
      <4>3. EffectiveCapacity \in Nat
        BY CapacityType
      <4>4. /\ producer_pos'[p] = producer_pos[p] + need
            /\ producer_pos[p] + need - cursor[p][s].position <= EffectiveCapacity
        BY <2>1, <3>2, <4>1
      <4> QED BY <4>2, <4>3, <4>4
    <3> QED BY <3>1, <3>3
  <2>3. cached_pos'[p] <= cursor'[p][s].position
    BY <1>1, <1>14 DEF Roomy
  <2> QED BY <2>2, <2>3, <1>9 DEF Roomy
<1>15. \A k \in LiveClients : Quiet(k)'
  <2>1. \A q \in Producers \ {p} : UNCHANGED ppc[q]
    BY <1>9
  <2> QED BY <2>1, <1>1, QuietStays
<1>16. /\ \A q \in Producers \ {p} :
            UNCHANGED <<claims[q], producer_pos[q], messages[q], reservation[q],
                        visible[q], ppc[q], ask[q], cached_pos[q]>>
       /\ visible[p] <= visible'[p]
       /\ \A k \in Clients : alive'[k] = alive[k]
  BY <1>1, <1>2, <1>9
<1> QED BY <1>1, <1>10, <1>12, <1>13, <1>14, <1>15, <1>16, RoomAlone

\* publish_reservation().
LEMMA PublishReservationRoom ==
  ASSUME RoomInv, RegInv, NEW p \in Producers, PublishReservation(p)
  PROVE  RoomInv'
<1> DEFINE new == [position |-> producer_pos[p],
                   sequence |-> Last(claims[p]).sequence + Last(claims[p]).count,
                   messages |-> messages[p]]
<1>1. /\ alive[p] /\ ppc[p] = "reserved"
      /\ reservation' = [reservation EXCEPT ![p] = new]
      /\ ppc' = [ppc EXCEPT ![p] = "idle"]
      /\ UNCHANGED <<header, visible, global_seq, slot, cursor, ask, claims,
                     producer_pos, messages, cached_pos, cached_messages,
                     rx, last_hit, held, kpc, mine, token, alive>>
  BY DEF PublishReservation, rxVars, clientVars
<1>2. /\ ppc \in [Producers -> {"idle", "claim", "room", "reserved"}]
      /\ reservation \in [Producers -> [position : Nat, sequence : Nat, messages : Nat]]
      /\ global_seq \in Nat /\ producer_pos[p] \in Nat /\ messages[p] \in Nat
      /\ cached_pos[p] \in Nat /\ visible[p] \in Nat /\ OpenRing(p) /\ RxTypes
      /\ reservation[p].position \in Nat
  BY DEF RoomInv, ProducerTypes, RingTypes
<1>3. /\ LaidOut(claims[p], producer_pos[p], Taken(p))
      /\ claims[p] # <<>> /\ claims[p] \in Seq(Claimed)
      /\ Len(claims[p]) \in DOMAIN claims[p] /\ Last(claims[p]) = LastClaim(p)
      /\ reservation[p].position = LastClaim(p).start
  BY <1>1, <1>2 DEF OpenRing, LaidOut, LastClaim, Last
<1>4. /\ LastClaim(p).sequence \in Nat /\ LastClaim(p).count \in Nat
      /\ LastClaim(p).start <= producer_pos[p]
  <2>1. /\ LastClaim(p).sequence \in Nat /\ LastClaim(p).count \in Nat
        /\ LastClaim(p).start \in Nat /\ LastClaim(p).len \in Nat
        /\ LastClaim(p).start + LastClaim(p).len * LastClaim(p).count = producer_pos[p]
    <3>1. PICK n \in DOMAIN claims[p] : n = Len(claims[p])
      BY <1>3
    <3>2. LastClaim(p) = claims[p][n]
      BY <3>1 DEF LastClaim
    <3>3. End(claims[p][n]) = producer_pos[p]
      BY <3>1, <1>3 DEF LaidOut, End
    <3>4. /\ claims[p][n].start \in Nat /\ claims[p][n].len \in Nat
          /\ claims[p][n].count \in Nat /\ claims[p][n].sequence \in Nat
      BY <1>3, ClaimTypes
    <3> QED BY <3>2, <3>3, <3>4 DEF End
  <2>2. LastClaim(p).len * LastClaim(p).count \in Nat
    BY <2>1, Multiples
  <2> QED BY <2>1, <2>2
<1>5. new \in [position : Nat, sequence : Nat, messages : Nat]
  BY <1>2, <1>3, <1>4
<1>6. /\ reservation'[p].position = producer_pos[p] /\ ppc'[p] = "idle"
      /\ \A q \in Producers \ {p} : reservation'[q] = reservation[q] /\ ppc'[q] = ppc[q]
  BY <1>1, <1>2
<1>7. RingTypes' /\ ProducerTypes'
  <2>1. reservation' \in [Producers -> [position : Nat, sequence : Nat, messages : Nat]]
    BY <1>1, <1>2, <1>5
  <2>2. ppc' \in [Producers -> {"idle", "claim", "room", "reserved"}]
    BY <1>1, <1>2
  <2> QED BY <1>1, <2>1, <2>2 DEF RoomInv, RingTypes, ProducerTypes
<1>8. \A x \in Nat : x <= reservation[p].position => x <= reservation'[p].position
  BY <1>2, <1>3, <1>4, <1>6
<1>9. \A x \in Nat : Clear(p, x) => Clear(p, x)'
  BY <1>1, <1>8 DEF Clear
<1>10. OpenRing(p)'
  <2>1. \A s \in Slots : cursor[p][s].position \in Nat
    BY <1>2 DEF RxTypes, Cursors
  <2>2. \A s \in Slots : Clear(p, cursor[p][s].position)'
    BY <2>1, <1>1, <1>2, <1>8 DEF Clear, OpenRing
  <2>3. Taken(p)' = Taken(p)
    BY <1>1 DEF Taken
  <2> QED BY <2>2, <2>3, <1>1, <1>2, <1>6, <1>8 DEF OpenRing
<1>11. \A s \in Slots : Roomy(p, s) => Roomy(p, s)'
  BY <1>1, <1>6 DEF Roomy
<1>12. \A k \in LiveClients : Quiet(k)'
  <2>1. \A q \in Producers \ {p} : UNCHANGED ppc[q]
    BY <1>6
  <2> QED BY <2>1, <1>1, QuietStays
<1>13. /\ \A q \in Producers \ {p} :
            UNCHANGED <<claims[q], producer_pos[q], messages[q], reservation[q],
                        visible[q], ppc[q], ask[q], cached_pos[q]>>
       /\ global_seq <= global_seq' /\ visible[p] <= visible'[p]
       /\ \A k \in Clients : alive'[k] = alive[k]
  BY <1>1, <1>2, <1>6
<1> QED BY <1>1, <1>7, <1>9, <1>10, <1>11, <1>12, <1>13, RoomAlone

\* A claim is committed: what was clear of the others is, and all that becomes
\* visible has been announced.
LEMMA CommitRoom ==
  ASSUME RoomInv, RegInv, NEW p \in Producers, NEW i \in DOMAIN claims[p], Commit(p, i)
  PROVE  RoomInv'
<1> DEFINE cs == claims[p]
           ds == [cs EXCEPT ![i].committed = TRUE]
           heads == header'[p]
<1>1. /\ alive[p] /\ ppc[p] = "idle"
      /\ claims' = [claims EXCEPT ![p] = ds]
      /\ visible' = [visible EXCEPT ![p] = ContiguousEnd(claims'[p])]
      /\ UNCHANGED <<reservation, global_seq, slot, cursor, ppc, ask, producer_pos,
                     messages, cached_pos, cached_messages, rx, last_hit, held, kpc,
                     mine, token, alive>>
  BY DEF Commit, rxVars, clientVars
<1>2. /\ claims \in [Producers -> Seq(Claimed)] /\ visible \in [Producers -> Nat]
      /\ global_seq \in Nat /\ OpenRing(p) /\ RingTypes /\ RxTypes
  BY DEF RoomInv, ProducerTypes, RingTypes
<1>3. /\ LaidOut(cs, producer_pos[p], Taken(p)) /\ visible[p] = ContiguousEnd(cs)
      /\ reservation[p].position = producer_pos[p]
  BY <1>1, <1>2 DEF OpenRing
<1> HIDE DEF ds
<1>4. /\ LaidOut(ds, producer_pos[p], Taken(p)) /\ DOMAIN ds = DOMAIN cs
      /\ ContiguousEnd(cs) <= ContiguousEnd(ds)
      /\ \A k \in DOMAIN cs :
           /\ ds[k].start = cs[k].start /\ ds[k].len = cs[k].len
           /\ ds[k].count = cs[k].count
           /\ ds[k].committed <=> cs[k].committed \/ k = i
  BY <1>3, CommitClaim DEF ds
<1>5. /\ ContiguousEnd(ds) \in Nat /\ ContiguousEnd(ds) <= producer_pos[p]
  BY <1>4, Contiguous
<1>6. /\ claims'[p] = ds /\ visible'[p] = ContiguousEnd(ds)
      /\ \A q \in Producers \ {p} : claims'[q] = claims[q] /\ visible'[q] = visible[q]
  <2> HIDE DEF cs
  <2> QED BY <1>1, <1>2
<1>7. RingTypes' /\ ProducerTypes'
  <2>1. ds \in Seq(Claimed)
    BY <1>4 DEF LaidOut
  <2>2. claims' \in [Producers -> Seq(Claimed)]
    BY <2>1, <1>1, <1>2
  <2>3. header' \in [Producers -> [0 .. Cap - 1 -> [low : Int, len : Nat, sequence : Int]]]
    <3>1. LaidOut(claims[p], producer_pos[p], Taken(p))
          /\ header \in [Producers -> [0 .. Cap - 1 -> [low : Int, len : Nat, sequence : Int]]]
      BY <1>3 DEF RoomInv, RingTypes
    <3> QED BY <3>1, CommitHeaders
  <2>4. visible' \in [Producers -> Nat]
    BY <1>1, <1>2, <1>5, <1>6
  <2> QED BY <2>2, <2>3, <2>4, <1>1 DEF RoomInv, RingTypes, ProducerTypes
<1>8. \A x \in Nat : Clear(p, x) => Clear(p, x)'
  BY <1>1, <1>4, <1>6 DEF Clear, End
<1>9. OpenRing(p)'
  <2>1. Taken(p)' = Taken(p)
    BY <1>1 DEF Taken
  <2>2. \A s \in Slots : Clear(p, cursor[p][s].position)'
    BY <1>1, <1>2, <1>4, <1>6 DEF OpenRing, Clear, End
  <2> QED BY <2>1, <2>2, <1>1, <1>2, <1>3, <1>4, <1>5, <1>6 DEF OpenRing
<1>10. \A s \in Slots : Roomy(p, s) => Roomy(p, s)'
  BY <1>1 DEF Roomy
<1>11. \A k \in LiveClients : Quiet(k)'
  <2>1. UNCHANGED <<kpc, alive>> /\ \A q \in Producers \ {p} : UNCHANGED ppc[q]
    BY <1>1
  <2> QED BY <2>1, <1>1, QuietStays
<1>12. /\ \A q \in Producers \ {p} :
            UNCHANGED <<claims[q], producer_pos[q], messages[q], reservation[q],
                        visible[q], ppc[q], ask[q], cached_pos[q]>>
       /\ global_seq <= global_seq' /\ visible[p] <= visible'[p]
       /\ \A k \in Clients : alive'[k] = alive[k]
  BY <1>1, <1>2, <1>3, <1>4, <1>6
<1> QED BY <1>1, <1>7, <1>8, <1>9, <1>10, <1>11, <1>12, RoomAlone

\* A producer dies.
LEMMA ProducerDiesRoom ==
  ASSUME RoomInv, RegInv, NEW p \in Producers, ProducerDies(p)
  PROVE  RoomInv'
<1>1. /\ alive' = [alive EXCEPT ![p] = FALSE]
      /\ UNCHANGED <<header, visible, reservation, global_seq, slot, cursor, ppc, ask,
                     claims, producer_pos, messages, cached_pos, cached_messages,
                     rx, last_hit, held, kpc, mine, token>>
  BY DEF ProducerDies, ringVars, producerVars, rxVars, clientVars
<1>2. /\ alive \in [Processes -> BOOLEAN] /\ global_seq \in Nat
      /\ \A q \in Producers : q \in Processes
      /\ \A k \in Clients : k \in Processes /\ k # p
  BY Names DEF RoomInv, RingTypes, RegInv, RegTypes, Processes
<1>3. \A k \in Clients : alive'[k] = alive[k]
  BY <1>1, <1>2
<1>4. \A q \in Producers : alive'[q] => alive[q]
  BY <1>1, <1>2
<1>5. RingTypes' /\ ProducerTypes'
  BY <1>1 DEF RoomInv, RingTypes, ProducerTypes
<1>6. ASSUME NEW q \in Producers
      PROVE  /\ OpenRing(q)' /\ visible[q] <= visible'[q]
             /\ \A x \in Nat : Clear(q, x) => Clear(q, x)'
             /\ \A s \in Slots : Roomy(q, s) => Roomy(q, s)'
  <2>1. global_seq <= global_seq' /\ global_seq' \in Nat
    BY <1>1, <1>2
  <2> QED BY <2>1, <1>1, OtherRoom
<1>7. \A k \in LiveClients : Quiet(k)'
  BY <1>1, <1>4 DEF RoomInv, ClientRoom, Quiet, ClaimsQuiet
<1> QED BY <1>1, <1>3, <1>5, <1>6, <1>7, RoomStays

-----------------------------------------------------------------------------
(* Claims kept open: subscribers that register or leave *)

\* In a RoomInv state, as in every one, slots are owned and cursors clear.
LEMMA RoomOwned ==
  ASSUME RoomInv
  PROVE  /\ \A s \in Slots : SlotOwned(s)
         /\ \A q \in Producers, s \in Slots : Clear(q, cursor[q][s].position)
         /\ \A q \in Producers : \A x \in Nat : x <= visible[q] => Clear(q, x)
         /\ \A q \in Producers : /\ Clear(q, reservation[q].position) /\ Clear(q, 0)
                                 /\ visible[q] \in Nat /\ reservation[q].position \in Nat
<1>1. RingTypes /\ \A q \in Producers : OpenRing(q)
  BY DEF RoomInv
<1>2. \A q \in Producers : visible[q] \in Nat /\ reservation[q].position \in Nat
  BY <1>1 DEF RingTypes
<1>3. \A q \in Producers : \A x \in Nat : x <= visible[q] => Clear(q, x)
  BY <1>1, VisibleClear
<1>4. \A q \in Producers : Clear(q, reservation[q].position)
  BY <1>1, ReservationClear
<1>5. \A q \in Producers : Clear(q, 0)
  BY <1>2, <1>3
<1>6. \A q \in Producers, s \in Slots : Clear(q, cursor[q][s].position)
  BY <1>1 DEF OpenRing
<1> QED BY <1>2, <1>3, <1>4, <1>5, <1>6 DEF RoomInv

\* A step of client k leaves the rings as they are, and the other subscribers where
\* they are.
LEMMA RoomClient ==
  ASSUME RoomInv, RegInv, NEW k \in Clients,
         UNCHANGED <<ringVars, producerVars>>,
         \A x \in Processes \ {k} : alive'[x] = alive[x],
         \A j \in Clients \ {k} : UNCHANGED <<kpc[j], mine[j], token[j], rx[j], held[j]>>,
         \A j \in LiveClients \ {k} : Subscribing(j) =>
           \A q \in Producers : cursor'[q][mine[j]] = cursor[q][mine[j]],
         \A q \in Producers, s \in Slots : Clear(q, cursor'[q][s].position),
         RxTypes', \A s \in Slots : SlotOwned(s)',
         alive'[k] => ClientRoom(k)'
  PROVE  RoomInv'
<1>1. UNCHANGED <<header, visible, reservation, global_seq, ppc, ask, claims,
                  producer_pos, messages, cached_pos, cached_messages>>
  BY DEF ringVars, producerVars
<1>2. \A q \in Producers : q \in Processes /\ q # k /\ alive'[q] = alive[q]
  BY Names DEF Processes
<1>3. RingTypes' /\ ProducerTypes'
  BY <1>1 DEF RoomInv, RingTypes, ProducerTypes
<1>4. ASSUME NEW q \in Producers PROVE OpenRing(q)'
  <2>1. OpenRing(q)
    BY DEF RoomInv
  <2>2. \A s \in Slots : Clear(q, cursor[q][s].position)'
    BY <1>1 DEF Clear
  <2>3. Taken(q)' = Taken(q)
    BY <1>1 DEF Taken
  <2> QED BY <2>1, <2>2, <2>3, <1>1 DEF OpenRing, LastClaim
<1>5. ASSUME NEW j \in LiveClients', j # k PROVE ClientRoom(j)'
  <2>1. j \in Clients /\ j \in LiveClients /\ ClientRoom(j)
    BY <1>5, Names DEF LiveClients, RoomInv
  <2>2. /\ UNCHANGED <<kpc[j], mine[j], token[j], rx[j], held[j]>>
        /\ Subscribing(j) =>
             \A q \in Producers : cursor'[q][mine[j]] = cursor[q][mine[j]]
    BY <1>5, <2>1
  <2>3. Quiet(j)'
    BY <2>1, <2>2, <1>1, <1>2 DEF ClientRoom, Quiet, ClaimsQuiet
  <2>4. Ends(j)'
    BY <2>1, <2>2, <1>1 DEF ClientRoom, Ends
  <2>5. Subscribing(j)' <=> Subscribing(j)
    BY <2>2 DEF Subscribing
  <2>6. kpc[j] \in Receiving => Subscribing(j)
    BY DEF Subscribing, Joined
  <2>7. ASSUME Subscribing(j), NEW q \in Producers PROVE Roomy(q, mine[j])'
    <3>1. Roomy(q, mine[j]) /\ cursor'[q][mine[j]] = cursor[q][mine[j]]
      BY <2>1, <2>2, <2>7 DEF ClientRoom
    <3>2. cursor'[q][mine'[j]] = cursor[q][mine[j]]
      BY <3>1, <2>2
    <3> QED BY <3>1, <3>2, <1>1 DEF Roomy
  <2>8. ASSUME kpc[j] \in Receiving, NEW q \in Producers PROVE Stands(j, q)'
    <3>1. Stands(j, q) /\ cursor'[q][mine[j]] = cursor[q][mine[j]]
      BY <2>1, <2>2, <2>6, <2>8 DEF ClientRoom
    <3>2. cursor'[q][mine'[j]] = cursor[q][mine[j]] /\ rx'[j] = rx[j]
      BY <3>1, <2>2
    <3>3. Clear(q, rx[j][q].read)'
      BY <3>1, <3>2, <1>1 DEF Stands, Clear
    <3> QED BY <3>1, <3>2, <3>3, <1>1 DEF Stands
  <2> QED BY <2>2, <2>3, <2>4, <2>5, <2>7, <2>8 DEF ClientRoom
<1>6. \A j \in LiveClients' : ClientRoom(j)'
  BY <1>5 DEF LiveClients
<1> QED BY <1>3, <1>4, <1>6 DEF RoomInv

\* A client that has no subscription.
LEMMA RoomOutside ==
  ASSUME NEW k, kpc'[k] \notin Joined \cup {"activate"},
         kpc'[k] = "leave" => token'[k] = NoToken,
         kpc'[k] \in {"slots", "reclaim", "fill"} => ClaimsQuiet'
  PROVE  ClientRoom(k)'
<1>1. ~Subscribing(k)'
  BY DEF Subscribing
<1>2. kpc'[k] \notin Receiving
  BY DEF Joined
<1>3. Quiet(k)' /\ Ends(k)'
  BY <1>2 DEF Quiet, Ends, Receiving
<1> QED BY <1>1, <1>2, <1>3 DEF ClientRoom

\* acquire_consumer() closes the gate, and waits for the claims under way.
LEMMA AcquireRoom ==
  ASSUME RoomInv, RegInv, NEW k \in Clients, AcquireConsumer(k) \/ WaitForClaims(k)
  PROVE  RoomInv'
<1>1. /\ alive[k] /\ k \in LiveClients
      /\ UNCHANGED <<ringVars, producerVars, slot, cursor, rx, last_hit, held, token, alive>>
      /\ \/ kpc[k] = "out" /\ kpc' = [kpc EXCEPT ![k] = "quiesce"] /\ mine' = mine
         \/ /\ kpc[k] = "quiesce" /\ kpc' = [kpc EXCEPT ![k] = "slots"]
            /\ mine' = [mine EXCEPT ![k] = 0] /\ ClaimsQuiet
  BY DEF AcquireConsumer, WaitForClaims, Step, LiveClients, rxVars
<1>2. kpc \in [Clients -> {"out", "joined"} \cup Gated \cup Receiving]
      /\ mine \in [Clients -> Slots]
  BY DEF RegInv, RegTypes
<1>3. /\ ~HasSlot(k) /\ kpc'[k] \in {"quiesce", "slots"}
      /\ kpc'[k] = "slots" => ClaimsQuiet
  BY <1>1, <1>2 DEF HasSlot, Joined, Receiving
<1>4. \A j \in Clients \ {k} : UNCHANGED <<kpc[j], mine[j], token[j], rx[j], held[j]>>
  BY <1>1, <1>2
<1>5. RxTypes' /\ \A q \in Producers, s \in Slots : Clear(q, cursor'[q][s].position)
  BY <1>1, RoomOwned DEF RoomInv, RxTypes
<1>6. ClientRoom(k)'
  <2>1. ClaimsQuiet' <=> ClaimsQuiet
    BY <1>1 DEF ClaimsQuiet, producerVars
  <2> QED BY <2>1, <1>3, RoomOutside DEF Joined, Receiving
<1>7. \A s \in Slots : SlotOwned(s)'
  <2>1. \A s \in Slots : slot'[s].pid # k
    BY <1>1, <1>3, RoomOwned, NoSlot
  <2> QED BY <2>1, <1>1, <1>4, RoomOwned, SlotsOwned
<1> QED BY <1>1, <1>4, <1>5, <1>6, <1>7, RoomClient

\* It goes over the slots, marks those of the dead and takes a free one.
LEMMA SearchRoom ==
  ASSUME RoomInv, RegInv, NEW k \in Clients,
         SkipSlot(k) \/ ReclaimSlot(k) \/ TakeSlot(k)
  PROVE  RoomInv'
<1>1. /\ alive[k] /\ k \in LiveClients /\ kpc[k] = "slots"
      /\ UNCHANGED <<ringVars, producerVars, cursor, rx, last_hit, held, token, alive>>
      /\ \E to \in {"leave", "slots", "reclaim", "fill"} :
           /\ kpc' = [kpc EXCEPT ![k] = to]
           /\ to # "fill" => \A s \in Slots : slot'[s].pid = slot[s].pid
           /\ to = "fill" => /\ mine' = mine
                             /\ slot' = [slot EXCEPT ![mine[k]] =
                                  Token(slot[mine[k]].generation + 1, k, "Initializing")]
      /\ \E n : mine' = [mine EXCEPT ![k] = n]
  <2>1. mine = [mine EXCEPT ![k] = mine[k]] /\ slot \in [Slots -> Tokens]
        /\ mine[k] \in Slots
    BY DEF RegInv, RegTypes
  <2>2. CASE SkipSlot(k)
    BY <2>2 DEF SkipSlot, Step, LiveClients, rxVars
  <2>3. CASE ReclaimSlot(k)
    <3>1. \A s \in Slots : slot'[s].pid = slot[s].pid
      BY <2>1, <2>3 DEF ReclaimSlot, Tokens
    <3> QED BY <2>1, <2>3, <3>1 DEF ReclaimSlot, Step, LiveClients, rxVars
  <2>4. CASE TakeSlot(k)
    BY <2>1, <2>4 DEF TakeSlot, Step, LiveClients, rxVars
  <2> QED BY <2>2, <2>3, <2>4
<1>2. /\ kpc \in [Clients -> {"out", "joined"} \cup Gated \cup Receiving]
      /\ mine \in [Clients -> Slots] /\ slot \in [Slots -> Tokens]
  BY DEF RegInv, RegTypes
<1>3. Registered(k) /\ ClientRoom(k)
  BY <1>1 DEF RegInv, RoomInv
<1>4. /\ ~HasSlot(k) /\ token[k] = NoToken
      /\ kpc'[k] \in {"leave", "slots", "reclaim", "fill"} /\ ClaimsQuiet
  BY <1>1, <1>2, <1>3
     DEF ClientRoom, Quiet, HasSlot, Joined, Receiving, Registered
<1>5. \A j \in Clients \ {k} : UNCHANGED <<kpc[j], mine[j], token[j], rx[j], held[j]>>
  BY <1>1, <1>2
<1>6. RxTypes' /\ \A q \in Producers, s \in Slots : Clear(q, cursor'[q][s].position)
  BY <1>1, RoomOwned DEF RoomInv, RxTypes
<1>7. ClientRoom(k)'
  <2>1. ClaimsQuiet' <=> ClaimsQuiet
    BY <1>1 DEF ClaimsQuiet, producerVars
  <2> QED BY <2>1, <1>1, <1>4, RoomOutside DEF Joined, Receiving
<1>8. \A s \in Slots : SlotOwned(s)'
  <2>1. \A s \in Slots : slot[s].pid # k
    BY <1>1, <1>4, RoomOwned, NoSlot
  <2>2. CASE kpc'[k] # "fill"
    <3>1. \A s \in Slots : slot'[s].pid = slot[s].pid
      BY <2>2, <1>1, <1>2
    <3> QED BY <2>1, <3>1, <1>1, <1>5, RoomOwned, SlotsOwned
  <2>3. CASE kpc'[k] = "fill"
    <3>1. /\ mine' = mine
          /\ slot' = [slot EXCEPT ![mine[k]] =
               Token(slot[mine[k]].generation + 1, k, "Initializing")]
      BY <2>3, <1>1, <1>2
    <3>2. \A s \in Slots : slot'[s].pid = IF s = mine[k] THEN k ELSE slot[s].pid
      BY <3>1, <1>2 DEF Token
    <3>3. HasSlot(k)'
      BY <2>3 DEF HasSlot
    <3> QED BY <2>1, <3>1, <3>2, <3>3, <1>1, <1>5, RoomOwned, SlotsOwned
  <2> QED BY <2>2, <2>3
<1> QED BY <1>1, <1>5, <1>6, <1>7, <1>8, RoomClient

\* Slots of the dead and slots given up are cleared.
LEMMA FreeRoom ==
  ASSUME RoomInv, RegInv, NEW k \in Clients, FreeReclaimed(k) \/ FreeSlot(k)
  PROVE  RoomInv'
<1> DEFINE s == mine[k]
<1>1. /\ alive[k] /\ k \in LiveClients
      /\ UNCHANGED <<ringVars, producerVars, rx, last_hit, held, token, alive>>
      /\ cursor' = [q \in Producers |->
                      [cursor[q] EXCEPT ![s] = NoCursor(slot[s].generation)]]
      /\ slot' = [slot EXCEPT ![s] = Token(@.generation, NoClient, "Free")]
      /\ \/ kpc[k] = "reclaim" /\ kpc' = [kpc EXCEPT ![k] = "slots"] /\ mine' = mine
         \/ /\ kpc[k] = "freeing" /\ kpc' = [kpc EXCEPT ![k] = "leave"]
            /\ mine' = [mine EXCEPT ![k] = 0]
  BY DEF FreeReclaimed, FreeSlot, ClearCursors, Step, LiveClients, rxVars
<1>2. /\ kpc \in [Clients -> {"out", "joined"} \cup Gated \cup Receiving]
      /\ mine \in [Clients -> Slots] /\ slot \in [Slots -> Tokens] /\ s \in Slots
      /\ cursor \in [Producers -> [Slots -> Cursors]] /\ slot[s].generation \in Nat
  BY DEF RegInv, RegTypes, RoomInv, RxTypes, Tokens
<1>3. Registered(k) /\ ClientRoom(k)
  BY <1>1 DEF RegInv, RoomInv
<1>4. /\ token[k] = NoToken /\ kpc'[k] \in {"slots", "leave"}
      /\ kpc'[k] = "slots" => ClaimsQuiet
      /\ slot[s].phase # "Active" /\ kpc[k] \in Gated
  <2>1. kpc[k] \in {"reclaim", "freeing"}
    BY <1>1
  <2>2. kpc[k] = "reclaim" => ClaimsQuiet
    BY <1>3 DEF ClientRoom, Quiet
  <2>3. token[k] = NoToken /\ slot[s].phase # "Active"
    BY <2>1, <1>3 DEF Registered, Owns, Joined, Receiving
  <2> QED BY <2>1, <2>2, <2>3, <1>1, <1>2 DEF Gated
<1>5. \A j \in Clients \ {k} : UNCHANGED <<kpc[j], mine[j], token[j], rx[j], held[j]>>
  BY <1>1, <1>2
<1>6. NoCursor(slot[s].generation) \in Cursors
      /\ NoCursor(slot[s].generation).position = 0
  BY <1>2 DEF NoCursor, Cursors
<1>7. \A q \in Producers : \A x \in Slots :
        cursor'[q][x] = IF x = s THEN NoCursor(slot[s].generation) ELSE cursor[q][x]
  BY <1>1, <1>2
<1>8. RxTypes'
  <2>1. cursor' \in [Producers -> [Slots -> Cursors]]
    BY <1>1, <1>2, <1>6
  <2> QED BY <2>1, <1>1 DEF RoomInv, RxTypes
<1>9. \A j \in LiveClients \ {k} : Subscribing(j) =>
        \A q \in Producers : cursor'[q][mine[j]] = cursor[q][mine[j]]
  <2>1. ASSUME NEW j \in LiveClients, j # k, Subscribing(j)
        PROVE  mine[j] \in Slots /\ mine[j] # s
    BY <2>1, <1>1, <1>4, OthersActive DEF ActiveSlots
  <2> QED BY <2>1, <1>7
<1>10. \A q \in Producers, x \in Slots : Clear(q, cursor'[q][x].position)
  BY <1>6, <1>7, RoomOwned
<1>11. ClientRoom(k)'
  <2>1. ClaimsQuiet' <=> ClaimsQuiet
    BY <1>1 DEF ClaimsQuiet, producerVars
  <2> QED BY <2>1, <1>1, <1>4, RoomOutside DEF Joined, Receiving
<1>12. \A x \in Slots : SlotOwned(x)'
  <2>1. \A x \in Slots : slot'[x].pid = IF x = s THEN NoClient ELSE slot[x].pid
    BY <1>1, <1>2 DEF Token
  <2>2. \A x \in Slots : slot'[x].pid # k
    <3>1. ASSUME NEW x \in Slots, x # s, slot[x].pid = k PROVE FALSE
      BY <3>1, <1>1, RoomOwned, NoSlot
    <3> QED BY <3>1, <2>1, Names
  <2> QED BY <2>1, <2>2, <1>1, <1>5, RoomOwned, SlotsOwned
<1> QED BY <1>1, <1>5, <1>8, <1>9, <1>10, <1>11, <1>12, RoomClient

\* What a producer has announced is within the window of what it has claimed.
LEMMA ReservationRoomy ==
  ASSUME RoomInv, NEW p \in Producers
  PROVE  /\ producer_pos[p] - reservation[p].position <= EffectiveCapacity
         /\ cached_pos[p] <= reservation[p].position
         /\ ppc[p] = "room" =>
              producer_pos[p] + ask[p].len * ask[p].count - reservation[p].position
                <= EffectiveCapacity
<1>1. OpenRing(p)
  BY DEF RoomInv
<1>2. /\ producer_pos[p] \in Nat /\ reservation[p].position \in Nat
      /\ EffectiveCapacity \in Nat
  BY CapacityType DEF RoomInv, ProducerTypes, RingTypes
<1>3. CASE ppc[p] = "reserved"
  <2>1. /\ claims[p] # <<>> /\ reservation[p].position = LastClaim(p).start
        /\ LastClaim(p).len * LastClaim(p).count <= EffectiveCapacity
        /\ LaidOut(claims[p], producer_pos[p], Taken(p))
    BY <1>1, <1>3 DEF OpenRing
  <2>2. Len(claims[p]) \in DOMAIN claims[p]
    BY <2>1 DEF LaidOut
  <2>3. LastClaim(p).start + LastClaim(p).len * LastClaim(p).count = producer_pos[p]
    BY <2>1, <2>2 DEF LaidOut, LastClaim
  <2>4. LastClaim(p).len \in Nat /\ LastClaim(p).count \in Nat
    BY <2>1, <2>2, ClaimTypes DEF LastClaim
  <2>5. LastClaim(p).len * LastClaim(p).count \in Nat
    BY <2>4, Multiples
  <2>6. producer_pos[p] - reservation[p].position <= EffectiveCapacity
    BY <2>1, <2>3, <2>5, <1>2
  <2> QED BY <2>6, <1>1, <1>3 DEF OpenRing
<1>4. CASE ppc[p] # "reserved"
  <2>1. reservation[p].position = producer_pos[p]
    BY <1>1, <1>4 DEF OpenRing
  <2>2. ASSUME ppc[p] = "room"
        PROVE  producer_pos[p] + ask[p].len * ask[p].count - reservation[p].position
                 <= EffectiveCapacity
    <3>1. ask[p].len * ask[p].count <= EffectiveCapacity
      BY <2>2, <1>1 DEF OpenRing
    <3>2. ask[p].len \in Nat /\ ask[p].count \in Nat
      <4>1. ask[p] \in [len : 0 .. Cap, count : 0 .. MaxBatch]
        BY DEF RoomInv, ProducerTypes
      <4>2. Cap \in Nat /\ MaxBatch \in Nat
        BY ChannelAssumption
      <4> QED BY <4>1, <4>2
    <3>3. ask[p].len * ask[p].count \in Nat
      BY <3>2, Multiples
    <3>4. \A a, b, e \in Nat : b <= e => a + b - a <= e
      OBVIOUS
    <3> QED BY <3>1, <3>3, <3>4, <2>1, <1>2
  <2>3. producer_pos[p] - reservation[p].position <= EffectiveCapacity
    BY <2>1, <1>2
  <2> QED BY <2>2, <2>3, <1>1 DEF OpenRing
<1> QED BY <1>3, <1>4

\* A new subscription starts where the producers have announced.
LEMMA FillCursorsRoom ==
  ASSUME RoomInv, RegInv, NEW k \in Clients, FillCursors(k)
  PROVE  RoomInv'
<1> DEFINE s == mine[k]
           at(q) == [position |-> reservation[q].position,
                     sequence |-> IF Ordered THEN global_seq ELSE reservation[q].sequence,
                     messages |-> reservation[q].messages,
                     generation |-> slot[s].generation]
<1>1. /\ alive[k] /\ k \in LiveClients /\ kpc[k] = "fill"
      /\ kpc' = [kpc EXCEPT ![k] = "activate"]
      /\ cursor' = [q \in Producers |-> [cursor[q] EXCEPT ![s] = at(q)]]
      /\ UNCHANGED <<ringVars, producerVars, slot, rx, last_hit, held, mine, token, alive>>
  BY DEF FillCursors, Step, LiveClients, rxVars
<1>2. /\ kpc \in [Clients -> {"out", "joined"} \cup Gated \cup Receiving]
      /\ slot \in [Slots -> Tokens] /\ s \in Slots /\ slot[s].generation \in Nat
      /\ cursor \in [Producers -> [Slots -> Cursors]] /\ global_seq \in Nat
      /\ reservation \in [Producers -> [position : Nat, sequence : Nat, messages : Nat]]
  BY DEF RegInv, RegTypes, RoomInv, RxTypes, RingTypes, Tokens
<1>3. Registered(k) /\ ClientRoom(k)
  BY <1>1 DEF RegInv, RoomInv
<1>4. kpc'[k] = "activate" /\ ClaimsQuiet /\ kpc[k] \in Gated
  BY <1>1, <1>2, <1>3 DEF ClientRoom, Quiet, Gated
<1>5. \A j \in Clients \ {k} : UNCHANGED <<kpc[j], mine[j], token[j], rx[j], held[j]>>
  BY <1>1, <1>2
<1>6. \A q \in Producers : at(q) \in Cursors /\ at(q).position = reservation[q].position
  BY <1>2 DEF Cursors
<1>7. \A q \in Producers : \A x \in Slots :
        cursor'[q][x] = IF x = s THEN at(q) ELSE cursor[q][x]
  BY <1>1, <1>2
<1>8. RxTypes'
  <2> HIDE DEF at
  <2>1. cursor' \in [Producers -> [Slots -> Cursors]]
    BY <1>1, <1>2, <1>6
  <2> QED BY <2>1, <1>1 DEF RoomInv, RxTypes
<1>9. \A j \in LiveClients \ {k} : Subscribing(j) =>
        \A q \in Producers : cursor'[q][mine[j]] = cursor[q][mine[j]]
  <2>1. ASSUME NEW j \in LiveClients, j # k, Subscribing(j)
        PROVE  mine[j] \in Slots /\ mine[j] # s
    <3>1. slot[s].phase # "Active"
      BY <1>1, <1>3 DEF Registered, Owns
    <3> QED BY <3>1, <2>1, <1>1, <1>4, OthersActive DEF ActiveSlots
  <2> QED BY <2>1, <1>7
<1>10. \A q \in Producers, x \in Slots : Clear(q, cursor'[q][x].position)
  <2> HIDE DEF at
  <2> QED BY <1>6, <1>7, RoomOwned
<1>11. ClientRoom(k)'
  <2>1. Quiet(k)' /\ Ends(k)'
    BY <1>1, <1>4 DEF Quiet, Ends, ClaimsQuiet, producerVars
  <2>2. ASSUME NEW q \in Producers PROVE Roomy(q, mine[k])'
    <3>1. cursor'[q][mine'[k]].position = reservation[q].position
      <4> HIDE DEF at
      <4> QED BY <1>1, <1>2, <1>6, <1>7
    <3>2. UNCHANGED <<producer_pos, cached_pos, ppc, ask>>
      BY <1>1 DEF producerVars
    <3> QED BY <3>1, <3>2, ReservationRoomy DEF Roomy
  <2>3. kpc'[k] \notin Receiving
    BY <1>4 DEF Receiving
  <2> QED BY <2>1, <2>2, <2>3 DEF ClientRoom
<1>12. \A x \in Slots : SlotOwned(x)'
  <2>1. \A x \in Slots : slot[x].pid = k => mine[k] = x
    BY <1>1, RoomOwned, NoSlot
  <2>2. HasSlot(k)'
    BY <1>4 DEF HasSlot
  <2> QED BY <2>1, <2>2, <1>1, <1>5, RoomOwned, SlotsOwned
<1> QED BY <1>1, <1>5, <1>8, <1>9, <1>10, <1>11, <1>12, RoomClient

\* The registration is completed and the gate opened; then the subscriber reads on
\* from its slot.
LEMMA JoinRoom ==
  ASSUME RoomInv, RegInv, NEW k \in Clients,
         StoreActive(k) \/ ReleaseGate(k) \/ OpenRx(k)
  PROVE  RoomInv'
<1>1. /\ alive[k] /\ k \in LiveClients
      /\ UNCHANGED <<ringVars, producerVars, cursor, held, mine, alive>>
      /\ \/ /\ kpc[k] = "activate" /\ kpc' = [kpc EXCEPT ![k] = "leave"] /\ rx' = rx
            /\ last_hit' = last_hit
            /\ token' = [token EXCEPT ![k] = Token(slot[mine[k]].generation, k, "Active")]
            /\ slot' = [slot EXCEPT ![mine[k]].phase = "Active"]
         \/ /\ kpc[k] = "leave" /\ rx' = rx /\ last_hit' = last_hit
            /\ token' = token /\ slot' = slot
            /\ kpc' = [kpc EXCEPT ![k] = IF token[k] = NoToken THEN "out" ELSE "joined"]
         \/ /\ kpc[k] = "joined" /\ kpc' = [kpc EXCEPT ![k] = "open"]
            /\ rx' = [rx EXCEPT ![k] = SlotView(k)]
            /\ last_hit' = [last_hit EXCEPT ![k] = 0]
            /\ token' = token /\ slot' = slot
  BY DEF StoreActive, ReleaseGate, OpenRx, Step, LiveClients, rxVars, SlotView
<1>2. /\ kpc \in [Clients -> {"out", "joined"} \cup Gated \cup Receiving]
      /\ slot \in [Slots -> Tokens] /\ token \in [Clients -> Tokens]
      /\ mine[k] \in Slots /\ rx \in [Clients -> [Producers -> Kept]]
      /\ last_hit \in [Clients -> Producers]
      /\ cursor \in [Producers -> [Slots -> Cursors]]
  BY DEF RegInv, RegTypes, RoomInv, RxTypes
<1>3. ClientRoom(k)
  BY <1>1 DEF RoomInv
<1>4. /\ kpc'[k] \in {"out", "leave", "joined", "open"}
      /\ kpc[k] \in {"activate", "leave", "joined"}
  <2>1. kpc[k] \in {"activate", "leave", "joined"}
    BY <1>1
  <2> QED BY <2>1, <1>1, <1>2
<1>5. \A j \in Clients \ {k} : UNCHANGED <<kpc[j], mine[j], token[j], rx[j], held[j]>>
  BY <1>1, <1>2
<1>6. SlotView(k) \in [Producers -> Kept]
  <2>1. \A q \in Producers : cursor[q][mine[k]] \in Cursors
    BY <1>2
  <2> QED BY <2>1 DEF SlotView, Kept, Cursors
<1>7. RxTypes'
  <2>1. rx' \in [Clients -> [Producers -> Kept]]
    BY <1>1, <1>2, <1>6
  <2>2. 0 \in Producers
    BY ChannelAssumption DEF Producers
  <2>3. last_hit' \in [Clients -> Producers]
    BY <2>2, <1>1, <1>2
  <2> QED BY <2>1, <2>3, <1>1 DEF RoomInv, RxTypes
<1>8. Subscribing(k)' => Subscribing(k)
  <2>1. CASE kpc[k] = "leave" /\ token[k] = NoToken
    BY <2>1, <1>1, <1>2 DEF Subscribing, Joined, Receiving
  <2>2. CASE ~(kpc[k] = "leave" /\ token[k] = NoToken)
    BY <2>2, <1>4 DEF Subscribing, Joined
  <2> QED BY <2>1, <2>2
<1>9. ASSUME kpc'[k] \in Receiving, NEW q \in Producers PROVE Stands(k, q)'
  <2>1. kpc[k] = "joined" /\ rx'[k] = SlotView(k)
    BY <1>1, <1>2, <1>9 DEF Receiving
  <2>2. PICK x \in Nat : x = cursor[q][mine[k]].position
    BY <1>2 DEF Cursors
  <2>3. rx'[k][q].read = x /\ rx'[k][q].flushed = x /\ rx'[k][q].visible = 0
    BY <2>1, <2>2 DEF SlotView
  <2>4. cursor'[q][mine'[k]].position = x
    BY <2>2, <1>1
  <2>5. Clear(q, x) /\ visible[q] \in Nat
    BY <2>2, <1>2, RoomOwned
  <2>6. UNCHANGED <<reservation, claims, visible>>
    BY <1>1 DEF ringVars, producerVars
  <2>7. Clear(q, rx[k][q].read)'
    BY <2>3, <2>5, <2>6 DEF Clear
  <2> QED BY <2>2, <2>3, <2>4, <2>5, <2>6, <2>7 DEF Stands
<1>10. ClientRoom(k)'
  <2>1. Quiet(k)' /\ Ends(k)'
    BY <1>4 DEF Quiet, Ends
  <2>2. ASSUME Subscribing(k)', NEW q \in Producers PROVE Roomy(q, mine[k])'
    BY <2>2, <1>1, <1>3, <1>8 DEF ClientRoom, Roomy, producerVars
  <2> QED BY <2>1, <2>2, <1>9 DEF ClientRoom
<1>11. \A s \in Slots : SlotOwned(s)'
  <2>1. \A s \in Slots : slot'[s].pid = slot[s].pid
    <3>1. slot' = slot \/ slot' = [slot EXCEPT ![mine[k]].phase = "Active"]
      BY <1>1
    <3>2. CASE slot' = slot
      BY <3>2
    <3>3. CASE slot' = [slot EXCEPT ![mine[k]].phase = "Active"]
      BY <3>3, <1>2 DEF Tokens
    <3> QED BY <3>1, <3>2, <3>3
  <2>2. \A s \in Slots : slot[s].pid = k => HasSlot(k) /\ mine[k] = s
    BY <1>1, RoomOwned, NoSlot
  <2>3. HasSlot(k) => HasSlot(k)'
    <3>1. CASE kpc[k] = "activate"
      <4>1. kpc'[k] = "leave" /\ token'[k] = Token(slot[mine[k]].generation, k, "Active")
        BY <3>1, <1>1, <1>2
      <4>2. token'[k] # NoToken
        BY <4>1 DEF Token, NoToken
      <4> QED BY <4>1, <4>2 DEF HasSlot
    <3>2. CASE kpc[k] = "leave"
      BY <3>2, <1>1, <1>2 DEF HasSlot, Joined, Receiving
    <3>3. CASE kpc[k] = "joined"
      BY <3>3, <1>1, <1>2 DEF HasSlot, Joined, Receiving
    <3> QED BY <3>1, <3>2, <3>3, <1>4
  <2> QED BY <2>1, <2>2, <2>3, <1>1, <1>5, RoomOwned, SlotsOwned
<1>12. \A q \in Producers, s \in Slots : Clear(q, cursor'[q][s].position)
  BY <1>1, RoomOwned
<1> QED BY <1>1, <1>5, <1>7, <1>10, <1>11, <1>12, RoomClient

\* The subscriber is destroyed and its slot given up.
LEMMA LeaveRoom ==
  ASSUME RoomInv, RegInv, NEW k \in Clients, ReleaseConsumer(k) \/ MarkReleasing(k)
  PROVE  RoomInv'
<1>1. Registered(k) /\ ClientRoom(k) /\ alive[k] /\ k \in LiveClients
  BY DEF ReleaseConsumer, MarkReleasing, Step, RegInv, RoomInv, LiveClients
<1>2. /\ kpc \in [Clients -> {"out", "joined"} \cup Gated \cup Receiving]
      /\ slot \in [Slots -> Tokens] /\ token \in [Clients -> Tokens]
      /\ mine[k] \in Slots /\ rx \in [Clients -> [Producers -> Kept]]
      /\ held \in [Clients -> SUBSET Given]
  BY DEF RegInv, RegTypes, RoomInv, RxTypes
<1>3. kpc[k] = "closing" => HasConsumer(k)
  BY <1>1 DEF Registered, Joined, Subscribed
<1>4. /\ UNCHANGED <<ringVars, producerVars, cursor, last_hit, mine, alive>>
      /\ \/ /\ kpc[k] \in {"open", "holding", "polling"}
            /\ kpc' = [kpc EXCEPT ![k] = "closing"]
            /\ slot' = slot /\ token' = token
            /\ rx' = [rx EXCEPT ![k] = NoRx] /\ held' = [held EXCEPT ![k] = {}]
         \/ /\ kpc[k] = "closing" /\ kpc' = [kpc EXCEPT ![k] = "freeing"]
            /\ slot' = [slot EXCEPT ![mine[k]].phase = "Releasing"]
            /\ token' = [token EXCEPT ![k] = NoToken] /\ rx' = rx /\ held' = held
  BY <1>3 DEF ReleaseConsumer, MarkReleasing, Step, rxVars
<1>5. \A j \in Clients \ {k} : UNCHANGED <<kpc[j], mine[j], token[j], rx[j], held[j]>>
  BY <1>2, <1>4
<1>6. kpc'[k] \in {"closing", "freeing"}
  BY <1>2, <1>4
<1>7. RxTypes'
  <2>1. NoRx \in [Producers -> Kept]
    BY DEF NoRx, Kept
  <2>2. rx' \in [Clients -> [Producers -> Kept]]
    BY <2>1, <1>2, <1>4
  <2>3. held' \in [Clients -> SUBSET Given]
    BY <1>2, <1>4
  <2> QED BY <2>2, <2>3, <1>4 DEF RoomInv, RxTypes
<1>8. ClientRoom(k)'
  <2>1. CASE kpc'[k] = "freeing"
    BY <2>1, RoomOutside DEF Joined, Receiving
  <2>2. CASE kpc'[k] = "closing"
    <3>1. Subscribing(k)
      BY <2>2, <1>2, <1>4 DEF Subscribing, Joined, Receiving
    <3>2. \A q \in Producers : Roomy(q, mine[k])'
      BY <3>1, <1>1, <1>4 DEF ClientRoom, Roomy, producerVars
    <3>3. Quiet(k)' /\ Ends(k)' /\ kpc'[k] \notin Receiving
      BY <2>2 DEF Quiet, Ends, Receiving
    <3> QED BY <3>2, <3>3 DEF ClientRoom
  <2> QED BY <2>1, <2>2, <1>6
<1>9. \A s \in Slots : SlotOwned(s)'
  <2>1. \A s \in Slots : slot'[s].pid = slot[s].pid
    BY <1>2, <1>4 DEF Tokens
  <2>2. \A s \in Slots : slot[s].pid = k => mine[k] = s
    BY <1>1, RoomOwned, NoSlot
  <2>3. HasSlot(k)'
    BY <1>6 DEF HasSlot, Joined
  <2> QED BY <2>1, <2>2, <2>3, <1>4, <1>5, RoomOwned, SlotsOwned
<1>10. \A q \in Producers, s \in Slots : Clear(q, cursor'[q][s].position)
  BY <1>4, RoomOwned
<1> QED BY <1>1, <1>4, <1>5, <1>7, <1>8, <1>9, <1>10, RoomClient

\* A client dies.
LEMMA ClientDiesRoom ==
  ASSUME RoomInv, RegInv, NEW k \in Clients, ClientDies(k)
  PROVE  RoomInv'
<1>1. /\ UNCHANGED <<ringVars, producerVars, cursor, slot>>
      /\ alive' = [alive EXCEPT ![k] = FALSE]
      /\ kpc' = [kpc EXCEPT ![k] = "out"] /\ token' = [token EXCEPT ![k] = NoToken]
      /\ mine' = [mine EXCEPT ![k] = 0] /\ rx' = [rx EXCEPT ![k] = NoRx]
      /\ held' = [held EXCEPT ![k] = {}] /\ last_hit' = [last_hit EXCEPT ![k] = 0]
  BY DEF ClientDies
<1>2. /\ kpc \in [Clients -> {"out", "joined"} \cup Gated \cup Receiving]
      /\ token \in [Clients -> Tokens] /\ mine \in [Clients -> Slots]
      /\ rx \in [Clients -> [Producers -> Kept]] /\ held \in [Clients -> SUBSET Given]
      /\ last_hit \in [Clients -> Producers] /\ alive \in [Processes -> BOOLEAN]
      /\ k \in Processes
  BY Names DEF RegInv, RegTypes, RoomInv, RxTypes
<1>3. \A j \in Clients \ {k} : UNCHANGED <<kpc[j], mine[j], token[j], rx[j], held[j]>>
  BY <1>1, <1>2
<1>4. (\A x \in Processes \ {k} : alive'[x] = alive[x]) /\ ~alive'[k]
  BY <1>1, <1>2
<1>5. RxTypes'
  <2>1. NoRx \in [Producers -> Kept]
    BY DEF NoRx, Kept
  <2>2. 0 \in Producers
    BY ChannelAssumption DEF Producers
  <2>3. rx' \in [Clients -> [Producers -> Kept]]
    BY <2>1, <1>1, <1>2
  <2>4. held' \in [Clients -> SUBSET Given] /\ last_hit' \in [Clients -> Producers]
    BY <2>2, <1>1, <1>2
  <2> QED BY <2>3, <2>4, <1>1 DEF RoomInv, RxTypes
<1>6. \A s \in Slots : SlotOwned(s)'
  BY <1>1, <1>3, <1>4, RoomOwned, SlotsOwned
<1>7. \A q \in Producers, s \in Slots : Clear(q, cursor'[q][s].position)
  BY <1>1, RoomOwned
<1> QED BY <1>1, <1>3, <1>4, <1>5, <1>6, <1>7, RoomClient

-----------------------------------------------------------------------------
(* Claims kept open: receiving *)

\* s is where k may be after it has moved on in the rings and announced nothing.
Moves(k, s) ==
  /\ s \in [Producers -> Kept]
  /\ \A q \in Producers :
       /\ rx[k][q].read <= s[q].read /\ Clear(q, s[q].read)
       /\ s[q].flushed = rx[k][q].flushed /\ s[q].visible <= visible[q]

\* A receiver's step begins with a live client that reads.
LEMMA RoomReceiver ==
  ASSUME RoomInv, RegInv, NEW k \in Clients, alive[k], kpc[k] \in Receiving
  PROVE  /\ k \in LiveClients /\ ClientRoom(k)
         /\ \A q \in Producers : Stands(k, q) /\ Roomy(q, mine[k])
         /\ mine[k] \in Slots
         /\ kpc \in [Clients -> {"out", "joined"} \cup Gated \cup Receiving]
         /\ cursor \in [Producers -> [Slots -> Cursors]]
         /\ rx \in [Clients -> [Producers -> Kept]] /\ rx[k] \in [Producers -> Kept]
         /\ last_hit \in [Clients -> Producers]
         /\ held \in [Clients -> SUBSET Given]
         /\ visible \in [Producers -> Nat]
<1>1. k \in LiveClients /\ ClientRoom(k)
  BY DEF LiveClients, RoomInv
<1>2. Subscribing(k)
  BY DEF Subscribing, Joined
<1>3. \A q \in Producers : Stands(k, q) /\ Roomy(q, mine[k])
  BY <1>1, <1>2 DEF ClientRoom
<1> QED BY <1>1, <1>3 DEF RegInv, RegTypes, RoomInv, RxTypes, RingTypes

\* Where k is, it may be; and its bound is visible.
LEMMA StaysPut ==
  ASSUME RoomInv, RegInv, NEW k \in Clients, alive[k], kpc[k] \in Receiving
  PROVE  /\ Moves(k, rx[k])
         /\ \A q \in Producers : Bound(k, q) \in Nat /\ Bound(k, q) <= visible[q]
<1>1. /\ rx[k] \in [Producers -> Kept] /\ \A q \in Producers : Stands(k, q)
      /\ visible \in [Producers -> Nat]
  BY RoomReceiver
<1>2. \A q \in Producers : rx[k][q].read \in Nat /\ rx[k][q].visible \in Nat
  BY <1>1, ReaderParts
<1>3. \A q \in Producers : Bound(k, q) \in Nat /\ Bound(k, q) <= visible[q]
  BY <1>1, <1>2 DEF Stands, Bound
<1> QED BY <1>1, <1>2, <1>3 DEF Moves, Stands

\* Looking at the bounds again moves nothing.
LEMMA RefreshedMoves ==
  ASSUME RoomInv, RegInv, NEW k \in Clients, alive[k], kpc[k] \in Receiving,
         NEW n, NEW s, s = Refreshed(k, n)
  PROVE  /\ Moves(k, s)
         /\ \A q \in Producers : s[q].read = rx[k][q].read /\ s[q].next = rx[k][q].next
<1>1. Moves(k, rx[k]) /\ \A q \in Producers : Bound(k, q) \in Nat /\ Bound(k, q) <= visible[q]
  BY StaysPut
<1>2. ASSUME NEW q \in Producers
      PROVE  /\ s[q] \in Kept /\ s[q].read = rx[k][q].read /\ s[q].next = rx[k][q].next
             /\ s[q].flushed = rx[k][q].flushed /\ s[q].visible <= visible[q]
  <2>1. rx[k][q] \in Kept /\ rx[k][q].visible <= visible[q]
    BY <1>1 DEF Moves
  <2>2. CASE s[q] = rx[k][q]
    BY <2>1, <2>2
  <2>3. CASE s[q] = [rx[k][q] EXCEPT !.visible = Bound(k, q)]
    <3>1. PICK b \in Nat : b = Bound(k, q) /\ b <= visible[q]
      BY <1>1
    <3>2. s[q] = [rx[k][q] EXCEPT !.visible = b]
      BY <2>3, <3>1
    <3> QED BY <2>1, <3>1, <3>2 DEF Kept
  <2>4. s[q] = rx[k][q] \/ s[q] = [rx[k][q] EXCEPT !.visible = Bound(k, q)]
    BY DEF Refreshed
  <2> QED BY <2>2, <2>3, <2>4
<1>3. s \in [Producers -> Kept]
  <2>1. s \in [Producers -> {s[q] : q \in Producers}]
    BY DEF Refreshed
  <2> QED BY <2>1, <1>2
<1>4. ASSUME NEW q \in Producers PROVE rx[k][q].read <= s[q].read /\ Clear(q, s[q].read)
  <2>1. rx[k][q].read <= rx[k][q].read /\ Clear(q, rx[k][q].read)
    BY <1>1 DEF Moves
  <2> QED BY <2>1, <1>2
<1> QED BY <1>2, <1>3, <1>4 DEF Moves

\* Going on to a clear place.
LEMMA AdvanceMoves ==
  ASSUME NEW k, NEW r, Moves(k, r), NEW p \in Producers,
         NEW x \in Nat, rx[k][p].read <= x, Clear(p, x), NEW n \in Nat, NEW a \in Nat,
         NEW s, s = Advance(r, p, x, n, a)
  PROVE  Moves(k, s) /\ s[p].read = x /\ \A q \in Producers \ {p} : s[q].read = r[q].read
<1>1. /\ s[p] = [r[p] EXCEPT !.read = x, !.next = n, !.messages = @ + a]
      /\ \A q \in Producers \ {p} :
           s[q] = IF Ordered THEN [r[q] EXCEPT !.next = n] ELSE r[q]
      /\ s \in [Producers -> {s[q] : q \in Producers}]
  <2>1. s[p] = [r[p] EXCEPT !.read = x, !.next = n, !.messages = @ + a]
    BY DEF Advance
  <2>2. \A q \in Producers \ {p} :
          s[q] = IF Ordered THEN [r[q] EXCEPT !.next = n] ELSE r[q]
    BY DEF Advance
  <2>3. s \in [Producers -> {s[q] : q \in Producers}]
    BY DEF Advance
  <2> QED BY <2>1, <2>2, <2>3
<1>2. \A q \in Producers : r[q] \in Kept /\ r[q].messages \in Nat
  BY ReaderParts DEF Moves
<1>3. /\ s[p] \in Kept /\ s[p].read = x /\ s[p].flushed = r[p].flushed
      /\ s[p].visible = r[p].visible
  <2>1. PICK b \in Nat : b = r[p].messages + a
    BY <1>2
  <2>2. s[p] = [r[p] EXCEPT !.read = x, !.next = n, !.messages = b]
    BY <1>1, <2>1
  <2> QED BY <1>2, <2>2 DEF Kept
<1>4. ASSUME NEW q \in Producers \ {p}
      PROVE  /\ s[q] \in Kept /\ s[q].read = r[q].read /\ s[q].flushed = r[q].flushed
             /\ s[q].visible = r[q].visible
  <2>1. s[q] = IF Ordered THEN [r[q] EXCEPT !.next = n] ELSE r[q]
    BY <1>1
  <2> QED BY <2>1, <1>2 DEF Kept
<1>5. s \in [Producers -> Kept]
  BY <1>1, <1>3, <1>4
<1>6. ASSUME NEW q \in Producers
      PROVE  /\ rx[k][q].read <= s[q].read /\ Clear(q, s[q].read)
             /\ s[q].flushed = rx[k][q].flushed /\ s[q].visible <= visible[q]
  <2>1. /\ rx[k][q].read <= r[q].read /\ Clear(q, r[q].read)
        /\ r[q].flushed = rx[k][q].flushed /\ r[q].visible <= visible[q]
    BY DEF Moves
  <2>2. CASE q = p
    BY <2>1, <2>2, <1>3
  <2>3. CASE q # p
    BY <2>1, <2>3, <1>4
  <2> QED BY <2>2, <2>3
<1> QED BY <1>3, <1>4, <1>5, <1>6 DEF Moves

\* A message has the type of one, whatever the header says.
LEMMA MessageGiven ==
  ASSUME RoomInv, NEW p \in Producers, NEW x \in Nat, NEW n \in Nat
  PROVE  /\ Message(p, x, n) \in Given
         /\ Message(p, x, n).next = x + header[p][Unit(x)].len
         /\ header[p][Unit(x)].len \in Nat
<1>1. header[p][Unit(x)].len \in Nat
  <2>1. Unit(x) \in 0 .. Cap - 1
    BY UnitType
  <2> QED BY <2>1 DEF RoomInv, RingTypes
<1> QED BY <1>1 DEF Message, Given

\* A run walks on to a place that is clear of open claims, whatever the headers say.
LEMMA RunMoves ==
  ASSUME RoomInv, RegInv, NEW k \in Clients, alive[k], kpc[k] \in Receiving,
         NEW p \in Producers, NEW run \in 0 .. Cap,
         \A j \in 0 .. run - 1 :
           Readable(p, RunPosition(k, p)[j], rx[k][p].next + j, Bound(k, p))
  PROVE  /\ \A j \in 0 .. run : RunPosition(k, p)[j] \in Nat
         /\ rx[k][p].read <= RunPosition(k, p)[run] /\ Clear(p, RunPosition(k, p)[run])
<1> DEFINE at == RunPosition(k, p)
           Good(j) == /\ at[j] \in Nat /\ rx[k][p].read <= at[j]
                      /\ at[j] = rx[k][p].read \/ at[j] <= visible[p]
           Bad == {j \in 0 .. run : ~Good(j)}
<1>1. /\ rx[k][p].read \in Nat /\ Clear(p, rx[k][p].read)
      /\ Bound(k, p) \in Nat /\ Bound(k, p) <= visible[p] /\ visible[p] \in Nat
  BY StaysPut, RoomReceiver, ReaderParts DEF Moves
<1>2. run \in Nat /\ run <= Cap /\ Cap \in Nat
  BY ChannelAssumption
<1>3. at[0] = rx[k][p].read /\ \A j \in 0 .. run - 1 :
        at[j + 1] = at[j] + header[p][Unit(at[j])].len
  <2>1. ASSUME NEW j \in 0 .. run - 1
        PROVE  at[j + 1] = at[j] + header[p][Unit(at[j])].len
    <3>1. j + 1 \in 1 .. Cap /\ (j + 1) - 1 = j
      BY <1>2
    <3>2. at[j + 1] = at[(j + 1) - 1] + header[p][Unit(at[(j + 1) - 1])].len
      BY <3>1, RunSteps
    <3> QED BY <3>1, <3>2
  <2> QED BY <2>1, RunSteps
<1>4. \A j \in 0 .. run - 1 : at[j] + header[p][Unit(at[j])].len <= Bound(k, p)
  BY DEF Readable
<1> HIDE DEF at
<1>5. ASSUME NEW j \in 0 .. run - 1, Good(j) PROVE Good(j + 1)
  <2>1. PICK len \in Nat : len = header[p][Unit(at[j])].len
    BY <1>5, MessageGiven
  <2>2. at[j + 1] = at[j] + len /\ at[j] + len <= Bound(k, p)
    BY <2>1, <1>3, <1>4
  <2> QED BY <2>1, <2>2, <1>1, <1>5
<1>6. Bad = {}
  <2>1. SUFFICES ASSUME Bad # {} PROVE FALSE
    OBVIOUS
  <2>2. Good(0)
    BY <1>1, <1>3
  <2> HIDE DEF Good
  <2>3. Bad \subseteq Nat
    BY <1>2
  <2>4. PICK b \in Bad : \A l \in Bad : b <= l
    BY <2>1, <2>3, LeastNatural
  <2>5. b # 0 /\ b \in 0 .. run /\ ~Good(b)
    BY <2>2, <2>4
  <2>6. b - 1 \in 0 .. run - 1 /\ (b - 1) + 1 = b /\ b - 1 \in 0 .. run /\ ~(b <= b - 1)
    BY <2>5, <1>2
  <2>7. Good(b - 1)
    BY <2>4, <2>6
  <2>8. Good((b - 1) + 1)
    BY <2>6, <2>7, <1>5
  <2> QED BY <2>5, <2>6, <2>8
<1>7. \A j \in 0 .. run : Good(j)
  <2> HIDE DEF Good
  <2> QED BY <1>6
<1>8. Good(run)
  BY <1>2, <1>7
<1>9. Clear(p, at[run])
  BY <1>1, <1>8, RoomOwned
<1> QED BY <1>7, <1>8, <1>9 DEF at

\* A step in which k only moves on in the rings and announces no more than it has
\* read.
LEMMA ReceiveRoom ==
  ASSUME RoomInv, RegInv, NEW k \in Clients, alive[k],
         kpc[k] \in Receiving, kpc'[k] \in Receiving,
         UNCHANGED <<ringVars, producerVars, slot, mine, token, alive>>,
         \A j \in Clients \ {k} : UNCHANGED <<kpc[j], rx[j], held[j]>>,
         RxTypes', NEW s, s = rx'[k],
         \A q \in Producers, x \in Slots \ {mine[k]} : cursor'[q][x] = cursor[q][x],
         \A q \in Producers :
           /\ cursor'[q][mine[k]].position = s[q].flushed /\ s[q].flushed <= s[q].read
           /\ cursor[q][mine[k]].position <= cursor'[q][mine[k]].position
           /\ Clear(q, s[q].flushed) /\ Clear(q, s[q].read) /\ s[q].visible <= visible[q],
         Ends(k)'
  PROVE  RoomInv'
<1>1. /\ k \in LiveClients /\ mine[k] \in Slots /\ Registered(k)
      /\ cursor \in [Producers -> [Slots -> Cursors]]
      /\ \A q \in Producers : Roomy(q, mine[k])
  BY RoomReceiver DEF RegInv
<1>2. UNCHANGED <<visible, reservation, ppc, ask, claims, producer_pos, cached_pos>>
  BY DEF ringVars, producerVars
<1>3. ASSUME NEW j \in LiveClients \ {k}, Subscribing(j), NEW q \in Producers
      PROVE  cursor'[q][mine[j]] = cursor[q][mine[j]]
  <2>1. mine[j] \in Slots /\ slot[mine[j]].pid = j
    BY <1>3, OwnSlot
  <2>2. Subscribing(k)
    BY DEF Subscribing, Joined
  <2>3. slot[mine[k]].pid = k
    BY <2>2, <1>1, OwnSlot
  <2> QED BY <2>1, <2>3
<1>4. \A q \in Producers, x \in Slots : Clear(q, cursor'[q][x].position)
  <2>1. ASSUME NEW q \in Producers, NEW x \in Slots PROVE Clear(q, cursor'[q][x].position)
    <3>1. CASE x = mine[k]
      BY <3>1
    <3>2. CASE x # mine[k]
      <4>1. cursor'[q][x] = cursor[q][x]
        BY <3>2
      <4> QED BY <4>1, RoomOwned
    <3> QED BY <3>1, <3>2
  <2> QED BY <2>1
<1>5. ASSUME NEW q \in Producers PROVE Roomy(q, mine[k])'
  <2>1. Roomy(q, mine[k])
    BY <1>1
  <2>2. PICK c \in Nat : c = cursor[q][mine[k]].position
    BY <1>1 DEF Cursors
  <2>3. PICK d \in Nat : d = cursor'[q][mine[k]].position
    BY <1>1 DEF RxTypes, Cursors
  <2>4. c <= d
    BY <2>2, <2>3
  <2>5. /\ producer_pos[q] \in Nat /\ cached_pos[q] \in Nat /\ EffectiveCapacity \in Nat
        /\ ask[q].len * ask[q].count \in Nat
    <3>1. ask[q].len \in Nat /\ ask[q].count \in Nat
      BY ChannelAssumption DEF RoomInv, ProducerTypes
    <3> QED BY <3>1, CapacityType, Multiples DEF RoomInv, ProducerTypes
  <2>6. producer_pos[q] - d <= EffectiveCapacity /\ cached_pos[q] <= d
    BY <2>1, <2>2, <2>4, <2>5 DEF Roomy
  <2>7. ASSUME ppc[q] = "room"
        PROVE  producer_pos[q] + ask[q].len * ask[q].count - d <= EffectiveCapacity
    <3>1. PICK a \in Nat : a = ask[q].len * ask[q].count
      BY <2>5
    <3>2. producer_pos[q] + a - c <= EffectiveCapacity
      BY <3>1, <2>1, <2>2, <2>7 DEF Roomy
    <3>3. producer_pos[q] + a - d <= EffectiveCapacity
      BY <3>2, <2>4, <2>5
    <3> QED BY <3>1, <3>3
  <2>8. cursor'[q][mine'[k]].position = d
    BY <2>3
  <2> QED BY <2>6, <2>7, <2>8, <1>2 DEF Roomy
<1>6. ASSUME NEW q \in Producers PROVE Stands(k, q)'
  <2>1. Clear(q, s[q].read)'
    BY <1>2 DEF Clear
  <2> QED BY <2>1, <1>2 DEF Stands
<1>7. ClientRoom(k)'
  <2>1. Quiet(k)'
    BY DEF Quiet, Receiving
  <2> QED BY <2>1, <1>5, <1>6 DEF ClientRoom
<1>8. \A x \in Slots : SlotOwned(x)'
  <2>1. \A x \in Slots : slot[x].pid = k => mine[k] = x
    BY <1>1, RoomOwned, NoSlot
  <2>2. HasSlot(k)'
    BY DEF HasSlot, Joined
  <2> QED BY <2>1, <2>2, RoomOwned, SlotsOwned
<1>9. /\ \A x \in Processes \ {k} : alive'[x] = alive[x]
      /\ \A j \in Clients \ {k} : UNCHANGED <<kpc[j], mine[j], token[j], rx[j], held[j]>>
  OBVIOUS
<1> QED BY <1>3, <1>4, <1>7, <1>8, <1>9, RoomClient

\* k moves on without announcing it: the cursors stay behind.
LEMMA UnannouncedRoom ==
  ASSUME RoomInv, RegInv, NEW k \in Clients, alive[k],
         kpc[k] \in Receiving, kpc'[k] \in Receiving,
         UNCHANGED <<ringVars, producerVars, slot, cursor, mine, token, alive>>,
         \A j \in Clients \ {k} : UNCHANGED <<kpc[j], rx[j], held[j]>>,
         RxTypes', NEW s, s = rx'[k], Moves(k, s), Ends(k)'
  PROVE  RoomInv'
<1>1. /\ \A q \in Producers : Stands(k, q)
      /\ mine[k] \in Slots /\ rx[k] \in [Producers -> Kept]
      /\ cursor \in [Producers -> [Slots -> Cursors]]
  BY RoomReceiver
<1>2. ASSUME NEW q \in Producers
      PROVE  /\ cursor'[q][mine[k]].position = s[q].flushed /\ s[q].flushed <= s[q].read
             /\ cursor[q][mine[k]].position <= cursor'[q][mine[k]].position
             /\ Clear(q, s[q].flushed) /\ Clear(q, s[q].read) /\ s[q].visible <= visible[q]
  <2>1. /\ rx[k][q].read <= s[q].read /\ Clear(q, s[q].read)
        /\ s[q].flushed = rx[k][q].flushed /\ s[q].visible <= visible[q]
    BY DEF Moves
  <2>2. cursor[q][mine[k]].position = rx[k][q].flushed /\ rx[k][q].flushed <= rx[k][q].read
    BY <1>1 DEF Stands
  <2>3. rx[k][q].flushed \in Nat /\ rx[k][q].read \in Nat /\ s[q].read \in Nat
    BY <1>1, ReaderParts DEF Moves
  <2>4. Clear(q, cursor[q][mine[k]].position)
    BY <1>1, RoomOwned
  <2>5. cursor'[q][mine[k]] = cursor[q][mine[k]]
    OBVIOUS
  <2>6. Clear(q, s[q].flushed)
    BY <2>1, <2>2, <2>4
  <2> QED BY <2>1, <2>2, <2>3, <2>5, <2>6
<1>3. \A q \in Producers, x \in Slots \ {mine[k]} : cursor'[q][x] = cursor[q][x]
  OBVIOUS
<1> QED BY <1>2, <1>3, ReceiveRoom

\* k moves on to r and announces it.
LEMMA FlushRoom ==
  ASSUME RoomInv, RegInv, NEW k \in Clients, alive[k],
         kpc[k] \in Receiving, kpc'[k] = "open",
         UNCHANGED <<ringVars, producerVars, slot, last_hit, mine, token, alive>>,
         \A j \in Clients \ {k} : UNCHANGED <<kpc[j], held[j]>>,
         NEW r, Moves(k, r), Flush(k, r), held' \in [Clients -> SUBSET Given]
  PROVE  RoomInv'
<1>1. /\ \A q \in Producers : Stands(k, q)
      /\ mine[k] \in Slots /\ rx[k] \in [Producers -> Kept] /\ r \in [Producers -> Kept]
      /\ cursor \in [Producers -> [Slots -> Cursors]]
      /\ rx \in [Clients -> [Producers -> Kept]] /\ last_hit \in [Clients -> Producers]
  BY RoomReceiver DEF Moves
<1>2. PICK s : s = [q \in Producers |-> [r[q] EXCEPT !.flushed = r[q].read]]
  OBVIOUS
<1>3. /\ rx' = [rx EXCEPT ![k] = s]
      /\ cursor' = [q \in Producers |-> IF r[q].read = r[q].flushed THEN cursor[q]
           ELSE [cursor[q] EXCEPT ![mine[k]] = Published(k, r, q)]]
  BY <1>2 DEF Flush
<1>4. ASSUME NEW q \in Producers
      PROVE  /\ s[q] \in Kept /\ s[q].read = r[q].read /\ s[q].visible = r[q].visible
             /\ s[q].flushed = r[q].read
  <2>1. r[q] \in Kept /\ r[q].read \in Nat /\ s[q] = [r[q] EXCEPT !.flushed = r[q].read]
    BY <1>1, <1>2, ReaderParts
  <2> QED BY <2>1 DEF Kept
<1>5. s \in [Producers -> Kept]
  <2>1. s \in [Producers -> {s[q] : q \in Producers}]
    BY <1>2
  <2> QED BY <2>1, <1>4
<1>6. ASSUME NEW q \in Producers
      PROVE  Published(k, r, q) \in Cursors /\ Published(k, r, q).position = r[q].read
  <2>1. cursor[q][mine[k]] \in Cursors
    BY <1>1
  <2>2. r[q].read \in Nat /\ r[q].next \in Nat /\ r[q].messages \in Nat
    BY <1>1, ReaderParts
  <2> QED BY <2>1, <2>2 DEF Published, Cursors
<1>7. ASSUME NEW q \in Producers
      PROVE  /\ cursor'[q] \in [Slots -> Cursors]
             /\ \A x \in Slots \ {mine[k]} : cursor'[q][x] = cursor[q][x]
             /\ cursor'[q][mine[k]] =
                  IF r[q].read = r[q].flushed THEN cursor[q][mine[k]]
                  ELSE Published(k, r, q)
  <2>1. cursor'[q] = IF r[q].read = r[q].flushed THEN cursor[q]
                     ELSE [cursor[q] EXCEPT ![mine[k]] = Published(k, r, q)]
    BY <1>3
  <2>2. cursor[q] \in [Slots -> Cursors]
    BY <1>1
  <2> QED BY <2>1, <2>2, <1>1, <1>6
<1>8. RxTypes'
  <2>1. cursor' \in [Producers -> [Slots -> Cursors]]
    <3>1. cursor' \in [Producers -> {cursor'[q] : q \in Producers}]
      BY <1>3
    <3> QED BY <3>1, <1>7
  <2>2. rx' \in [Clients -> [Producers -> Kept]]
    BY <1>1, <1>3, <1>5
  <2> QED BY <2>1, <2>2, <1>1 DEF RxTypes
<1>9. ASSUME NEW q \in Producers
      PROVE  /\ cursor'[q][mine[k]].position = s[q].flushed /\ s[q].flushed <= s[q].read
             /\ cursor[q][mine[k]].position <= cursor'[q][mine[k]].position
             /\ Clear(q, s[q].flushed) /\ Clear(q, s[q].read) /\ s[q].visible <= visible[q]
  <2>1. PICK c \in Nat : c = cursor[q][mine[k]].position
    BY <1>1 DEF Cursors
  <2>2. c = rx[k][q].flushed /\ rx[k][q].flushed <= rx[k][q].read
    BY <2>1, <1>1 DEF Stands
  <2>3. /\ rx[k][q].read <= r[q].read /\ Clear(q, r[q].read)
        /\ r[q].flushed = rx[k][q].flushed /\ r[q].visible <= visible[q]
    BY DEF Moves
  <2>4. rx[k][q].read \in Nat /\ r[q].read \in Nat
    BY <1>1, ReaderParts
  <2>5. cursor'[q][mine[k]].position = r[q].read
    <3>1. CASE r[q].read = r[q].flushed
      BY <3>1, <2>1, <2>2, <2>3, <1>7
    <3>2. CASE r[q].read # r[q].flushed
      BY <3>2, <1>6, <1>7
    <3> QED BY <3>1, <3>2
  <2>6. Clear(q, s[q].flushed) /\ Clear(q, s[q].read)
    BY <2>3, <1>4
  <2> QED BY <2>1, <2>2, <2>3, <2>4, <2>5, <2>6, <1>4
<1>10. kpc'[k] \in Receiving /\ Ends(k)'
  BY DEF Receiving, Ends
<1>11. \A j \in Clients \ {k} : UNCHANGED <<kpc[j], rx[j], held[j]>>
  BY <1>1, <1>3
<1>12. s = rx'[k]
  BY <1>1, <1>3
<1>13. \A q \in Producers, x \in Slots \ {mine[k]} : cursor'[q][x] = cursor[q][x]
  BY <1>7
<1> QED BY <1>8, <1>9, <1>10, <1>11, <1>12, <1>13, ReceiveRoom

\* try_recv() finds nothing, or the callbacks of a poll() are done.
LEMMA EmptyRoom ==
  ASSUME RoomInv, RegInv, NEW k \in Clients, TryRecvEmpty(k) \/ FlushProgress(k)
  PROVE  RoomInv'
<1>1. /\ alive[k] /\ kpc[k] \in {"open", "skipping", "polling"}
      /\ kpc' = [kpc EXCEPT ![k] = "open"]
      /\ Flush(k, Refreshed(k, ProducerCount)) \/ Flush(k, rx[k])
      /\ held' = held \/ held' = [held EXCEPT ![k] = {}]
      /\ UNCHANGED <<ringVars, producerVars, slot, last_hit, mine, token, alive>>
  BY DEF TryRecvEmpty, FlushProgress, Step
<1>2. kpc[k] \in Receiving
  BY <1>1 DEF Receiving
<1>3. /\ kpc \in [Clients -> {"out", "joined"} \cup Gated \cup Receiving]
      /\ held \in [Clients -> SUBSET Given]
  BY <1>1, <1>2, RoomReceiver
<1>4. PICK r : Flush(k, r) /\ (r = Refreshed(k, ProducerCount) \/ r = rx[k])
  BY <1>1
<1>5. Moves(k, r)
  BY <1>1, <1>2, <1>4, StaysPut, RefreshedMoves
<1>6. /\ kpc'[k] = "open" /\ held' \in [Clients -> SUBSET Given]
      /\ \A j \in Clients \ {k} : UNCHANGED <<kpc[j], held[j]>>
  BY <1>1, <1>3
<1> QED BY <1>1, <1>2, <1>4, <1>5, <1>6, FlushRoom

\* The first message found has expired.
LEMMA SkipExpiredRoom ==
  ASSUME RoomInv, RegInv, NEW k \in Clients, SkipExpired(k)
  PROVE  RoomInv'
<1>1. PICK i : i = Min(Hits(k))
  OBVIOUS
<1>2. PICK p : p = Ring(k, i)
  OBVIOUS
<1>3. PICK m : m = Message(p, rx[k][p].read, rx[k][p].next)
  OBVIOUS
<1>4. PICK r : r = Refreshed(k, i + 1)
  OBVIOUS
<1>5. PICK s : s = Advance(r, p, m.next, m.sequence + 1, 1)
  OBVIOUS
<1>6. /\ alive[k] /\ kpc[k] = "open" /\ kpc' = [kpc EXCEPT ![k] = "open"]
      /\ Hits(k) # {} /\ Flush(k, s)
      /\ UNCHANGED <<ringVars, producerVars, slot, last_hit, held, mine, token, alive>>
  BY <1>1, <1>2, <1>3, <1>4, <1>5 DEF SkipExpired, Step
<1>7. kpc[k] \in Receiving
  BY <1>6 DEF Receiving
<1>8. /\ kpc \in [Clients -> {"out", "joined"} \cup Gated \cup Receiving]
      /\ held \in [Clients -> SUBSET Given] /\ rx[k] \in [Producers -> Kept]
  BY <1>6, <1>7, RoomReceiver
<1>9. p \in Producers /\ Readable(p, rx[k][p].read, rx[k][p].next, Bound(k, p))
  BY <1>1, <1>2, <1>6, FirstHit DEF RoomInv
<1>10. rx[k][p].read \in Nat /\ rx[k][p].next \in Nat
  BY <1>8, <1>9, ReaderParts
<1>11. PICK len \in Nat : /\ len = header[p][Unit(rx[k][p].read)].len
                          /\ m.next = rx[k][p].read + len
  BY <1>3, <1>9, <1>10, MessageGiven
<1>12. /\ Bound(k, p) \in Nat /\ Bound(k, p) <= visible[p] /\ visible[p] \in Nat
       /\ rx[k][p].read + len <= Bound(k, p)
  BY <1>6, <1>7, <1>9, <1>11, StaysPut, RoomReceiver DEF Readable
<1>13. m.next \in Nat /\ rx[k][p].read <= m.next /\ m.next <= visible[p]
  BY <1>10, <1>11, <1>12
<1>14. Clear(p, m.next)
  BY <1>9, <1>13, RoomOwned
<1>15. m.sequence + 1 \in Nat
  BY <1>3, <1>10 DEF Message
<1>16. Moves(k, r)
  BY <1>4, <1>6, <1>7, RefreshedMoves
<1>17. Moves(k, s)
  BY <1>5, <1>9, <1>13, <1>14, <1>15, <1>16, AdvanceMoves
<1>18. kpc'[k] = "open" /\ \A j \in Clients \ {k} : UNCHANGED <<kpc[j], held[j]>>
  BY <1>6, <1>8
<1> QED BY <1>6, <1>7, <1>8, <1>17, <1>18, FlushRoom

\* try_recv() gives a message, and stays before it.
LEMMA TryRecvRoom ==
  ASSUME RoomInv, RegInv, NEW k \in Clients, TryRecv(k)
  PROVE  RoomInv'
<1>1. PICK i : i = Min(Hits(k))
  OBVIOUS
<1>2. PICK p : p = Ring(k, i)
  OBVIOUS
<1>3. PICK m : m = Message(p, rx[k][p].read, rx[k][p].next)
  OBVIOUS
<1>4. PICK s : s = Refreshed(k, i + 1)
  OBVIOUS
<1>5. /\ alive[k] /\ kpc[k] = "open" /\ kpc' = [kpc EXCEPT ![k] = "holding"]
      /\ Hits(k) # {} /\ held' = [held EXCEPT ![k] = {m}] /\ rx' = [rx EXCEPT ![k] = s]
      /\ last_hit' = [last_hit EXCEPT ![k] = (p + 1) % ProducerCount]
      /\ UNCHANGED <<ringVars, producerVars, slot, cursor, mine, token, alive>>
  BY <1>1, <1>2, <1>3, <1>4 DEF TryRecv, Step
<1>6. kpc[k] \in Receiving
  BY <1>5 DEF Receiving
<1>7. /\ kpc \in [Clients -> {"out", "joined"} \cup Gated \cup Receiving]
      /\ rx \in [Clients -> [Producers -> Kept]] /\ last_hit \in [Clients -> Producers]
      /\ held \in [Clients -> SUBSET Given] /\ rx[k] \in [Producers -> Kept]
      /\ cursor \in [Producers -> [Slots -> Cursors]]
  BY <1>5, <1>6, RoomReceiver
<1>8. /\ p \in Producers /\ (p + 1) % ProducerCount \in Producers
      /\ Readable(p, rx[k][p].read, rx[k][p].next, Bound(k, p))
  BY <1>1, <1>2, <1>5, FirstHit DEF RoomInv
<1>9. Moves(k, s) /\ s[p].read = rx[k][p].read /\ s \in [Producers -> Kept]
  BY <1>4, <1>5, <1>6, <1>8, RefreshedMoves DEF Moves
<1>10. rx[k][p].read \in Nat /\ rx[k][p].next \in Nat
  BY <1>7, <1>8, ReaderParts
<1>11. PICK len \in Nat : /\ len = header[p][Unit(rx[k][p].read)].len
                          /\ m.next = rx[k][p].read + len /\ m \in Given
  BY <1>3, <1>8, <1>10, MessageGiven
<1>12. /\ Bound(k, p) \in Nat /\ Bound(k, p) <= visible[p] /\ visible[p] \in Nat
       /\ rx[k][p].read + len <= Bound(k, p)
  BY <1>5, <1>6, <1>8, <1>11, StaysPut, RoomReceiver DEF Readable
<1>13. rx[k][p].read <= m.next /\ m.next <= visible[p] /\ m.producer = p
  BY <1>3, <1>10, <1>11, <1>12 DEF Message
<1>14. RxTypes'
  <2>1. rx' \in [Clients -> [Producers -> Kept]]
    BY <1>5, <1>7, <1>9
  <2>2. last_hit' \in [Clients -> Producers]
    BY <1>5, <1>7, <1>8
  <2>3. held' \in [Clients -> SUBSET Given]
    BY <1>5, <1>7, <1>11
  <2> QED BY <2>1, <2>2, <2>3, <1>5, <1>7 DEF RxTypes
<1>15. /\ kpc'[k] = "holding" /\ rx'[k] = s /\ held'[k] = {m}
       /\ \A j \in Clients \ {k} : UNCHANGED <<kpc[j], rx[j], held[j]>>
  BY <1>5, <1>7
<1>16. kpc'[k] \in Receiving
  BY <1>15 DEF Receiving
<1>17. visible' = visible
  BY <1>5 DEF ringVars
<1>18. Ends(k)'
  BY <1>9, <1>13, <1>15, <1>17 DEF Ends
<1> QED BY <1>5, <1>6, <1>9, <1>14, <1>15, <1>16, <1>18, UnannouncedRoom

\* poll() takes a run, or passes over one that has expired.
LEMMA RunRoom ==
  ASSUME RoomInv, RegInv, NEW k \in Clients, NEW expired,
         TryRecvRun(k, expired) \/ (PassExpiredRing(k) /\ expired = 0 .. Cap)
  PROVE  RoomInv'
<1>1. PICK i : i = Min(Hits(k))
  OBVIOUS
<1>2. PICK p : p = Ring(k, i)
  OBVIOUS
<1>3. PICK run : run = RunLength(k, p, expired)
  OBVIOUS
<1>4. PICK at : at = RunPosition(k, p)
  OBVIOUS
<1>5. PICK r : r = Refreshed(k, i + 1)
  OBVIOUS
<1>6. PICK s : s = Advance(r, p, at[run], rx[k][p].next + run, run)
  OBVIOUS
<1>7. PICK given : given = {Message(p, at[j], rx[k][p].next + j) :
                              j \in (0 .. run - 1) \ expired}
  OBVIOUS
<1>8. /\ alive[k] /\ kpc[k] \in {"open", "skipping"} /\ Hits(k) # {}
      /\ kpc' = [kpc EXCEPT ![k] = "polling"] \/ kpc' = [kpc EXCEPT ![k] = "skipping"]
      /\ held' = [held EXCEPT ![k] = given] \/ held' = held
      /\ rx' = [rx EXCEPT ![k] = s]
      /\ \/ last_hit' = [last_hit EXCEPT ![k] = (p + 1) % ProducerCount]
         \/ last_hit' = last_hit
      /\ UNCHANGED <<ringVars, producerVars, slot, cursor, mine, token, alive>>
  <2>1. CASE TryRecvRun(k, expired)
    BY <2>1, <1>1, <1>2, <1>3, <1>4, <1>5, <1>6, <1>7 DEF TryRecvRun, Step
  <2>2. CASE PassExpiredRing(k) /\ expired = 0 .. Cap
    BY <2>2, <1>1, <1>2, <1>3, <1>4, <1>5, <1>6 DEF PassExpiredRing, Step
  <2> QED BY <2>1, <2>2
<1>9. kpc[k] \in Receiving
  BY <1>8 DEF Receiving
<1>10. /\ kpc \in [Clients -> {"out", "joined"} \cup Gated \cup Receiving]
       /\ rx \in [Clients -> [Producers -> Kept]] /\ last_hit \in [Clients -> Producers]
       /\ held \in [Clients -> SUBSET Given] /\ rx[k] \in [Producers -> Kept]
       /\ cursor \in [Producers -> [Slots -> Cursors]]
  BY <1>8, <1>9, RoomReceiver
<1>11. p \in Producers /\ (p + 1) % ProducerCount \in Producers
  BY <1>1, <1>2, <1>8, FirstHit DEF RoomInv
<1>12. /\ run \in 0 .. Cap /\ run \in Nat
       /\ \A j \in 0 .. run - 1 :
            Readable(p, RunPosition(k, p)[j], rx[k][p].next + j, Bound(k, p))
  BY <1>3, RunReadable
<1>13. /\ \A j \in 0 .. run : at[j] \in Nat
       /\ rx[k][p].read <= at[run] /\ Clear(p, at[run])
  BY <1>4, <1>8, <1>9, <1>11, <1>12, RunMoves
<1>14. at[run] \in Nat /\ rx[k][p].next \in Nat /\ rx[k][p].next + run \in Nat
  BY <1>10, <1>11, <1>12, <1>13, ReaderParts
<1>15. Moves(k, r)
  BY <1>5, <1>8, <1>9, RefreshedMoves
<1>16. Moves(k, s) /\ s \in [Producers -> Kept]
  <2>1. PICK x \in Nat : x = at[run]
    BY <1>14
  <2>2. PICK n \in Nat : n = rx[k][p].next + run
    BY <1>14
  <2>3. s = Advance(r, p, x, n, run) /\ rx[k][p].read <= x /\ Clear(p, x)
    BY <2>1, <2>2, <1>6, <1>13
  <2>4. Moves(k, s)
    BY <2>3, <1>11, <1>12, <1>15, AdvanceMoves
  <2> QED BY <2>4 DEF Moves
<1>17. given \in SUBSET Given
  <2>1. ASSUME NEW j \in (0 .. run - 1) \ expired
        PROVE  Message(p, at[j], rx[k][p].next + j) \in Given
    <3>1. at[j] \in Nat /\ rx[k][p].next + j \in Nat
      BY <1>12, <1>13, <1>14
    <3> QED BY <3>1, <1>11, MessageGiven
  <2> QED BY <2>1, <1>7
<1>18. RxTypes'
  <2>1. rx' \in [Clients -> [Producers -> Kept]]
    BY <1>8, <1>10, <1>16
  <2>2. last_hit' \in [Clients -> Producers]
    BY <1>8, <1>10, <1>11
  <2>3. held' \in [Clients -> SUBSET Given]
    BY <1>8, <1>10, <1>17
  <2> QED BY <2>1, <2>2, <2>3, <1>8, <1>10 DEF RxTypes
<1>19. /\ kpc'[k] \in {"polling", "skipping"} /\ rx'[k] = s
       /\ \A j \in Clients \ {k} : UNCHANGED <<kpc[j], rx[j], held[j]>>
  BY <1>8, <1>10
<1>20. kpc'[k] \in Receiving /\ Ends(k)'
  BY <1>19 DEF Receiving, Ends
<1> QED BY <1>8, <1>9, <1>16, <1>18, <1>19, <1>20, UnannouncedRoom

\* release() goes past the message that was given, and announces it.
LEMMA ReleaseRoom ==
  ASSUME RoomInv, RegInv, NEW k \in Clients, Release(k)
  PROVE  RoomInv'
<1>1. /\ alive[k] /\ kpc[k] = "holding" /\ kpc' = [kpc EXCEPT ![k] = "open"]
      /\ held' = [held EXCEPT ![k] = {}]
      /\ UNCHANGED <<ringVars, producerVars, slot, last_hit, mine, token, alive>>
  BY DEF Release, Step
<1>2. PICK m \in held[k] :
        LET r == Advance(rx[k], m.producer, m.next, m.sequence + 1, 1) IN
        /\ rx' = [rx EXCEPT ![k] = [r EXCEPT ![m.producer].flushed = m.next]]
        /\ cursor' = [cursor EXCEPT ![m.producer][mine[k]] = Published(k, r, m.producer)]
  BY DEF Release
<1>3. kpc[k] \in Receiving
  BY <1>1 DEF Receiving
<1>4. /\ ClientRoom(k) /\ mine[k] \in Slots /\ \A q \in Producers : Stands(k, q)
      /\ kpc \in [Clients -> {"out", "joined"} \cup Gated \cup Receiving]
      /\ cursor \in [Producers -> [Slots -> Cursors]]
      /\ rx \in [Clients -> [Producers -> Kept]] /\ rx[k] \in [Producers -> Kept]
      /\ held \in [Clients -> SUBSET Given] /\ visible \in [Producers -> Nat]
      /\ last_hit \in [Clients -> Producers]
  BY <1>1, <1>3, RoomReceiver
<1>5. PICK p \in Producers : p = m.producer
  BY <1>4 DEF Given
<1>6. PICK x \in Nat : x = m.next
  BY <1>4 DEF Given
<1>7. PICK n \in Nat : n = m.sequence + 1
  BY <1>4 DEF Given
<1>8. rx[k][p].read <= x /\ x <= visible[p]
  BY <1>1, <1>4, <1>5, <1>6 DEF ClientRoom, Ends
<1>9. Clear(p, x)
  BY <1>8, RoomOwned
<1>10. PICK r : r = Advance(rx[k], p, x, n, 1)
  OBVIOUS
<1>11. /\ Moves(k, r) /\ r[p].read = x /\ r \in [Producers -> Kept]
       /\ \A q \in Producers \ {p} : r[q].read = rx[k][q].read
  <2>1. Moves(k, rx[k])
    BY <1>1, <1>3, StaysPut
  <2>2. PICK t : t = rx[k]
    OBVIOUS
  <2>3. /\ Moves(k, r) /\ r[p].read = x
        /\ \A q \in Producers \ {p} : r[q].read = t[q].read
    BY <2>1, <2>2, <1>8, <1>9, <1>10, AdvanceMoves
  <2> QED BY <2>2, <2>3 DEF Moves
<1>12. PICK s : s = [r EXCEPT ![p].flushed = x]
  OBVIOUS
<1>13. PICK d : d = Published(k, r, p)
  OBVIOUS
<1>14. /\ rx' = [rx EXCEPT ![k] = s]
       /\ cursor' = [cursor EXCEPT ![p][mine[k]] = d]
  BY <1>2, <1>5, <1>6, <1>7, <1>10, <1>12, <1>13
<1>15. /\ s[p] \in Kept /\ s[p].read = x /\ s[p].flushed = x
       /\ s[p].visible = r[p].visible /\ \A q \in Producers \ {p} : s[q] = r[q]
  <2>1. s[p] = [r[p] EXCEPT !.flushed = x] /\ \A q \in Producers \ {p} : s[q] = r[q]
    BY <1>11, <1>12
  <2>2. r[p] \in Kept
    BY <1>11
  <2> QED BY <2>1, <2>2, <1>11 DEF Kept
<1>16. s \in [Producers -> Kept]
  <2>1. s \in [Producers -> {s[q] : q \in Producers}]
    BY <1>11, <1>12
  <2>2. \A q \in Producers : s[q] \in Kept
    BY <1>11, <1>15
  <2> QED BY <2>1, <2>2
<1>17. d \in Cursors /\ d.position = x
  <2>1. cursor[p][mine[k]] \in Cursors
    BY <1>4
  <2>2. r[p].read \in Nat /\ r[p].next \in Nat /\ r[p].messages \in Nat
    BY <1>11, ReaderParts
  <2> QED BY <2>1, <2>2, <1>11, <1>13 DEF Published, Cursors
<1>18. /\ \A q \in Producers, y \in Slots \ {mine[k]} : cursor'[q][y] = cursor[q][y]
       /\ cursor'[p][mine[k]] = d
       /\ \A q \in Producers \ {p} : cursor'[q] = cursor[q]
       /\ cursor' \in [Producers -> [Slots -> Cursors]]
  <2>1. cursor' = [cursor EXCEPT ![p] = [cursor[p] EXCEPT ![mine[k]] = d]]
    BY <1>4, <1>14
  <2>2. [cursor[p] EXCEPT ![mine[k]] = d] \in [Slots -> Cursors]
    BY <1>4, <1>17
  <2>3. cursor'[p] = [cursor[p] EXCEPT ![mine[k]] = d]
        /\ \A q \in Producers \ {p} : cursor'[q] = cursor[q]
    BY <2>1, <1>4
  <2>4. cursor' \in [Producers -> [Slots -> Cursors]]
    BY <2>1, <2>2, <1>4
  <2>5. cursor[p] \in [Slots -> Cursors]
    BY <1>4
  <2>6. cursor'[p][mine[k]] = d /\ \A y \in Slots \ {mine[k]} : cursor'[p][y] = cursor[p][y]
    BY <2>3, <2>5, <1>4
  <2> QED BY <2>3, <2>4, <2>6
<1>19. RxTypes'
  <2>1. rx' \in [Clients -> [Producers -> Kept]]
    BY <1>4, <1>14, <1>16
  <2>2. held' \in [Clients -> SUBSET Given]
    BY <1>1, <1>4
  <2> QED BY <2>1, <2>2, <1>1, <1>4, <1>18 DEF RxTypes
<1>20. ASSUME NEW q \in Producers
       PROVE  /\ cursor'[q][mine[k]].position = s[q].flushed /\ s[q].flushed <= s[q].read
              /\ cursor[q][mine[k]].position <= cursor'[q][mine[k]].position
              /\ Clear(q, s[q].flushed) /\ Clear(q, s[q].read) /\ s[q].visible <= visible[q]
  <2>1. PICK c \in Nat : c = cursor[q][mine[k]].position
    BY <1>4 DEF Cursors
  <2>2. c = rx[k][q].flushed /\ rx[k][q].flushed <= rx[k][q].read
    BY <2>1, <1>4 DEF Stands
  <2>3. /\ rx[k][q].read <= r[q].read /\ Clear(q, r[q].read)
        /\ r[q].flushed = rx[k][q].flushed /\ r[q].visible <= visible[q]
    BY <1>11 DEF Moves
  <2>4. rx[k][q].read \in Nat /\ r[q].read \in Nat /\ Clear(q, c)
    BY <2>1, <1>4, <1>11, ReaderParts, RoomOwned
  <2>5. CASE q = p
    <3>1. /\ cursor'[q][mine[k]].position = x /\ s[q].flushed = x /\ s[q].read = x
          /\ r[q].read = x /\ s[q].visible = r[q].visible
      BY <2>5, <1>11, <1>15, <1>17, <1>18
    <3> QED BY <3>1, <2>1, <2>2, <2>3, <2>4
  <2>6. CASE q # p
    <3>1. cursor'[q] = cursor[q] /\ s[q] = r[q]
      BY <2>6, <1>15, <1>18
    <3>2. Clear(q, s[q].flushed)
      BY <3>1, <2>2, <2>3, <2>4
    <3> QED BY <3>1, <3>2, <2>1, <2>2, <2>3, <2>4
  <2> QED BY <2>5, <2>6
<1>21. /\ kpc'[k] = "open" /\ s = rx'[k]
       /\ \A j \in Clients \ {k} : UNCHANGED <<kpc[j], rx[j], held[j]>>
  BY <1>1, <1>4, <1>14
<1>22. kpc'[k] \in Receiving /\ Ends(k)'
  BY <1>21 DEF Receiving, Ends
<1>23. \A q \in Producers, y \in Slots \ {mine[k]} : cursor'[q][y] = cursor[q][y]
  BY <1>18
<1> QED BY <1>1, <1>3, <1>19, <1>20, <1>21, <1>22, <1>23, ReceiveRoom

-----------------------------------------------------------------------------
(* Claims kept open: the theorem *)

\* In an empty channel nobody is in the way.
LEMMA InitRoom == Init => RoomInv
<1> SUFFICES ASSUME Init PROVE RoomInv
  OBVIOUS
<1>1. RingTypes /\ ProducerTypes /\ RxTypes /\ \A s \in Slots : SlotOwned(s)
  BY InitDelivery DEF DeliveryInv
<1>2. ASSUME NEW p \in Producers PROVE OpenRing(p)
  <2>1. /\ claims[p] = <<>> /\ producer_pos[p] = 0 /\ messages[p] = 0 /\ visible[p] = 0
        /\ reservation[p].position = 0 /\ cached_pos[p] = 0 /\ ppc[p] = "idle"
        /\ Taken(p) = 0
    BY DEF Init, Taken
  <2>2. LaidOut(<<>>, 0, 0) /\ ContiguousEnd(<<>>) = 0
    BY DEF LaidOut, ContiguousEnd
  <2>3. \A s \in Slots : cursor[p][s].position = 0
    BY DEF Init, NoCursor
  <2>4. \A s \in Slots : Clear(p, cursor[p][s].position)
    BY <2>1, <2>3 DEF Clear
  <2> QED BY <2>1, <2>2, <2>4 DEF OpenRing
<1>3. ASSUME NEW k \in LiveClients PROVE ClientRoom(k)
  <2>1. kpc[k] = "out"
    BY DEF Init, LiveClients
  <2>2. ~Subscribing(k) /\ kpc[k] \notin Receiving
    BY <2>1 DEF Subscribing, Joined, Receiving
  <2> QED BY <2>1, <2>2 DEF ClientRoom, Quiet, Ends
<1> QED BY <1>1, <1>2, <1>3 DEF RoomInv

\* Nothing happens.
LEMMA StutterRoom ==
  ASSUME RoomInv, RegInv, UNCHANGED vars
  PROVE  RoomInv'
<1>1. /\ UNCHANGED ringVars /\ UNCHANGED producerVars
      /\ UNCHANGED <<slot, cursor, rx, last_hit, held, kpc, mine, token, alive>>
  BY DEF vars, rxVars, clientVars
<1>2. UNCHANGED <<header, visible, reservation, global_seq, ppc, ask, claims,
                  producer_pos, messages, cached_pos, cached_messages>>
  BY <1>1 DEF ringVars, producerVars
<1>3. RingTypes' /\ ProducerTypes'
  BY <1>2 DEF RoomInv, RingTypes, ProducerTypes
<1>4. ASSUME NEW q \in Producers
      PROVE  /\ OpenRing(q)' /\ visible[q] <= visible'[q]
             /\ \A x \in Nat : Clear(q, x) => Clear(q, x)'
             /\ \A s \in Slots : Roomy(q, s) => Roomy(q, s)'
  <2>1. global_seq' \in Nat /\ global_seq <= global_seq'
    BY <1>2 DEF RoomInv, RingTypes
  <2> QED BY <1>1, <1>2, <2>1, OtherRoom
<1>5. \A k \in LiveClients : Quiet(k)'
  BY <1>1, <1>2 DEF RoomInv, ClientRoom, Quiet, ClaimsQuiet
<1> QED BY <1>1, <1>3, <1>4, <1>5, RoomStays

\* Every step keeps subscribers clear of open claims.
LEMMA NextRoom ==
  ASSUME RoomInv, RegInv, [Next]_vars
  PROVE  RoomInv'
<1>1. ASSUME NEW p \in Producers, Claim(p)
      PROVE  RoomInv'
  <2>1. CASE \E len \in FrameLens, count \in 1 .. MaxBatch : EnterClaim(p, len, count)
    BY <2>1, EnterClaimRoom
  <2> QED BY <1>1, <2>1, CheckRoomRoom, TakeSequenceRoom, PublishReservationRoom DEF Claim
<1>2. ASSUME NEW p \in Producers, CommitAny(p) \/ ProducerDies(p)
      PROVE  RoomInv'
  BY <1>2, CommitRoom, ProducerDiesRoom DEF CommitAny
<1>3. ASSUME NEW k \in Clients, AcquireConsumer(k) \/ ReleaseConsumer(k) \/ ClientDies(k)
      PROVE  RoomInv'
  BY <1>3, AcquireRoom, LeaveRoom, ClientDiesRoom
<1>4. ASSUME NEW k \in Clients, Register(k)
      PROVE  RoomInv'
  BY <1>4, AcquireRoom, SearchRoom, FreeRoom, FillCursorsRoom, JoinRoom, LeaveRoom
     DEF Register
<1>5. ASSUME NEW k \in Clients, Receive(k)
      PROVE  RoomInv'
  <2>1. ASSUME NEW expired, TryRecvRun(k, expired)
        PROVE  RoomInv'
    BY <2>1, RunRoom
  <2>2. ASSUME PassExpiredRing(k)
        PROVE  RoomInv'
    <3>1. PICK expired : expired = 0 .. Cap
      OBVIOUS
    <3> QED BY <2>2, <3>1, RunRoom
  <2> QED BY <1>5, <2>1, <2>2, TryRecvRoom, EmptyRoom, ReleaseRoom, SkipExpiredRoom
          DEF Receive
<1> QED BY <1>1, <1>2, <1>3, <1>4, <1>5, StutterRoom DEF Next

\* Wherever publishers leave claims open, and for however long, no subscriber
\* stands inside one.
THEOREM RoomInvariance == SafeSpec => []RoomInv
<1>1. Init => RoomInv /\ RegInv
  BY InitRoom, InitReg
<1>2. (RoomInv /\ RegInv) /\ [Next]_vars => (RoomInv /\ RegInv)'
  BY NextRoom, NextReg
<1> QED BY <1>1, <1>2, PTL DEF SafeSpec

\* The byte window holds whatever becomes of the headers: it is claim() alone that
\* moves a producer, and the subscribers' positions only grow.
THEOREM BytesStayWithin == SafeSpec => []WithinPositions
<1>1. ASSUME RoomInv, RegInv PROVE WithinPositions
  <2>1. SUFFICES ASSUME NEW s \in ActiveSlots, NEW p \in Producers,
                        slot[s].pid \in LiveClients
                 PROVE  producer_pos[p] - cursor[p][s].position <= EffectiveCapacity
    BY DEF WithinPositions
  <2>2. s \in Slots
    BY DEF ActiveSlots
  <2>3. Subscribing(slot[s].pid) /\ mine[slot[s].pid] = s
    BY <1>1, <2>1, <2>2, RoomOwned, ActiveOwner
  <2>4. Roomy(p, s)
    BY <1>1, <2>1, <2>3 DEF RoomInv, ClientRoom
  <2> QED BY <2>4 DEF Roomy
<1> QED BY <1>1, RoomInvariance, RegistrationInvariance, PTL

\* A live subscriber that has a claim still to read keeps the ring from coming
\* round to it, however long the claim is kept open: claim() measures its room from
\* the slowest live subscriber, and none can stand beyond the claim's start and
\* before its end.
THEOREM OpenClaimsAreProtected == SafeSpec => []ClaimsProtected
<1>1. ASSUME RoomInv, RegInv, WithinPositions PROVE ClaimsProtected
  <2>1. SUFFICES ASSUME NEW p \in Producers, NEW i \in DOMAIN claims[p],
                        NEW s \in ActiveSlots, ~claims[p][i].committed,
                        slot[s].pid \in LiveClients,
                        cursor[p][s].position < End(claims[p][i])
                 PROVE  producer_pos[p] <= claims[p][i].start + Cap
    BY DEF ClaimsProtected
  <2>2. s \in Slots
    BY DEF ActiveSlots
  <2>3. WithinPositions
    BY <1>1
  <2>4. PICK x \in Nat : x = cursor[p][s].position
    BY <1>1, <2>2 DEF RoomInv, RxTypes, Cursors
  <2>5. Clear(p, x) /\ LaidOut(claims[p], producer_pos[p], Taken(p))
    BY <1>1, <2>2, <2>4 DEF RoomInv, OpenRing
  <2>6. claims[p][i].start \in Nat /\ End(claims[p][i]) \in Nat
    BY <2>5, ClaimTypes DEF LaidOut
  <2>7. x <= claims[p][i].start
    BY <2>1, <2>4, <2>5, <2>6 DEF Clear
  <2>8. producer_pos[p] - x <= EffectiveCapacity /\ EffectiveCapacity <= Cap
        /\ producer_pos[p] \in Nat /\ EffectiveCapacity \in Nat /\ Cap \in Nat
    BY <1>1, <2>1, <2>3, <2>4, CapacityType, ChannelAssumption
       DEF WithinPositions, RoomInv, ProducerTypes
  <2> QED BY <2>4, <2>6, <2>7, <2>8
<1> QED BY <1>1, RoomInvariance, RegistrationInvariance, BytesStayWithin, PTL

\* Positions, numbers and phases stay what they are, claims kept open or not.
THEOREM TypesHold == SafeSpec => []TypeOK
<1>1. RoomInv /\ RegInv => TypeOK
  BY DEF RoomInv, RingTypes, ProducerTypes, RxTypes, RegInv, RegTypes, TypeOK,
         Tokens, Cursors, Kept, Gated, Receiving
<1> QED BY <1>1, RoomInvariance, RegistrationInvariance, PTL

=============================================================================
