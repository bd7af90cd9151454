------------------------- MODULE SharedDeliveryProofs -------------------------
(***************************************************************************)
(* Proofs about what SharedChannel delivers, for any number of producers,  *)
(* slots and clients, any ring, frame lengths, windows and sequence bits.  *)
(* The publishers are Disciplined: none holds a claim open until the ring  *)
(* comes round to it.  SharedOpenClaims.cfg shows what happens otherwise.  *)
(***************************************************************************)
EXTENDS SharedChannelProofs, FiniteSetTheorems, WellFoundedInduction

-----------------------------------------------------------------------------
(* Facts about numbers *)

\* A set of naturals has a least element: of the initial segments up to its
\* elements one contains no other.
LEMMA LeastNatural ==
  ASSUME NEW S, S \subseteq Nat, S # {}
  PROVE  \E x \in S : \A y \in S : x <= y
<1> DEFINE Upto(n) == 0 .. n
           T == {Upto(n) : n \in S}
<1>1. T \subseteq FiniteSubsetsOf(Nat) /\ T # {}
  <2>1. ASSUME NEW n \in S PROVE Upto(n) \in FiniteSubsetsOf(Nat)
    <3>1. n \in Int /\ Upto(n) \subseteq Nat
      OBVIOUS
    <3>2. IsFiniteSet(Upto(n))
      BY <3>1, FS_Interval
    <3> QED BY <3>1, <3>2 DEF FiniteSubsetsOf
  <2> QED BY <2>1
<1>2. PICK I \in T : \A J \in T : <<J, I>> \notin StrictSubsetOrdering(Nat)
  BY <1>1, WFMin, FS_StrictSubsetOrderingWellFounded
<1>3. PICK x \in S : I = Upto(x)
  BY <1>2
<1>4. ASSUME NEW y \in S, y < x PROVE FALSE
  <2>1. Upto(y) \subseteq Upto(x) /\ x \in Upto(x) /\ x \notin Upto(y)
    BY <1>4
  <2>2. <<Upto(y), I>> \in StrictSubsetOrdering(Nat)
    BY <2>1, <1>3, <1>1 DEF StrictSubsetOrdering
  <2> QED BY <2>2, <1>2
<1> QED BY <1>4

\* Min and Max are what they are called, for naturals (below a bound).
LEMMA MinNatural ==
  ASSUME NEW S, S \subseteq Nat, S # {}
  PROVE  Min(S) \in S /\ \A y \in S : Min(S) <= y
<1>1. \E x \in S : \A y \in S : x <= y
  BY LeastNatural
<1> QED BY <1>1 DEF Min

\* The greatest of some naturals up to n.
LEMMA MaxNatural ==
  ASSUME NEW n \in Nat, NEW S, S \subseteq 0 .. n, S # {}
  PROVE  Max(S) \in S /\ \A y \in S : y <= Max(S)
<1> DEFINE T == {n - x : x \in S}
<1>1. T \subseteq Nat /\ T # {}
  <2>1. \A x \in S : x \in 0 .. n /\ n - x \in Nat
    OBVIOUS
  <2> QED BY <2>1
<1>2. PICK t \in T : \A y \in T : t <= y
  BY <1>1, LeastNatural
<1>3. PICK x \in S : t = n - x
  BY <1>2
<1>4. \A y \in S : y \in Nat /\ n - y \in T
  OBVIOUS
<1> HIDE DEF T
<1>5. \A y \in S : x >= y
  BY <1>2, <1>3, <1>4
<1>6. \E z \in S : \A y \in S : z >= y
  BY <1>5
<1> QED BY <1>6, <1>4 DEF Max

\* The least of two numbers.
LEMMA MinPair ==
  ASSUME NEW a \in Nat, NEW b \in Nat
  PROVE  Min({a, b}) \in Nat /\ Min({a, b}) <= a /\ Min({a, b}) <= b
<1>1. {a, b} \subseteq Nat /\ {a, b} # {}
  OBVIOUS
<1>2. Min({a, b}) \in {a, b} /\ \A y \in {a, b} : Min({a, b}) <= y
  BY <1>1, MinNatural
<1> QED BY <1>2

\* Positions of one window share no unit.
LEMMA UnitsDiffer ==
  ASSUME NEW m \in Nat, NEW n \in Nat, m < n, n < m + Cap
  PROVE  Unit(m) # Unit(n)
<1> DEFINE q == m \div Cap  r == n \div Cap
<1>1. /\ Cap \in Nat /\ Cap > 0
      /\ m = Cap * q + (m % Cap) /\ n = Cap * r + (n % Cap)
      /\ q \in Nat /\ r \in Nat
  BY ChannelAssumption
<1>2. SUFFICES ASSUME m % Cap = n % Cap PROVE FALSE
  BY DEF Unit
<1>3. n - m = Cap * r - Cap * q
  BY <1>1, <1>2
<1>4. n - m = Cap * (r - q)
  BY <1>1, <1>3
<1>5. CASE r <= q
  <2>1. Cap * (r - q) <= 0
    BY <1>1, <1>5
  <2> QED BY <2>1, <1>4
<1>6. CASE r >= q + 1
  <2>1. Cap * (r - q) >= Cap
    BY <1>1, <1>6
  <2> QED BY <2>1, <1>4, <1>1
<1> QED BY <1>1, <1>5, <1>6

\* Every position has a unit.
LEMMA UnitType == \A n \in Nat : Unit(n) \in 0 .. Cap - 1
BY ChannelAssumption DEF Unit

\* Frames of a claim lie one after the other.
LEMMA Multiples ==
  ASSUME NEW l \in Nat, NEW a \in Nat, NEW b \in Nat
  PROVE  /\ l * a \in Nat
         /\ l * (a + 1) = l * a + l
         /\ a <= b => l * a <= l * b
         /\ a < b => l * a + l <= l * b
<1>1. l * a \in Nat /\ l * b \in Nat /\ l * (a + 1) = l * a + l
  OBVIOUS
<1>2. ASSUME a <= b PROVE l * a <= l * b
  <2>1. b - a \in Nat /\ l * (b - a) \in Nat
    BY <1>2
  <2>2. l * b = l * a + l * (b - a)
    OBVIOUS
  <2> QED BY <2>1, <2>2, <1>1
<1>3. ASSUME a < b PROVE l * a + l <= l * b
  <2>1. b - a - 1 \in Nat /\ l * (b - a - 1) \in Nat
    BY <1>3
  <2>2. l * b = l * a + l + l * (b - a - 1)
    OBVIOUS
  <2> QED BY <2>1, <2>2, <1>1
<1> QED BY <1>1, <1>2, <1>3

\* Division with a remainder.
LEMMA Division ==
  ASSUME NEW a \in Nat, NEW b \in Nat, b > 0
  PROVE  a \div b \in Nat /\ a % b \in Nat /\ a = b * (a \div b) + (a % b)
<1>1. a % b \in Nat /\ a % b < b
  OBVIOUS
<1>2. a = b * (a \div b) + (a % b)
  OBVIOUS
<1>3. a \div b \in Nat
  OBVIOUS
<1> QED BY <1>1, <1>2, <1>3, Zenon

\* What a window holds.
LEMMA CapacityType ==
  EffectiveCapacity \in Nat /\ EffectiveCapacity <= Cap /\ EffectiveCapacity > 0
<1>1. Cap \in Nat /\ Cap > 0 /\ PublicationWindow \in Nat
  BY ChannelAssumption
<1>2. CASE PublicationWindow = 0
  BY <1>1, <1>2 DEF EffectiveCapacity
<1>3. CASE PublicationWindow # 0
  <2>1. {Cap, PublicationWindow} \subseteq Nat /\ {Cap, PublicationWindow} # {}
    BY <1>1
  <2>2. /\ Min({Cap, PublicationWindow}) \in {Cap, PublicationWindow}
        /\ Min({Cap, PublicationWindow}) <= Cap
    BY <2>1, MinNatural
  <2> QED BY <2>2, <1>1, <1>3 DEF EffectiveCapacity
<1> QED BY <1>2, <1>3

-----------------------------------------------------------------------------
(* The claims of a ring *)

\* Claims.
Claimed == [start : Nat, len : Nat, count : Nat, sequence : Nat, committed : BOOLEAN]

\* The place and the number of frame j of a claim.
At(c, j) == c.start + c.len * j
Number(c, j) == c.sequence + j

\* The frames of the claims cs, and those before a position.
FramesOf(cs) ==
  UNION {{[position |-> At(cs[i], j), sequence |-> Number(cs[i], j)] :
            j \in 0 .. cs[i].count - 1} : i \in DOMAIN cs}
Before(cs, x) == {f \in FramesOf(cs) : f.position < x}

\* Claims follow each other in the ring, up to end, and in their numbers, which
\* are below taken.
LaidOut(cs, end, taken) ==
  /\ cs \in Seq(Claimed) /\ end \in Nat /\ taken \in Nat
  /\ \A i \in DOMAIN cs :
       /\ cs[i].len > 0 /\ cs[i].count > 0
       /\ cs[i].start + cs[i].len * cs[i].count <= end
       /\ cs[i].sequence + cs[i].count <= taken
       /\ i < Len(cs) => cs[i].start + cs[i].len * cs[i].count = cs[i + 1].start
       /\ i = Len(cs) => cs[i].start + cs[i].len * cs[i].count = end
  /\ \A i, j \in DOMAIN cs : i < j =>
       /\ cs[i].start + cs[i].len * cs[i].count <= cs[j].start
       /\ cs[i].sequence + cs[i].count <= cs[j].sequence
  /\ cs = <<>> => end = 0

\* The model's Frames(p) are those of p's claims.
LEMMA FramesAre == \A p \in Producers : Frames(p) = FramesOf(claims[p])
BY DEF Frames, FramesOf, At, Number

\* A frame is one of a claim.
LEMMA FrameOf ==
  ASSUME NEW cs
  PROVE  /\ \A f \in FramesOf(cs) : \E i \in DOMAIN cs :
              \E j \in 0 .. cs[i].count - 1 :
                f = [position |-> At(cs[i], j), sequence |-> Number(cs[i], j)]
         /\ \A i \in DOMAIN cs : \A j \in 0 .. cs[i].count - 1 :
              [position |-> At(cs[i], j), sequence |-> Number(cs[i], j)]
                \in FramesOf(cs)
BY DEF FramesOf

\* The types of a claim.
LEMMA ClaimTypes ==
  ASSUME NEW cs, NEW end, NEW taken, LaidOut(cs, end, taken), NEW i \in DOMAIN cs
  PROVE  /\ cs[i] \in Claimed /\ i \in Nat /\ i > 0
         /\ cs[i].start \in Nat /\ cs[i].len \in Nat /\ cs[i].count \in Nat
         /\ cs[i].sequence \in Nat /\ cs[i].committed \in BOOLEAN
         /\ cs[i].len > 0 /\ cs[i].count > 0 /\ End(cs[i]) \in Nat
<1>1. cs[i] \in Claimed /\ i \in Nat /\ i > 0 /\ cs[i].len > 0 /\ cs[i].count > 0
  BY DEF LaidOut
<1>2. /\ cs[i].start \in Nat /\ cs[i].len \in Nat /\ cs[i].count \in Nat
      /\ cs[i].sequence \in Nat /\ cs[i].committed \in BOOLEAN
  BY <1>1 DEF Claimed
<1>3. cs[i].len * cs[i].count \in Nat
  BY <1>2, Multiples
<1> QED BY <1>1, <1>2, <1>3 DEF End

\* Where a frame may lie, and what its number may be.
LEMMA FrameBounds ==
  ASSUME NEW cs, NEW end, NEW taken, LaidOut(cs, end, taken),
         NEW i \in DOMAIN cs, NEW j \in 0 .. cs[i].count - 1
  PROVE  /\ At(cs[i], j) \in Nat /\ Number(cs[i], j) \in Nat
         /\ cs[i].start <= At(cs[i], j)
         /\ At(cs[i], j) + cs[i].len <= End(cs[i]) /\ End(cs[i]) <= end
         /\ cs[i].sequence <= Number(cs[i], j)
         /\ Number(cs[i], j) < cs[i].sequence + cs[i].count
         /\ Number(cs[i], j) < taken
<1>1. /\ cs[i].start \in Nat /\ cs[i].len \in Nat /\ cs[i].count \in Nat
      /\ cs[i].sequence \in Nat /\ j \in Nat /\ j < cs[i].count
  BY ClaimTypes
<1>2. cs[i].len * j \in Nat /\ cs[i].len * j + cs[i].len <= cs[i].len * cs[i].count
  BY <1>1, Multiples
<1>3. /\ cs[i].start + cs[i].len * cs[i].count <= end
      /\ cs[i].sequence + cs[i].count <= taken /\ taken \in Nat /\ end \in Nat
  BY DEF LaidOut
<1>4. cs[i].len * cs[i].count \in Nat
  BY <1>1, Multiples
<1> QED BY <1>1, <1>2, <1>3, <1>4 DEF At, Number, End

\* Two frames of a ring are one, or one lies behind the other and has the
\* smaller number.
LEMMA FramesApart ==
  ASSUME NEW cs, NEW end, NEW taken, LaidOut(cs, end, taken),
         NEW i \in DOMAIN cs, NEW j \in 0 .. cs[i].count - 1,
         NEW k \in DOMAIN cs, NEW l \in 0 .. cs[k].count - 1
  PROVE  \/ i = k /\ j = l
         \/ /\ At(cs[i], j) + cs[i].len <= At(cs[k], l)
            /\ Number(cs[i], j) < Number(cs[k], l)
         \/ /\ At(cs[k], l) + cs[k].len <= At(cs[i], j)
            /\ Number(cs[k], l) < Number(cs[i], j)
<1>1. /\ i \in Nat /\ k \in Nat
      /\ cs[i].start \in Nat /\ cs[i].len \in Nat /\ cs[i].sequence \in Nat
      /\ cs[k].start \in Nat /\ cs[k].len \in Nat /\ cs[k].sequence \in Nat
      /\ cs[i].count \in Nat /\ cs[k].count \in Nat
  BY ClaimTypes
<1>2. CASE i = k
  <2>1. j \in Nat /\ l \in Nat
    BY <1>1
  <2>2. /\ cs[i].len * j \in Nat /\ cs[i].len * l \in Nat
        /\ j < l => cs[i].len * j + cs[i].len <= cs[i].len * l
        /\ l < j => cs[i].len * l + cs[i].len <= cs[i].len * j
    BY <1>1, <2>1, Multiples
  <2> QED BY <1>1, <1>2, <2>1, <2>2 DEF At, Number
<1>3. CASE i < k
  <2>1. /\ End(cs[i]) <= cs[k].start
        /\ cs[i].sequence + cs[i].count <= cs[k].sequence
    BY <1>3 DEF LaidOut, End
  <2>2. /\ At(cs[i], j) \in Nat /\ At(cs[k], l) \in Nat /\ End(cs[i]) \in Nat
        /\ At(cs[i], j) + cs[i].len <= End(cs[i]) /\ cs[k].start <= At(cs[k], l)
        /\ Number(cs[i], j) \in Nat /\ Number(cs[k], l) \in Nat
        /\ Number(cs[i], j) < cs[i].sequence + cs[i].count
        /\ cs[k].sequence <= Number(cs[k], l)
    BY FrameBounds, ClaimTypes
  <2> QED BY <1>1, <2>1, <2>2
<1>4. CASE k < i
  <2>1. /\ End(cs[k]) <= cs[i].start
        /\ cs[k].sequence + cs[k].count <= cs[i].sequence
    BY <1>4 DEF LaidOut, End
  <2>2. /\ At(cs[i], j) \in Nat /\ At(cs[k], l) \in Nat /\ End(cs[k]) \in Nat
        /\ At(cs[k], l) + cs[k].len <= End(cs[k]) /\ cs[i].start <= At(cs[i], j)
        /\ Number(cs[i], j) \in Nat /\ Number(cs[k], l) \in Nat
        /\ Number(cs[k], l) < cs[k].sequence + cs[k].count
        /\ cs[i].sequence <= Number(cs[i], j)
    BY FrameBounds, ClaimTypes
  <2> QED BY <1>1, <2>1, <2>2
<1> QED BY <1>1, <1>2, <1>3, <1>4

\* The types of a frame.
LEMMA FrameTypes ==
  ASSUME NEW cs, NEW end, NEW taken, LaidOut(cs, end, taken), NEW f \in FramesOf(cs)
  PROVE  f.position \in Nat /\ f.sequence \in Nat /\ f.position < end
         /\ f.sequence < taken
<1>1. PICK i \in DOMAIN cs : \E j \in 0 .. cs[i].count - 1 :
        f = [position |-> At(cs[i], j), sequence |-> Number(cs[i], j)]
  BY FrameOf
<1>2. PICK j \in 0 .. cs[i].count - 1 :
        f = [position |-> At(cs[i], j), sequence |-> Number(cs[i], j)]
  BY <1>1
<1>3. /\ At(cs[i], j) \in Nat /\ Number(cs[i], j) \in Nat
      /\ At(cs[i], j) + cs[i].len <= End(cs[i]) /\ End(cs[i]) <= end
      /\ Number(cs[i], j) < taken
  BY FrameBounds
<1>4. cs[i].len \in Nat /\ cs[i].len > 0 /\ End(cs[i]) \in Nat
      /\ end \in Nat /\ taken \in Nat
  BY ClaimTypes DEF LaidOut
<1> QED BY <1>2, <1>3, <1>4

\* Frames are ordered by their places as by their numbers.
LEMMA FrameOrder ==
  ASSUME NEW cs, NEW end, NEW taken, LaidOut(cs, end, taken),
         NEW i \in DOMAIN cs, NEW j \in 0 .. cs[i].count - 1,
         NEW f \in FramesOf(cs)
  PROVE  \/ f = [position |-> At(cs[i], j), sequence |-> Number(cs[i], j)]
         \/ At(cs[i], j) + cs[i].len <= f.position /\ Number(cs[i], j) < f.sequence
         \/ f.position < At(cs[i], j) /\ f.sequence < Number(cs[i], j)
<1>1. PICK k \in DOMAIN cs : \E l \in 0 .. cs[k].count - 1 :
        f = [position |-> At(cs[k], l), sequence |-> Number(cs[k], l)]
  BY FrameOf
<1>2. PICK l \in 0 .. cs[k].count - 1 :
        f = [position |-> At(cs[k], l), sequence |-> Number(cs[k], l)]
  BY <1>1
<1>3. f.position = At(cs[k], l) /\ f.sequence = Number(cs[k], l)
  BY <1>2
<1>4. /\ At(cs[k], l) \in Nat /\ At(cs[i], j) \in Nat
      /\ cs[k].len \in Nat /\ cs[k].len > 0
  BY FrameBounds, ClaimTypes
<1>5. \/ i = k /\ j = l
      \/ /\ At(cs[i], j) + cs[i].len <= At(cs[k], l)
         /\ Number(cs[i], j) < Number(cs[k], l)
      \/ /\ At(cs[k], l) + cs[k].len <= At(cs[i], j)
         /\ Number(cs[k], l) < Number(cs[i], j)
  BY FramesApart
<1> QED BY <1>2, <1>3, <1>4, <1>5

\* Behind a frame is another one, or the end.
LEMMA NextFrame ==
  ASSUME NEW cs, NEW end, NEW taken, LaidOut(cs, end, taken),
         NEW i \in DOMAIN cs, NEW j \in 0 .. cs[i].count - 1
  PROVE  \/ At(cs[i], j) + cs[i].len = end
         \/ \E f \in FramesOf(cs) : f.position = At(cs[i], j) + cs[i].len
<1>1. /\ i \in Nat /\ i > 0 /\ cs[i].start \in Nat /\ cs[i].len \in Nat
      /\ cs[i].count \in Nat /\ j \in Nat /\ j < cs[i].count
  BY ClaimTypes
<1>2. At(cs[i], j) + cs[i].len = At(cs[i], j + 1)
  BY <1>1, Multiples DEF At
<1>3. CASE j + 1 < cs[i].count
  <2>1. j + 1 \in 0 .. cs[i].count - 1
    BY <1>1, <1>3
  <2>2. [position |-> At(cs[i], j + 1), sequence |-> Number(cs[i], j + 1)]
          \in FramesOf(cs)
    BY <2>1, FrameOf
  <2> QED BY <1>2, <2>2
<1>4. CASE j + 1 = cs[i].count /\ i < Len(cs)
  <2>1. i + 1 \in DOMAIN cs
    BY <1>1, <1>4 DEF LaidOut
  <2>2. At(cs[i], j + 1) = cs[i + 1].start
    BY <1>4 DEF LaidOut, At
  <2>3. /\ cs[i + 1].start \in Nat /\ cs[i + 1].len \in Nat
        /\ cs[i + 1].count \in Nat /\ cs[i + 1].count > 0
    BY <2>1, ClaimTypes
  <2>4. 0 \in 0 .. cs[i + 1].count - 1 /\ At(cs[i + 1], 0) = cs[i + 1].start
    BY <2>3 DEF At
  <2>5. [position |-> At(cs[i + 1], 0), sequence |-> Number(cs[i + 1], 0)]
          \in FramesOf(cs)
    BY <2>1, <2>4, FrameOf
  <2> QED BY <1>2, <2>2, <2>4, <2>5
<1>5. CASE j + 1 = cs[i].count /\ i = Len(cs)
  BY <1>2, <1>5 DEF LaidOut, At
<1>6. i <= Len(cs)
  BY DEF LaidOut
<1> QED BY <1>1, <1>3, <1>4, <1>5, <1>6 DEF LaidOut

\* The committed prefix ends where the first claim that is not committed starts.
LEMMA Contiguous ==
  ASSUME NEW cs, NEW end, NEW taken, LaidOut(cs, end, taken)
  PROVE  /\ ContiguousEnd(cs) \in Nat /\ ContiguousEnd(cs) <= end
         /\ \A i \in DOMAIN cs : ~cs[i].committed => ContiguousEnd(cs) <= cs[i].start
         /\ \/ ContiguousEnd(cs) = end
            \/ \E i \in DOMAIN cs : ~cs[i].committed /\ ContiguousEnd(cs) = cs[i].start
<1> DEFINE holes == {i \in DOMAIN cs : ~cs[i].committed}
<1>0. end \in Nat /\ cs \in Seq(Claimed) /\ DOMAIN cs = 1 .. Len(cs)
  BY DEF LaidOut
<1>1. CASE holes = {}
  <2>1. ContiguousEnd(cs) = IF cs = <<>> THEN 0 ELSE End(Last(cs))
    BY <1>1 DEF ContiguousEnd
  <2>2. CASE cs = <<>>
    BY <1>0, <1>1, <2>1, <2>2 DEF LaidOut
  <2>3. CASE cs # <<>>
    <3>1. Len(cs) \in DOMAIN cs
      BY <1>0, <2>3
    <3>2. End(Last(cs)) = end
      BY <3>1 DEF LaidOut, End, Last
    <3> QED BY <1>0, <1>1, <2>1, <2>3, <3>2
  <2> QED BY <2>2, <2>3
<1>2. CASE holes # {}
  <2>1. holes \subseteq Nat
    BY <1>0
  <2>2. Min(holes) \in holes /\ \A y \in holes : Min(holes) <= y
    BY <1>2, <2>1, MinNatural
  <2>3. PICK m \in holes : m = Min(holes)
    BY <2>2
  <2>4. ContiguousEnd(cs) = cs[m].start
    BY <1>2, <2>3 DEF ContiguousEnd
  <2>5. m \in DOMAIN cs /\ ~cs[m].committed /\ \A y \in holes : m <= y
    BY <2>2, <2>3
  <2>6. /\ cs[m].start \in Nat /\ End(cs[m]) \in Nat /\ cs[m].len \in Nat
        /\ cs[m].count \in Nat /\ cs[m].len * cs[m].count \in Nat
    BY <2>5, ClaimTypes, Multiples
  <2>7. cs[m].start <= End(cs[m]) /\ End(cs[m]) <= end
    BY <2>5, <2>6 DEF LaidOut, End
  <2>8. ASSUME NEW i \in DOMAIN cs, ~cs[i].committed PROVE cs[m].start <= cs[i].start
    <3>1. m <= i /\ i \in Nat /\ m \in Nat /\ cs[i].start \in Nat
      BY <2>5, <2>8, ClaimTypes
    <3>2. CASE m < i
      <4>1. End(cs[m]) <= cs[i].start
        BY <2>5, <3>2 DEF LaidOut, End
      <4> QED BY <4>1, <2>6, <2>7, <3>1
    <3> QED BY <3>1, <3>2, <2>6
  <2> QED BY <1>0, <2>4, <2>5, <2>6, <2>7, <2>8
<1> QED BY <1>1, <1>2

\* What lies in it is committed.
LEMMA CommittedBefore ==
  ASSUME NEW cs, NEW end, NEW taken, LaidOut(cs, end, taken),
         NEW i \in DOMAIN cs, NEW j \in 0 .. cs[i].count - 1,
         At(cs[i], j) < ContiguousEnd(cs)
  PROVE  cs[i].committed
<1>1. SUFFICES ASSUME ~cs[i].committed PROVE FALSE
  OBVIOUS
<1>2. ContiguousEnd(cs) \in Nat /\ ContiguousEnd(cs) <= cs[i].start
  BY <1>1, Contiguous
<1>3. At(cs[i], j) \in Nat /\ cs[i].start <= At(cs[i], j) /\ cs[i].start \in Nat
  BY FrameBounds, ClaimTypes
<1> QED BY <1>2, <1>3

\* The frames of a ring are finitely many.
LEMMA FramesFinite ==
  ASSUME NEW cs, NEW end, NEW taken, LaidOut(cs, end, taken)
  PROVE  IsFiniteSet(FramesOf(cs)) /\ \A x : IsFiniteSet(Before(cs, x))
<1> DEFINE F == FramesOf(cs)
           g == [f \in F |-> f.position]
<1>1. g \in Injection(F, 0 .. end)
  <2>1. end \in Nat
    BY DEF LaidOut
  <2>2. g \in [F -> 0 .. end]
    BY <2>1, FrameTypes
  <2>3. ASSUME NEW a \in F, NEW b \in F, a.position = b.position PROVE a = b
    <3>1. PICK i \in DOMAIN cs : \E j \in 0 .. cs[i].count - 1 :
            a = [position |-> At(cs[i], j), sequence |-> Number(cs[i], j)]
      BY FrameOf
    <3>2. PICK j \in 0 .. cs[i].count - 1 :
            a = [position |-> At(cs[i], j), sequence |-> Number(cs[i], j)]
      BY <3>1
    <3>3. \/ b = a
          \/ At(cs[i], j) + cs[i].len <= b.position
          \/ b.position < At(cs[i], j)
      BY <3>2, FrameOrder
    <3>4. At(cs[i], j) \in Nat /\ cs[i].len \in Nat /\ cs[i].len > 0
          /\ a.position = At(cs[i], j)
      BY <3>2, FrameBounds, ClaimTypes
    <3> QED BY <2>3, <3>3, <3>4
  <2> QED BY <2>2, <2>3 DEF Injection, IsInjective
<1>2. IsFiniteSet(0 .. end)
  BY FS_Interval DEF LaidOut
<1>3. IsFiniteSet(F)
  BY <1>1, <1>2, FS_Injection
<1>4. \A x : Before(cs, x) \in SUBSET F
  BY DEF Before
<1> QED BY <1>3, <1>4, FS_Subset

\* Numbers from 0 below n are n.
LEMMA FirstNumbers ==
  ASSUME NEW n \in Nat
  PROVE  IsFiniteSet(0 .. n - 1) /\ Cardinality(0 .. n - 1) = n
<1>1. n - 1 \in Int
  OBVIOUS
<1>2. /\ IsFiniteSet(0 .. n - 1)
      /\ Cardinality(0 .. n - 1) = IF 0 > n - 1 THEN 0 ELSE n - 1 - 0 + 1
  BY <1>1, FS_Interval
<1> QED BY <1>2

\* A claim is appended: its frames come after all others.
LEMMA AppendClaim ==
  ASSUME NEW cs, NEW end, NEW taken, LaidOut(cs, end, taken),
         NEW c \in Claimed, c.start = end, c.len > 0, c.count > 0, ~c.committed,
         taken <= c.sequence
  PROVE  /\ LaidOut(Append(cs, c), end + c.len * c.count, c.sequence + c.count)
         /\ ContiguousEnd(Append(cs, c)) = ContiguousEnd(cs)
         /\ Len(Append(cs, c)) = Len(cs) + 1
         /\ \A i \in DOMAIN cs : i \in DOMAIN Append(cs, c) /\ Append(cs, c)[i] = cs[i]
         /\ Append(cs, c)[Len(cs) + 1] = c
<1> DEFINE ds == Append(cs, c)
           m == Len(cs) + 1
<1>1. /\ cs \in Seq(Claimed) /\ end \in Nat /\ taken \in Nat
      /\ DOMAIN cs = 1 .. Len(cs) /\ Len(cs) \in Nat
      /\ c.start \in Nat /\ c.len \in Nat /\ c.count \in Nat /\ c.sequence \in Nat
      /\ c.len * c.count \in Nat
  BY Multiples DEF LaidOut, Claimed
<1>2. /\ ds \in Seq(Claimed) /\ Len(ds) = m /\ DOMAIN ds = 1 .. m
      /\ \A i \in DOMAIN cs : i \in DOMAIN ds /\ ds[i] = cs[i]
      /\ ds[m] = c /\ m \in Nat /\ m > 0
  BY <1>1
<1> HIDE DEF ds
<1>3. \A i \in DOMAIN ds : i \in DOMAIN cs \/ i = m
  BY <1>1, <1>2
<1>4. ASSUME NEW i \in DOMAIN cs
      PROVE  /\ End(cs[i]) \in Nat /\ End(cs[i]) <= end
             /\ cs[i].sequence \in Nat /\ cs[i].count \in Nat
             /\ cs[i].sequence + cs[i].count <= taken
             /\ cs[i].len > 0 /\ cs[i].count > 0
             /\ i < Len(cs) => End(cs[i]) = cs[i + 1].start /\ i + 1 \in DOMAIN cs
             /\ i = Len(cs) => End(cs[i]) = end
  <2>1. End(cs[i]) \in Nat /\ cs[i].sequence \in Nat /\ cs[i].count \in Nat
    BY ClaimTypes
  <2>2. i < Len(cs) => i + 1 \in DOMAIN cs
    BY <1>1
  <2> QED BY <2>1, <2>2 DEF LaidOut, End
<1>5. LaidOut(ds, end + c.len * c.count, c.sequence + c.count)
  <2>1. ASSUME NEW i \in DOMAIN ds
        PROVE  /\ ds[i].len > 0 /\ ds[i].count > 0
               /\ End(ds[i]) <= end + c.len * c.count
               /\ ds[i].sequence + ds[i].count <= c.sequence + c.count
               /\ i < m => End(ds[i]) = ds[i + 1].start
               /\ i = m => End(ds[i]) = end + c.len * c.count
    <3>1. CASE i = m
      BY <3>1, <1>1, <1>2 DEF End
    <3>2. CASE i \in DOMAIN cs
      <4>1. ds[i] = cs[i] /\ i < m
        BY <3>2, <1>1, <1>2
      <4>2. End(ds[i]) = ds[i + 1].start
        <5>1. CASE i < Len(cs)
          BY <5>1, <3>2, <4>1, <1>2, <1>4
        <5>2. CASE i = Len(cs)
          BY <5>2, <3>2, <4>1, <1>2, <1>4
        <5> QED BY <5>1, <5>2, <3>2, <1>1
      <4>3. /\ End(cs[i]) \in Nat /\ End(cs[i]) <= end
            /\ cs[i].sequence \in Nat /\ cs[i].count \in Nat
            /\ cs[i].sequence + cs[i].count <= taken
            /\ cs[i].len > 0 /\ cs[i].count > 0
        BY <3>2, <1>4
      <4>4. /\ End(cs[i]) <= end + c.len * c.count
            /\ cs[i].sequence + cs[i].count <= c.sequence + c.count
        <5>1. \A a, b, d \in Nat : a <= b => a <= b + d
          OBVIOUS
        <5>2. cs[i].sequence + cs[i].count \in Nat /\ taken <= c.sequence
          BY <4>3
        <5>3. cs[i].sequence + cs[i].count <= c.sequence
          BY <5>2, <4>3, <1>1
        <5> QED BY <5>1, <5>2, <5>3, <4>3, <1>1
      <4>5. i \in Nat /\ m \in Nat /\ i # m
        BY <4>1, <3>2, <1>1, <1>2
      <4> QED BY <4>1, <4>2, <4>3, <4>4, <4>5
    <3> QED BY <3>1, <3>2, <1>3
  <2>2. ASSUME NEW i \in DOMAIN ds, NEW j \in DOMAIN ds, i < j
        PROVE  /\ End(ds[i]) <= ds[j].start
               /\ ds[i].sequence + ds[i].count <= ds[j].sequence
    <3>1. i \in DOMAIN cs /\ ds[i] = cs[i]
      <4>1. i \in 1 .. m /\ j \in 1 .. m
        BY <1>2
      <4>2. i # m
        BY <4>1, <2>2, <1>2
      <4> QED BY <4>2, <1>2, <1>3
    <3>2. CASE j = m
      <4>1. /\ End(ds[i]) <= end /\ ds[i].sequence + ds[i].count <= taken
            /\ ds[i].sequence \in Nat /\ ds[i].count \in Nat
        BY <3>1, <1>4
      <4>2. ds[j].start = end /\ ds[j].sequence = c.sequence
        BY <3>2, <1>2
      <4>3. \A a, b, d \in Nat : a <= b /\ b <= d => a <= d
        OBVIOUS
      <4>4. ds[i].sequence + ds[i].count \in Nat
        BY <4>1
      <4>5. ds[i].sequence + ds[i].count <= c.sequence
        BY <4>1, <4>3, <4>4, <1>1
      <4> QED BY <4>1, <4>2, <4>5
    <3>3. CASE j \in DOMAIN cs
      <4>1. ds[j] = cs[j]
        BY <3>3, <1>2
      <4> QED BY <2>2, <3>1, <3>3, <4>1 DEF LaidOut, End
    <3> QED BY <3>2, <3>3, <1>3
  <2>3. end + c.len * c.count \in Nat /\ c.sequence + c.count \in Nat /\ ds # <<>>
    <3>1. \A a, b \in Nat : a + b \in Nat
      OBVIOUS
    <3>2. ds # <<>>
      BY <1>2
    <3> QED BY <3>1, <3>2, <1>1
  <2> QED BY <1>2, <2>1, <2>2, <2>3 DEF LaidOut, End
<1>6. ContiguousEnd(ds) = ContiguousEnd(cs)
  <2> DEFINE e == ContiguousEnd(ds)
  <2>1. /\ e \in Nat /\ \A i \in DOMAIN ds : ~ds[i].committed => e <= ds[i].start
        /\ \/ e = end + c.len * c.count
           \/ \E i \in DOMAIN ds : ~ds[i].committed /\ e = ds[i].start
    BY <1>5, Contiguous
  <2>2. /\ ContiguousEnd(cs) \in Nat /\ ContiguousEnd(cs) <= end
        /\ \A i \in DOMAIN cs : ~cs[i].committed => ContiguousEnd(cs) <= cs[i].start
        /\ \/ ContiguousEnd(cs) = end
           \/ \E i \in DOMAIN cs : ~cs[i].committed /\ ContiguousEnd(cs) = cs[i].start
    BY Contiguous
  <2>3. m \in DOMAIN ds /\ ~ds[m].committed /\ ds[m].start = end
    BY <1>2
  <2>4. e <= end
    BY <2>1, <2>3
  <2>5. e <= ContiguousEnd(cs)
    <3>1. ASSUME NEW i \in DOMAIN cs, ~cs[i].committed, ContiguousEnd(cs) = cs[i].start
          PROVE  e <= ContiguousEnd(cs)
      <4>1. i \in DOMAIN ds /\ ds[i] = cs[i]
        BY <1>2
      <4> QED BY <2>1, <3>1, <4>1
    <3> QED BY <2>2, <2>4, <3>1
  <2>6. ContiguousEnd(cs) <= e
    <3>1. ASSUME NEW i \in DOMAIN ds, ~ds[i].committed, e = ds[i].start
          PROVE  ContiguousEnd(cs) <= e
      <4>1. CASE i = m
        BY <3>1, <4>1, <2>2, <2>3
      <4>2. CASE i \in DOMAIN cs
        BY <3>1, <4>2, <2>2, <1>2
      <4> QED BY <4>1, <4>2, <1>3
    <3>2. CASE e = end + c.len * c.count
      BY <3>2, <1>1, <2>2, <2>4
    <3> QED BY <2>1, <3>1, <3>2
  <2> HIDE DEF e
  <2> QED BY <2>1, <2>2, <2>5, <2>6 DEF e
<1> QED BY <1>2, <1>5, <1>6 DEF ds

\* The new frames are as many as the claim has.
LEMMA AppendFrames ==
  ASSUME NEW cs, NEW end, NEW taken, LaidOut(cs, end, taken),
         NEW c \in Claimed, c.start = end, c.len > 0, c.count > 0
  PROVE  LET new == {[position |-> At(c, j), sequence |-> Number(c, j)] :
                       j \in 0 .. c.count - 1} IN
         /\ FramesOf(Append(cs, c)) = FramesOf(cs) \cup new
         /\ \A f \in new : /\ f.position \in Nat /\ end <= f.position
                           /\ f.sequence \in Nat /\ c.sequence <= f.sequence
         /\ Cardinality(FramesOf(Append(cs, c))) = Cardinality(FramesOf(cs)) + c.count
         /\ [position |-> end, sequence |-> c.sequence] \in new
<1> DEFINE ds == Append(cs, c)
           m == Len(cs) + 1
           frame(j) == [position |-> At(c, j), sequence |-> Number(c, j)]
           new == {frame(j) : j \in 0 .. c.count - 1}
<1>1. /\ cs \in Seq(Claimed) /\ end \in Nat
      /\ DOMAIN cs = 1 .. Len(cs) /\ Len(cs) \in Nat
      /\ c.start \in Nat /\ c.len \in Nat /\ c.count \in Nat /\ c.sequence \in Nat
  BY DEF LaidOut, Claimed
<1>2. /\ DOMAIN ds = 1 .. m /\ ds[m] = c /\ m \in DOMAIN ds
      /\ \A i \in DOMAIN cs : i \in DOMAIN ds /\ ds[i] = cs[i]
      /\ \A i \in DOMAIN ds : i \in DOMAIN cs \/ i = m
  BY <1>1
<1> HIDE DEF ds
<1>3. FramesOf(ds) = FramesOf(cs) \cup new
  <2>1. ASSUME NEW f \in FramesOf(ds) PROVE f \in FramesOf(cs) \cup new
    <3>1. PICK i \in DOMAIN ds : \E j \in 0 .. ds[i].count - 1 :
            f = [position |-> At(ds[i], j), sequence |-> Number(ds[i], j)]
      BY FrameOf
    <3>2. CASE i = m
      BY <3>1, <3>2, <1>2
    <3>3. CASE i \in DOMAIN cs
      <4>1. ds[i] = cs[i]
        BY <3>3, <1>2
      <4> QED BY <3>1, <3>3, <4>1, FrameOf
    <3> QED BY <3>2, <3>3, <1>2
  <2>2. FramesOf(cs) \subseteq FramesOf(ds)
    <3>1. ASSUME NEW f \in FramesOf(cs) PROVE f \in FramesOf(ds)
      <4>1. PICK i \in DOMAIN cs : \E j \in 0 .. cs[i].count - 1 :
              f = [position |-> At(cs[i], j), sequence |-> Number(cs[i], j)]
        BY FrameOf
      <4>2. i \in DOMAIN ds /\ ds[i] = cs[i]
        BY <1>2
      <4> QED BY <4>1, <4>2, FrameOf
    <3> QED BY <3>1
  <2>3. new \subseteq FramesOf(ds)
    BY <1>2, FrameOf
  <2> QED BY <2>1, <2>2, <2>3
<1>4. ASSUME NEW j \in 0 .. c.count - 1
      PROVE  /\ c.len * j \in Nat /\ frame(j).position = end + c.len * j
             /\ frame(j).sequence = c.sequence + j
  <2>1. j \in Nat
    OBVIOUS
  <2> QED BY <2>1, <1>1, Multiples DEF At, Number
<1>5. \A f \in new : /\ f.position \in Nat /\ end <= f.position
                     /\ f.sequence \in Nat /\ c.sequence <= f.sequence
  <2>1. ASSUME NEW j \in 0 .. c.count - 1
        PROVE  /\ frame(j).position \in Nat /\ end <= frame(j).position
               /\ frame(j).sequence \in Nat /\ c.sequence <= frame(j).sequence
    <3>1. \A a, b \in Nat : a + b \in Nat /\ a <= a + b
      OBVIOUS
    <3>2. j \in Nat /\ c.sequence \in Nat /\ end \in Nat /\ c.len * j \in Nat
      BY <1>1, <1>4
    <3>3. end + c.len * j \in Nat /\ end <= end + c.len * j
      BY <3>1, <3>2
    <3>4. c.sequence + j \in Nat /\ c.sequence <= c.sequence + j
      BY <3>1, <3>2
    <3> HIDE DEF frame
    <3> QED BY <3>3, <3>4, <1>4
  <2> QED BY <2>1
<1>6. IsFiniteSet(new) /\ Cardinality(new) = c.count
  <2> DEFINE g == [j \in 0 .. c.count - 1 |-> frame(j)]
  <2>1. g \in Injection(0 .. c.count - 1, new)
    <3>1. \A j, l \in 0 .. c.count - 1 : frame(j) = frame(l) => j = l
      BY <1>1, <1>4
    <3> QED BY <3>1 DEF Injection, IsInjective
  <2>2. g \in Surjection(0 .. c.count - 1, new)
    BY DEF Surjection
  <2>3. ExistsBijection(0 .. c.count - 1, new)
    BY <2>1, <2>2 DEF ExistsBijection, Bijection
  <2>4. IsFiniteSet(0 .. c.count - 1) /\ Cardinality(0 .. c.count - 1) = c.count
    BY <1>1, FirstNumbers
  <2> QED BY <2>3, <2>4, FS_Bijection
<1>7. FramesOf(cs) \cap new = {}
  BY <1>1, <1>5, FrameTypes
<1>8. Cardinality(FramesOf(ds)) = Cardinality(FramesOf(cs)) + c.count
  <2>1. IsFiniteSet(FramesOf(cs)) /\ Cardinality(FramesOf(cs)) \in Nat
    BY FramesFinite, FS_CardinalityType
  <2>2. Cardinality(FramesOf(cs) \cup new) =
          Cardinality(FramesOf(cs)) + Cardinality(new)
            - Cardinality(FramesOf(cs) \cap new)
    BY <2>1, <1>6, FS_Union
  <2>3. Cardinality(FramesOf(cs) \cap new) = 0
    BY <1>7, FS_EmptySet
  <2> QED BY <2>1, <2>2, <2>3, <1>3, <1>6, <1>1
<1>9. [position |-> end, sequence |-> c.sequence] \in new
  <2>1. 0 \in 0 .. c.count - 1
    BY <1>1
  <2>2. frame(0) = [position |-> end, sequence |-> c.sequence]
    BY <1>1 DEF At, Number
  <2> QED BY <2>1, <2>2
<1> QED BY <1>3, <1>5, <1>8, <1>9 DEF ds

\* A claim is committed: nothing moves, and the committed prefix does not shrink.
LEMMA CommitClaim ==
  ASSUME NEW cs, NEW end, NEW taken, LaidOut(cs, end, taken), NEW i \in DOMAIN cs,
         NEW ds, ds = [cs EXCEPT ![i].committed = TRUE]
  PROVE  /\ LaidOut(ds, end, taken) /\ FramesOf(ds) = FramesOf(cs)
         /\ DOMAIN ds = DOMAIN cs /\ Len(ds) = Len(cs)
         /\ ContiguousEnd(cs) <= ContiguousEnd(ds)
         /\ \A k \in DOMAIN cs :
              /\ ds[k].start = cs[k].start /\ ds[k].len = cs[k].len
              /\ ds[k].count = cs[k].count /\ ds[k].sequence = cs[k].sequence
              /\ ds[k].committed <=> cs[k].committed \/ k = i
<1> DEFINE c == [cs[i] EXCEPT !.committed = TRUE]
<1>1. /\ cs \in Seq(Claimed) /\ DOMAIN cs = 1 .. Len(cs) /\ Len(cs) \in Nat
      /\ cs[i] \in Claimed
  BY DEF LaidOut
<1>2. /\ c \in Claimed /\ c.committed = TRUE
      /\ c.start = cs[i].start /\ c.len = cs[i].len
      /\ c.count = cs[i].count /\ c.sequence = cs[i].sequence
  BY <1>1 DEF Claimed
<1> HIDE DEF c
<1>3. ds = [cs EXCEPT ![i] = c]
  BY DEF c
<1>4. /\ ds \in Seq(Claimed) /\ Len(ds) = Len(cs) /\ DOMAIN ds = DOMAIN cs
      /\ ds[i] = c /\ \A k \in DOMAIN cs : k # i => ds[k] = cs[k]
  <2>1. [cs EXCEPT ![i] = c] \in Seq(Claimed) /\ Len([cs EXCEPT ![i] = c]) = Len(cs)
    BY <1>1, <1>2
  <2>2. DOMAIN ds = DOMAIN cs /\ ds[i] = c /\ \A k \in DOMAIN cs : k # i => ds[k] = cs[k]
    BY <1>3
  <2> QED BY <2>1, <2>2, <1>3
<1>5. \A k \in DOMAIN cs :
        /\ ds[k].start = cs[k].start /\ ds[k].len = cs[k].len
        /\ ds[k].count = cs[k].count /\ ds[k].sequence = cs[k].sequence
        /\ ds[k].committed <=> cs[k].committed \/ k = i
  BY <1>2, <1>4
<1>6. \A k \in DOMAIN cs : k < Len(cs) => k + 1 \in DOMAIN cs
  BY <1>1
<1>7. LaidOut(ds, end, taken)
  <2>1. end \in Nat /\ taken \in Nat /\ (ds = <<>> => cs = <<>>)
    BY <1>1, <1>4 DEF LaidOut
  <2>2. ASSUME NEW k \in DOMAIN ds
        PROVE  /\ ds[k].len > 0 /\ ds[k].count > 0
               /\ ds[k].start + ds[k].len * ds[k].count <= end
               /\ ds[k].sequence + ds[k].count <= taken
               /\ k < Len(ds) => ds[k].start + ds[k].len * ds[k].count = ds[k + 1].start
               /\ k = Len(ds) => ds[k].start + ds[k].len * ds[k].count = end
    BY <1>4, <1>5, <1>6 DEF LaidOut
  <2>3. ASSUME NEW k \in DOMAIN ds, NEW l \in DOMAIN ds, k < l
        PROVE  /\ ds[k].start + ds[k].len * ds[k].count <= ds[l].start
               /\ ds[k].sequence + ds[k].count <= ds[l].sequence
    BY <2>3, <1>4, <1>5 DEF LaidOut
  <2>4. ds = <<>> => end = 0
    BY <2>1 DEF LaidOut
  <2> QED BY <1>4, <2>1, <2>2, <2>3, <2>4 DEF LaidOut
<1>8. FramesOf(ds) = FramesOf(cs)
  BY <1>4, <1>5 DEF FramesOf, At, Number
<1>9. ContiguousEnd(cs) <= ContiguousEnd(ds)
  <2>1. /\ ContiguousEnd(ds) \in Nat
        /\ \/ ContiguousEnd(ds) = end
           \/ \E k \in DOMAIN ds : ~ds[k].committed /\ ContiguousEnd(ds) = ds[k].start
    BY <1>7, Contiguous
  <2>2. /\ ContiguousEnd(cs) \in Nat /\ ContiguousEnd(cs) <= end
        /\ \A k \in DOMAIN cs : ~cs[k].committed => ContiguousEnd(cs) <= cs[k].start
    BY Contiguous
  <2>3. ASSUME NEW k \in DOMAIN ds, ~ds[k].committed, ContiguousEnd(ds) = ds[k].start
        PROVE  ContiguousEnd(cs) <= ContiguousEnd(ds)
    <3>1. k \in DOMAIN cs /\ ~cs[k].committed /\ ds[k].start = cs[k].start
      BY <2>3, <1>4, <1>5
    <3> QED BY <3>1, <2>2, <2>3
  <2> QED BY <2>1, <2>2, <2>3
<1> QED BY <1>4, <1>5, <1>7, <1>8, <1>9

-----------------------------------------------------------------------------
(* A reader and a ring *)

\* What a reader keeps of a ring.
Kept == [read : Nat, next : Nat, messages : Nat, visible : Nat, flushed : Nat]

\* A ring as readers see it, with its claims.
Rings == [claims : Seq(Claimed), end : Nat, taken : Nat, reserved : Nat,
          visible : Nat, alive : BOOLEAN]

\* Its claims are laid out, and those before visible are announced.
RingOk(g) ==
  /\ g \in Rings
  /\ LaidOut(g.claims, g.end, g.taken)
  /\ g.visible <= g.reserved /\ g.reserved <= g.end

\* A reader at r has the ring's frames before r.read behind it, and all that were
\* numbered from r.next on before it.  A claim cut off by the producer's death is
\* no message.
ReadsAt(r, g) ==
  /\ \A f \in FramesOf(g.claims) :
       /\ f.sequence >= r.next => f.position >= r.read
       /\ (g.alive \/ f.position < g.reserved) /\ f.position >= r.read
            => f.sequence >= r.next
  /\ r.read = g.end \/ \E f \in FramesOf(g.claims) : f.position = r.read
  /\ r.read <= g.reserved
  /\ r.messages = Cardinality(Before(g.claims, r.read))
  /\ r.next <= g.taken
  /\ r.visible <= g.visible

\* What a producer's step does to a ring: more frames at the end, with new
\* numbers; more announced, unless the producer is dead; more visible.
Grown(g, h) ==
  /\ \A i \in DOMAIN g.claims :
       /\ i \in DOMAIN h.claims
       /\ h.claims[i].start = g.claims[i].start /\ h.claims[i].len = g.claims[i].len
       /\ h.claims[i].count = g.claims[i].count
       /\ h.claims[i].sequence = g.claims[i].sequence
  /\ FramesOf(g.claims) \subseteq FramesOf(h.claims)
  /\ \A f \in FramesOf(h.claims) \ FramesOf(g.claims) :
       f.position >= g.end /\ f.sequence >= g.taken
  /\ h.end # g.end => \E f \in FramesOf(h.claims) : f.position = g.end
  /\ g.taken <= h.taken /\ g.visible <= h.visible /\ g.reserved <= h.reserved
  /\ h.alive => g.alive
  /\ g.alive \/ h.reserved = g.reserved

\* A reader is not disturbed by that.
LEMMA ReadsGrown ==
  ASSUME NEW g, NEW h, RingOk(g), RingOk(h), Grown(g, h), NEW r \in Kept, ReadsAt(r, g)
  PROVE  ReadsAt(r, h)
<1>1. /\ r.read \in Nat /\ r.next \in Nat /\ r.messages \in Nat /\ r.visible \in Nat
      /\ g.end \in Nat /\ g.taken \in Nat /\ g.reserved \in Nat /\ g.visible \in Nat
      /\ h.end \in Nat /\ h.taken \in Nat /\ h.reserved \in Nat /\ h.visible \in Nat
  BY DEF Kept, RingOk, Rings
<1>2. /\ r.read <= g.reserved /\ g.reserved <= g.end /\ r.next <= g.taken
      /\ r.visible <= g.visible
  BY DEF ReadsAt, RingOk
<1>3. \A f \in FramesOf(h.claims) : f.position \in Nat /\ f.sequence \in Nat
  BY FrameTypes DEF RingOk
<1>4. ASSUME NEW f \in FramesOf(h.claims)
      PROVE  /\ f.sequence >= r.next => f.position >= r.read
             /\ (h.alive \/ f.position < h.reserved) /\ f.position >= r.read
                  => f.sequence >= r.next
  <2>1. CASE f \in FramesOf(g.claims)
    BY <2>1 DEF ReadsAt, Grown
  <2>2. CASE f \notin FramesOf(g.claims)
    <3>1. f.position >= g.end /\ f.sequence >= g.taken
      BY <2>2 DEF Grown
    <3> QED BY <3>1, <1>1, <1>2, <1>3
  <2> QED BY <2>1, <2>2
<1>5. r.read = h.end \/ \E f \in FramesOf(h.claims) : f.position = r.read
  BY DEF ReadsAt, Grown
<1>6. Before(h.claims, r.read) = Before(g.claims, r.read)
  <2>1. ASSUME NEW f \in FramesOf(h.claims), f \notin FramesOf(g.claims)
        PROVE  ~(f.position < r.read)
    <3>1. f.position >= g.end
      BY <2>1 DEF Grown
    <3> QED BY <3>1, <1>1, <1>2, <1>3
  <2> QED BY <2>1 DEF Before, Grown
<1>7. r.read <= h.reserved /\ r.next <= h.taken /\ r.visible <= h.visible
  BY <1>1, <1>2 DEF Grown
<1> QED BY <1>4, <1>5, <1>6, <1>7 DEF ReadsAt

\* The frame a reader has come to, when it is visible: it is committed, and its
\* number is one the reader has not had.
LEMMA HeadFrame ==
  ASSUME NEW g, RingOk(g), NEW r \in Kept, ReadsAt(r, g), r.read < g.visible,
         g.visible = ContiguousEnd(g.claims)
  PROVE  \E i \in DOMAIN g.claims : \E j \in 0 .. g.claims[i].count - 1 :
           /\ At(g.claims[i], j) = r.read
           /\ Number(g.claims[i], j) >= r.next
           /\ g.claims[i].committed
<1>1. /\ r.read \in Nat /\ r.next \in Nat
      /\ g.end \in Nat /\ g.reserved \in Nat /\ g.visible \in Nat
  BY DEF Kept, RingOk, Rings
<1>2. r.read # g.end /\ r.read < g.reserved
  BY <1>1 DEF RingOk
<1>3. PICK f \in FramesOf(g.claims) : f.position = r.read
  BY <1>2 DEF ReadsAt
<1>4. f.sequence >= r.next
  <2>1. f.position < g.reserved /\ f.position >= r.read
    BY <1>1, <1>2, <1>3
  <2> QED BY <2>1 DEF ReadsAt
<1>5. PICK i \in DOMAIN g.claims : \E j \in 0 .. g.claims[i].count - 1 :
        f = [position |-> At(g.claims[i], j), sequence |-> Number(g.claims[i], j)]
  BY FrameOf
<1>6. PICK j \in 0 .. g.claims[i].count - 1 :
        f = [position |-> At(g.claims[i], j), sequence |-> Number(g.claims[i], j)]
  BY <1>5
<1>7. f.position = At(g.claims[i], j) /\ f.sequence = Number(g.claims[i], j)
  BY <1>6
<1>8. g.claims[i].committed
  BY <1>3, <1>7, CommittedBefore DEF RingOk
<1> QED BY <1>3, <1>4, <1>7, <1>8

\* The reader goes past the frame with the number it wants.
LEMMA ReadsNext ==
  ASSUME NEW g, RingOk(g), NEW r \in Kept, ReadsAt(r, g),
         NEW i \in DOMAIN g.claims, NEW j \in 0 .. g.claims[i].count - 1,
         At(g.claims[i], j) = r.read, Number(g.claims[i], j) = r.next,
         r.read + g.claims[i].len <= g.visible,
         NEW s \in Kept, s.read = r.read + g.claims[i].len, s.next = r.next + 1,
         s.messages = r.messages + 1, s.visible = r.visible
  PROVE  ReadsAt(s, g)
<1> DEFINE cs == g.claims
           frame == [position |-> r.read, sequence |-> r.next]
<1>0. LaidOut(cs, g.end, g.taken)
  BY DEF RingOk
<1>1. /\ r.read \in Nat /\ r.next \in Nat /\ s.read \in Nat /\ s.next \in Nat
      /\ g.end \in Nat /\ g.reserved \in Nat /\ g.visible \in Nat /\ g.taken \in Nat
      /\ cs[i].len \in Nat /\ cs[i].len > 0
  BY <1>0, ClaimTypes DEF Kept, RingOk, Rings
<1>2. frame \in FramesOf(cs)
  BY FrameOf
<1>3. \A f \in FramesOf(cs) : /\ f.position \in Nat /\ f.sequence \in Nat
                              /\ \/ f = frame
                                 \/ s.read <= f.position /\ r.next < f.sequence
                                 \/ f.position < r.read /\ f.sequence < r.next
  BY <1>0, FrameTypes, FrameOrder
<1>4. ASSUME NEW f \in FramesOf(cs)
      PROVE  f.sequence >= s.next <=> f.position >= s.read
  BY <1>1, <1>3
<1>5. s.read = g.end \/ \E f \in FramesOf(cs) : f.position = s.read
  BY <1>0, NextFrame
<1>6. s.read <= g.reserved
  BY <1>1 DEF RingOk
<1>7. s.messages = Cardinality(Before(cs, s.read))
  <2>1. Before(cs, s.read) = Before(cs, r.read) \cup {frame}
    <3>1. ASSUME NEW f \in FramesOf(cs)
          PROVE  f.position < s.read <=> f.position < r.read \/ f = frame
      BY <1>1, <1>3
    <3> QED BY <3>1, <1>2 DEF Before
  <2>2. frame \notin Before(cs, r.read)
    BY <1>1 DEF Before
  <2>3. IsFiniteSet(Before(cs, r.read))
    BY <1>0, FramesFinite
  <2>4. Cardinality(Before(cs, s.read)) = Cardinality(Before(cs, r.read)) + 1
    BY <2>1, <2>2, <2>3, FS_AddElement
  <2> QED BY <2>4 DEF ReadsAt
<1>8. s.next <= g.taken
  <2>1. Number(cs[i], j) < g.taken
    BY <1>0, FrameBounds
  <2> QED BY <2>1, <1>1
<1> QED BY <1>4, <1>5, <1>6, <1>7, <1>8 DEF ReadsAt

\* In an Ordered channel it goes past a number on all other rings too.
LEMMA ReadsOther ==
  ASSUME NEW g, RingOk(g), NEW r \in Kept, ReadsAt(r, g),
         \A f \in FramesOf(g.claims) : f.sequence # r.next,
         r.next < g.taken,
         NEW s \in Kept, s.read = r.read, s.next = r.next + 1,
         s.messages = r.messages, s.visible = r.visible
  PROVE  ReadsAt(s, g)
<1>1. r.next \in Nat /\ g.taken \in Nat
  BY DEF Kept, RingOk, Rings
<1>2. \A f \in FramesOf(g.claims) : f.sequence \in Nat
  BY FrameTypes DEF RingOk
<1>3. \A f \in FramesOf(g.claims) : f.sequence >= s.next <=> f.sequence >= r.next
  BY <1>1, <1>2
<1> QED BY <1>1, <1>3 DEF ReadsAt

-----------------------------------------------------------------------------
(* The invariant *)

\* What is received.
Given == [producer : Producers, position : Nat, sequence : Nat, next : Nat]

\* The types of what producers and receivers read and write; those of the
\* registration are in RegTypes.
RingTypes ==
  /\ header \in [Producers -> [0 .. Cap - 1 -> [low : Int, len : Nat, sequence : Int]]]
  /\ visible \in [Producers -> Nat]
  /\ reservation \in [Producers -> [position : Nat, sequence : Nat, messages : Nat]]
  /\ global_seq \in Nat
ProducerTypes ==
  /\ ppc \in [Producers -> {"idle", "claim", "room", "reserved"}]
  /\ ask \in [Producers -> [len : 0 .. Cap, count : 0 .. MaxBatch]]
  /\ claims \in [Producers -> Seq(Claimed)]
  /\ producer_pos \in [Producers -> Nat]
  /\ messages \in [Producers -> Nat]
  /\ cached_pos \in [Producers -> Nat]
  /\ cached_messages \in [Producers -> Nat]
Cursors == [position : Nat, sequence : Nat, messages : Nat, generation : Nat]
RxTypes ==
  /\ cursor \in [Producers -> [Slots -> Cursors]]
  /\ rx \in [Clients -> [Producers -> Kept]]
  /\ last_hit \in [Clients -> Producers]
  /\ held \in [Clients -> SUBSET Given]

\* The producers that take p's numbers, and how many have been taken.
Domain(p) == IF Ordered THEN Producers ELSE {p}
Taken(p) == IF Ordered THEN global_seq ELSE messages[p]

\* p's ring as readers see it.
RingOf(p) == [claims |-> claims[p], end |-> producer_pos[p], taken |-> Taken(p),
            reserved |-> reservation[p].position, visible |-> visible[p],
            alive |-> alive[p]]

\* Every number taken is a frame's, and no two frames have one number.
Numbered ==
  /\ \A p \in Producers : \A n \in 0 .. Taken(p) - 1 :
       \E q \in Domain(p) : \E f \in FramesOf(claims[q]) : f.sequence = n
  /\ Ordered => \A p, q \in Producers : p # q =>
       \A f \in FramesOf(claims[p]), g \in FramesOf(claims[q]) :
         f.sequence # g.sequence

\* p's last claim, and what it takes up.
LastClaim(p) == claims[p][Len(claims[p])]

\* p's messages are its frames.  All claims are announced, or all but the last.
Announced(p) ==
  LET r == reservation[p]
      last == LastClaim(p)
  IN
  /\ messages[p] = Cardinality(FramesOf(claims[p]))
  /\ r.messages = Cardinality(Before(claims[p], r.position))
  /\ ppc[p] = "reserved" =>
       /\ claims[p] # <<>>
       /\ r.position = last.start
       /\ r.messages + last.count = messages[p]
       /\ last.len * last.count <= EffectiveCapacity
       /\ MessageWindow # 0 => last.count <= MessageWindow
       /\ ~Ordered => r.sequence = last.sequence
  /\ ppc[p] # "reserved" =>
       /\ r.position = producer_pos[p] /\ r.messages = messages[p]
       /\ ~Ordered => r.sequence = messages[p]
  /\ ~Ordered /\ claims[p] # <<>> => last.sequence + last.count = messages[p]

\* The committed prefix is visible; no subscriber, and nothing remembered of
\* one, is beyond what is announced.
Shown(p) ==
  /\ visible[p] = ContiguousEnd(claims[p])
  /\ cached_pos[p] <= reservation[p].position
  /\ cached_messages[p] <= reservation[p].messages
  /\ \A s \in Slots : /\ cursor[p][s].position <= reservation[p].position
                      /\ cursor[p][s].messages <= reservation[p].messages

\* The claim under way fits the ring, and once room is found the windows.
Asked(p) ==
  /\ ppc[p] \in {"claim", "room"} =>
       /\ ask[p].len > 0 /\ ask[p].count > 0
       /\ producer_pos[p] + ask[p].len * ask[p].count <= ContiguousEnd(claims[p]) + Cap
  /\ ppc[p] = "room" =>
       /\ ask[p].len * ask[p].count <= EffectiveCapacity
       /\ MessageWindow # 0 => ask[p].count <= MessageWindow

\* A claim's space is its own until it is committed.
Exclusive(p) ==
  \A i \in DOMAIN claims[p] :
    ~claims[p][i].committed => producer_pos[p] <= claims[p][i].start + Cap

\* A committed frame keeps its header until the ring has come round.
Headed(p) ==
  \A i \in DOMAIN claims[p] : claims[p][i].committed =>
    \A j \in 0 .. claims[p][i].count - 1 :
      producer_pos[p] <= At(claims[p][i], j) + Cap =>
        header[p][Unit(At(claims[p][i], j))]
          = Header(Number(claims[p][i], j), claims[p][i].len)

ProducerInv(p) ==
  /\ RingOk(RingOf(p)) /\ Announced(p) /\ Shown(p) /\ Asked(p) /\ Exclusive(p)
  /\ Headed(p)

\* A slot with a live client's pid is the one it works on.
HasSlot(k) ==
  \/ kpc[k] \in Joined \cup {"fill", "activate", "freeing"}
  \/ kpc[k] = "leave" /\ token[k] # NoToken
SlotOwned(s) ==
  slot[s].pid \in LiveClients => HasSlot(slot[s].pid) /\ mine[slot[s].pid] = s

\* No claim runs while a subscriber searches for, fills or activates a slot.
Quiet(k) ==
  kpc[k] \in {"slots", "reclaim", "fill", "activate"} => ClaimsQuiet

\* k counts among the subscribers, or is about to.
Subscribing(k) ==
  \/ kpc[k] \in Joined \cup {"activate"}
  \/ kpc[k] = "leave" /\ token[k] # NoToken

\* Where k is in every ring: what it keeps itself, or what its slot says.
SlotView(k) ==
  [p \in Producers |->
     [read |-> cursor[p][mine[k]].position, next |-> cursor[p][mine[k]].sequence,
      messages |-> cursor[p][mine[k]].messages, visible |-> 0,
      flushed |-> cursor[p][mine[k]].position]]
View(k) == IF kpc[k] \in Receiving THEN rx[k] ELSE SlotView(k)

\* The windows, seen from slot s: for what p has claimed, for what it is about
\* to claim, and what p remembers of the slot.
Windowed(p, s) ==
  /\ producer_pos[p] - cursor[p][s].position <= EffectiveCapacity
  /\ cached_pos[p] <= cursor[p][s].position
  /\ ppc[p] = "room" =>
       producer_pos[p] + ask[p].len * ask[p].count - cursor[p][s].position
         <= EffectiveCapacity
  /\ MessageWindow # 0 =>
       /\ messages[p] - cursor[p][s].messages <= MessageWindow
       /\ cached_messages[p] <= cursor[p][s].messages
       /\ ppc[p] = "room" =>
            messages[p] + ask[p].count - cursor[p][s].messages <= MessageWindow

\* A reader's places in all rings; the numbers of an Ordered channel are one.
Reads(r) ==
  /\ \A p \in Producers : ReadsAt(r[p], RingOf(p))
  /\ Ordered => \A p, q \in Producers : r[p].next = r[q].next

\* m is a visible message of ring g.
IsMessage(m, g) ==
  \E i \in DOMAIN g.claims : \E j \in 0 .. g.claims[i].count - 1 :
    /\ m.position = At(g.claims[i], j) /\ m.sequence = Number(g.claims[i], j)
    /\ m.next = m.position + g.claims[i].len /\ m.next <= g.visible

\* What k holds has not been announced as read; what try_recv() gave it is the
\* next to read still.
Holds(k) ==
  /\ kpc[k] \notin {"holding", "polling"} => held[k] = {}
  /\ \A m \in held[k] : /\ IsMessage(m, RingOf(m.producer))
                        /\ cursor[m.producer][mine[k]].position <= m.position
  /\ kpc[k] = "holding" => \A m \in held[k] :
       /\ m.position = rx[k][m.producer].read
       /\ m.sequence = rx[k][m.producer].next

\* What k has announced is behind what it has read.
Follows(k) ==
  kpc[k] \in Receiving => \A p \in Producers :
    /\ cursor[p][mine[k]].position = rx[k][p].flushed
    /\ rx[k][p].flushed <= rx[k][p].read
    /\ cursor[p][mine[k]].messages <= rx[k][p].messages

ClientInv(k) ==
  /\ Quiet(k) /\ Holds(k)
  /\ Subscribing(k) => \A p \in Producers : Windowed(p, mine[k])
  /\ Subscribing(k) /\ kpc[k] # "closing" => Reads(View(k)) /\ Follows(k)

\* What is inductive, with RegInv.
DeliveryInv ==
  /\ RingTypes /\ ProducerTypes /\ RxTypes
  /\ Numbered
  /\ \A p \in Producers : ProducerInv(p)
  /\ \A s \in Slots : SlotOwned(s)
  /\ \A k \in LiveClients : ClientInv(k)
  /\ \A k \in Clients \ LiveClients : held[k] = {}

-----------------------------------------------------------------------------
(* What the invariant says of slots and rings *)

\* A live subscriber's slot has its pid, and is its own.
LEMMA OwnSlot ==
  ASSUME RegInv, NEW k \in LiveClients, Subscribing(k)
  PROVE  /\ mine[k] \in Slots /\ slot[mine[k]].pid = k
         /\ kpc[k] # "activate" => mine[k] \in ActiveSlots
<1>1. Registered(k) /\ k \in Clients /\ mine[k] \in Slots
  BY DEF RegInv, RegTypes, LiveClients
<1>2. CASE kpc[k] \in Joined
  BY <1>1, <1>2 DEF Registered, Subscribed, Owns, ActiveSlots
<1>3. CASE kpc[k] = "activate"
  BY <1>1, <1>3 DEF Registered, Owns
<1>4. CASE kpc[k] = "leave" /\ token[k] # NoToken
  <2>1. kpc[k] \notin Joined
    BY <1>4 DEF Joined, Receiving
  <2>2. Subscribed(k)
    BY <2>1, <1>1, <1>4 DEF Registered
  <2> QED BY <2>2, <1>1 DEF Subscribed, Owns, ActiveSlots
<1> QED BY <1>2, <1>3, <1>4 DEF Subscribing

\* An active slot of a live client is a subscription of it.
LEMMA ActiveOwner ==
  ASSUME RegInv, NEW s \in ActiveSlots, SlotOwned(s), slot[s].pid \in LiveClients
  PROVE  mine[slot[s].pid] = s /\ Subscribing(slot[s].pid)
<1> DEFINE k == slot[s].pid
<1>1. s \in Slots /\ slot[s].phase = "Active" /\ mine[k] = s /\ HasSlot(k)
  BY DEF ActiveSlots, SlotOwned
<1>2. Registered(k)
  BY DEF RegInv
<1>3. kpc[k] \notin {"fill", "freeing"}
  BY <1>1, <1>2 DEF Registered, Owns
<1> QED BY <1>1, <1>3 DEF HasSlot, Subscribing

\* Ring(p) in parts.
LEMMA RingParts ==
  \A p \in Producers :
    /\ RingOf(p).claims = claims[p] /\ RingOf(p).end = producer_pos[p]
    /\ RingOf(p).taken = Taken(p) /\ RingOf(p).reserved = reservation[p].position
    /\ RingOf(p).visible = visible[p] /\ RingOf(p).alive = alive[p]
BY DEF RingOf

\* A step of a producer that leaves its ring and the windows in order leaves
\* every client so.
LEMMA ProducerStep ==
  ASSUME DeliveryInv, RegInv,
         UNCHANGED <<slot, cursor, rx, last_hit, held, kpc, mine, token>>,
         \A k \in Clients : alive'[k] = alive[k],
         RingTypes', ProducerTypes', Numbered',
         \A q \in Producers : ProducerInv(q)',
         \A q \in Producers : Grown(RingOf(q), RingOf(q)'),
         \A k \in LiveClients : Quiet(k)',
         \A k \in LiveClients, s \in Slots, q \in Producers :
           Subscribing(k) /\ s = mine[k] /\ Windowed(q, s) => Windowed(q, s)'
  PROVE  DeliveryInv'
<1>1. LiveClients' = LiveClients
  BY DEF LiveClients
<1>2. RxTypes'
  BY DEF DeliveryInv, RxTypes
<1>3. \A s \in Slots : SlotOwned(s)'
  BY <1>1 DEF DeliveryInv, SlotOwned, HasSlot
<1>4. \A q \in Producers : RingOk(RingOf(q)) /\ RingOk(RingOf(q)')
  BY DEF DeliveryInv, ProducerInv
<1>5. ASSUME NEW k \in LiveClients PROVE ClientInv(k)'
  <2>0. k \in Clients /\ ClientInv(k)
    BY DEF LiveClients, DeliveryInv
  <2>1. Quiet(k)'
    OBVIOUS
  <2>2. Holds(k)'
    <3>1. ASSUME NEW m \in held[k]
          PROVE  IsMessage(m, RingOf(m.producer)')
      <4>1. m.producer \in Producers /\ m.next \in Nat
        BY <2>0 DEF DeliveryInv, RxTypes, Given
      <4>2. Grown(RingOf(m.producer), RingOf(m.producer)')
        BY <4>1
      <4>3. IsMessage(m, RingOf(m.producer))
        BY <2>0 DEF ClientInv, Holds
      <4>4. /\ RingOf(m.producer).visible \in Nat /\ RingOf(m.producer)'.visible \in Nat
            /\ RingOf(m.producer).visible <= RingOf(m.producer)'.visible
        BY <4>1, <4>2, <1>4 DEF RingOk, Rings, Grown
      <4>5. PICK g, h : g = RingOf(m.producer) /\ h = RingOf(m.producer)'
        OBVIOUS
      <4>6. PICK i \in DOMAIN g.claims : \E j \in 0 .. g.claims[i].count - 1 :
              /\ m.position = At(g.claims[i], j) /\ m.sequence = Number(g.claims[i], j)
              /\ m.next = m.position + g.claims[i].len /\ m.next <= g.visible
        BY <4>3, <4>5 DEF IsMessage
      <4>7. /\ i \in DOMAIN h.claims /\ h.claims[i].count = g.claims[i].count
            /\ h.claims[i].start = g.claims[i].start /\ h.claims[i].len = g.claims[i].len
            /\ h.claims[i].sequence = g.claims[i].sequence
        BY <4>2, <4>5 DEF Grown
      <4>8. m.next <= g.visible => m.next <= h.visible
        BY <4>1, <4>4, <4>5
      <4>9. IsMessage(m, h)
        BY <4>6, <4>7, <4>8 DEF IsMessage, At, Number
      <4> QED BY <4>5, <4>9
    <3> QED BY <3>1, <2>0 DEF ClientInv, Holds
  <2>3. Subscribing(k)' => Subscribing(k)
    BY <2>0 DEF Subscribing
  <2>4. ASSUME Subscribing(k), NEW q \in Producers PROVE Windowed(q, mine[k])'
    <3>1. mine[k] \in Slots /\ Windowed(q, mine[k])
      BY <2>0, <2>4, OwnSlot DEF ClientInv
    <3>2. PICK s \in Slots : s = mine[k]
      BY <3>1
    <3>3. Windowed(q, s)'
      BY <2>4, <3>1, <3>2
    <3>4. s = mine'[k]
      BY <3>2
    <3> QED BY <3>3, <3>4
  <2>5. ASSUME Subscribing(k), kpc[k] # "closing" PROVE Reads(View(k))'
    <3>1. Reads(View(k))
      BY <2>0, <2>5 DEF ClientInv
    <3>2. PICK v : v = View(k)
      OBVIOUS
    <3>3. View(k)' = v
      BY <3>2 DEF View, SlotView
    <3>4. \A q \in Producers : v[q] \in Kept
      <4>1. mine[k] \in Slots
        BY <2>0 DEF RegInv, RegTypes
      <4>2. rx[k] \in [Producers -> Kept]
        BY <2>0 DEF DeliveryInv, RxTypes
      <4>3. \A q \in Producers : cursor[q][mine[k]] \in Cursors
        BY <4>1 DEF DeliveryInv, RxTypes
      <4>4. \A q \in Producers : SlotView(k)[q] \in Kept
        BY <4>3 DEF SlotView, Cursors, Kept
      <4> QED BY <3>2, <4>2, <4>4 DEF View
    <3>5. ASSUME NEW q \in Producers PROVE ReadsAt(v[q], RingOf(q)')
      <4>1. ReadsAt(v[q], RingOf(q))
        BY <3>1, <3>2 DEF Reads
      <4>2. Grown(RingOf(q), RingOf(q)')
        OBVIOUS
      <4> QED BY <4>1, <4>2, <3>4, <1>4, ReadsGrown
    <3>6. Ordered => \A p, q \in Producers : v[p].next = v[q].next
      BY <3>1, <3>2 DEF Reads
    <3> QED BY <3>3, <3>5, <3>6 DEF Reads
  <2>6. Follows(k) => Follows(k)'
    BY <2>0 DEF Follows
  <2> QED BY <2>0, <2>1, <2>2, <2>3, <2>4, <2>5, <2>6 DEF ClientInv
<1>6. \A k \in Clients \ LiveClients : held'[k] = {}
  BY DEF DeliveryInv
<1> QED BY <1>1, <1>2, <1>3, <1>5, <1>6 DEF DeliveryInv

\* Numbers may be taken elsewhere.
LEMMA TakenElsewhere ==
  ASSUME NEW cs, NEW end, NEW taken, NEW more \in Nat,
         LaidOut(cs, end, taken), taken <= more
  PROVE  LaidOut(cs, end, more)
<1>1. taken \in Nat
  BY DEF LaidOut
<1>2. \A i \in DOMAIN cs : cs[i].sequence + cs[i].count <= more
  <2>1. ASSUME NEW i \in DOMAIN cs PROVE cs[i].sequence + cs[i].count <= more
    <3>1. cs[i].sequence \in Nat /\ cs[i].count \in Nat
      BY ClaimTypes
    <3>2. cs[i].sequence + cs[i].count <= taken
      BY DEF LaidOut
    <3> QED BY <3>1, <3>2, <1>1
  <2> QED BY <2>1
<1> QED BY <1>2 DEF LaidOut

\* A ring nobody writes to.
LEMMA SameRing ==
  ASSUME DeliveryInv, NEW q \in Producers,
         UNCHANGED <<claims[q], producer_pos[q], messages[q], reservation[q],
                     visible[q], header[q], cursor[q]>>,
         global_seq' \in Nat, global_seq <= global_seq',
         alive'[q] \in BOOLEAN, alive'[q] => alive[q]
  PROVE  /\ RingOk(RingOf(q)') /\ Exclusive(q)' /\ Headed(q)'
         /\ Grown(RingOf(q), RingOf(q)')
<1>1. RingOk(RingOf(q)) /\ Exclusive(q) /\ Headed(q)
  BY DEF DeliveryInv, ProducerInv
<1>2. Taken(q) \in Nat /\ Taken(q)' \in Nat /\ Taken(q) <= Taken(q)'
  BY DEF DeliveryInv, ProducerTypes, RingTypes, Taken
<1>3. /\ LaidOut(claims[q], producer_pos[q], Taken(q)) /\ claims[q] \in Seq(Claimed)
      /\ producer_pos[q] \in Nat /\ reservation[q].position \in Nat
      /\ visible[q] \in Nat /\ visible[q] <= reservation[q].position
      /\ reservation[q].position <= producer_pos[q]
  BY <1>1, RingParts DEF RingOk, Rings
<1>4. LaidOut(claims[q], producer_pos[q], Taken(q)')
  BY <1>2, <1>3, TakenElsewhere
<1>5. RingOf(q)' = [claims |-> claims[q], end |-> producer_pos[q], taken |-> Taken(q)',
                  reserved |-> reservation[q].position, visible |-> visible[q],
                  alive |-> alive'[q]]
  BY DEF RingOf
<1>6. RingOf(q)' \in Rings
  BY <1>2, <1>3, <1>5 DEF Rings
<1>7. RingOk(RingOf(q)')
  BY <1>3, <1>4, <1>5, <1>6 DEF RingOk
<1>8. Exclusive(q)' /\ Headed(q)'
  BY <1>1 DEF Exclusive, Headed
<1>9. Grown(RingOf(q), RingOf(q)')
  BY <1>2, <1>3, <1>5, RingParts DEF Grown
<1> QED BY <1>7, <1>8, <1>9

\* A producer that does nothing, while another does.
LEMMA OtherProducer ==
  ASSUME DeliveryInv, NEW q \in Producers,
         UNCHANGED <<claims[q], producer_pos[q], messages[q], reservation[q],
                     visible[q], header[q], cursor[q], ppc[q], ask[q], cached_pos[q],
                     cached_messages[q]>>,
         global_seq' \in Nat, global_seq <= global_seq',
         alive'[q] \in BOOLEAN, alive'[q] => alive[q]
  PROVE  /\ ProducerInv(q)' /\ Grown(RingOf(q), RingOf(q)')
         /\ \A s \in Slots : Windowed(q, s) => Windowed(q, s)'
<1>1. RingOk(RingOf(q)') /\ Exclusive(q)' /\ Headed(q)' /\ Grown(RingOf(q), RingOf(q)')
  BY SameRing
<1>2. Announced(q) /\ Shown(q) /\ Asked(q)
  BY DEF DeliveryInv, ProducerInv
<1>3. Announced(q)'
  BY <1>2 DEF Announced, LastClaim
<1>4. Shown(q)'
  BY <1>2 DEF Shown
<1>5. Asked(q)'
  BY <1>2 DEF Asked
<1>6. \A s \in Slots : Windowed(q, s) => Windowed(q, s)'
  BY DEF Windowed
<1> QED BY <1>1, <1>3, <1>4, <1>5, <1>6 DEF ProducerInv

\* A live producer inside claim() keeps registrations out.
LEMMA ClaimsKeepOut ==
  ASSUME DeliveryInv, NEW p \in Producers, alive[p], ppc[p] # "idle",
         NEW k \in LiveClients
  PROVE  kpc[k] \notin {"slots", "reclaim", "fill", "activate"}
BY DEF DeliveryInv, ClientInv, Quiet, ClaimsQuiet

-----------------------------------------------------------------------------
(* Steps of a producer *)

\* claim() begins: with the gate open, no registration is under way.
LEMMA EnterClaimInd ==
  ASSUME Disciplined, DeliveryInv, RegInv, NEW p \in Producers,
         NEW len \in FrameLens, NEW count \in 1 .. MaxBatch, EnterClaim(p, len, count)
  PROVE  DeliveryInv'
<1>1. /\ ppc[p] = "idle" /\ gate = NoClient
      /\ producer_pos[p] + len * count <= ContiguousEnd(claims[p]) + Cap
      /\ ppc' = [ppc EXCEPT ![p] = "claim"]
      /\ ask' = [ask EXCEPT ![p] = [len |-> len, count |-> count]]
      /\ UNCHANGED <<header, visible, reservation, global_seq, slot, cursor, claims,
                     producer_pos, messages, cached_pos, cached_messages,
                     rx, last_hit, held, kpc, mine, token, alive>>
  BY DEF EnterClaim, OpenClaimsAllow, ringVars, rxVars, clientVars
<1>2. /\ ppc \in [Producers -> {"idle", "claim", "room", "reserved"}]
      /\ ask \in [Producers -> [len : 0 .. Cap, count : 0 .. MaxBatch]]
      /\ global_seq \in Nat /\ alive \in [Processes -> BOOLEAN]
      /\ \A q \in Producers : q \in Processes
  BY DEF DeliveryInv, ProducerTypes, RingTypes, RegInv, RegTypes, Processes
<1>3. len \in 1 .. Cap /\ count \in 0 .. MaxBatch /\ count > 0 /\ len > 0
  BY ChannelAssumption
<1>4. /\ ppc'[p] = "claim" /\ ask'[p] = [len |-> len, count |-> count]
      /\ \A q \in Producers \ {p} : ppc'[q] = ppc[q] /\ ask'[q] = ask[q]
  BY <1>1, <1>2
<1>5. RingTypes' /\ ProducerTypes'
  <2>1. ppc' \in [Producers -> {"idle", "claim", "room", "reserved"}]
    BY <1>1, <1>2
  <2>2. [len |-> len, count |-> count] \in [len : 0 .. Cap, count : 0 .. MaxBatch]
    BY <1>3
  <2>3. ask' \in [Producers -> [len : 0 .. Cap, count : 0 .. MaxBatch]]
    BY <1>1, <1>2, <2>2
  <2> QED BY <1>1, <2>1, <2>3 DEF DeliveryInv, RingTypes, ProducerTypes
<1>6. Numbered'
  BY <1>1 DEF DeliveryInv, Numbered, Taken, Domain
<1>7. \A q \in Producers : global_seq <= global_seq' /\ global_seq' \in Nat
        /\ alive'[q] \in BOOLEAN /\ (alive'[q] => alive[q])
  BY <1>1, <1>2
<1>8. ASSUME NEW q \in Producers, q # p
      PROVE  /\ ProducerInv(q)' /\ Grown(RingOf(q), RingOf(q)')
             /\ \A s \in Slots : Windowed(q, s) => Windowed(q, s)'
  <2>1. ppc'[q] = ppc[q] /\ ask'[q] = ask[q]
    BY <1>4, <1>8
  <2> QED BY <2>1, <1>1, <1>7, OtherProducer
<1>9. ProducerInv(p)' /\ Grown(RingOf(p), RingOf(p)')
  <2>1. RingOk(RingOf(p)') /\ Exclusive(p)' /\ Headed(p)' /\ Grown(RingOf(p), RingOf(p)')
    BY <1>1, <1>7, SameRing
  <2>2. Announced(p) /\ Shown(p)
    BY DEF DeliveryInv, ProducerInv
  <2>3. Announced(p)'
    BY <2>2, <1>1, <1>4 DEF Announced, LastClaim
  <2>4. Shown(p)'
    BY <2>2, <1>1 DEF Shown
  <2>5. Asked(p)'
    BY <1>1, <1>3, <1>4 DEF Asked
  <2> QED BY <2>1, <2>3, <2>4, <2>5 DEF ProducerInv
<1>10. \A s \in Slots : Windowed(p, s) => Windowed(p, s)'
  BY <1>1, <1>4 DEF Windowed
<1>11. ASSUME NEW k \in LiveClients PROVE Quiet(k)'
  <2>1. Registered(k) /\ k \in Clients /\ k # NoClient
    BY Names DEF RegInv, LiveClients
  <2>2. kpc[k] \notin {"slots", "reclaim", "fill", "activate"}
    BY <1>1, <2>1 DEF Registered, Gated
  <2> QED BY <2>2, <1>1 DEF Quiet
<1>12. \A q \in Producers : ProducerInv(q)' /\ Grown(RingOf(q), RingOf(q)')
  BY <1>8, <1>9
<1>13. \A q \in Producers, s \in Slots : Windowed(q, s) => Windowed(q, s)'
  BY <1>8, <1>10
<1> QED BY <1>1, <1>5, <1>6, <1>11, <1>12, <1>13, ProducerStep

\* A step of p inside claim(), or out of it: the other producers do nothing.
LEMMA ProducerAlone ==
  ASSUME DeliveryInv, RegInv, NEW p \in Producers, alive[p],
         UNCHANGED <<slot, cursor, rx, last_hit, held, kpc, mine, token, alive>>,
         \A q \in Producers \ {p} :
           UNCHANGED <<claims[q], producer_pos[q], messages[q], reservation[q],
                       visible[q], header[q], ppc[q], ask[q], cached_pos[q],
                       cached_messages[q]>>,
         global_seq <= global_seq', RingTypes', ProducerTypes', Numbered',
         ProducerInv(p)', Grown(RingOf(p), RingOf(p)'),
         ppc[p] = "idle" => ppc'[p] = "idle",
         \A k \in LiveClients, s \in Slots :
           Subscribing(k) /\ s = mine[k] /\ Windowed(p, s) => Windowed(p, s)'
  PROVE  DeliveryInv'
<1>1. \A q \in Producers : /\ q \in Processes /\ alive'[q] = alive[q]
                           /\ alive'[q] \in BOOLEAN /\ cursor'[q] = cursor[q]
  BY DEF RegInv, RegTypes, Processes
<1>2. global_seq' \in Nat
  BY DEF RingTypes
<1>3. ASSUME NEW q \in Producers, q # p
      PROVE  /\ ProducerInv(q)' /\ Grown(RingOf(q), RingOf(q)')
             /\ \A s \in Slots : Windowed(q, s) => Windowed(q, s)'
  <2>1. UNCHANGED <<claims[q], producer_pos[q], messages[q], reservation[q],
                    visible[q], header[q], ppc[q], ask[q], cached_pos[q],
                    cached_messages[q]>>
    BY <1>3
  <2> QED BY <2>1, <1>1, <1>2, OtherProducer
<1>4. \A q \in Producers : ProducerInv(q)' /\ Grown(RingOf(q), RingOf(q)')
  BY <1>3
<1>5. \A k \in LiveClients, s \in Slots, q \in Producers :
        Subscribing(k) /\ s = mine[k] /\ Windowed(q, s) => Windowed(q, s)'
  BY <1>3
<1>6. \A k \in LiveClients : Quiet(k)'
  <2>1. ASSUME NEW k \in LiveClients, kpc[k] \in {"slots", "reclaim", "fill", "activate"},
               NEW q \in Producers
        PROVE  ppc'[q] = "idle" \/ ~alive'[q]
    <3>1. ppc[q] = "idle" \/ ~alive[q]
      BY <2>1 DEF DeliveryInv, ClientInv, Quiet, ClaimsQuiet
    <3>2. CASE q = p
      BY <3>1, <3>2
    <3>3. CASE q # p
      BY <3>1, <3>3
    <3> QED BY <3>2, <3>3
  <2> QED BY <2>1 DEF Quiet, ClaimsQuiet
<1> QED BY <1>4, <1>5, <1>6, ProducerStep

\* A producer dies.
LEMMA ProducerDiesInd ==
  ASSUME DeliveryInv, RegInv, NEW p \in Producers, ProducerDies(p)
  PROVE  DeliveryInv'
<1>1. /\ alive' = [alive EXCEPT ![p] = FALSE]
      /\ UNCHANGED <<header, visible, reservation, global_seq, slot, cursor, ppc, ask,
                     claims, producer_pos, messages, cached_pos, cached_messages,
                     rx, last_hit, held, kpc, mine, token>>
  BY DEF ProducerDies, ringVars, producerVars, rxVars, clientVars
<1>2. /\ alive \in [Processes -> BOOLEAN] /\ global_seq \in Nat
      /\ \A q \in Producers : q \in Processes
      /\ \A k \in Clients : k \in Processes /\ k # p
  BY Names DEF DeliveryInv, RingTypes, RegInv, RegTypes, Processes
<1>3. \A k \in Clients : alive'[k] = alive[k]
  BY <1>1, <1>2
<1>4. \A q \in Producers : alive'[q] \in BOOLEAN /\ (alive'[q] => alive[q])
  BY <1>1, <1>2
<1>5. RingTypes' /\ ProducerTypes'
  BY <1>1 DEF DeliveryInv, RingTypes, ProducerTypes
<1>6. Numbered'
  BY <1>1 DEF DeliveryInv, Numbered, Taken, Domain
<1>7. ASSUME NEW q \in Producers
      PROVE  /\ ProducerInv(q)' /\ Grown(RingOf(q), RingOf(q)')
             /\ \A s \in Slots : Windowed(q, s) => Windowed(q, s)'
  <2>1. alive'[q] \in BOOLEAN /\ (alive'[q] => alive[q])
    BY <1>4
  <2>2. global_seq <= global_seq' /\ global_seq' \in Nat
    BY <1>1, <1>2
  <2> QED BY <2>1, <2>2, <1>1, OtherProducer
<1>8. \A k \in LiveClients : Quiet(k)'
  BY <1>1, <1>4 DEF DeliveryInv, ClientInv, Quiet, ClaimsQuiet
<1> QED BY <1>1, <1>3, <1>5, <1>6, <1>7, <1>8, ProducerStep

\* publish_reservation().
LEMMA PublishReservationInd ==
  ASSUME DeliveryInv, RegInv, NEW p \in Producers, PublishReservation(p)
  PROVE  DeliveryInv'
<1> DEFINE new == [position |-> producer_pos[p],
                   sequence |-> Last(claims[p]).sequence + Last(claims[p]).count,
                   messages |-> messages[p]]
<1>1. /\ alive[p] /\ ppc[p] = "reserved"
      /\ reservation' = [reservation EXCEPT ![p] = new]
      /\ ppc' = [ppc EXCEPT ![p] = "idle"]
      /\ UNCHANGED <<header, visible, global_seq, slot, cursor, ask, claims,
                     producer_pos, messages, cached_pos, cached_messages,
                     rx, last_hit, held, kpc, mine, token, alive>>
  BY DEF PublishReservation, rxVars, clientVars
<1>2. /\ ppc \in [Producers -> {"idle", "claim", "room", "reserved"}]
      /\ reservation \in [Producers -> [position : Nat, sequence : Nat, messages : Nat]]
      /\ global_seq \in Nat /\ producer_pos[p] \in Nat /\ messages[p] \in Nat
  BY DEF DeliveryInv, ProducerTypes, RingTypes
<1>3. /\ RingOk(RingOf(p)) /\ Announced(p) /\ Shown(p) /\ Asked(p) /\ Exclusive(p)
      /\ Headed(p)
  BY DEF DeliveryInv, ProducerInv
<1>4. LaidOut(claims[p], producer_pos[p], Taken(p)) /\ Taken(p) \in Nat
  BY <1>3, RingParts DEF RingOk, LaidOut
<1>5. /\ claims[p] # <<>> /\ claims[p] \in Seq(Claimed)
      /\ Len(claims[p]) \in DOMAIN claims[p] /\ Last(claims[p]) = LastClaim(p)
      /\ reservation[p].position = LastClaim(p).start
      /\ reservation[p].messages + LastClaim(p).count = messages[p]
  BY <1>1, <1>3, <1>4 DEF Announced, LaidOut, LastClaim, Last
<1>6. /\ LastClaim(p).sequence \in Nat /\ LastClaim(p).count \in Nat
      /\ LastClaim(p).start \in Nat
  BY <1>4, <1>5, ClaimTypes DEF LastClaim
<1>7. new \in [position : Nat, sequence : Nat, messages : Nat]
  BY <1>2, <1>5, <1>6
<1>8. /\ reservation'[p] = new /\ ppc'[p] = "idle"
      /\ \A q \in Producers \ {p} : reservation'[q] = reservation[q] /\ ppc'[q] = ppc[q]
  BY <1>1, <1>2
<1>9. RingTypes' /\ ProducerTypes'
  <2>1. reservation' \in [Producers -> [position : Nat, sequence : Nat, messages : Nat]]
    BY <1>1, <1>2, <1>7
  <2>2. ppc' \in [Producers -> {"idle", "claim", "room", "reserved"}]
    BY <1>1, <1>2
  <2> QED BY <1>1, <2>1, <2>2 DEF DeliveryInv, RingTypes, ProducerTypes
<1>10. Numbered'
  BY <1>1 DEF DeliveryInv, Numbered, Taken, Domain
<1>11. RingOf(p)' = [claims |-> claims[p], end |-> producer_pos[p], taken |-> Taken(p),
                     reserved |-> producer_pos[p], visible |-> visible[p],
                     alive |-> alive[p]]
  <2>1. Taken(p)' = Taken(p)
    BY <1>1 DEF Taken
  <2>2. reservation'[p].position = producer_pos[p]
    BY <1>8
  <2>3. /\ claims'[p] = claims[p] /\ producer_pos'[p] = producer_pos[p]
        /\ visible'[p] = visible[p] /\ alive'[p] = alive[p]
    BY <1>1
  <2> QED BY <2>1, <2>2, <2>3 DEF RingOf
<1>12. /\ visible[p] \in Nat /\ reservation[p].position \in Nat
       /\ visible[p] <= reservation[p].position
       /\ reservation[p].position <= producer_pos[p]
       /\ reservation[p].messages \in Nat /\ reservation[p].messages <= messages[p]
  <2>1. /\ visible[p] \in Nat /\ reservation[p].position \in Nat
        /\ visible[p] <= reservation[p].position
        /\ reservation[p].position <= producer_pos[p]
    BY <1>3, RingParts DEF RingOk, Rings
  <2>2. reservation[p].messages \in Nat
    BY <1>2
  <2> QED BY <2>1, <2>2, <1>5, <1>6
<1>13. RingOk(RingOf(p)') /\ Grown(RingOf(p), RingOf(p)')
  <2>1. RingOf(p) \in Rings
    BY <1>3 DEF RingOk
  <2>2. RingOf(p)' \in Rings
    <3>1. /\ claims[p] \in Seq(Claimed) /\ producer_pos[p] \in Nat
          /\ Taken(p) \in Nat /\ visible[p] \in Nat /\ alive[p] \in BOOLEAN
      BY <2>1, RingParts DEF Rings
    <3> QED BY <3>1, <1>11 DEF Rings
  <2>3. /\ RingOf(p)'.claims = claims[p] /\ RingOf(p)'.end = producer_pos[p]
        /\ RingOf(p)'.taken = Taken(p) /\ RingOf(p)'.reserved = producer_pos[p]
        /\ RingOf(p)'.visible = visible[p] /\ RingOf(p)'.alive = alive[p]
    BY <1>11
  <2>4. RingOk(RingOf(p)')
    BY <2>2, <2>3, <1>2, <1>4, <1>12 DEF RingOk
  <2> QED BY <2>3, <2>4, <1>1, <1>2, <1>4, <1>12, RingParts DEF Grown
<1>14. Announced(p)'
  <2>1. Before(claims[p], producer_pos[p]) = FramesOf(claims[p])
    BY <1>4, FrameTypes DEF Before
  <2>2. ~Ordered /\ claims[p] # <<>>
          => LastClaim(p).sequence + LastClaim(p).count = messages[p]
    BY <1>3 DEF Announced
  <2>3. messages[p] = Cardinality(FramesOf(claims[p]))
    BY <1>3 DEF Announced
  <2> QED BY <2>1, <2>2, <2>3, <1>1, <1>5, <1>8 DEF Announced, LastClaim
<1>15. Shown(p)'
  <2>1. /\ cached_pos[p] \in Nat /\ cached_messages[p] \in Nat
        /\ \A s \in Slots : cursor[p][s] \in Cursors
    BY DEF DeliveryInv, ProducerTypes, RxTypes
  <2>2. \A s \in Slots : cursor[p][s].position \in Nat /\ cursor[p][s].messages \in Nat
    BY <2>1 DEF Cursors
  <2>3. \A a \in Nat : /\ a <= reservation[p].position => a <= producer_pos[p]
                       /\ a <= reservation[p].messages => a <= messages[p]
    BY <1>2, <1>12
  <2>4. /\ cached_pos[p] <= producer_pos[p] /\ cached_messages[p] <= messages[p]
        /\ \A s \in Slots : /\ cursor[p][s].position <= producer_pos[p]
                            /\ cursor[p][s].messages <= messages[p]
    BY <2>1, <2>2, <2>3, <1>3 DEF Shown
  <2> QED BY <2>4, <1>1, <1>3, <1>8 DEF Shown
<1>16. Asked(p)' /\ Exclusive(p)' /\ Headed(p)'
  BY <1>1, <1>3, <1>8 DEF Asked, Exclusive, Headed
<1>17. ProducerInv(p)'
  BY <1>13, <1>14, <1>15, <1>16 DEF ProducerInv
<1>18. \A s \in Slots : Windowed(p, s) => Windowed(p, s)'
  BY <1>1, <1>8 DEF Windowed
<1>19. \A q \in Producers \ {p} :
         UNCHANGED <<claims[q], producer_pos[q], messages[q], reservation[q],
                     visible[q], header[q], ppc[q], ask[q], cached_pos[q],
                     cached_messages[q]>>
  BY <1>1, <1>8
<1>20. global_seq <= global_seq'
  BY <1>1, <1>2
<1> QED BY <1>1, <1>8, <1>9, <1>10, <1>13, <1>17, <1>18, <1>19, <1>20, ProducerAlone

\* The least of some numbers, 0 if there are none.
LEMMA LowestNatural ==
  ASSUME NEW S, S \subseteq Nat
  PROVE  /\ Lowest(S) \in Nat /\ \A x \in S : Lowest(S) <= x
         /\ \A n \in Nat : (\A x \in S : x <= n) => Lowest(S) <= n
<1>1. CASE S = {}
  BY <1>1 DEF Lowest
<1>2. CASE S # {}
  <2>1. Min(S) \in S /\ \A y \in S : Min(S) <= y
    BY <1>2, MinNatural
  <2>2. Lowest(S) = Min(S)
    BY <1>2 DEF Lowest
  <2> QED BY <2>1, <2>2
<1> QED BY <1>1, <1>2

\* What a producer finds when it looks at the subscribers: no more than any live
\* one has announced, and nothing it has not announced itself.
LEMMA MinimumPosition ==
  ASSUME RxTypes, NEW p \in Producers
  PROVE  /\ MinimumConsumerPosition(p) \in Nat
         /\ \A n \in Nat : (\A s \in Slots : cursor[p][s].position <= n) =>
              MinimumConsumerPosition(p) <= n
         /\ \A s \in ActiveSlots : slot[s].pid \in LiveClients =>
              MinimumConsumerPosition(p) <= cursor[p][s].position
<1> DEFINE counts == {s \in ActiveSlots :
             \/ HasCapacity(producer_pos[p], cursor[p][s].position, ask[p].len)
             \/ slot[s].pid \in LiveClients}
           places == {cursor[p][s].position : s \in counts}
<1>1. \A s \in ActiveSlots : /\ s \in Slots /\ cursor[p][s] \in Cursors
                             /\ cursor[p][s].position \in Nat
  BY DEF RxTypes, Cursors, ActiveSlots
<1>2. places \subseteq Nat
  BY <1>1
<1>3. \A n : (\A s \in Slots : cursor[p][s].position <= n) => \A x \in places : x <= n
  BY <1>1
<1>4. \A s \in ActiveSlots : slot[s].pid \in LiveClients => cursor[p][s].position \in places
  OBVIOUS
<1>5. MinimumConsumerPosition(p) = IF StaleCursor(p) THEN 0 ELSE Lowest(places)
  BY DEF MinimumConsumerPosition
<1> HIDE DEF places
<1>6. /\ Lowest(places) \in Nat /\ \A x \in places : Lowest(places) <= x
      /\ \A n \in Nat : (\A x \in places : x <= n) => Lowest(places) <= n
  BY <1>2, LowestNatural
<1> QED BY <1>1, <1>3, <1>4, <1>5, <1>6

\* The same of messages.
LEMMA MinimumMessages ==
  ASSUME RxTypes, NEW p \in Producers
  PROVE  /\ MinimumConsumerMessages(p) \in Nat
         /\ \A n \in Nat : (\A s \in Slots : cursor[p][s].messages <= n) =>
              MinimumConsumerMessages(p) <= n
         /\ \A s \in ActiveSlots : slot[s].pid \in LiveClients =>
              MinimumConsumerMessages(p) <= cursor[p][s].messages
<1> DEFINE counts == {s \in ActiveSlots :
             WindowFit(p, cursor[p][s].messages, 1) > 0 \/ slot[s].pid \in LiveClients}
           places == {cursor[p][s].messages : s \in counts}
<1>1. \A s \in ActiveSlots : /\ s \in Slots /\ cursor[p][s] \in Cursors
                             /\ cursor[p][s].messages \in Nat
  BY DEF RxTypes, Cursors, ActiveSlots
<1>2. places \subseteq Nat
  BY <1>1
<1>3. \A n : (\A s \in Slots : cursor[p][s].messages <= n) => \A x \in places : x <= n
  BY <1>1
<1>4. \A s \in ActiveSlots : slot[s].pid \in LiveClients => cursor[p][s].messages \in places
  OBVIOUS
<1>5. MinimumConsumerMessages(p) = IF StaleCursor(p) THEN 0 ELSE Lowest(places)
  BY DEF MinimumConsumerMessages
<1> HIDE DEF places
<1>6. /\ Lowest(places) \in Nat /\ \A x \in places : Lowest(places) <= x
      /\ \A n \in Nat : (\A x \in places : x <= n) => Lowest(places) <= n
  BY <1>2, LowestNatural
<1> QED BY <1>1, <1>3, <1>4, <1>5, <1>6

\* batch_fit(): no more frames than asked for, and all of them within the window.
LEMMA BatchFits ==
  ASSUME NEW tail \in Nat, NEW head \in Nat, NEW len \in Nat, len > 0, NEW count \in Nat,
         NEW fit, fit = BatchFit(tail, head, len, count)
  PROVE  /\ fit \in Nat /\ fit <= count
         /\ fit # 0 => head <= tail /\ tail - head + len * fit <= EffectiveCapacity
<1>1. EffectiveCapacity \in Nat
  BY CapacityType
<1>2. CASE ~HasCapacity(tail, head, len)
  BY <1>2 DEF BatchFit
<1>3. CASE HasCapacity(tail, head, len)
  <2> DEFINE room == EffectiveCapacity - (tail - head)
             most == room \div len
  <2>1. room \in Nat /\ head <= tail
    BY <1>1, <1>3 DEF HasCapacity
  <2>2. /\ most \in Nat /\ room % len \in Nat
        /\ room = len * most + (room % len)
    BY <2>1, Division
  <2>3. fit = Min({count, most})
    BY <1>3 DEF BatchFit
  <2> HIDE DEF most
  <2>4. fit \in Nat /\ fit <= count /\ fit <= most
    BY <2>2, <2>3, MinPair
  <2>5. len * fit <= len * most /\ len * fit \in Nat /\ len * most \in Nat
    BY <2>2, <2>4, Multiples
  <2>6. len * fit <= room
    <3> DEFINE whole == len * most
               taken == len * fit
               rest == room % len
               all == room
    <3>1. whole \in Nat /\ taken \in Nat /\ rest \in Nat /\ taken <= whole
      BY <2>2, <2>5
    <3>2. all = whole + rest
      BY <2>2, Zenon
    <3> HIDE DEF whole, taken, rest, all
    <3>3. taken <= all
      BY <3>1, <3>2
    <3> QED BY <3>3 DEF taken, all
  <2> QED BY <1>1, <2>1, <2>4, <2>5, <2>6
<1> QED BY <1>2, <1>3

\* The message window allows no more, either.
LEMMA WindowFits ==
  ASSUME NEW p \in Producers, messages[p] \in Nat, NEW head \in Nat, NEW fit \in Nat,
         NEW w, w = WindowFit(p, head, fit)
  PROVE  /\ w \in Nat /\ w <= fit
         /\ MessageWindow # 0 /\ w # 0 =>
              head <= messages[p] /\ messages[p] - head + w <= MessageWindow
<1>1. MessageWindow \in Nat
  BY ChannelAssumption
<1>2. CASE MessageWindow = 0
  BY <1>2 DEF WindowFit
<1>3. CASE MessageWindow # 0 /\ messages[p] - head \notin 0 .. MessageWindow - 1
  BY <1>3 DEF WindowFit
<1>4. CASE MessageWindow # 0 /\ messages[p] - head \in 0 .. MessageWindow - 1
  <2> DEFINE left == MessageWindow - (messages[p] - head)
  <2>1. left \in Nat /\ head <= messages[p]
    BY <1>1, <1>4
  <2>2. w = Min({fit, left})
    BY <1>4 DEF WindowFit
  <2>3. w \in Nat /\ w <= fit /\ w <= left
    BY <2>1, <2>2, MinPair
  <2> QED BY <1>1, <2>1, <2>3
<1> QED BY <1>2, <1>3, <1>4

\* A step of p that leaves its ring alone: it is in order as a ring, and for the
\* readers.
LEMMA OwnRing ==
  ASSUME DeliveryInv, RegInv, NEW p \in Producers,
         UNCHANGED <<header, visible, reservation, global_seq, claims, producer_pos,
                     messages, cursor, alive>>
  PROVE  /\ RingOk(RingOf(p)') /\ Exclusive(p)' /\ Headed(p)'
         /\ Grown(RingOf(p), RingOf(p)')
         /\ RingTypes' /\ Numbered' /\ global_seq <= global_seq'
<1>1. p \in Processes /\ alive[p] \in BOOLEAN /\ global_seq \in Nat
  BY DEF DeliveryInv, RingTypes, RegInv, RegTypes, Processes
<1>2. RingTypes' /\ Numbered'
  <2>1. RingTypes'
    BY DEF DeliveryInv, RingTypes
  <2>2. Numbered'
    BY DEF DeliveryInv, Numbered, Taken, Domain
  <2> QED BY <2>1, <2>2
<1>3. global_seq <= global_seq'
  BY <1>1
<1> QED BY <1>1, <1>2, <1>3, SameRing

\* claim() looks for room: with the heads it finds, or those it remembers, the
\* claim fits the windows of every live subscriber.
LEMMA CheckRoomInd ==
  ASSUME DeliveryInv, RegInv, NEW p \in Producers, CheckRoom(p)
  PROVE  DeliveryInv'
<1> DEFINE fitAt(h) == BatchFit(producer_pos[p], h, ask[p].len, ask[p].count)
           head == IF fitAt(cached_pos[p]) = 0 THEN MinimumConsumerPosition(p)
                   ELSE cached_pos[p]
           fit == fitAt(head)
           seen == IF WindowFit(p, cached_messages[p], fit) = 0
                   THEN MinimumConsumerMessages(p) ELSE cached_messages[p]
           room == IF fit = 0 THEN 0 ELSE WindowFit(p, seen, fit)
           noted == IF fit = 0 \/ MessageWindow = 0 THEN cached_messages[p] ELSE seen
           asked == IF room = 0 THEN NoClaim ELSE [ask[p] EXCEPT !.count = room]
<1>1. /\ alive[p] /\ ppc[p] = "claim"
      /\ cached_pos' = [cached_pos EXCEPT ![p] = head]
      /\ cached_messages' = [cached_messages EXCEPT ![p] = noted]
      /\ ppc' = [ppc EXCEPT ![p] = IF room = 0 THEN "idle" ELSE "room"]
      /\ ask' = [ask EXCEPT ![p] = asked]
      /\ UNCHANGED <<header, visible, reservation, global_seq, slot, cursor, claims,
                     producer_pos, messages, rx, last_hit, held, kpc, mine, token,
                     alive>>
  BY DEF CheckRoom, ringVars, rxVars, clientVars
<1>2. /\ ppc \in [Producers -> {"idle", "claim", "room", "reserved"}]
      /\ ask \in [Producers -> [len : 0 .. Cap, count : 0 .. MaxBatch]]
      /\ cached_pos \in [Producers -> Nat] /\ cached_messages \in [Producers -> Nat]
      /\ producer_pos[p] \in Nat /\ messages[p] \in Nat
  BY DEF DeliveryInv, ProducerTypes
<1>3. /\ ask[p] \in [len : 0 .. Cap, count : 0 .. MaxBatch]
      /\ ask[p].len \in Nat /\ ask[p].len \in 0 .. Cap /\ ask[p].len > 0
      /\ ask[p].count \in Nat /\ ask[p].count <= MaxBatch /\ MaxBatch \in Nat
      /\ ask[p].len * ask[p].count \in Nat
      /\ producer_pos[p] + ask[p].len * ask[p].count <= ContiguousEnd(claims[p]) + Cap
  <2>1. /\ ask[p] \in [len : 0 .. Cap, count : 0 .. MaxBatch]
        /\ Cap \in Nat /\ MaxBatch \in Nat
    BY <1>2, ChannelAssumption
  <2>2. /\ ask[p].len \in Nat /\ ask[p].len \in 0 .. Cap
        /\ ask[p].count \in Nat /\ ask[p].count <= MaxBatch
    BY <2>1
  <2>3. /\ ask[p].len > 0
        /\ producer_pos[p] + ask[p].len * ask[p].count <= ContiguousEnd(claims[p]) + Cap
    BY <1>1 DEF DeliveryInv, ProducerInv, Asked
  <2> QED BY <2>1, <2>2, <2>3, Multiples
<1>4. /\ Announced(p) /\ Shown(p) /\ RxTypes
      /\ reservation[p].position \in Nat /\ reservation[p].messages \in Nat
  BY DEF DeliveryInv, ProducerInv, RingTypes
<1>5. /\ head \in Nat /\ head <= reservation[p].position
      /\ seen \in Nat /\ seen <= reservation[p].messages
      /\ noted \in Nat /\ noted <= reservation[p].messages
  BY <1>2, <1>4, MinimumPosition, MinimumMessages DEF Shown
<1>6. /\ fit \in Nat /\ fit <= ask[p].count
      /\ fit # 0 => /\ head <= producer_pos[p]
                    /\ producer_pos[p] - head + ask[p].len * fit <= EffectiveCapacity
  <2>1. fit = BatchFit(producer_pos[p], head, ask[p].len, ask[p].count)
    OBVIOUS
  <2> HIDE DEF fit, head
  <2>2. /\ producer_pos[p] \in Nat /\ head \in Nat /\ ask[p].len \in Nat
        /\ ask[p].len > 0 /\ ask[p].count \in Nat
    BY <1>2, <1>3, <1>5
  <2> QED BY <2>1, <2>2, BatchFits
<1>7. /\ room \in Nat /\ room <= fit
      /\ MessageWindow # 0 /\ room # 0 =>
           seen <= messages[p] /\ messages[p] - seen + room <= MessageWindow
  <2>1. CASE fit = 0
    BY <2>1
  <2>2. CASE fit # 0
    <3>1. room = WindowFit(p, seen, fit)
      BY <2>2
    <3> HIDE DEF room, seen, fit
    <3> QED BY <3>1, <1>2, <1>5, <1>6, WindowFits
  <2> QED BY <2>1, <2>2
<1>8. ASSUME NEW s \in ActiveSlots, slot[s].pid \in LiveClients, Windowed(p, s)
      PROVE  /\ head <= cursor[p][s].position
             /\ MessageWindow # 0 => seen <= cursor[p][s].messages
                                       /\ noted <= cursor[p][s].messages
  BY <1>4, <1>8, MinimumPosition, MinimumMessages DEF Shown, Windowed
<1>9. /\ MessageWindow # 0 /\ room # 0 => noted = seen
      /\ room # 0 => fit # 0
  OBVIOUS
<1>10. asked \in [len : 0 .. Cap, count : 0 .. MaxBatch]
  <2>1. CASE room = 0
    <3>1. 0 \in 0 .. Cap /\ 0 \in 0 .. MaxBatch
      BY ChannelAssumption
    <3>2. asked = [len |-> 0, count |-> 0]
      BY <2>1 DEF NoClaim
    <3> HIDE DEF asked
    <3> QED BY <3>1, <3>2
  <2>2. CASE room # 0
    <3>1. room \in 0 .. MaxBatch
      BY <1>3, <1>6, <1>7
    <3> HIDE DEF room
    <3> QED BY <3>1, <2>2, <1>3
  <2> QED BY <2>1, <2>2
<1>11. room # 0 => asked.len = ask[p].len /\ asked.count = room
  BY <1>3
<1> HIDE DEF head, fit, seen, room, noted, asked
<1>12. /\ cached_pos'[p] = head /\ cached_messages'[p] = noted /\ ask'[p] = asked
       /\ ppc'[p] = IF room = 0 THEN "idle" ELSE "room"
       /\ \A q \in Producers \ {p} :
            /\ ppc'[q] = ppc[q] /\ ask'[q] = ask[q] /\ cached_pos'[q] = cached_pos[q]
            /\ cached_messages'[q] = cached_messages[q]
  BY <1>1, <1>2
<1>13. ProducerTypes'
  <2>1. cached_pos' \in [Producers -> Nat] /\ cached_messages' \in [Producers -> Nat]
    BY <1>1, <1>2, <1>5
  <2>2. ask' \in [Producers -> [len : 0 .. Cap, count : 0 .. MaxBatch]]
    BY <1>1, <1>2, <1>10
  <2>3. ppc' \in [Producers -> {"idle", "claim", "room", "reserved"}]
    BY <1>1, <1>2
  <2> QED BY <1>1, <2>1, <2>2, <2>3 DEF DeliveryInv, ProducerTypes
<1>14. /\ ask[p].len * room \in Nat
       /\ ask[p].len * room <= ask[p].len * fit /\ ask[p].len * fit \in Nat
       /\ ask[p].len * room <= ask[p].len * ask[p].count
  BY <1>3, <1>6, <1>7, Multiples
<1>15. Asked(p)'
  <2>1. CASE room = 0
    BY <2>1, <1>12 DEF Asked
  <2>2. CASE room # 0
    <3>1. /\ ppc'[p] = "room" /\ ask'[p].len = ask[p].len /\ ask'[p].count = room
          /\ room > 0
      BY <2>2, <1>7, <1>11, <1>12
    <3>2. producer_pos[p] + ask[p].len * room <= ContiguousEnd(claims[p]) + Cap
      <4>1. LaidOut(claims[p], producer_pos[p], Taken(p))
        BY RingParts DEF DeliveryInv, ProducerInv, RingOk
      <4>2. ContiguousEnd(claims[p]) \in Nat
        BY <4>1, Contiguous
      <4>3. \A a, b, d, e \in Nat : b <= d /\ a + d <= e => a + b <= e
        OBVIOUS
      <4>4. ContiguousEnd(claims[p]) + Cap \in Nat
        BY <4>2, ChannelAssumption
      <4> QED BY <4>3, <4>4, <1>2, <1>3, <1>14
    <3>3. ask[p].len * room <= EffectiveCapacity
      <4>1. \A a, b, c, d, e \in Nat : a <= b /\ c <= d /\ b - a + d <= e => c <= e
        OBVIOUS
      <4> QED BY <4>1, <2>2, <1>2, <1>5, <1>6, <1>9, <1>14, CapacityType
    <3>4. MessageWindow # 0 => room <= MessageWindow
      BY <2>2, <1>2, <1>5, <1>7, ChannelAssumption
    <3> QED BY <3>1, <3>2, <3>3, <3>4, <1>1, <1>3 DEF Asked
  <2> QED BY <2>1, <2>2
<1>16. /\ RingOk(RingOf(p)') /\ Exclusive(p)' /\ Headed(p)'
       /\ Grown(RingOf(p), RingOf(p)')
       /\ RingTypes' /\ Numbered' /\ global_seq <= global_seq'
  BY <1>1, OwnRing
<1>17. Announced(p)'
  BY <1>1, <1>4, <1>12 DEF Announced, LastClaim
<1>18. Shown(p)'
  BY <1>1, <1>4, <1>5, <1>12 DEF Shown
<1>19. ProducerInv(p)'
  BY <1>15, <1>16, <1>17, <1>18 DEF ProducerInv
<1>20. ASSUME NEW k \in LiveClients, NEW s \in Slots, Subscribing(k), s = mine[k],
              Windowed(p, s)
       PROVE  Windowed(p, s)'
  <2>1. kpc[k] # "activate"
    BY <1>1, ClaimsKeepOut
  <2>2. s \in ActiveSlots /\ slot[s].pid \in LiveClients
    BY <2>1, <1>20, OwnSlot
  <2>3. /\ head <= cursor[p][s].position
        /\ MessageWindow # 0 => seen <= cursor[p][s].messages
                                  /\ noted <= cursor[p][s].messages
    BY <2>2, <1>20, <1>8
  <2>4. cursor[p][s].position \in Nat /\ cursor[p][s].messages \in Nat
    BY DEF DeliveryInv, RxTypes, Cursors
  <2>5. /\ producer_pos[p] - cursor[p][s].position <= EffectiveCapacity
        /\ MessageWindow # 0 => messages[p] - cursor[p][s].messages <= MessageWindow
    BY <1>20 DEF Windowed
  <2>6. ASSUME room # 0
        PROVE  /\ producer_pos[p] + ask[p].len * room - cursor[p][s].position
                    <= EffectiveCapacity
               /\ MessageWindow # 0 =>
                    messages[p] + room - cursor[p][s].messages <= MessageWindow
    <3>1. \A a, b, c, d, e, g \in Nat :
            a <= b /\ c <= d /\ a <= g /\ b - a + d <= e => b + c - g <= e
      OBVIOUS
    <3>2. producer_pos[p] + ask[p].len * room - cursor[p][s].position
            <= EffectiveCapacity
      BY <3>1, <2>3, <2>4, <2>6, <1>2, <1>5, <1>6, <1>9, <1>14, CapacityType
    <3>3. MessageWindow # 0 =>
            messages[p] + room - cursor[p][s].messages <= MessageWindow
      BY <2>3, <2>4, <2>6, <1>2, <1>5, <1>7, ChannelAssumption
    <3> QED BY <3>2, <3>3
  <2>7. /\ ppc'[p] = "room" => room # 0
        /\ room # 0 => ask'[p].len = ask[p].len /\ ask'[p].count = room
    BY <1>11, <1>12
  <2> QED BY <2>3, <2>5, <2>6, <2>7, <1>1, <1>12 DEF Windowed
<1>21. \A q \in Producers \ {p} :
         UNCHANGED <<claims[q], producer_pos[q], messages[q], reservation[q],
                     visible[q], header[q], ppc[q], ask[q], cached_pos[q],
                     cached_messages[q]>>
  BY <1>1, <1>12
<1> QED BY <1>1, <1>13, <1>16, <1>19, <1>20, <1>21, ProducerAlone

\* The numbers and the ring space are taken: the claim follows the others, in
\* the room that was found.
LEMMA TakeSequenceInd ==
  ASSUME DeliveryInv, RegInv, NEW p \in Producers, TakeSequence(p)
  PROVE  DeliveryInv'
<1> DEFINE cs == claims[p]
           end == producer_pos[p]
           taken == Taken(p)
           count == ask[p].count
           len == ask[p].len
           c == [start |-> end, len |-> len, count |-> count,
                 sequence |-> taken, committed |-> FALSE]
           ds == Append(cs, c)
<1>1. /\ alive[p] /\ ppc[p] = "room"
      /\ claims' = [claims EXCEPT ![p] = ds]
      /\ global_seq' = IF Ordered THEN global_seq + count ELSE global_seq
      /\ producer_pos' = [producer_pos EXCEPT ![p] = end + len * count]
      /\ messages' = [messages EXCEPT ![p] = messages[p] + count]
      /\ ppc' = [ppc EXCEPT ![p] = "reserved"]
      /\ ask' = [ask EXCEPT ![p] = NoClaim]
      /\ UNCHANGED <<header, visible, reservation, slot, cursor, cached_pos,
                     cached_messages, rx, last_hit, held, kpc, mine, token, alive>>
  BY DEF TakeSequence, rxVars, clientVars, Taken
<1>2. /\ ppc \in [Producers -> {"idle", "claim", "room", "reserved"}]
      /\ ask \in [Producers -> [len : 0 .. Cap, count : 0 .. MaxBatch]]
      /\ claims \in [Producers -> Seq(Claimed)]
      /\ producer_pos \in [Producers -> Nat] /\ messages \in [Producers -> Nat]
      /\ global_seq \in Nat
  BY DEF DeliveryInv, ProducerTypes, RingTypes
<1>3. /\ RingOk(RingOf(p)) /\ Announced(p) /\ Shown(p) /\ Asked(p) /\ Exclusive(p)
      /\ Headed(p)
  BY DEF DeliveryInv, ProducerInv
<1>4. /\ len \in Nat /\ len > 0 /\ count \in Nat /\ count > 0 /\ len * count \in Nat
      /\ end + len * count <= ContiguousEnd(cs) + Cap
      /\ len * count <= EffectiveCapacity
      /\ MessageWindow # 0 => count <= MessageWindow
  <2>1. ask[p] \in [len : 0 .. Cap, count : 0 .. MaxBatch] /\ Cap \in Nat /\ MaxBatch \in Nat
    BY <1>2, ChannelAssumption
  <2>2. len \in Nat /\ count \in Nat
    BY <2>1
  <2> QED BY <2>2, <1>1, <1>3, Multiples DEF Asked
<1>5. LaidOut(cs, end, taken) /\ taken \in Nat /\ end \in Nat /\ cs \in Seq(Claimed)
  BY <1>3, RingParts DEF RingOk, LaidOut
<1>6. /\ c \in Claimed /\ c.start = end /\ c.len = len /\ c.count = count
      /\ ~c.committed /\ c.sequence = taken
  BY <1>4, <1>5 DEF Claimed
<1> HIDE DEF cs, end, taken, count, len, c, ds
<1>7. /\ LaidOut(ds, end + len * count, taken + count)
      /\ ContiguousEnd(ds) = ContiguousEnd(cs)
      /\ Len(ds) = Len(cs) + 1
      /\ \A i \in DOMAIN cs : i \in DOMAIN ds /\ ds[i] = cs[i]
      /\ ds[Len(cs) + 1] = c
  <2>1. c.len > 0 /\ c.count > 0 /\ taken <= c.sequence
    BY <1>4, <1>5, <1>6
  <2>2. /\ LaidOut(ds, end + c.len * c.count, c.sequence + c.count)
        /\ ContiguousEnd(ds) = ContiguousEnd(cs)
        /\ Len(ds) = Len(cs) + 1
        /\ \A i \in DOMAIN cs : i \in DOMAIN ds /\ ds[i] = cs[i]
        /\ ds[Len(cs) + 1] = c
    BY <2>1, <1>5, <1>6, AppendClaim DEF ds
  <2> QED BY <2>2, <1>6
<1>8. PICK new : /\ FramesOf(ds) = FramesOf(cs) \cup new
                 /\ \A f \in new : /\ f.position \in Nat /\ end <= f.position
                                   /\ f.sequence \in Nat /\ taken <= f.sequence
                 /\ Cardinality(FramesOf(ds)) = Cardinality(FramesOf(cs)) + count
                 /\ [position |-> end, sequence |-> taken] \in new
  <2>1. c.len > 0 /\ c.count > 0
    BY <1>4, <1>6
  <2> QED BY <2>1, <1>5, <1>6, AppendFrames DEF ds
<1>9. /\ DOMAIN ds = 1 .. Len(cs) + 1 /\ DOMAIN cs = 1 .. Len(cs) /\ Len(cs) \in Nat
      /\ Len(cs) + 1 \in DOMAIN ds
      /\ \A i \in DOMAIN ds : i \in DOMAIN cs \/ i = Len(cs) + 1
  BY <1>5, <1>7 DEF LaidOut
<1>10. /\ claims'[p] = ds /\ producer_pos'[p] = end + len * count
       /\ messages'[p] = messages[p] + count
       /\ ppc'[p] = "reserved" /\ ask'[p] = NoClaim
       /\ \A q \in Producers \ {p} :
            /\ claims'[q] = claims[q] /\ producer_pos'[q] = producer_pos[q]
            /\ messages'[q] = messages[q] /\ ppc'[q] = ppc[q] /\ ask'[q] = ask[q]
  BY <1>1, <1>2
<1>11. ProducerTypes' /\ RingTypes'
  <2>1. ds \in Seq(Claimed)
    BY <1>7 DEF LaidOut
  <2>2. claims' \in [Producers -> Seq(Claimed)]
    BY <2>1, <1>1, <1>2
  <2>3. end + len * count \in Nat /\ messages[p] + count \in Nat
    <3>1. messages[p] \in Nat
      BY <1>2
    <3>2. messages[p] + count \in Nat
      BY <3>1, <1>4
    <3>3. end + len * count \in Nat
      BY <1>4, <1>5
    <3> QED BY <3>2, <3>3
  <2>4. producer_pos' \in [Producers -> Nat] /\ messages' \in [Producers -> Nat]
    BY <2>3, <1>1, <1>2
  <2>5. ppc' \in [Producers -> {"idle", "claim", "room", "reserved"}]
    BY <1>1, <1>2
  <2>6. NoClaim \in [len : 0 .. Cap, count : 0 .. MaxBatch]
    BY ChannelAssumption DEF NoClaim
  <2>7. ask' \in [Producers -> [len : 0 .. Cap, count : 0 .. MaxBatch]]
    BY <2>6, <1>1, <1>2
  <2>8. global_seq' \in Nat
    BY <1>1, <1>2, <1>4
  <2> QED BY <2>2, <2>4, <2>5, <2>7, <2>8, <1>1 DEF DeliveryInv, ProducerTypes, RingTypes
<1>12. /\ Taken(p)' = taken + count
       /\ \A q \in Producers : \/ Ordered /\ Taken(q)' = taken + count /\ Taken(q) = taken
                               \/ ~Ordered /\ q # p /\ Taken(q)' = Taken(q)
                               \/ ~Ordered /\ q = p
       /\ global_seq <= global_seq'
  BY <1>1, <1>2, <1>4, <1>10 DEF Taken, taken
<1>13. \A q \in Producers : FramesOf(claims[q]) \subseteq FramesOf(claims'[q])
  BY <1>8, <1>10 DEF cs
<1>14. Numbered'
  <2>1. ASSUME NEW q \in Producers, NEW n \in 0 .. Taken(q)' - 1
        PROVE  \E x \in Domain(q) : \E f \in FramesOf(claims'[x]) : f.sequence = n
    <3>1. CASE n \in 0 .. Taken(q) - 1
      <4>1. PICK x \in Domain(q) : \E f \in FramesOf(claims[x]) : f.sequence = n
        BY <3>1 DEF DeliveryInv, Numbered
      <4>2. x \in Producers
        BY DEF Domain
      <4> QED BY <4>1, <4>2, <1>13
    <3>2. CASE n \notin 0 .. Taken(q) - 1
      <4>1. /\ p \in Domain(q) /\ Taken(q) = taken /\ Taken(q)' = taken + count
        BY <3>2, <2>1, <1>12 DEF Domain, taken
      <4>2. n - taken \in 0 .. count - 1
        BY <3>2, <2>1, <4>1, <1>4, <1>5
      <4>3. n - taken \in 0 .. ds[Len(cs) + 1].count - 1
        BY <4>2, <1>6, <1>7
      <4>4. [position |-> At(ds[Len(cs) + 1], n - taken),
             sequence |-> Number(ds[Len(cs) + 1], n - taken)] \in FramesOf(ds)
        BY <4>3, <1>9, FrameOf
      <4>5. Number(ds[Len(cs) + 1], n - taken) = n
        BY <4>2, <1>4, <1>5, <1>6, <1>7 DEF Number
      <4> QED BY <4>1, <4>4, <4>5, <1>10
    <3> QED BY <3>1, <3>2
  <2>2. ASSUME Ordered, NEW q \in Producers, NEW x \in Producers, q # x,
               NEW f \in FramesOf(claims'[q]), NEW g \in FramesOf(claims'[x])
        PROVE  f.sequence # g.sequence
    <3>1. ASSUME NEW y \in Producers, NEW h \in FramesOf(claims[y])
          PROVE  h.sequence \in Nat /\ h.sequence < taken
      <4>1. LaidOut(claims[y], producer_pos[y], Taken(y))
        BY RingParts DEF DeliveryInv, ProducerInv, RingOk
      <4>2. Taken(y) = taken
        BY <2>2 DEF Taken, taken
      <4> QED BY <4>1, <4>2, FrameTypes
    <3>2. /\ f \in FramesOf(claims[q]) \/ (q = p /\ f \in new)
          /\ g \in FramesOf(claims[x]) \/ (x = p /\ g \in new)
      BY <1>8, <1>10 DEF cs
    <3>3. CASE f \in FramesOf(claims[q]) /\ g \in FramesOf(claims[x])
      BY <3>3, <2>2 DEF DeliveryInv, Numbered
    <3>4. CASE f \in new \/ g \in new
      <4>1. \/ f \in new /\ g \in FramesOf(claims[x])
            \/ g \in new /\ f \in FramesOf(claims[q])
        BY <3>2, <3>4, <2>2
      <4> QED BY <4>1, <3>1, <1>5, <1>8
    <3> QED BY <3>2, <3>3, <3>4
  <2> QED BY <2>1, <2>2 DEF Numbered, Domain
<1>15. /\ visible[p] \in Nat /\ reservation[p].position = end
       /\ visible[p] <= end /\ reservation[p].messages = messages[p]
       /\ messages[p] = Cardinality(FramesOf(cs)) /\ messages[p] \in Nat
       /\ ~Ordered => reservation[p].sequence = messages[p]
  <2>1. /\ visible[p] \in Nat /\ visible[p] <= reservation[p].position
    BY <1>3, RingParts DEF RingOk, Rings
  <2>2. /\ reservation[p].position = end /\ reservation[p].messages = messages[p]
        /\ messages[p] = Cardinality(FramesOf(cs))
        /\ ~Ordered => reservation[p].sequence = messages[p]
    BY <1>1, <1>3 DEF Announced, cs, end
  <2> QED BY <2>1, <2>2, <1>2
<1>16. RingOf(p)' = [claims |-> ds, end |-> end + len * count, taken |-> taken + count,
                     reserved |-> end, visible |-> visible[p], alive |-> alive[p]]
  <2>1. reservation'[p].position = end /\ visible'[p] = visible[p] /\ alive'[p] = alive[p]
    BY <1>1, <1>15
  <2> QED BY <2>1, <1>10, <1>12 DEF RingOf
<1>17. RingOk(RingOf(p)')
  <2>1. /\ end + len * count \in Nat /\ taken + count \in Nat /\ ds \in Seq(Claimed)
        /\ end <= end + len * count
    BY <1>4, <1>5, <1>7 DEF LaidOut
  <2>2. alive[p] \in BOOLEAN
    BY <1>3, RingParts DEF RingOk, Rings
  <2>3. RingOf(p)' \in Rings
    BY <2>1, <2>2, <1>5, <1>15, <1>16 DEF Rings
  <2> QED BY <2>1, <2>3, <1>7, <1>15, <1>16 DEF RingOk
<1>18. Grown(RingOf(p), RingOf(p)')
  <2>1. /\ RingOf(p).claims = cs /\ RingOf(p).end = end /\ RingOf(p).taken = taken
        /\ RingOf(p).reserved = end /\ RingOf(p).visible = visible[p]
        /\ RingOf(p).alive = alive[p]
    BY <1>15, RingParts DEF cs, end, taken
  <2>2. /\ RingOf(p)'.claims = ds /\ RingOf(p)'.end = end + len * count
        /\ RingOf(p)'.taken = taken + count /\ RingOf(p)'.reserved = end
        /\ RingOf(p)'.visible = visible[p] /\ RingOf(p)'.alive = alive[p]
    BY <1>16
  <2>3. taken <= taken + count /\ visible[p] <= visible[p] /\ end <= end
    BY <1>4, <1>5, <1>15
  <2>4. \E f \in FramesOf(ds) : f.position = end
    BY <1>8
  <2>5. \A f \in FramesOf(ds) \ FramesOf(cs) : f.position >= end /\ f.sequence >= taken
    BY <1>8
  <2> QED BY <2>1, <2>2, <2>3, <2>4, <2>5, <1>7, <1>8, <1>1 DEF Grown
<1>19. Announced(p)'
  <2>1. claims'[p] # <<>> /\ LastClaim(p)' = c
    BY <1>7, <1>9, <1>10 DEF LastClaim
  <2>2. Before(ds, end) = FramesOf(cs)
    <3>1. \A f \in FramesOf(cs) : f.position < end
      BY <1>5, FrameTypes
    <3>2. \A f \in new : ~(f.position < end)
      BY <1>5, <1>8
    <3> QED BY <3>1, <3>2, <1>8 DEF Before
  <2>3. /\ reservation'[p].position = end /\ reservation'[p].messages = messages[p]
        /\ ~Ordered => reservation'[p].sequence = taken
    BY <1>1, <1>15 DEF Taken, taken
  <2>4. ~Ordered => taken + count = messages[p] + count
    BY DEF Taken, taken
  <2> QED BY <2>1, <2>2, <2>3, <2>4, <1>4, <1>6, <1>8, <1>10, <1>15 DEF Announced
<1>20. Shown(p)'
  BY <1>1, <1>3, <1>7, <1>10 DEF Shown, cs
<1>21. Asked(p)'
  BY <1>10 DEF Asked
<1>22. ContiguousEnd(cs) \in Nat /\ ContiguousEnd(cs) <= end
       /\ \A i \in DOMAIN cs : ~cs[i].committed => ContiguousEnd(cs) <= cs[i].start
  BY <1>5, Contiguous
<1>23. Exclusive(p)'
  <2>1. ASSUME NEW i \in DOMAIN ds, ~ds[i].committed
        PROVE  end + len * count <= ds[i].start + Cap
    <3>1. ds[i].start \in Nat /\ Cap \in Nat
      BY <1>7, ClaimTypes, ChannelAssumption
    <3>2. ContiguousEnd(cs) <= ds[i].start
      <4>1. CASE i \in DOMAIN cs
        BY <4>1, <2>1, <1>7, <1>22
      <4>2. CASE i = Len(cs) + 1
        BY <4>2, <1>6, <1>7, <1>22
      <4> QED BY <4>1, <4>2, <1>9
    <3>3. \A a, b, d, e \in Nat : a <= b + d /\ b <= e => a <= e + d
      OBVIOUS
    <3>4. end + len * count \in Nat
      BY <1>4, <1>5
    <3> QED BY <3>1, <3>2, <3>3, <3>4, <1>4, <1>22
  <2> QED BY <2>1, <1>10 DEF Exclusive
<1>24. Headed(p)'
  <2>1. ASSUME NEW i \in DOMAIN ds, ds[i].committed, NEW j \in 0 .. ds[i].count - 1,
               end + len * count <= At(ds[i], j) + Cap
        PROVE  header[p][Unit(At(ds[i], j))] = Header(Number(ds[i], j), ds[i].len)
    <3>1. i \in DOMAIN cs /\ ds[i] = cs[i]
      BY <2>1, <1>6, <1>7, <1>9
    <3>2. At(ds[i], j) \in Nat /\ Cap \in Nat
      BY <1>7, FrameBounds, ChannelAssumption
    <3>3. end <= At(cs[i], j) + Cap
      <4>1. \A a, b, d \in Nat : a + b <= d => a <= d
        OBVIOUS
      <4>2. At(ds[i], j) + Cap \in Nat
        BY <3>2
      <4> QED BY <4>1, <4>2, <2>1, <3>1, <1>4, <1>5
    <3> QED BY <2>1, <3>1, <3>3, <1>3 DEF Headed, cs, end
  <2> QED BY <2>1, <1>1, <1>10 DEF Headed
<1>25. ProducerInv(p)'
  BY <1>17, <1>19, <1>20, <1>21, <1>23, <1>24 DEF ProducerInv
<1>26. ASSUME NEW s \in Slots, Windowed(p, s) PROVE Windowed(p, s)'
  <2>1. /\ end + (len * count - cursor[p][s].position) <= EffectiveCapacity
        /\ MessageWindow # 0 =>
             messages[p] + (count - cursor[p][s].messages) <= MessageWindow
        /\ cached_pos[p] <= cursor[p][s].position
        /\ MessageWindow # 0 => cached_messages[p] <= cursor[p][s].messages
    BY <1>1, <1>26 DEF Windowed, end, len, count
  <2>2. ppc'[p] # "room"
    BY <1>10
  <2>3. /\ cursor'[p][s] = cursor[p][s] /\ cached_pos'[p] = cached_pos[p]
        /\ cached_messages'[p] = cached_messages[p]
    BY <1>1
  <2>4. producer_pos'[p] = end + len * count /\ messages'[p] = messages[p] + count
    BY <1>10
  <2>5. cursor[p][s].position \in Nat /\ cursor[p][s].messages \in Nat /\ messages[p] \in Nat
    BY <1>2 DEF DeliveryInv, RxTypes, Cursors
  <2>6. /\ producer_pos'[p] - cursor[p][s].position <= EffectiveCapacity
        /\ MessageWindow # 0 => messages'[p] - cursor[p][s].messages <= MessageWindow
    <3>1. \A a, b, d, e \in Nat : a + (b - d) <= e => (a + b) - d <= e
      OBVIOUS
    <3>2. EffectiveCapacity \in Nat /\ MessageWindow \in Nat
      BY CapacityType, ChannelAssumption
    <3>3. (end + len * count) - cursor[p][s].position <= EffectiveCapacity
      BY <3>1, <3>2, <2>1, <2>5, <1>4, <1>5
    <3>4. MessageWindow # 0 =>
            (messages[p] + count) - cursor[p][s].messages <= MessageWindow
      BY <3>1, <3>2, <2>1, <2>5, <1>4
    <3> QED BY <3>3, <3>4, <2>4
  <2> QED BY <2>1, <2>2, <2>3, <2>6 DEF Windowed
<1>27. \A q \in Producers \ {p} :
         UNCHANGED <<claims[q], producer_pos[q], messages[q], reservation[q],
                     visible[q], header[q], ppc[q], ask[q], cached_pos[q],
                     cached_messages[q]>>
  BY <1>1, <1>10
<1> QED BY <1>1, <1>11, <1>12, <1>14, <1>18, <1>25, <1>26, <1>27, ProducerAlone

\* Two frames of the last Cap units of a ring that share a unit are one.
LEMMA UnitOfFrame ==
  ASSUME NEW cs, NEW end, NEW taken, LaidOut(cs, end, taken),
         NEW i \in DOMAIN cs, NEW j \in 0 .. cs[i].count - 1,
         NEW k \in DOMAIN cs, NEW l \in 0 .. cs[k].count - 1,
         Unit(At(cs[i], j)) = Unit(At(cs[k], l)),
         end <= At(cs[i], j) + Cap, end <= At(cs[k], l) + Cap
  PROVE  i = k /\ j = l
<1>1. /\ At(cs[i], j) \in Nat /\ At(cs[k], l) \in Nat /\ end \in Nat /\ Cap \in Nat
      /\ cs[i].len \in Nat /\ cs[i].len > 0 /\ cs[k].len \in Nat /\ cs[k].len > 0
  BY FrameBounds, ClaimTypes, ChannelAssumption DEF LaidOut
<1>2. At(cs[i], j) < end /\ At(cs[k], l) < end
  <2>1. /\ At(cs[i], j) + cs[i].len <= End(cs[i]) /\ End(cs[i]) <= end
        /\ At(cs[k], l) + cs[k].len <= End(cs[k]) /\ End(cs[k]) <= end
        /\ End(cs[i]) \in Nat /\ End(cs[k]) \in Nat
    BY FrameBounds, ClaimTypes
  <2> QED BY <2>1, <1>1
<1>3. ~(At(cs[i], j) < At(cs[k], l))
  <2>1. At(cs[i], j) < At(cs[k], l) => At(cs[k], l) < At(cs[i], j) + Cap
    BY <1>1, <1>2
  <2> QED BY <2>1, <1>1, UnitsDiffer
<1>4. ~(At(cs[k], l) < At(cs[i], j))
  <2>1. At(cs[k], l) < At(cs[i], j) => At(cs[i], j) < At(cs[k], l) + Cap
    BY <1>1, <1>2
  <2> QED BY <2>1, <1>1, UnitsDiffer
<1>5. \/ i = k /\ j = l
      \/ At(cs[i], j) + cs[i].len <= At(cs[k], l)
      \/ At(cs[k], l) + cs[k].len <= At(cs[i], j)
  BY FramesApart
<1> QED BY <1>1, <1>3, <1>4, <1>5

\* Of the frames of a claim that begin at one unit there is a last.
LEMMA LastWritten ==
  ASSUME NEW n \in Nat, NEW W \in SUBSET (0 .. n - 1), W # {}
  PROVE  Max(W) \in W /\ Max(W) \in Nat
<1>1. W \subseteq 0 .. n /\ \A j \in W : j \in Nat
  OBVIOUS
<1> QED BY <1>1, MaxNatural

\* The headers a commit writes are headers.
LEMMA CommitHeaders ==
  ASSUME NEW p \in Producers, NEW i \in DOMAIN claims[p], Commit(p, i),
         LaidOut(claims[p], producer_pos[p], Taken(p)),
         header \in [Producers -> [0 .. Cap - 1 -> [low : Int, len : Nat, sequence : Int]]]
  PROVE  header' \in [Producers -> [0 .. Cap - 1 -> [low : Int, len : Nat, sequence : Int]]]
<1> DEFINE c == claims[p][i]
           written(u) == {j \in 0 .. c.count - 1 : Unit(At(c, j)) = u}
           heads == [u \in 0 .. Cap - 1 |->
              IF written(u) = {} THEN header[p][u]
              ELSE Header(c.sequence + Max(written(u)), c.len)]
<1>1. header' = [header EXCEPT ![p] = heads]
  BY DEF Commit, At
<1>2. c.len \in Nat /\ c.count \in Nat /\ c.sequence \in Nat
  BY ClaimTypes
<1>3. ASSUME NEW u \in 0 .. Cap - 1 PROVE heads[u] \in [low : Int, len : Nat, sequence : Int]
  <2>1. CASE written(u) = {}
    <3>1. header[p] \in [0 .. Cap - 1 -> [low : Int, len : Nat, sequence : Int]]
      OBVIOUS
    <3> QED BY <2>1, <3>1
  <2>2. CASE written(u) # {}
    <3>1. Max(written(u)) \in Nat
      <4>1. written(u) \in SUBSET (0 .. c.count - 1)
        OBVIOUS
      <4> HIDE DEF written, c
      <4> QED BY <4>1, <2>2, <1>2, LastWritten
    <3>2. PICK m \in Nat : m = Max(written(u))
      BY <3>1, Zenon
    <3> DEFINE n == c.sequence + m
    <3>3. n \in Nat /\ n % Period \in Int
      <4>1. \A x \in Nat : x % Period \in Int
        BY ChannelAssumption
      <4>2. \A x, y \in Nat : x + y \in Nat
        OBVIOUS
      <4> HIDE DEF c
      <4> QED BY <4>1, <4>2, <3>2, <1>2
    <3>4. Header(n, c.len) \in [low : Int, len : Nat, sequence : Int]
      BY <3>3, <1>2 DEF Header, SequenceLow
    <3>5. heads[u] = Header(n, c.len)
      BY <2>2, <3>2
    <3> QED BY <3>4, <3>5
  <2> QED BY <2>1, <2>2
<1>4. heads \in [0 .. Cap - 1 -> [low : Int, len : Nat, sequence : Int]]
  BY <1>3
<1> HIDE DEF heads
<1> QED BY <1>1, <1>4

\* A claim is committed: its headers are written and nobody else's, and the
\* visible position comes to the next hole.
LEMMA CommitInd ==
  ASSUME DeliveryInv, RegInv, NEW p \in Producers, NEW i \in DOMAIN claims[p],
         Commit(p, i)
  PROVE  DeliveryInv'
<1> DEFINE cs == claims[p]
           end == producer_pos[p]
           c == cs[i]
           ds == [cs EXCEPT ![i].committed = TRUE]
           written(u) == {j \in 0 .. c.count - 1 : Unit(At(c, j)) = u}
           heads == [u \in 0 .. Cap - 1 |->
              IF written(u) = {} THEN header[p][u]
              ELSE Header(c.sequence + Max(written(u)), c.len)]
<1>1. /\ alive[p] /\ ppc[p] = "idle" /\ ~c.committed
      /\ claims' = [claims EXCEPT ![p] = ds]
      /\ header' = [header EXCEPT ![p] = heads]
      /\ visible' = [visible EXCEPT ![p] = ContiguousEnd(claims'[p])]
      /\ UNCHANGED <<reservation, global_seq, slot, cursor, ppc, ask, producer_pos,
                     messages, cached_pos, cached_messages, rx, last_hit, held, kpc,
                     mine, token, alive>>
  BY DEF Commit, rxVars, clientVars, At
<1>2. /\ claims \in [Producers -> Seq(Claimed)] /\ visible \in [Producers -> Nat]
      /\ header \in [Producers -> [0 .. Cap - 1 -> [low : Int, len : Nat, sequence : Int]]]
      /\ global_seq \in Nat
  BY DEF DeliveryInv, ProducerTypes, RingTypes
<1>3. /\ RingOk(RingOf(p)) /\ Announced(p) /\ Shown(p) /\ Exclusive(p) /\ Headed(p)
  BY DEF DeliveryInv, ProducerInv
<1>4. LaidOut(cs, end, Taken(p)) /\ end \in Nat /\ Taken(p) \in Nat
  BY <1>3, RingParts DEF RingOk, LaidOut
<1>5. /\ c.start \in Nat /\ c.len \in Nat /\ c.count \in Nat /\ c.sequence \in Nat
      /\ c.len > 0 /\ i \in DOMAIN cs /\ end <= c.start + Cap
  BY <1>1, <1>3, <1>4, ClaimTypes DEF Exclusive
<1> HIDE DEF ds
<1>6. /\ LaidOut(ds, end, Taken(p)) /\ FramesOf(ds) = FramesOf(cs)
      /\ DOMAIN ds = DOMAIN cs /\ Len(ds) = Len(cs)
      /\ ContiguousEnd(cs) <= ContiguousEnd(ds)
      /\ \A k \in DOMAIN cs :
           /\ ds[k].start = cs[k].start /\ ds[k].len = cs[k].len
           /\ ds[k].count = cs[k].count /\ ds[k].sequence = cs[k].sequence
           /\ ds[k].committed <=> cs[k].committed \/ k = i
  BY <1>4, CommitClaim DEF ds
<1>7. /\ ContiguousEnd(ds) \in Nat /\ ContiguousEnd(ds) <= end
  BY <1>6, Contiguous
<1>8. ASSUME NEW u \in 0 .. Cap - 1, written(u) # {}
      PROVE  Max(written(u)) \in written(u)
  <2>1. written(u) \in SUBSET (0 .. c.count - 1)
    OBVIOUS
  <2> HIDE DEF written, c
  <2> QED BY <2>1, <1>5, <1>8, LastWritten
<1>10. /\ claims'[p] = ds /\ header'[p] = heads /\ visible'[p] = ContiguousEnd(ds)
       /\ \A q \in Producers \ {p} : /\ claims'[q] = claims[q] /\ header'[q] = header[q]
                                     /\ visible'[q] = visible[q]
  <2> HIDE DEF heads
  <2> QED BY <1>1, <1>2
<1>11. RingTypes' /\ ProducerTypes'
  <2> HIDE DEF heads, cs
  <2>1. ds \in Seq(Claimed)
    BY <1>6 DEF LaidOut
  <2>2. claims' \in [Producers -> Seq(Claimed)]
    BY <2>1, <1>1, <1>2
  <2>3. header' \in [Producers -> [0 .. Cap - 1 -> [low : Int, len : Nat, sequence : Int]]]
    BY <1>2, <1>4, CommitHeaders DEF cs
  <2>4. visible' \in [Producers -> Nat]
    BY <1>1, <1>2, <1>7, <1>10
  <2> QED BY <2>2, <2>3, <2>4, <1>1 DEF DeliveryInv, RingTypes, ProducerTypes
<1>12. Taken(p)' = Taken(p) /\ \A q \in Producers : Taken(q)' = Taken(q)
  BY <1>1 DEF Taken
<1>13. \A q \in Producers : FramesOf(claims'[q]) = FramesOf(claims[q])
  BY <1>6, <1>10
<1>14. Numbered'
  <2>1. /\ \A q \in Producers : \A n \in 0 .. Taken(q)' - 1 :
             \E x \in Domain(q) : \E f \in FramesOf(claims'[x]) : f.sequence = n
    <3>1. \A q \in Producers : \A x \in Domain(q) : x \in Producers
      BY DEF Domain
    <3> QED BY <3>1, <1>12, <1>13 DEF DeliveryInv, Numbered
  <2>2. Ordered => \A q, x \in Producers : q # x =>
          \A f \in FramesOf(claims'[q]), g \in FramesOf(claims'[x]) :
            f.sequence # g.sequence
    BY <1>13 DEF DeliveryInv, Numbered
  <2> QED BY <2>1, <2>2 DEF Numbered, Domain
<1>15. /\ reservation[p].position = end /\ visible[p] = ContiguousEnd(cs)
       /\ reservation[p].position \in Nat /\ visible[p] \in Nat
  BY <1>1, <1>2, <1>3, <1>4 DEF Announced, Shown
<1>16. RingOf(p)' = [claims |-> ds, end |-> end, taken |-> Taken(p),
                     reserved |-> end, visible |-> ContiguousEnd(ds), alive |-> alive[p]]
  <2>1. /\ reservation'[p].position = end /\ alive'[p] = alive[p]
        /\ producer_pos'[p] = end
    BY <1>1, <1>15
  <2> QED BY <2>1, <1>10, <1>12 DEF RingOf
<1>17. RingOk(RingOf(p)')
  <2>1. alive[p] \in BOOLEAN
    BY <1>3, RingParts DEF RingOk, Rings
  <2>2. ds \in Seq(Claimed)
    BY <1>6 DEF LaidOut
  <2>3. RingOf(p)' \in Rings
    BY <2>1, <2>2, <1>4, <1>7, <1>16 DEF Rings
  <2> QED BY <2>3, <1>4, <1>6, <1>7, <1>16 DEF RingOk
<1>18. Grown(RingOf(p), RingOf(p)')
  <2>1. /\ RingOf(p).claims = cs /\ RingOf(p).end = end /\ RingOf(p).taken = Taken(p)
        /\ RingOf(p).reserved = end /\ RingOf(p).visible = ContiguousEnd(cs)
        /\ RingOf(p).alive = alive[p]
    BY <1>15, RingParts
  <2>2. /\ RingOf(p)'.claims = ds /\ RingOf(p)'.end = end
        /\ RingOf(p)'.taken = Taken(p) /\ RingOf(p)'.reserved = end
        /\ RingOf(p)'.visible = ContiguousEnd(ds) /\ RingOf(p)'.alive = alive[p]
    BY <1>16
  <2> HIDE DEF cs
  <2> QED BY <2>1, <2>2, <1>1, <1>4, <1>6 DEF Grown
<1>19. Announced(p)'
  <2>1. ~Ordered /\ ds # <<>> => LastClaim(p)'.sequence + LastClaim(p)'.count = messages[p]
    <3>1. SUFFICES ASSUME ~Ordered
                   PROVE  LastClaim(p)'.sequence + LastClaim(p)'.count = messages[p]
      OBVIOUS
    <3>2. cs # <<>> /\ Len(cs) \in DOMAIN cs
      BY <1>4, <1>5 DEF LaidOut
    <3>3. LastClaim(p).sequence + LastClaim(p).count = messages[p]
      BY <3>1, <3>2, <1>3 DEF Announced
    <3>4. LastClaim(p)' = ds[Len(cs)]
      BY <1>6, <1>10 DEF LastClaim
    <3> QED BY <3>2, <3>3, <3>4, <1>6 DEF LastClaim
  <2>2. Before(ds, end) = Before(cs, end)
    BY <1>6 DEF Before
  <2>3. /\ messages[p] = Cardinality(FramesOf(ds))
        /\ reservation[p].messages = Cardinality(Before(ds, end))
        /\ reservation[p].messages = messages[p]
        /\ ~Ordered => reservation[p].sequence = messages[p]
    BY <2>2, <1>1, <1>3, <1>6, <1>15 DEF Announced
  <2> QED BY <2>1, <2>3, <1>1, <1>10, <1>15 DEF Announced
<1>20. Shown(p)'
  BY <1>1, <1>3, <1>10 DEF Shown
<1>21. Asked(p)'
  BY <1>1 DEF Asked
<1>22. Exclusive(p)'
  <2>1. \A k \in DOMAIN ds : ~ds[k].committed => end <= ds[k].start + Cap
    BY <1>3, <1>6 DEF Exclusive
  <2> QED BY <2>1, <1>1, <1>10 DEF Exclusive
<1>23. ASSUME NEW k \in DOMAIN cs, cs[k].committed \/ k = i, NEW j \in 0 .. cs[k].count - 1,
              end <= At(cs[k], j) + Cap
       PROVE  heads[Unit(At(cs[k], j))] = Header(Number(cs[k], j), cs[k].len)
  <2> DEFINE u == Unit(At(cs[k], j))
  <2>1. At(cs[k], j) \in Nat /\ u \in 0 .. Cap - 1
    BY <1>4, FrameBounds, UnitType
  <2>2. ASSUME NEW l \in written(u) PROVE k = i /\ l = j
    <3>1. /\ l \in 0 .. cs[i].count - 1 /\ Unit(At(cs[i], l)) = Unit(At(cs[k], j))
      OBVIOUS
    <3>2. end <= At(cs[i], l) + Cap
      <4>1. At(cs[i], l) \in Nat /\ c.start <= At(cs[i], l)
        BY <3>1, <1>4, FrameBounds
      <4> QED BY <4>1, <1>4, <1>5, ChannelAssumption
    <3> QED BY <3>1, <3>2, <1>4, <1>23, UnitOfFrame
  <2>3. CASE k = i
    <3>1. j \in written(u)
      BY <2>3
    <3>2. Max(written(u)) = j
      BY <3>1, <2>1, <2>2, <1>8
    <3>3. heads[u] = Header(c.sequence + j, c.len)
      BY <3>1, <3>2, <2>1
    <3> QED BY <3>3, <2>3 DEF Number
  <2>4. CASE k # i
    <3>1. written(u) = {}
      BY <2>2, <2>4
    <3>2. heads[u] = header[p][u]
      BY <3>1, <2>1
    <3> QED BY <3>2, <2>4, <1>3, <1>23 DEF Headed
  <2> QED BY <2>3, <2>4
<1>24. Headed(p)'
  <2> HIDE DEF heads, cs
  <2>1. ASSUME NEW k \in DOMAIN ds, ds[k].committed, NEW j \in 0 .. ds[k].count - 1,
               end <= At(ds[k], j) + Cap
        PROVE  heads[Unit(At(ds[k], j))] = Header(Number(ds[k], j), ds[k].len)
    <3>1. At(ds[k], j) = At(cs[k], j) /\ Number(ds[k], j) = Number(cs[k], j)
      BY <1>6 DEF At, Number
    <3> QED BY <2>1, <3>1, <1>6, <1>23
  <2>2. producer_pos'[p] = end
    BY <1>1
  <2> QED BY <2>1, <2>2, <1>10 DEF Headed
<1>25. ProducerInv(p)'
  BY <1>17, <1>19, <1>20, <1>21, <1>22, <1>24 DEF ProducerInv
<1>26. \A s \in Slots : Windowed(p, s) => Windowed(p, s)'
  BY <1>1 DEF Windowed
<1>27. \A q \in Producers \ {p} :
         UNCHANGED <<claims[q], producer_pos[q], messages[q], reservation[q],
                     visible[q], header[q], ppc[q], ask[q], cached_pos[q],
                     cached_messages[q]>>
  BY <1>1, <1>10
<1>28. global_seq <= global_seq'
  BY <1>1, <1>2
<1> QED BY <1>1, <1>11, <1>14, <1>18, <1>25, <1>26, <1>27, <1>28, ProducerAlone

-----------------------------------------------------------------------------
(* Steps of a client that registers or leaves *)

\* A step of k that leaves the producers' words alone, and the slots and cursors
\* of the other subscribers.
LEMMA ClientStep ==
  ASSUME DeliveryInv, RegInv, NEW k \in Clients,
         UNCHANGED <<ringVars, producerVars>>,
         \A x \in Processes \ {k} : alive'[x] = alive[x],
         \A j \in Clients \ {k} : UNCHANGED <<kpc[j], mine[j], token[j], rx[j], held[j]>>,
         \A j \in LiveClients \ {k} : Subscribing(j) =>
           \A q \in Producers : cursor'[q][mine[j]] = cursor[q][mine[j]],
         \A q \in Producers, s \in Slots :
           /\ cursor'[q][s].position <= reservation[q].position
           /\ cursor'[q][s].messages <= reservation[q].messages,
         RxTypes',
         \A s \in Slots : SlotOwned(s)',
         alive'[k] => ClientInv(k)',
         ~alive'[k] => held'[k] = {}
  PROVE  DeliveryInv'
<1>1. UNCHANGED <<header, visible, reservation, global_seq, ppc, ask, claims,
                  producer_pos, messages, cached_pos, cached_messages>>
  BY DEF ringVars, producerVars
<1>2. \A q \in Producers : q \in Processes /\ q # k /\ alive'[q] = alive[q]
  BY Names DEF Processes
<1>3. RingTypes' /\ ProducerTypes'
  BY <1>1 DEF DeliveryInv, RingTypes, ProducerTypes
<1>4. Numbered'
  BY <1>1 DEF DeliveryInv, Numbered, Taken, Domain
<1>5. \A q \in Producers : RingOf(q)' = RingOf(q)
  BY <1>1, <1>2 DEF RingOf, Taken
<1>6. ASSUME NEW q \in Producers PROVE ProducerInv(q)'
  <2>1. /\ RingOk(RingOf(q)) /\ Announced(q) /\ Shown(q) /\ Asked(q) /\ Exclusive(q)
        /\ Headed(q)
    BY DEF DeliveryInv, ProducerInv
  <2>2. RingOk(RingOf(q)')
    BY <2>1, <1>5
  <2>3. Announced(q)'
    BY <2>1, <1>1 DEF Announced, LastClaim
  <2>4. Shown(q)'
    BY <2>1, <1>1 DEF Shown
  <2>5. Asked(q)' /\ Exclusive(q)' /\ Headed(q)'
    BY <2>1, <1>1 DEF Asked, Exclusive, Headed
  <2> QED BY <2>2, <2>3, <2>4, <2>5 DEF ProducerInv
<1>7. ASSUME NEW j \in LiveClients', j # k PROVE ClientInv(j)'
  <2>1. j \in Clients /\ j \in LiveClients /\ ClientInv(j)
    BY <1>7, Names DEF LiveClients, DeliveryInv
  <2>2. /\ UNCHANGED <<kpc[j], mine[j], token[j], rx[j], held[j]>>
        /\ Subscribing(j) =>
             \A q \in Producers : cursor'[q][mine[j]] = cursor[q][mine[j]]
    BY <1>7, <2>1
  <2>3. Quiet(j)'
    BY <2>1, <2>2, <1>1, <1>2 DEF ClientInv, Quiet, ClaimsQuiet
  <2>4. Subscribing(j)' <=> Subscribing(j)
    BY <2>2 DEF Subscribing
  <2>5. kpc[j] \in Receiving => Subscribing(j)
    BY DEF Subscribing, Joined
  <2>6. Holds(j)'
    <3>1. kpc'[j] \notin {"holding", "polling"} => held'[j] = {}
      BY <2>1, <2>2 DEF ClientInv, Holds
    <3>2. ASSUME NEW m \in held[j]
          PROVE  /\ IsMessage(m, RingOf(m.producer)')
                 /\ cursor'[m.producer][mine'[j]].position <= m.position
      <4>1. m.producer \in Producers /\ kpc[j] \in {"holding", "polling"}
        BY <2>1 DEF DeliveryInv, RxTypes, Given, ClientInv, Holds
      <4>2. Subscribing(j)
        BY <4>1, <2>5 DEF Receiving
      <4>3. /\ IsMessage(m, RingOf(m.producer))
            /\ cursor[m.producer][mine[j]].position <= m.position
        BY <2>1 DEF ClientInv, Holds
      <4>4. cursor'[m.producer][mine[j]] = cursor[m.producer][mine[j]]
        BY <4>1, <4>2, <2>2
      <4> QED BY <4>1, <4>3, <4>4, <1>5, <2>2
    <3>3. kpc'[j] = "holding" => \A m \in held'[j] :
            /\ m.position = rx'[j][m.producer].read
            /\ m.sequence = rx'[j][m.producer].next
      BY <2>1, <2>2 DEF ClientInv, Holds
    <3> QED BY <3>1, <3>2, <3>3, <2>2 DEF Holds
  <2>7. ASSUME Subscribing(j), NEW q \in Producers PROVE Windowed(q, mine[j])'
    <3>1. Windowed(q, mine[j]) /\ cursor'[q][mine[j]] = cursor[q][mine[j]]
      BY <2>1, <2>2, <2>7 DEF ClientInv
    <3>2. cursor'[q][mine'[j]] = cursor[q][mine[j]]
      BY <3>1, <2>2
    <3> QED BY <3>1, <3>2, <1>1 DEF Windowed
  <2>8. ASSUME Subscribing(j), kpc[j] # "closing" PROVE Reads(View(j))' /\ Follows(j)'
    <3>1. Reads(View(j)) /\ Follows(j)
      BY <2>1, <2>8 DEF ClientInv
    <3>2. \A q \in Producers : cursor'[q][mine'[j]] = cursor[q][mine[j]]
      BY <2>2, <2>8
    <3>3. PICK v : v = View(j)
      OBVIOUS
    <3>4. View(j)' = v
      <4>1. SlotView(j)' = SlotView(j)
        BY <3>2 DEF SlotView
      <4> QED BY <4>1, <3>3, <2>2 DEF View
    <3>5. \A q \in Producers : ReadsAt(v[q], RingOf(q)')
      BY <3>1, <3>3, <1>5 DEF Reads
    <3>6. Ordered => \A p, q \in Producers : v[p].next = v[q].next
      BY <3>1, <3>3 DEF Reads
    <3>7. Reads(View(j))'
      BY <3>4, <3>5, <3>6 DEF Reads
    <3>8. Follows(j)'
      BY <3>1, <3>2, <2>2 DEF Follows
    <3> QED BY <3>7, <3>8
  <2> QED BY <2>2, <2>3, <2>4, <2>6, <2>7, <2>8 DEF ClientInv
<1>8. \A j \in LiveClients' : ClientInv(j)'
  BY <1>7 DEF LiveClients
<1>9. ASSUME NEW j \in Clients \ LiveClients' PROVE held'[j] = {}
  <2>1. CASE j = k
    BY <2>1, <1>9 DEF LiveClients
  <2>2. CASE j # k
    <3>1. j \in Clients \ LiveClients
      BY <2>2, <1>9, Names DEF LiveClients
    <3> QED BY <3>1, <2>2 DEF DeliveryInv
  <2> QED BY <2>1, <2>2
<1> QED BY <1>3, <1>4, <1>6, <1>8, <1>9 DEF DeliveryInv

\* Slots that k does not touch stay whose they are.
LEMMA SlotsOwned ==
  ASSUME \A s \in Slots : SlotOwned(s), NEW k \in Clients,
         \A x \in Processes \ {k} : alive'[x] = alive[x],
         \A j \in Clients \ {k} : UNCHANGED <<kpc[j], mine[j], token[j]>>,
         \A s \in Slots : slot'[s].pid \in {slot[s].pid, k, NoClient},
         alive'[k] => \A s \in Slots : slot'[s].pid = k => HasSlot(k)' /\ mine'[k] = s
  PROVE  \A s \in Slots : SlotOwned(s)'
<1> SUFFICES ASSUME NEW s \in Slots, slot'[s].pid \in LiveClients'
             PROVE  HasSlot(slot[s].pid)' /\ mine'[slot'[s].pid] = s
  BY DEF SlotOwned
<1>1. PICK j \in Clients : j = slot'[s].pid /\ alive'[j]
  BY DEF LiveClients
<1>2. CASE j = k
  <2>1. HasSlot(j)' /\ mine'[j] = s
    BY <1>1, <1>2
  <2> QED BY <2>1, <1>1
<1>3. CASE j # k
  <2>1. slot[s].pid = j /\ j \in LiveClients
    BY <1>1, <1>3, Names DEF LiveClients
  <2>2. HasSlot(j) /\ mine[j] = s
    BY <2>1 DEF SlotOwned
  <2>3. HasSlot(j)'
    BY <2>2, <1>3 DEF HasSlot
  <2> QED BY <2>2, <2>3, <1>1, <1>3
<1> QED BY <1>2, <1>3

\* While k has the gate, the other subscribers have active slots.
LEMMA OthersActive ==
  ASSUME RegInv, NEW k \in LiveClients, kpc[k] \in Gated,
         NEW j \in LiveClients, j # k, Subscribing(j)
  PROVE  mine[j] \in ActiveSlots /\ mine[j] \in Slots /\ slot[mine[j]].pid = j
<1>1. Registered(j) /\ Registered(k)
  BY DEF RegInv
<1>2. kpc[j] # "activate"
  BY <1>1 DEF Registered, Gated
<1> QED BY <1>2, OwnSlot

\* A client that has no slot has no slot's pid.
LEMMA NoSlot ==
  ASSUME \A s \in Slots : SlotOwned(s),
         NEW k \in LiveClients, NEW s \in Slots, slot[s].pid = k
  PROVE  HasSlot(k) /\ mine[k] = s
BY DEF SlotOwned

\* Both hold while messages are delivered.
LEMMA AllOwned == DeliveryInv => \A s \in Slots : SlotOwned(s)
BY DEF DeliveryInv

\* Cursors as they are do not pass the reservations.
LEMMA CursorsBehind ==
  ASSUME DeliveryInv
  PROVE  \A q \in Producers, s \in Slots :
           /\ cursor[q][s].position <= reservation[q].position
           /\ cursor[q][s].messages <= reservation[q].messages
           /\ reservation[q].position \in Nat /\ reservation[q].messages \in Nat
BY DEF DeliveryInv, ProducerInv, Shown, RingTypes

\* acquire_consumer() closes the gate, and waits for the claims under way.
LEMMA AcquireInd ==
  ASSUME DeliveryInv, RegInv, NEW k \in Clients,
         AcquireConsumer(k) \/ WaitForClaims(k)
  PROVE  DeliveryInv'
<1>1. /\ alive[k] /\ k \in LiveClients
      /\ UNCHANGED <<ringVars, producerVars, slot, cursor, rx, last_hit, held, token, alive>>
      /\ \/ kpc[k] = "out" /\ kpc' = [kpc EXCEPT ![k] = "quiesce"] /\ mine' = mine
         \/ /\ kpc[k] = "quiesce" /\ kpc' = [kpc EXCEPT ![k] = "slots"]
            /\ mine' = [mine EXCEPT ![k] = 0] /\ ClaimsQuiet
  BY DEF AcquireConsumer, WaitForClaims, Step, LiveClients, rxVars
<1>2. kpc \in [Clients -> {"out", "joined"} \cup Gated \cup Receiving]
      /\ mine \in [Clients -> Slots]
  BY DEF RegInv, RegTypes
<1>3. Registered(k) /\ ClientInv(k)
  BY <1>1 DEF RegInv, DeliveryInv
<1>4. /\ held[k] = {} /\ ~HasSlot(k) /\ kpc'[k] \in {"quiesce", "slots"}
      /\ kpc'[k] = "slots" => ClaimsQuiet
  <2>1. kpc[k] \in {"out", "quiesce"}
    BY <1>1
  <2> QED BY <2>1, <1>1, <1>2, <1>3 DEF ClientInv, Holds, HasSlot, Joined, Receiving
<1>5. \A j \in Clients \ {k} : UNCHANGED <<kpc[j], mine[j], token[j], rx[j], held[j]>>
  BY <1>1, <1>2
<1>6. RxTypes'
  BY <1>1 DEF DeliveryInv, RxTypes
<1>7. ClientInv(k)'
  <2>1. Quiet(k)'
    BY <1>1, <1>4 DEF Quiet, ClaimsQuiet, producerVars
  <2>2. ~Subscribing(k)'
    BY <1>4 DEF Subscribing, Joined, Receiving
  <2>3. Holds(k)'
    BY <1>1, <1>4 DEF Holds
  <2> QED BY <2>1, <2>2, <2>3 DEF ClientInv
<1>8. \A s \in Slots : SlotOwned(s)'
  <2>1. \A s \in Slots : slot'[s].pid # k
    BY <1>1, <1>4, AllOwned, NoSlot
  <2> QED BY <2>1, <1>1, <1>5, AllOwned, SlotsOwned
<1> QED BY <1>1, <1>5, <1>6, <1>7, <1>8, CursorsBehind, ClientStep

\* It goes over the slots, marks those of the dead and takes a free one.
LEMMA SearchInd ==
  ASSUME DeliveryInv, RegInv, NEW k \in Clients,
         SkipSlot(k) \/ ReclaimSlot(k) \/ TakeSlot(k)
  PROVE  DeliveryInv'
<1>1. /\ alive[k] /\ k \in LiveClients /\ kpc[k] = "slots"
      /\ UNCHANGED <<ringVars, producerVars, cursor, rx, last_hit, held, token, alive>>
      /\ \E to \in {"leave", "slots", "reclaim", "fill"} :
           /\ kpc' = [kpc EXCEPT ![k] = to]
           /\ to # "fill" => \A s \in Slots : slot'[s].pid = slot[s].pid
           /\ to = "fill" => /\ mine' = mine
                             /\ slot' = [slot EXCEPT ![mine[k]] =
                                  Token(slot[mine[k]].generation + 1, k, "Initializing")]
      /\ \E n : mine' = [mine EXCEPT ![k] = n]
  <2>1. mine = [mine EXCEPT ![k] = mine[k]] /\ slot \in [Slots -> Tokens]
        /\ mine[k] \in Slots
    BY DEF RegInv, RegTypes
  <2>2. CASE SkipSlot(k)
    BY <2>2 DEF SkipSlot, Step, LiveClients, rxVars
  <2>3. CASE ReclaimSlot(k)
    <3>1. \A s \in Slots : slot'[s].pid = slot[s].pid
      BY <2>1, <2>3 DEF ReclaimSlot, Tokens
    <3> QED BY <2>1, <2>3, <3>1 DEF ReclaimSlot, Step, LiveClients, rxVars
  <2>4. CASE TakeSlot(k)
    BY <2>1, <2>4 DEF TakeSlot, Step, LiveClients, rxVars
  <2> QED BY <2>2, <2>3, <2>4
<1>2. /\ kpc \in [Clients -> {"out", "joined"} \cup Gated \cup Receiving]
      /\ mine \in [Clients -> Slots] /\ slot \in [Slots -> Tokens]
  BY DEF RegInv, RegTypes
<1>3. Registered(k) /\ ClientInv(k)
  BY <1>1 DEF RegInv, DeliveryInv
<1>4. /\ held[k] = {} /\ ~HasSlot(k) /\ token[k] = NoToken
      /\ kpc'[k] \in {"leave", "slots", "reclaim", "fill"} /\ ClaimsQuiet
  BY <1>1, <1>2, <1>3
     DEF ClientInv, Holds, Quiet, HasSlot, Joined, Receiving, Registered
<1>5. \A j \in Clients \ {k} : UNCHANGED <<kpc[j], mine[j], token[j], rx[j], held[j]>>
  BY <1>1, <1>2
<1>6. RxTypes'
  BY <1>1 DEF DeliveryInv, RxTypes
<1>7. ClientInv(k)'
  <2>1. Quiet(k)'
    BY <1>1, <1>4 DEF Quiet, ClaimsQuiet, producerVars
  <2>2. ~Subscribing(k)'
    BY <1>1, <1>4 DEF Subscribing, Joined, Receiving
  <2>3. Holds(k)'
    BY <1>1, <1>4 DEF Holds
  <2> QED BY <2>1, <2>2, <2>3 DEF ClientInv
<1>8. \A s \in Slots : SlotOwned(s)'
  <2>1. \A s \in Slots : slot[s].pid # k
    BY <1>1, <1>4, AllOwned, NoSlot
  <2>2. CASE kpc'[k] # "fill"
    <3>1. \A s \in Slots : slot'[s].pid = slot[s].pid
      BY <2>2, <1>1, <1>2
    <3> QED BY <2>1, <3>1, <1>1, <1>5, AllOwned, SlotsOwned
  <2>3. CASE kpc'[k] = "fill"
    <3>1. /\ mine' = mine
          /\ slot' = [slot EXCEPT ![mine[k]] =
               Token(slot[mine[k]].generation + 1, k, "Initializing")]
      BY <2>3, <1>1, <1>2
    <3>2. \A s \in Slots : slot'[s].pid = IF s = mine[k] THEN k ELSE slot[s].pid
      BY <3>1, <1>2 DEF Token
    <3>3. HasSlot(k)'
      BY <2>3 DEF HasSlot
    <3> QED BY <2>1, <3>1, <3>2, <3>3, <1>1, <1>5, AllOwned, SlotsOwned
  <2> QED BY <2>2, <2>3
<1> QED BY <1>1, <1>5, <1>6, <1>7, <1>8, CursorsBehind, ClientStep

\* Slots of the dead and slots given up are cleared: nobody else reads their
\* cursors.
LEMMA FreeInd ==
  ASSUME DeliveryInv, RegInv, NEW k \in Clients, FreeReclaimed(k) \/ FreeSlot(k)
  PROVE  DeliveryInv'
<1> DEFINE s == mine[k]
<1>1. /\ alive[k] /\ k \in LiveClients
      /\ UNCHANGED <<ringVars, producerVars, rx, last_hit, held, token, alive>>
      /\ cursor' = [q \in Producers |->
                      [cursor[q] EXCEPT ![s] = NoCursor(slot[s].generation)]]
      /\ slot' = [slot EXCEPT ![s] = Token(@.generation, NoClient, "Free")]
      /\ \/ kpc[k] = "reclaim" /\ kpc' = [kpc EXCEPT ![k] = "slots"] /\ mine' = mine
         \/ /\ kpc[k] = "freeing" /\ kpc' = [kpc EXCEPT ![k] = "leave"]
            /\ mine' = [mine EXCEPT ![k] = 0]
  BY DEF FreeReclaimed, FreeSlot, ClearCursors, Step, LiveClients, rxVars
<1>2. /\ kpc \in [Clients -> {"out", "joined"} \cup Gated \cup Receiving]
      /\ mine \in [Clients -> Slots] /\ slot \in [Slots -> Tokens] /\ s \in Slots
      /\ cursor \in [Producers -> [Slots -> Cursors]] /\ slot[s].generation \in Nat
  BY DEF RegInv, RegTypes, DeliveryInv, RxTypes, Tokens
<1>3. Registered(k) /\ ClientInv(k)
  BY <1>1 DEF RegInv, DeliveryInv
<1>4. /\ held[k] = {} /\ token[k] = NoToken /\ kpc'[k] \in {"slots", "leave"}
      /\ kpc'[k] = "slots" => ClaimsQuiet
      /\ slot[s].phase # "Active" /\ kpc[k] \in Gated
  <2>1. kpc[k] \in {"reclaim", "freeing"}
    BY <1>1
  <2>2. held[k] = {} /\ (kpc[k] = "reclaim" => ClaimsQuiet)
    BY <2>1, <1>3 DEF ClientInv, Holds, Quiet
  <2>3. token[k] = NoToken /\ slot[s].phase # "Active"
    BY <2>1, <1>3 DEF Registered, Owns, Joined, Receiving
  <2> QED BY <2>1, <2>2, <2>3, <1>1, <1>2 DEF Gated
<1>5. \A j \in Clients \ {k} : UNCHANGED <<kpc[j], mine[j], token[j], rx[j], held[j]>>
  BY <1>1, <1>2
<1>6. NoCursor(slot[s].generation) \in Cursors
      /\ NoCursor(slot[s].generation).position = 0
      /\ NoCursor(slot[s].generation).messages = 0
  BY <1>2 DEF NoCursor, Cursors
<1>7. \A q \in Producers : \A x \in Slots :
        cursor'[q][x] = IF x = s THEN NoCursor(slot[s].generation) ELSE cursor[q][x]
  BY <1>1, <1>2
<1>8. RxTypes'
  <2>1. cursor' \in [Producers -> [Slots -> Cursors]]
    BY <1>1, <1>2, <1>6
  <2> QED BY <2>1, <1>1 DEF DeliveryInv, RxTypes
<1>9. \A j \in LiveClients \ {k} : Subscribing(j) =>
        \A q \in Producers : cursor'[q][mine[j]] = cursor[q][mine[j]]
  <2>1. ASSUME NEW j \in LiveClients, j # k, Subscribing(j)
        PROVE  mine[j] \in Slots /\ mine[j] # s
    BY <2>1, <1>1, <1>4, OthersActive DEF ActiveSlots
  <2> QED BY <2>1, <1>7
<1>10. \A q \in Producers, x \in Slots :
         /\ cursor'[q][x].position <= reservation[q].position
         /\ cursor'[q][x].messages <= reservation[q].messages
  BY <1>6, <1>7, CursorsBehind
<1>11. ClientInv(k)'
  <2>1. Quiet(k)'
    BY <1>1, <1>4 DEF Quiet, ClaimsQuiet, producerVars
  <2>2. ~Subscribing(k)'
    BY <1>1, <1>4 DEF Subscribing, Joined, Receiving
  <2>3. Holds(k)'
    BY <1>1, <1>4 DEF Holds
  <2> QED BY <2>1, <2>2, <2>3 DEF ClientInv
<1>12. \A x \in Slots : SlotOwned(x)'
  <2>1. \A x \in Slots : slot'[x].pid = IF x = s THEN NoClient ELSE slot[x].pid
    BY <1>1, <1>2 DEF Token
  <2>2. \A x \in Slots : slot'[x].pid # k
    <3>1. ASSUME NEW x \in Slots, x # s, slot[x].pid = k PROVE FALSE
      BY <3>1, <1>1, AllOwned, NoSlot
    <3> QED BY <3>1, <2>1, Names
  <2> QED BY <2>1, <2>2, <1>1, <1>5, AllOwned, SlotsOwned
<1> QED BY <1>1, <1>5, <1>8, <1>9, <1>10, <1>11, <1>12, ClientStep

\* What a producer has announced, while no claim of a live one is under way: a
\* subscription that starts there is within the windows, ...
LEMMA SnapshotWindowed ==
  ASSUME DeliveryInv, NEW p \in Producers
  PROVE  /\ producer_pos[p] - reservation[p].position <= EffectiveCapacity
         /\ cached_pos[p] <= reservation[p].position
         /\ ppc[p] = "room" =>
              producer_pos[p] + ask[p].len * ask[p].count - reservation[p].position
                <= EffectiveCapacity
         /\ MessageWindow # 0 =>
              /\ messages[p] - reservation[p].messages <= MessageWindow
              /\ cached_messages[p] <= reservation[p].messages
              /\ ppc[p] = "room" =>
                   messages[p] + ask[p].count - reservation[p].messages <= MessageWindow
<1>1. Announced(p) /\ Shown(p) /\ Asked(p) /\ RingOk(RingOf(p))
  BY DEF DeliveryInv, ProducerInv
<1>2. /\ producer_pos[p] \in Nat /\ messages[p] \in Nat
      /\ reservation[p].position \in Nat /\ reservation[p].messages \in Nat
      /\ EffectiveCapacity \in Nat /\ MessageWindow \in Nat
  BY CapacityType, ChannelAssumption DEF DeliveryInv, ProducerTypes, RingTypes
<1>3. /\ cached_pos[p] <= reservation[p].position
      /\ cached_messages[p] <= reservation[p].messages
  BY <1>1 DEF Shown
<1>4. CASE ppc[p] = "reserved"
  <2>1. /\ claims[p] # <<>> /\ reservation[p].position = LastClaim(p).start
        /\ reservation[p].messages + LastClaim(p).count = messages[p]
        /\ LastClaim(p).len * LastClaim(p).count <= EffectiveCapacity
        /\ MessageWindow # 0 => LastClaim(p).count <= MessageWindow
    BY <1>1, <1>4 DEF Announced
  <2>2. LaidOut(claims[p], producer_pos[p], Taken(p))
    BY <1>1, RingParts DEF RingOk
  <2>3. Len(claims[p]) \in DOMAIN claims[p]
    BY <2>1, <2>2 DEF LaidOut
  <2>4. LastClaim(p).start + LastClaim(p).len * LastClaim(p).count = producer_pos[p]
    BY <2>2, <2>3 DEF LaidOut, LastClaim
  <2>5. LastClaim(p).len \in Nat /\ LastClaim(p).count \in Nat
    BY <2>2, <2>3, ClaimTypes DEF LastClaim
  <2>6. LastClaim(p).len * LastClaim(p).count \in Nat
    BY <2>5, Multiples
  <2>7. producer_pos[p] - reservation[p].position <= EffectiveCapacity
    BY <2>1, <2>4, <2>6, <1>2
  <2>8. MessageWindow # 0 => messages[p] - reservation[p].messages <= MessageWindow
    BY <2>1, <2>5, <1>2
  <2> QED BY <2>7, <2>8, <1>3, <1>4
<1>5. CASE ppc[p] # "reserved"
  <2>1. reservation[p].position = producer_pos[p] /\ reservation[p].messages = messages[p]
    BY <1>1, <1>5 DEF Announced
  <2>2. ASSUME ppc[p] = "room"
        PROVE  /\ producer_pos[p] + ask[p].len * ask[p].count - reservation[p].position
                    <= EffectiveCapacity
               /\ MessageWindow # 0 =>
                    messages[p] + ask[p].count - reservation[p].messages <= MessageWindow
    <3>1. /\ ask[p].len * ask[p].count <= EffectiveCapacity
          /\ MessageWindow # 0 => ask[p].count <= MessageWindow
      BY <2>2, <1>1 DEF Asked
    <3>2. ask[p].len \in Nat /\ ask[p].count \in Nat
      <4>1. ask[p] \in [len : 0 .. Cap, count : 0 .. MaxBatch]
        BY DEF DeliveryInv, ProducerTypes
      <4>2. Cap \in Nat /\ MaxBatch \in Nat
        BY ChannelAssumption
      <4> QED BY <4>1, <4>2
    <3>3. ask[p].len * ask[p].count \in Nat
      BY <3>2, Multiples
    <3>4. \A a, b, e \in Nat : b <= e => a + b - a <= e
      OBVIOUS
    <3> QED BY <3>1, <3>2, <3>3, <3>4, <2>1, <1>2
  <2>3. /\ producer_pos[p] - reservation[p].position <= EffectiveCapacity
        /\ messages[p] - reservation[p].messages <= MessageWindow
    BY <2>1, <1>2
  <2> QED BY <2>2, <2>3, <1>3
<1> QED BY <1>4, <1>5

\* ... and will miss nothing and repeat nothing.
LEMMA SnapshotReads ==
  ASSUME DeliveryInv, NEW p \in Producers, ppc[p] = "idle" \/ ~alive[p],
         NEW r \in Kept, r.read = reservation[p].position,
         r.next = IF Ordered THEN global_seq ELSE reservation[p].sequence,
         r.messages = reservation[p].messages, r.visible = 0
  PROVE  ReadsAt(r, RingOf(p))
<1> DEFINE cs == claims[p]
<1>1. Announced(p) /\ RingOk(RingOf(p))
  BY DEF DeliveryInv, ProducerInv
<1>2. LaidOut(cs, producer_pos[p], Taken(p)) /\ visible[p] \in Nat /\ Taken(p) \in Nat
  BY <1>1, RingParts DEF RingOk, Rings
<1>3. /\ r.read \in Nat /\ r.next \in Nat
      /\ \A f \in FramesOf(cs) : /\ f.position \in Nat /\ f.sequence \in Nat
                                 /\ f.position < producer_pos[p] /\ f.sequence < Taken(p)
  BY <1>2, FrameTypes DEF Kept
<1>4. r.messages = Cardinality(Before(cs, r.read))
  BY <1>1 DEF Announced
<1>5. CASE r.next = Taken(p) /\ (ppc[p] = "reserved" \/ r.read = producer_pos[p])
  <2>1. \A f \in FramesOf(cs) : ~(f.sequence >= r.next)
    BY <1>2, <1>3, <1>5
  <2>2. \A f \in FramesOf(cs) :
          ~((alive[p] \/ f.position < reservation[p].position) /\ f.position >= r.read)
    <3>1. CASE ppc[p] = "reserved"
      <4>1. ~alive[p]
        BY <3>1
      <4> QED BY <4>1, <1>3
    <3>2. CASE r.read = producer_pos[p]
      BY <3>2, <1>3
    <3> QED BY <3>1, <3>2, <1>5
  <2>3. r.read = producer_pos[p] \/ \E f \in FramesOf(cs) : f.position = r.read
    <3>1. CASE ppc[p] = "reserved"
      <4>1. cs # <<>> /\ reservation[p].position = LastClaim(p).start
        BY <1>1, <3>1 DEF Announced
      <4>2. Len(cs) \in DOMAIN cs
        BY <1>2, <4>1 DEF LaidOut
      <4>3. /\ cs[Len(cs)].start \in Nat /\ cs[Len(cs)].len \in Nat
            /\ cs[Len(cs)].count \in Nat /\ cs[Len(cs)].count > 0
        BY <1>2, <4>2, ClaimTypes
      <4>4. 0 \in 0 .. cs[Len(cs)].count - 1 /\ At(cs[Len(cs)], 0) = cs[Len(cs)].start
        BY <4>3 DEF At
      <4>5. [position |-> At(cs[Len(cs)], 0), sequence |-> Number(cs[Len(cs)], 0)]
              \in FramesOf(cs)
        BY <4>2, <4>4, FrameOf
      <4> QED BY <4>1, <4>4, <4>5 DEF LastClaim
    <3> QED BY <3>1, <1>5
  <2> QED BY <2>1, <2>2, <2>3, <1>2, <1>3, <1>4, <1>5, RingParts DEF ReadsAt
<1>6. CASE ~Ordered /\ ppc[p] = "reserved"
  <2> DEFINE m == Len(cs)
  <2>1. /\ cs # <<>> /\ r.read = cs[m].start /\ r.next = cs[m].sequence /\ ~alive[p]
    BY <1>1, <1>6 DEF Announced, LastClaim
  <2>2. m \in DOMAIN cs
    BY <1>2, <2>1 DEF LaidOut
  <2>3. /\ cs[m].start \in Nat /\ cs[m].len \in Nat /\ cs[m].sequence \in Nat
        /\ cs[m].count \in Nat /\ cs[m].count > 0 /\ cs[m].len > 0
    BY <1>2, <2>2, ClaimTypes
  <2>4. /\ 0 \in 0 .. cs[m].count - 1 /\ At(cs[m], 0) = cs[m].start
        /\ Number(cs[m], 0) = cs[m].sequence
    BY <2>3 DEF At, Number
  <2>5. [position |-> r.read, sequence |-> r.next] \in FramesOf(cs)
    BY <2>1, <2>2, <2>4, FrameOf
  <2>6. \A f \in FramesOf(cs) : f.sequence >= r.next => f.position >= r.read
    <3>1. ASSUME NEW f \in FramesOf(cs), f.sequence >= r.next PROVE f.position >= r.read
      <4>1. \/ f = [position |-> At(cs[m], 0), sequence |-> Number(cs[m], 0)]
            \/ At(cs[m], 0) + cs[m].len <= f.position
            \/ f.sequence < Number(cs[m], 0)
        BY <1>2, <2>2, <2>4, FrameOrder
      <4> QED BY <4>1, <3>1, <2>1, <2>3, <2>4, <1>3
    <3> QED BY <3>1
  <2>7. r.next <= Taken(p)
    BY <2>5, <1>2, <1>3
  <2>8. \A f \in FramesOf(cs) : ~(f.position < reservation[p].position /\ f.position >= r.read)
    BY <1>3
  <2>9. r.read <= reservation[p].position /\ r.visible <= visible[p]
    BY <1>2, <1>3
  <2> HIDE DEF cs
  <2>10. \E f \in FramesOf(cs) : f.position = r.read
    BY <2>5
  <2> QED BY <2>1, <2>6, <2>7, <2>8, <2>9, <2>10, <1>4, RingParts DEF ReadsAt, cs
<1>7. CASE ~(~Ordered /\ ppc[p] = "reserved")
  <2>1. ppc[p] # "reserved" => /\ reservation[p].position = producer_pos[p]
                               /\ ~Ordered => reservation[p].sequence = messages[p]
    BY <1>1 DEF Announced
  <2> QED BY <2>1, <1>5, <1>7 DEF Taken
<1> QED BY <1>6, <1>7

\* The snapshot of a new subscription.
LEMMA FillCursorsInd ==
  ASSUME DeliveryInv, RegInv, NEW k \in Clients, FillCursors(k)
  PROVE  DeliveryInv'
<1> DEFINE s == mine[k]
           at(q) == [position |-> reservation[q].position,
                     sequence |-> IF Ordered THEN global_seq ELSE reservation[q].sequence,
                     messages |-> reservation[q].messages,
                     generation |-> slot[s].generation]
<1>1. /\ alive[k] /\ k \in LiveClients /\ kpc[k] = "fill"
      /\ kpc' = [kpc EXCEPT ![k] = "activate"]
      /\ cursor' = [q \in Producers |-> [cursor[q] EXCEPT ![s] = at(q)]]
      /\ UNCHANGED <<ringVars, producerVars, slot, rx, last_hit, held, mine, token, alive>>
  BY DEF FillCursors, Step, LiveClients, rxVars
<1>2. /\ kpc \in [Clients -> {"out", "joined"} \cup Gated \cup Receiving]
      /\ slot \in [Slots -> Tokens] /\ s \in Slots /\ slot[s].generation \in Nat
      /\ cursor \in [Producers -> [Slots -> Cursors]] /\ global_seq \in Nat
      /\ reservation \in [Producers -> [position : Nat, sequence : Nat, messages : Nat]]
  BY DEF RegInv, RegTypes, DeliveryInv, RxTypes, RingTypes, Tokens
<1>3. Registered(k) /\ ClientInv(k)
  BY <1>1 DEF RegInv, DeliveryInv
<1>4. held[k] = {} /\ kpc'[k] = "activate" /\ ClaimsQuiet /\ kpc[k] \in Gated
  BY <1>1, <1>2, <1>3 DEF ClientInv, Holds, Quiet, Gated
<1>5. \A j \in Clients \ {k} : UNCHANGED <<kpc[j], mine[j], token[j], rx[j], held[j]>>
  BY <1>1, <1>2
<1>6. \A q \in Producers : at(q) \in Cursors
  BY <1>2 DEF Cursors
<1>7. \A q \in Producers : \A x \in Slots :
        cursor'[q][x] = IF x = s THEN at(q) ELSE cursor[q][x]
  BY <1>1, <1>2
<1>8. RxTypes'
  <2> HIDE DEF at
  <2>1. cursor' \in [Producers -> [Slots -> Cursors]]
    BY <1>1, <1>2, <1>6
  <2> QED BY <2>1, <1>1 DEF DeliveryInv, RxTypes
<1>9. \A j \in LiveClients \ {k} : Subscribing(j) =>
        \A q \in Producers : cursor'[q][mine[j]] = cursor[q][mine[j]]
  <2>1. ASSUME NEW j \in LiveClients, j # k, Subscribing(j)
        PROVE  mine[j] \in Slots /\ mine[j] # s
    <3>1. slot[s].phase # "Active"
      BY <1>1, <1>3 DEF Registered, Owns
    <3> QED BY <3>1, <2>1, <1>1, <1>4, OthersActive DEF ActiveSlots
  <2> QED BY <2>1, <1>7
<1>10. \A q \in Producers, x \in Slots :
         /\ cursor'[q][x].position <= reservation[q].position
         /\ cursor'[q][x].messages <= reservation[q].messages
  <2>1. \A q \in Producers : /\ at(q).position <= reservation[q].position
                             /\ at(q).messages <= reservation[q].messages
    BY CursorsBehind, <1>2
  <2> HIDE DEF at
  <2> QED BY <2>1, <1>7, CursorsBehind
<1>11. ClientInv(k)'
  <2>1. Quiet(k)'
    BY <1>1, <1>4 DEF Quiet, ClaimsQuiet, producerVars
  <2>2. Holds(k)'
    BY <1>1, <1>4 DEF Holds
  <2>3. \A q \in Producers : cursor'[q][mine'[k]] = at(q)
    BY <1>1, <1>2, <1>7
  <2>4. ASSUME NEW q \in Producers PROVE Windowed(q, mine[k])'
    <3>1. /\ cursor'[q][mine'[k]].position = reservation[q].position
          /\ cursor'[q][mine'[k]].messages = reservation[q].messages
      <4>1. /\ at(q).position = reservation[q].position
            /\ at(q).messages = reservation[q].messages
        OBVIOUS
      <4> HIDE DEF at
      <4> QED BY <4>1, <2>3
    <3>2. UNCHANGED <<producer_pos, messages, cached_pos, cached_messages, ppc, ask>>
      BY <1>1 DEF producerVars
    <3> QED BY <3>1, <3>2, SnapshotWindowed DEF Windowed
  <2>5. View(k)' = [q \in Producers |->
          [read |-> at(q).position, next |-> at(q).sequence, messages |-> at(q).messages,
           visible |-> 0, flushed |-> at(q).position]]
    <3>1. kpc'[k] \notin Receiving
      BY <1>4 DEF Receiving
    <3> HIDE DEF at
    <3> QED BY <2>3, <3>1 DEF View, SlotView
  <2>6. ASSUME NEW q \in Producers PROVE ReadsAt(View(k)'[q], RingOf(q)')
    <3>1. RingOf(q)' = RingOf(q)
      BY <1>1 DEF RingOf, Taken, ringVars, producerVars
    <3>2. ppc[q] = "idle" \/ ~alive[q]
      BY <1>4 DEF ClaimsQuiet
    <3> DEFINE r == [read |-> at(q).position, next |-> at(q).sequence,
                     messages |-> at(q).messages, visible |-> 0,
                     flushed |-> at(q).position]
    <3>3. r \in Kept
      BY <1>6 DEF Kept, Cursors
    <3>4. ReadsAt(r, RingOf(q))
      BY <3>2, <3>3, SnapshotReads
    <3>5. View(k)'[q] = r
      BY <2>5
    <3> QED BY <3>1, <3>4, <3>5
  <2>7. Ordered => \A q, x \in Producers : View(k)'[q].next = View(k)'[x].next
    BY <2>5
  <2>8. Reads(View(k))'
    BY <2>6, <2>7 DEF Reads
  <2>9. Follows(k)'
    BY <1>4 DEF Follows, Receiving
  <2> QED BY <2>1, <2>2, <2>4, <2>8, <2>9 DEF ClientInv
<1>12. \A x \in Slots : SlotOwned(x)'
  <2>1. \A x \in Slots : slot[x].pid = k => mine[k] = x
    BY <1>1, AllOwned, NoSlot
  <2>2. HasSlot(k)'
    BY <1>4 DEF HasSlot
  <2> QED BY <2>1, <2>2, <1>1, <1>5, AllOwned, SlotsOwned
<1> QED BY <1>1, <1>5, <1>8, <1>9, <1>10, <1>11, <1>12, ClientStep

\* A subscriber that stays where it is in every ring.
LEMMA StaysSubscribed ==
  ASSUME DeliveryInv, NEW k \in LiveClients, held[k] = {}, Subscribing(k),
         kpc[k] # "closing",
         UNCHANGED <<ringVars, producerVars, cursor, mine, held, alive>>,
         View(k)' = View(k), Follows(k)',
         kpc'[k] \notin {"slots", "reclaim", "fill", "activate"}
  PROVE  ClientInv(k)'
<1>1. ClientInv(k) /\ k \in Clients
  BY DEF DeliveryInv, LiveClients
<1>2. Quiet(k)'
  BY DEF Quiet
<1>3. Holds(k)'
  BY DEF Holds
<1>4. Subscribing(k)' => \A q \in Producers : Windowed(q, mine[k])'
  BY <1>1 DEF ClientInv, Windowed, producerVars
<1>5. Reads(View(k))'
  <2>1. Reads(View(k))
    BY <1>1 DEF ClientInv
  <2>2. \A q \in Producers : RingOf(q)' = RingOf(q)
    BY DEF RingOf, Taken, ringVars, producerVars
  <2>3. PICK v : v = View(k)
    OBVIOUS
  <2>4. /\ View(k)' = v
        /\ \A q \in Producers : ReadsAt(v[q], RingOf(q)')
        /\ Ordered => \A q, x \in Producers : v[q].next = v[x].next
    BY <2>1, <2>2, <2>3 DEF Reads
  <2> QED BY <2>4 DEF Reads
<1> QED BY <1>2, <1>3, <1>4, <1>5 DEF ClientInv

\* The registration is completed and the gate opened; then the subscriber reads on
\* from its slot.
LEMMA JoinInd ==
  ASSUME DeliveryInv, RegInv, NEW k \in Clients,
         StoreActive(k) \/ ReleaseGate(k) \/ OpenRx(k)
  PROVE  DeliveryInv'
<1>1. /\ alive[k] /\ k \in LiveClients
      /\ UNCHANGED <<ringVars, producerVars, cursor, held, mine, alive>>
      /\ \/ /\ kpc[k] = "activate" /\ kpc' = [kpc EXCEPT ![k] = "leave"] /\ rx' = rx
            /\ last_hit' = last_hit
            /\ token' = [token EXCEPT ![k] = Token(slot[mine[k]].generation, k, "Active")]
            /\ slot' = [slot EXCEPT ![mine[k]].phase = "Active"]
         \/ /\ kpc[k] = "leave" /\ rx' = rx /\ last_hit' = last_hit
            /\ token' = token /\ slot' = slot
            /\ kpc' = [kpc EXCEPT ![k] = IF token[k] = NoToken THEN "out" ELSE "joined"]
         \/ /\ kpc[k] = "joined" /\ kpc' = [kpc EXCEPT ![k] = "open"]
            /\ rx' = [rx EXCEPT ![k] = SlotView(k)]
            /\ last_hit' = [last_hit EXCEPT ![k] = 0]
            /\ token' = token /\ slot' = slot
  BY DEF StoreActive, ReleaseGate, OpenRx, Step, LiveClients, rxVars, SlotView
<1>2. /\ kpc \in [Clients -> {"out", "joined"} \cup Gated \cup Receiving]
      /\ slot \in [Slots -> Tokens] /\ token \in [Clients -> Tokens]
      /\ mine[k] \in Slots /\ rx \in [Clients -> [Producers -> Kept]]
      /\ last_hit \in [Clients -> Producers]
      /\ cursor \in [Producers -> [Slots -> Cursors]]
  BY DEF RegInv, RegTypes, DeliveryInv, RxTypes
<1>3. Registered(k) /\ ClientInv(k)
  BY <1>1 DEF RegInv, DeliveryInv
<1>4. /\ held[k] = {} /\ kpc'[k] \in {"out", "leave", "joined", "open"}
      /\ kpc[k] \in {"activate", "leave", "joined"}
  <2>1. kpc[k] \in {"activate", "leave", "joined"}
    BY <1>1
  <2> QED BY <2>1, <1>1, <1>2, <1>3 DEF ClientInv, Holds
<1>5. \A j \in Clients \ {k} : UNCHANGED <<kpc[j], mine[j], token[j], rx[j], held[j]>>
  BY <1>1, <1>2
<1>6. SlotView(k) \in [Producers -> Kept]
  <2>1. \A q \in Producers : cursor[q][mine[k]] \in Cursors
    BY <1>2
  <2> QED BY <2>1 DEF SlotView, Kept, Cursors
<1>7. RxTypes'
  <2>1. rx' \in [Clients -> [Producers -> Kept]]
    BY <1>1, <1>2, <1>6
  <2>2. 0 \in Producers
    BY ChannelAssumption DEF Producers
  <2>3. last_hit' \in [Clients -> Producers]
    BY <2>2, <1>1, <1>2
  <2> QED BY <2>1, <2>3, <1>1 DEF DeliveryInv, RxTypes
<1>8. Subscribing(k)' => Subscribing(k)
  <2>1. CASE kpc[k] = "leave" /\ token[k] = NoToken
    BY <2>1, <1>1, <1>2 DEF Subscribing, Joined, Receiving
  <2>2. CASE ~(kpc[k] = "leave" /\ token[k] = NoToken)
    BY <2>2, <1>4 DEF Subscribing, Joined
  <2> QED BY <2>1, <2>2
<1>9. /\ View(k)' = View(k) /\ Follows(k)'
  <2>1. SlotView(k)' = SlotView(k) /\ View(k) = SlotView(k)
    BY <1>1, <1>4 DEF SlotView, View, Receiving
  <2>2. CASE kpc'[k] # "open"
    BY <2>1, <2>2, <1>4 DEF View, Follows, Receiving
  <2>3. CASE kpc'[k] = "open"
    <3>1. rx'[k] = SlotView(k)
      BY <2>3, <1>1, <1>2
    <3>2. View(k)' = SlotView(k)
      BY <2>3, <3>1 DEF View, Receiving
    <3>3. \A q \in Producers :
            /\ cursor[q][mine[k]].position = SlotView(k)[q].flushed
            /\ SlotView(k)[q].flushed <= SlotView(k)[q].read
            /\ cursor[q][mine[k]].messages <= SlotView(k)[q].messages
      <4>1. \A q \in Producers : /\ cursor[q][mine[k]].position \in Nat
                                 /\ cursor[q][mine[k]].messages \in Nat
        BY <1>2 DEF Cursors
      <4> QED BY <4>1 DEF SlotView
    <3>4. Follows(k)'
      BY <3>1, <3>3, <1>1 DEF Follows
    <3> QED BY <2>1, <3>2, <3>4
  <2> QED BY <2>2, <2>3
<1>10. ClientInv(k)'
  <2>1. CASE Subscribing(k)
    BY <2>1, <1>1, <1>4, <1>9, StaysSubscribed
  <2>2. CASE ~Subscribing(k)
    <3>1. Quiet(k)' /\ Holds(k)'
      BY <1>1, <1>4 DEF Quiet, Holds
    <3> QED BY <3>1, <2>2, <1>8 DEF ClientInv
  <2> QED BY <2>1, <2>2
<1>11. \A s \in Slots : SlotOwned(s)'
  <2>1. \A s \in Slots : slot'[s].pid = slot[s].pid
    <3>1. slot' = slot \/ slot' = [slot EXCEPT ![mine[k]].phase = "Active"]
      BY <1>1
    <3>2. slot \in [Slots -> Tokens] /\ mine[k] \in Slots
      BY <1>2
    <3>3. CASE slot' = slot
      BY <3>3
    <3>4. CASE slot' = [slot EXCEPT ![mine[k]].phase = "Active"]
      BY <3>2, <3>4 DEF Tokens
    <3> QED BY <3>1, <3>3, <3>4
  <2>2. \A s \in Slots : slot[s].pid = k => HasSlot(k) /\ mine[k] = s
    BY <1>1, AllOwned, NoSlot
  <2>3. HasSlot(k) => HasSlot(k)'
    <3>1. CASE kpc[k] = "activate"
      <4>1. kpc'[k] = "leave" /\ token'[k] = Token(slot[mine[k]].generation, k, "Active")
        BY <3>1, <1>1, <1>2
      <4>2. token'[k] # NoToken
        BY <4>1 DEF Token, NoToken
      <4> QED BY <4>1, <4>2 DEF HasSlot
    <3>2. CASE kpc[k] = "leave"
      BY <3>2, <1>1, <1>2 DEF HasSlot, Joined, Receiving
    <3>3. CASE kpc[k] = "joined"
      BY <3>3, <1>1, <1>2 DEF HasSlot, Joined, Receiving
    <3> QED BY <3>1, <3>2, <3>3, <1>4
  <2> QED BY <2>1, <2>2, <2>3, <1>1, <1>5, AllOwned, SlotsOwned
<1> QED BY <1>1, <1>5, <1>7, <1>10, <1>11, CursorsBehind, ClientStep

\* The subscriber is destroyed and its slot given up.
LEMMA LeaveInd ==
  ASSUME DeliveryInv, RegInv, NEW k \in Clients, ReleaseConsumer(k) \/ MarkReleasing(k)
  PROVE  DeliveryInv'
<1>1. Registered(k) /\ ClientInv(k) /\ alive[k] /\ k \in LiveClients
  BY DEF ReleaseConsumer, MarkReleasing, Step, RegInv, DeliveryInv, LiveClients
<1>2. /\ kpc \in [Clients -> {"out", "joined"} \cup Gated \cup Receiving]
      /\ slot \in [Slots -> Tokens] /\ token \in [Clients -> Tokens]
      /\ mine[k] \in Slots /\ rx \in [Clients -> [Producers -> Kept]]
      /\ held \in [Clients -> SUBSET Given]
  BY DEF RegInv, RegTypes, DeliveryInv, RxTypes
<1>3. kpc[k] = "closing" => HasConsumer(k)
  BY <1>1 DEF Registered, Joined, Subscribed
<1>4. /\ UNCHANGED <<ringVars, producerVars, cursor, last_hit, mine, alive>>
      /\ \/ /\ kpc[k] \in {"open", "holding", "polling"}
            /\ kpc' = [kpc EXCEPT ![k] = "closing"]
            /\ slot' = slot /\ token' = token
            /\ rx' = [rx EXCEPT ![k] = NoRx] /\ held' = [held EXCEPT ![k] = {}]
         \/ /\ kpc[k] = "closing" /\ kpc' = [kpc EXCEPT ![k] = "freeing"]
            /\ slot' = [slot EXCEPT ![mine[k]].phase = "Releasing"]
            /\ token' = [token EXCEPT ![k] = NoToken] /\ rx' = rx /\ held' = held
  BY <1>3 DEF ReleaseConsumer, MarkReleasing, Step, rxVars
<1>5. \A j \in Clients \ {k} : UNCHANGED <<kpc[j], mine[j], token[j], rx[j], held[j]>>
  BY <1>2, <1>4
<1>6. kpc'[k] \in {"closing", "freeing"} /\ held'[k] = {}
  BY <1>1, <1>2, <1>4 DEF ClientInv, Holds
<1>7. RxTypes'
  <2>1. NoRx \in [Producers -> Kept]
    BY DEF NoRx, Kept
  <2>2. rx' \in [Clients -> [Producers -> Kept]]
    BY <2>1, <1>2, <1>4
  <2>3. held' \in [Clients -> SUBSET Given]
    BY <1>2, <1>4
  <2> QED BY <2>2, <2>3, <1>4 DEF DeliveryInv, RxTypes
<1>8. ClientInv(k)'
  <2>1. Quiet(k)' /\ Holds(k)'
    BY <1>6 DEF Quiet, Holds
  <2>2. CASE kpc'[k] = "freeing"
    BY <2>1, <2>2 DEF ClientInv, Subscribing, Joined, Receiving
  <2>3. CASE kpc'[k] = "closing"
    <3>1. Subscribing(k)
      BY <2>3, <1>2, <1>4 DEF Subscribing, Joined, Receiving
    <3>2. \A q \in Producers : Windowed(q, mine[k])'
      BY <3>1, <1>1, <1>4 DEF ClientInv, Windowed, producerVars
    <3> QED BY <2>1, <2>3, <3>2 DEF ClientInv
  <2> QED BY <2>2, <2>3, <1>6
<1>9. \A s \in Slots : SlotOwned(s)'
  <2>1. \A s \in Slots : slot'[s].pid = slot[s].pid
    BY <1>2, <1>4 DEF Tokens
  <2>2. \A s \in Slots : slot[s].pid = k => mine[k] = s
    BY <1>1, AllOwned, NoSlot
  <2>3. HasSlot(k)'
    BY <1>6 DEF HasSlot, Joined
  <2> QED BY <2>1, <2>2, <2>3, <1>4, <1>5, AllOwned, SlotsOwned
<1> QED BY <1>1, <1>4, <1>5, <1>7, <1>8, <1>9, CursorsBehind, ClientStep

\* A client dies.
LEMMA ClientDiesInd ==
  ASSUME DeliveryInv, RegInv, NEW k \in Clients, ClientDies(k)
  PROVE  DeliveryInv'
<1>1. /\ UNCHANGED <<ringVars, producerVars, cursor, slot>>
      /\ alive' = [alive EXCEPT ![k] = FALSE]
      /\ kpc' = [kpc EXCEPT ![k] = "out"] /\ token' = [token EXCEPT ![k] = NoToken]
      /\ mine' = [mine EXCEPT ![k] = 0] /\ rx' = [rx EXCEPT ![k] = NoRx]
      /\ held' = [held EXCEPT ![k] = {}] /\ last_hit' = [last_hit EXCEPT ![k] = 0]
  BY DEF ClientDies
<1>2. /\ kpc \in [Clients -> {"out", "joined"} \cup Gated \cup Receiving]
      /\ token \in [Clients -> Tokens] /\ mine \in [Clients -> Slots]
      /\ rx \in [Clients -> [Producers -> Kept]] /\ held \in [Clients -> SUBSET Given]
      /\ last_hit \in [Clients -> Producers] /\ alive \in [Processes -> BOOLEAN]
      /\ k \in Processes
  BY Names DEF RegInv, RegTypes, DeliveryInv, RxTypes
<1>3. \A j \in Clients \ {k} : UNCHANGED <<kpc[j], mine[j], token[j], rx[j], held[j]>>
  BY <1>1, <1>2
<1>4. /\ \A x \in Processes \ {k} : alive'[x] = alive[x]
      /\ ~alive'[k] /\ held'[k] = {}
  BY <1>1, <1>2
<1>5. RxTypes'
  <2>1. NoRx \in [Producers -> Kept]
    BY DEF NoRx, Kept
  <2>2. 0 \in Producers
    BY ChannelAssumption DEF Producers
  <2>3. rx' \in [Clients -> [Producers -> Kept]]
    BY <2>1, <1>1, <1>2
  <2>4. held' \in [Clients -> SUBSET Given] /\ last_hit' \in [Clients -> Producers]
    BY <2>2, <1>1, <1>2
  <2> QED BY <2>3, <2>4, <1>1 DEF DeliveryInv, RxTypes
<1>6. \A s \in Slots : SlotOwned(s)'
  BY <1>1, <1>3, <1>4, AllOwned, SlotsOwned
<1> QED BY <1>1, <1>3, <1>4, <1>5, <1>6, CursorsBehind, ClientStep

=============================================================================
