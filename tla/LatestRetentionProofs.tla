------------------------- MODULE LatestRetentionProofs -------------------------
(***************************************************************************)
(* Proofs about LatestRetention for every ring, retention capacity, window *)
(* and number of readers.                                                  *)
(***************************************************************************)
EXTENDS LatestRetention, FiniteSetTheorems, WellFoundedInduction, TLAPS

-----------------------------------------------------------------------------
(* Facts about numbers *)

\* A set of naturals has a least element.  (Of the initial segments up to its
\* elements one is contained in no other: set inclusion is well-founded.)
LEMMA LeastNatural ==
  ASSUME NEW S, S \subseteq Nat, S # {}
  PROVE  \E x \in S : \A y \in S : x <= y
<1> DEFINE T == {0 .. n : n \in S}  R == StrictSubsetOrdering(Nat)
<1>1. T \subseteq FiniteSubsetsOf(Nat) /\ T # {}
  <2>1. ASSUME NEW n \in S PROVE 0 .. n \in FiniteSubsetsOf(Nat)
    <3>1. n \in Int /\ 0 .. n \subseteq Nat
      OBVIOUS
    <3>2. IsFiniteSet(0 .. n)
      BY <3>1, FS_Interval
    <3> QED BY <3>1, <3>2 DEF FiniteSubsetsOf
  <2> QED BY <2>1
<1>2. PICK I \in T : \A J \in T : <<J, I>> \notin R
  BY <1>1, WFMin, FS_StrictSubsetOrderingWellFounded
<1>3. PICK x \in S : I = 0 .. x
  BY <1>2
<1>4. ASSUME NEW y \in S, y < x PROVE FALSE
  <2>1. (0 .. y) \subseteq (0 .. x) /\ x \in 0 .. x /\ x \notin 0 .. y
    BY <1>4
  <2>2. <<0 .. y, I>> \in R
    BY <2>1, <1>3, <1>1 DEF StrictSubsetOrdering
  <2> QED BY <2>2, <1>2
<1> QED BY <1>4

\* Min and Max are what they are called, for naturals below a bound.
LEMMA MinNatural ==
  ASSUME NEW S, S \subseteq Nat, S # {}
  PROVE  Min(S) \in S /\ \A y \in S : Min(S) <= y
<1>1. \E x \in S : \A y \in S : x <= y
  BY LeastNatural
<1> QED BY <1>1 DEF Min

\* The greatest of some naturals up to n.
LEMMA MaxNatural ==
  ASSUME NEW n \in Nat, NEW S, S \subseteq 0 .. n, S # {}
  PROVE  Max(S) \in S /\ \A y \in S : y <= Max(S)
<1> DEFINE T == {n - x : x \in S}
<1>1. T \subseteq Nat /\ T # {}
  <2>1. \A x \in S : x \in 0 .. n /\ n - x \in Nat
    OBVIOUS
  <2> QED BY <2>1
<1>2. PICK t \in T : \A y \in T : t <= y
  BY <1>1, LeastNatural
<1>3. PICK x \in S : t = n - x
  BY <1>2
<1>4. \A y \in S : y \in Nat /\ n - y \in T
  OBVIOUS
<1> HIDE DEF T
<1>5. \A y \in S : x >= y
  BY <1>2, <1>3, <1>4
<1>6. \E z \in S : \A y \in S : z >= y
  BY <1>5
<1> QED BY <1>6, <1>4 DEF Max

\* The greatest of one number.
LEMMA MaxSingleton == \A n \in Nat : Max({n}) = n
<1> SUFFICES ASSUME NEW n \in Nat PROVE Max({n}) = n
  OBVIOUS
<1>1. {n} \subseteq 0 .. n /\ {n} # {}
  OBVIOUS
<1> QED BY <1>1, MaxNatural

\* Positions of one window share no unit.
LEMMA UnitsDiffer ==
  ASSUME NEW m \in Nat, NEW n \in Nat, m < n, n < m + Cap
  PROVE  Unit(m) # Unit(n)
<1> DEFINE q == m \div Cap  r == n \div Cap
<1>1. /\ Cap \in Nat /\ Cap > 0
      /\ m = Cap * q + (m % Cap) /\ n = Cap * r + (n % Cap)
      /\ q \in Nat /\ r \in Nat
  BY RetentionAssumption
<1>2. SUFFICES ASSUME m % Cap = n % Cap PROVE FALSE
  BY DEF Unit
<1>3. n - m = Cap * r - Cap * q
  BY <1>1, <1>2
<1>4. n - m = Cap * (r - q)
  BY <1>1, <1>3
<1>5. CASE r <= q
  <2>1. Cap * (r - q) <= 0
    BY <1>1, <1>5
  <2> QED BY <2>1, <1>4
<1>6. CASE r >= q + 1
  <2>1. Cap * (r - q) >= Cap
    BY <1>1, <1>6
  <2> QED BY <2>1, <1>4, <1>1
<1> QED BY <1>1, <1>5, <1>6

\* Every position has a unit.
LEMMA UnitType == \A n \in Nat : Unit(n) \in 0 .. Cap - 1
BY RetentionAssumption DEF Unit

\* One ring further on is the same unit.
LEMMA UnitWraps == \A n \in Nat : Unit(n + Cap) = Unit(n)
<1> SUFFICES ASSUME NEW n \in Nat PROVE (n + Cap) % Cap = n % Cap
  BY DEF Unit
<1> DEFINE q == n \div Cap  r == (n + Cap) \div Cap
<1>1. /\ Cap \in Nat /\ Cap > 0 /\ q \in Nat /\ r \in Nat
      /\ n = Cap * q + (n % Cap) /\ n + Cap = Cap * r + ((n + Cap) % Cap)
      /\ n % Cap \in 0 .. Cap - 1 /\ (n + Cap) % Cap \in 0 .. Cap - 1
  BY RetentionAssumption
<1> HIDE DEF q, r
<1>2. ((n + Cap) % Cap) - (n % Cap) = Cap * (q + 1 - r)
  BY <1>1
<1>3. CASE q + 1 > r
  <2>1. Cap * (q + 1 - r) >= Cap
    BY <1>1, <1>3
  <2> QED BY <2>1, <1>1, <1>2
<1>4. CASE q + 1 < r
  <2>1. Cap * (q + 1 - r) <= -Cap
    BY <1>1, <1>4
  <2> QED BY <2>1, <1>1, <1>2
<1>5. CASE q + 1 = r
  BY <1>5, <1>1, <1>2
<1> QED BY <1>1, <1>3, <1>4, <1>5

-----------------------------------------------------------------------------
(* The inductive invariant *)

\* Frames follow each other, and each takes at least one unit.
Layout ==
  /\ \A n \in 0 .. Len(frames) - 1 : Start(n + 1) = Start(n) + frames[n + 1].len
  /\ \A m, n \in 0 .. Len(frames) : m <= n => n - m <= Start(n) - Start(m)

\* Where frames start, and where the next one will.
Starts == {Start(n) : n \in 0 .. Len(frames)}

\* Open claims are of frames that exist, from the visible position on.
Claims ==
  /\ visible \in Starts
  /\ \A c \in open : /\ c.first + c.count <= Len(frames)
                     /\ visible <= Start(c.first)

\* Frame n is of no open claim.
Committed(n) == \A c \in open : n \notin c.first .. c.first + c.count - 1

\* A committed frame keeps its header until a claim reaches its bytes.
Headers ==
  \A n \in 0 .. Len(frames) - 1 :
    Committed(n) /\ ProducerPos <= Start(n) + Cap
      => header[Unit(Start(n))] = Header(n, frames[n + 1].len)

\* Where the publisher has announced a floor.
Announcing == {"scan", "scan_end", "evict", "evicted", "blocked"}

\* claim_batch() searches between what has fitted and what has not.
Search ==
  /\ ppc = "idle" => search.low = 0
  /\ ppc = "take" => search.now = search.low /\ search.low > 0
  /\ ppc \in Announcing \cup {"prepare"} =>
       search.low < search.now /\ search.now <= search.high
  /\ ppc # "idle" => /\ Len(frames) + search.high <= MaxFrames
                     /\ search.low <= search.high
                     /\ ask.len \in FrameLens

\* The ring with count more frames of the length asked for.
After(count) == ProducerPos + ask.len * count

\* With count more frames, the youngest frame below floor number n had to go.
Needed(n, count) ==
  n > 0 => \/ After(count) - Start(n - 1) > RetentionCapacity
           \/ MessageWindow # 0 /\ Len(frames) + count - (n - 1) > MessageWindow

\* The floor leaves room for what has fitted, and for no more than that.
Floored ==
  /\ retained.messages <= Len(frames)
  /\ retained.position = Start(retained.messages)
  /\ retained.position <= visible
  /\ After(search.low) <= retained.position + RetentionCapacity
  /\ ppc # "evicted" => Needed(retained.messages, search.low)

\* The announced floor leaves room for what is tried now, and for no more.
Announced ==
  /\ ppc \notin Announcing => intent = NoLease
  /\ ppc \in Announcing =>
       /\ intent = target.position
       /\ target.messages \in retained.messages .. Len(frames)
       /\ target.position = Start(target.messages)
       /\ target.position <= visible
       /\ After(search.now) <= target.position + RetentionCapacity
       /\ Needed(target.messages, search.now)
  /\ ppc = "evicted" => retained = target
  /\ ppc \in {"scan", "scan_end"} => scan \in Readers

\* A live Reliable reader is not behind the floor, nor behind the one about to be
\* stored.
KeptOf(r) ==
  r \in Reliable /\ alive[r] =>
    /\ retained.position <= rx[r].read
    /\ ppc \in {"scan", "scan_end", "evict"} =>
         target = retained \/ target.position <= cursor[r].position

\* A reader has not read past what exists nor published more than it has read.
CursorOf(r) ==
  /\ rx[r].next <= Len(frames)
  /\ rx[r].read = Start(rx[r].next)
  /\ cursor[r].position <= rx[r].read

\* What a reader has loaded was true once, and the floor only moves up.
LoadedBy(r) ==
  /\ rpc[r] # "idle" => /\ snap[r].retained \in Starts
                        /\ snap[r].retained <= retained.position
  /\ rpc[r] \in {"lease", "lease_from", "check", "check_floor", "reading"} =>
       /\ snap[r].visible \in Starts
       /\ snap[r].visible <= visible
       /\ LeaseFrom(r) < snap[r].visible
       /\ Lagged(r) => r \notin Reliable

\* The lease announced by a live reader.
LeaseOf(r) ==
  alive[r] =>
    /\ rpc[r] \in {"lease_from", "check", "check_floor", "reading"} =>
         lease_end[r] = snap[r].visible
    /\ rpc[r] \in {"check", "check_floor", "reading"} => lease_start[r] = LeaseFrom(r)
    /\ rpc[r] \in {"holding", "polling"} =>
         0 <= lease_start[r] /\ lease_start[r] < lease_end[r] /\ lease_end[r] <= visible

\* The publisher has looked at the lease of reader r, or need not any more.
Passed(r) == \/ ppc \in {"evict", "evicted"}
             \/ ppc \in {"scan", "scan_end"} /\ scan > r

\* Nothing the publisher has room for, or is about to make room for, reaches the
\* lease of reader r.
Covered(r) ==
  /\ After(search.low) <= lease_start[r] + Cap
  /\ Passed(r) => After(search.now) <= lease_start[r] + Cap
  /\ ppc = "scan_end" /\ scan = r =>
       \/ seen_start = lease_start[r]
       \/ After(search.now) <= lease_start[r] + Cap

\* A lease that has been checked is covered; so is one whose check will pass.
Handshake(r) ==
  alive[r] =>
    /\ rpc[r] \in {"reading", "holding", "polling"} => Covered(r)
    /\ rpc[r] = "check_floor" =>
         \/ Covered(r)
         \/ snap[r].intent > lease_start[r]
         \/ snap[r].retained < retained.position

\* What a reader has been given lies under its lease and is committed.
HeldBy(r) ==
  /\ rpc[r] \notin {"holding", "polling"} => held[r] = {}
  /\ alive[r] => \A m \in held[r] : /\ m.sequence < Len(frames)
                                    /\ m.position = Start(m.sequence)
                                    /\ lease_start[r] <= m.position
                                    /\ m.position < visible
  /\ rpc[r] = "holding" =>
       /\ held[r] = {[position |-> rx[r].read, sequence |-> rx[r].next]}
       /\ rx[r].next < Len(frames)
       /\ lease_end[r] = Start(rx[r].next + 1)

\* What holds of reader r, dead or alive.
ReaderInv(r) ==
  KeptOf(r) /\ CursorOf(r) /\ LoadedBy(r) /\ LeaseOf(r) /\ Handshake(r) /\ HeldBy(r)

\* The inductive invariant.
IndInv ==
  /\ TypeOK /\ Layout /\ Claims /\ Headers
  /\ Search /\ Floored /\ Announced
  /\ \A r \in Readers : ReaderInv(r)

-----------------------------------------------------------------------------
(* What a reader finds by going from header to header *)

\* A number below Period behind the next one is known by its low bits.
LEMMA LowBits ==
  ASSUME NEW k \in Nat, NEW n \in Nat, k < n, n < k + Period
  PROVE  LET s == n - (n % Period) + (k % Period)
         IN  (IF s >= n /\ s >= Period THEN s - Period ELSE s) = k
<1> DEFINE q == n \div Period  r == k \div Period
           b == n % Period  a == k % Period
<1>1. /\ Period \in Nat /\ Period > 0 /\ q \in Nat /\ r \in Nat
      /\ n = Period * q + b /\ k = Period * r + a
      /\ a \in 0 .. Period - 1 /\ b \in 0 .. Period - 1
  BY RetentionAssumption
<1> HIDE DEF q, r, a, b
<1>2. n - k = Period * (q - r) + (b - a)
  BY <1>1
<1>3. CASE q < r
  <2>1. Period * (q - r) <= -Period
    BY <1>1, <1>3
  <2> QED BY <2>1, <1>1, <1>2
<1>4. CASE q > r + 1
  <2>1. Period * (q - r) >= Period * 2
    BY <1>1, <1>4
  <2> QED BY <2>1, <1>1, <1>2
<1>5. CASE q = r
  <2>1. Period * q = Period * r
    BY <1>5
  <2>2. n - b + a = k
    BY <2>1, <1>1
  <2> QED BY <2>2, <1>1 DEF a, b
<1>6. CASE q = r + 1
  <2>1. Period * q = Period * r + Period
    BY <1>6, <1>1
  <2>2. n - b + a = k + Period /\ n - b + a >= n /\ n - b + a >= Period
    BY <2>1, <1>1
  <2> QED BY <2>2, <1>1 DEF a, b
<1>7. q < r \/ q > r + 1 \/ q = r \/ q = r + 1
  BY <1>1
<1> QED BY <1>3, <1>4, <1>5, <1>6, <1>7

\* f is the walk over headers h that begins at position x.
Walk(f, h, x) ==
  f = [j \in 0 .. Cap |-> IF j = 0 THEN x ELSE f[j - 1] + h[Unit(f[j - 1])].len]

\* Such a walk exists, whatever the headers say and wherever it begins.
LEMMA WalkExists == \A h, x : \E f : Walk(f, h, x)
<1> TAKE h, x
<1> SUFFICES \E f : f = [j \in 0 .. Cap |->
                           IF j = 0 THEN x ELSE f[j - 1] + h[Unit(f[j - 1])].len]
  BY DEF Walk
<1> DEFINE Def(f, j) == IF j = 0 THEN x ELSE f[j - 1] + h[Unit(f[j - 1])].len
           Good(n) == \E f : f = [j \in 0 .. n |-> Def(f, j)]
           Bad == {n \in Nat : ~Good(n)}
<1>1. SUFFICES ASSUME Bad # {} PROVE FALSE
  BY RetentionAssumption
<1>2. PICK n \in Bad : \A k \in Bad : n <= k
  BY <1>1, LeastNatural
<1>3. n # 0
  <2>1. Good(0)
    <3> DEFINE f == [j \in 0 .. 0 |-> x]
    <3>1. f = [j \in 0 .. 0 |-> Def(f, j)]
      OBVIOUS
    <3> QED BY <3>1
  <2> QED BY <2>1, <1>2
<1>4. n - 1 \in Nat /\ Good(n - 1)
  BY <1>2, <1>3
<1>5. PICK f : f = [j \in 0 .. n - 1 |-> Def(f, j)]
  BY <1>4
<1> DEFINE g == [j \in 0 .. n |->
                   IF j < n THEN f[j] ELSE f[n - 1] + h[Unit(f[n - 1])].len]
<1>6. g = [j \in 0 .. n |-> Def(g, j)]
  <2>1. ASSUME NEW j \in 0 .. n PROVE g[j] = Def(g, j)
    <3>1. CASE j = 0
      <4>1. 0 \in 0 .. n - 1 /\ 0 < n
        BY <1>4
      <4>2. f[0] = x
        BY <4>1, <1>5
      <4> QED BY <3>1, <4>1, <4>2
    <3>2. CASE j # 0 /\ j < n
      <4>1. j \in 0 .. n - 1 /\ j - 1 \in 0 .. n /\ j - 1 < n
        BY <3>2, <1>4
      <4>2. g[j] = f[j] /\ g[j - 1] = f[j - 1]
        BY <4>1, <3>2
      <4>3. f[j] = Def(f, j)
        BY <4>1, <1>5
      <4> QED BY <4>2, <4>3
    <3>3. CASE j = n
      BY <3>3, <1>3, <1>4
    <3> QED BY <3>1, <3>2, <3>3
  <2> QED BY <2>1
<1> QED BY <1>6, <1>2

\* Positions(r) begins at the lease and goes on by the lengths it finds.
LEMMA PositionsStep ==
  ASSUME NEW r
  PROVE  /\ Positions(r)[0] = LeaseFrom(r)
         /\ \A j \in 1 .. Cap : Positions(r)[j] =
              Positions(r)[j - 1] + header[Unit(Positions(r)[j - 1])].len
<1> DEFINE w == Positions(r)
<1>1. w = [j \in 0 .. Cap |->
             IF j = 0 THEN LeaseFrom(r) ELSE w[j - 1] + header[Unit(w[j - 1])].len]
  <2>1. \E f : Walk(f, header, LeaseFrom(r))
    BY WalkExists
  <2> QED BY <2>1 DEF Positions, Walk
<1> HIDE DEF w
<1>2. \A j \in 0 .. Cap : w[j] =
        IF j = 0 THEN LeaseFrom(r) ELSE w[j - 1] + header[Unit(w[j - 1])].len
  BY <1>1
<1>3. 0 \in 0 .. Cap /\ \A j \in 1 .. Cap : j \in 0 .. Cap /\ j # 0
  BY RetentionAssumption
<1>4. w[0] = LeaseFrom(r) /\ \A j \in 1 .. Cap : w[j] =
        w[j - 1] + header[Unit(w[j - 1])].len
  BY <1>2, <1>3
<1> QED BY <1>4 DEF w

\* Whatever the headers say, the walk does not go back.
LEMMA PositionsRise ==
  ASSUME RingTypes, NEW r, LeaseFrom(r) \in Nat
  PROVE  \A j \in 0 .. Cap : /\ Positions(r)[j] \in Nat
                             /\ \A i \in 0 .. j : Positions(r)[i] <= Positions(r)[j]
<1> DEFINE w == Positions(r)
           Good(j) == w[j] \in Nat /\ \A i \in 0 .. j : w[i] <= w[j]
           Bad == {j \in 0 .. Cap : ~Good(j)}
<1>1. SUFFICES ASSUME Bad # {} PROVE FALSE
  OBVIOUS
<1>2. Bad \subseteq Nat
  OBVIOUS
<1>3. PICK n \in Bad : \A k \in Bad : n <= k
  BY <1>1, <1>2, LeastNatural
<1> HIDE DEF w
<1>0. Cap \in Nat
  BY RetentionAssumption
<1>4. n # 0
  <2>1. w[0] \in Nat
    BY PositionsStep DEF w
  <2>2. Good(0)
    BY <2>1
  <2> QED BY <2>2, <1>3
<1>5. n \in 1 .. Cap /\ n - 1 \in 0 .. Cap /\ n - 1 \notin Bad
  <2>1. n \in 1 .. Cap /\ n - 1 \in 0 .. Cap
    BY <1>0, <1>3, <1>4
  <2>2. n - 1 < n
    BY <2>1
  <2> QED BY <2>1, <2>2, <1>3
<1>6. Good(n - 1)
  BY <1>5
<1>7. header[Unit(w[n - 1])].len \in Nat
  BY <1>6, UnitType DEF RingTypes
<1>8. w[n] = w[n - 1] + header[Unit(w[n - 1])].len
  BY <1>5, PositionsStep DEF w
<1>9. w[n] \in Nat /\ w[n - 1] <= w[n]
  BY <1>6, <1>7, <1>8
<1>10. ASSUME NEW i \in 0 .. n PROVE w[i] <= w[n]
  <2>1. CASE i = n
    BY <2>1, <1>9
  <2>2. CASE i # n
    <3>1. i \in 0 .. n - 1
      BY <2>2, <1>5, <1>0
    <3>2. w[i] <= w[n - 1] /\ w[i] \in Nat
      <4>1. i \in 0 .. Cap /\ i < n
        BY <3>1, <1>5, <1>0
      <4>2. i \notin Bad
        BY <4>1, <1>3, <1>5
      <4> QED BY <3>1, <1>6, <4>1, <4>2
    <3> QED BY <3>2, <1>9, <1>6
  <2> QED BY <2>1, <2>2
<1>11. Good(n)
  BY <1>9, <1>10
<1> QED BY <1>11, <1>3

\* Frames start where they are, in their order.
LEMMA StartFacts ==
  ASSUME RingTypes, Layout
  PROVE  /\ Len(frames) \in Nat /\ ProducerPos = Start(Len(frames))
         /\ \A n \in 0 .. Len(frames) : Start(n) \in Nat /\ Start(n) <= ProducerPos
         /\ \A n \in 0 .. Len(frames) - 1 :
              /\ frames[n + 1].len \in Nat \ {0}
              /\ Start(n + 1) = Start(n) + frames[n + 1].len
         /\ \A m, n \in 0 .. Len(frames) :
              /\ m <= n => n - m <= Start(n) - Start(m)
              /\ m < n <=> Start(m) < Start(n)
              /\ m = n <=> Start(m) = Start(n)
<1>1. Len(frames) \in Nat /\ ProducerPos = Start(Len(frames))
  BY DEF RingTypes, ProducerPos
<1>2. \A n \in 1 .. Len(frames) : frames[n] \in [start : Nat, len : Nat \ {0}]
  <2> DEFINE F == [start : Nat, len : Nat \ {0}]
  <2>1. frames \in Seq(F)
    BY DEF RingTypes
  <2> HIDE DEF F
  <2>2. \A n \in 1 .. Len(frames) : frames[n] \in F
    BY <2>1
  <2> QED BY <2>2 DEF F
<1>3. ASSUME NEW n \in 0 .. Len(frames) PROVE Start(n) \in Nat
  <2>1. CASE n < Len(frames)
    <3>1. n + 1 \in 1 .. Len(frames) /\ Start(n) = frames[n + 1].start
      BY <1>1, <2>1 DEF Start
    <3> QED BY <3>1, <1>2
  <2>2. CASE n = Len(frames) /\ n = 0
    BY <2>2 DEF Start
  <2>3. CASE n = Len(frames) /\ n # 0
    <3>1. n \in 1 .. Len(frames) /\ Start(n) = frames[n].start + frames[n].len
      BY <1>1, <2>3 DEF Start
    <3> QED BY <3>1, <1>2
  <2> QED BY <1>1, <2>1, <2>2, <2>3
<1>4. \A n \in 0 .. Len(frames) - 1 :
        /\ frames[n + 1].len \in Nat \ {0}
        /\ Start(n + 1) = Start(n) + frames[n + 1].len
  BY <1>1, <1>2 DEF Layout
<1>5. \A m, n \in 0 .. Len(frames) : m <= n => n - m <= Start(n) - Start(m)
  BY DEF Layout
<1>6. ASSUME NEW m \in 0 .. Len(frames), NEW n \in 0 .. Len(frames)
      PROVE  /\ m < n <=> Start(m) < Start(n)
             /\ m = n <=> Start(m) = Start(n)
  <2>1. Start(m) \in Nat /\ Start(n) \in Nat
    BY <1>3
  <2>2. m <= n => n - m <= Start(n) - Start(m)
    BY <1>5
  <2>3. n <= m => m - n <= Start(m) - Start(n)
    BY <1>5
  <2> QED BY <2>1, <2>2, <2>3
<1>7. ASSUME NEW n \in 0 .. Len(frames) PROVE Start(n) <= ProducerPos
  <2>1. Len(frames) \in 0 .. Len(frames) /\ n <= Len(frames)
    BY <1>1
  <2>2. Len(frames) - n <= Start(Len(frames)) - Start(n)
    BY <2>1, <1>5
  <2> QED BY <2>1, <2>2, <1>1, <1>3
<1> QED BY <1>1, <1>3, <1>4, <1>5, <1>6, <1>7

\* A frame below the visible position is of no open claim.
LEMMA VisibleCommitted ==
  ASSUME RingTypes, Layout, Claims, NEW n \in 0 .. Len(frames) - 1, Start(n) < visible
  PROVE  Committed(n)
<1>1. Len(frames) \in Nat /\ visible \in Nat
  BY StartFacts DEF RingTypes
<1>2. ASSUME NEW c \in open, n \in c.first .. c.first + c.count - 1 PROVE FALSE
  <2>1. c.first \in Nat /\ c.count \in Nat
    <3>1. c \in [first : 0 .. MaxFrames, count : 0 .. MaxBatch]
      BY DEF RingTypes
    <3> QED BY <3>1, RetentionAssumption
  <2>2. visible <= Start(c.first) /\ c.first + c.count <= Len(frames)
    BY DEF Claims
  <2>3. c.first \in 0 .. Len(frames) /\ n \in 0 .. Len(frames) /\ c.first <= n /\ n \in Nat
    BY <1>1, <1>2, <2>1, <2>2
  <2>4. Start(n) \in Nat /\ Start(c.first) \in Nat
    BY <2>3, StartFacts
  <2>5. Start(n) < Start(c.first)
    BY <1>1, <2>2, <2>4
  <2>6. n < c.first
    BY <2>3, <2>5, StartFacts
  <2> QED BY <2>1, <2>3, <2>6
<1> QED BY <1>2 DEF Committed

\* Committed frames of one window lead from one to the next.
LEMMA Walked ==
  ASSUME RingTypes, Layout, Claims, Headers, NEW r,
         NEW k \in 0 .. Len(frames), NEW v \in 0 .. Len(frames),
         k <= v, Start(v) <= visible, LeaseFrom(r) = Start(k),
         ProducerPos <= Start(k) + Cap
  PROVE  /\ v - k <= Cap
         /\ \A j \in 0 .. v - k : Positions(r)[j] = Start(k + j)
         /\ \A j \in 0 .. v - k - 1 :
              header[Unit(Start(k + j))] = Header(k + j, frames[k + j + 1].len)
<1>0. /\ Cap \in Nat /\ visible \in Nat
      /\ \A c \in open : c.first \in Nat /\ c.count \in Nat
      /\ Len(frames) \in Nat /\ ProducerPos \in Nat /\ ProducerPos = Start(Len(frames))
      /\ Start(k) \in Nat /\ Start(v) \in Nat
  <2>1. open \subseteq [first : 0 .. MaxFrames, count : 0 .. MaxBatch]
    BY DEF RingTypes
  <2>2. \A c \in open : c.first \in Nat /\ c.count \in Nat
    BY <2>1, RetentionAssumption
  <2>3. Len(frames) \in Nat /\ Len(frames) \in 0 .. Len(frames)
    BY StartFacts
  <2>4. Start(k) \in Nat /\ Start(v) \in Nat /\ Start(Len(frames)) \in Nat
    BY <2>3, StartFacts
  <2>5. ProducerPos = Start(Len(frames))
    BY DEF ProducerPos
  <2>6. Cap \in Nat /\ visible \in Nat
    BY RetentionAssumption DEF RingTypes
  <2> QED BY <2>2, <2>3, <2>4, <2>5, <2>6
<1>1. v - k <= Cap
  <2>1. v - k <= Start(v) - Start(k) /\ Start(v) <= ProducerPos
    BY StartFacts
  <2> QED BY <2>1, <1>0
<1>2. ASSUME NEW j \in 0 .. v - k - 1
      PROVE  header[Unit(Start(k + j))] = Header(k + j, frames[k + j + 1].len)
  <2>1. /\ k + j \in 0 .. Len(frames) - 1 /\ k + j \in 0 .. Len(frames)
        /\ k + j < v /\ k <= k + j /\ Len(frames) \in Nat
    BY StartFacts
  <2>2. Start(k + j) < visible
    <3>1. Start(k + j) < Start(v)
      BY <2>1, StartFacts
    <3>2. Start(k + j) \in Nat /\ Start(v) \in Nat /\ visible \in Nat
      BY <2>1, StartFacts DEF RingTypes
    <3> QED BY <3>1, <3>2
  <2>4. Committed(k + j)
    BY <2>1, <2>2, VisibleCommitted
  <2>5. ProducerPos <= Start(k + j) + Cap
    <3>1. Start(k) <= Start(k + j)
      <4>1. k < k + j \/ k + j = k
        BY <2>1
      <4>2. Start(k) < Start(k + j) \/ Start(k + j) = Start(k)
        BY <4>1, <2>1, StartFacts
      <4>3. Start(k) \in Nat /\ Start(k + j) \in Nat
        BY <2>1, <1>0, StartFacts
      <4> QED BY <4>2, <4>3
    <3>2. Start(k + j) \in Nat
      BY <2>1, StartFacts
    <3> QED BY <3>1, <3>2, <1>0
  <2> QED BY <2>1, <2>4, <2>5 DEF Headers
<1> DEFINE w == Positions(r)
           Bad == {j \in 0 .. v - k : w[j] # Start(k + j)}
<1>3. Bad = {}
  <2>1. SUFFICES ASSUME Bad # {} PROVE FALSE
    OBVIOUS
  <2>2. Bad \subseteq Nat
    OBVIOUS
  <2>3. PICK n \in Bad : \A i \in Bad : n <= i
    BY <2>1, <2>2, LeastNatural
  <2>4. n # 0
    BY <2>3, PositionsStep
  <2>5. /\ n \in 0 .. v - k /\ n - 1 \in 0 .. v - k - 1 /\ n \in 1 .. Cap
        /\ n - 1 \in 0 .. v - k /\ n - 1 < n
    BY <2>3, <2>4, <1>0, <1>1, StartFacts
  <2>6. w[n - 1] = Start(k + n - 1)
    <3>1. n - 1 \notin Bad
      BY <2>3, <2>5
    <3> QED BY <3>1, <2>5
  <2>7. header[Unit(Start(k + n - 1))].len = frames[k + n].len
    <3>1. k + (n - 1) = k + n - 1 /\ k + (n - 1) + 1 = k + n
      BY <2>5, StartFacts
    <3>2. header[Unit(Start(k + (n - 1)))]
            = Header(k + (n - 1), frames[k + (n - 1) + 1].len)
      BY <1>2, <2>5
    <3> QED BY <3>2, <3>1 DEF Header
  <2>8. Start(k + n) = Start(k + n - 1) + frames[k + n].len
    <3>1. k + n - 1 \in 0 .. Len(frames) - 1 /\ (k + n - 1) + 1 = k + n
      BY <2>5, StartFacts
    <3> QED BY <3>1, StartFacts
  <2>9. w[n] = w[n - 1] + header[Unit(w[n - 1])].len
    BY <2>5, PositionsStep
  <2>10. w[n] = Start(k + n)
    BY <2>6, <2>7, <2>8, <2>9
  <2> QED BY <2>10, <2>3
<1> QED BY <1>1, <1>2, <1>3

\* The greater of two.
LEMMA MaxPair == \A a, b \in Nat : Max({a, b}) = IF a < b THEN b ELSE a
<1> SUFFICES ASSUME NEW a \in Nat, NEW b \in Nat
             PROVE  Max({a, b}) = IF a < b THEN b ELSE a
  OBVIOUS
<1>1. {a, b} \subseteq 0 .. a + b /\ {a, b} # {} /\ a + b \in Nat
  OBVIOUS
<1> DEFINE m == Max({a, b})
<1>2. m \in {a, b} /\ \A y \in {a, b} : y <= m
  BY <1>1, MaxNatural
<1> HIDE DEF m
<1>3. m = IF a < b THEN b ELSE a
  BY <1>2
<1> QED BY <1>3 DEF m

\* The lease starts at the reader's position or, when it lagged, at the floor.
LEMMA LeaseStarts ==
  ASSUME TypeOK, NEW r \in Readers
  PROVE  /\ rx[r].read \in Nat /\ snap[r].retained \in Nat /\ snap[r].visible \in Nat
         /\ LeaseFrom(r) = IF Lagged(r) THEN snap[r].retained ELSE rx[r].read
         /\ LeaseFrom(r) \in Nat
         /\ rx[r].read <= LeaseFrom(r) /\ snap[r].retained <= LeaseFrom(r)
<1>1. rx[r].read \in Nat /\ snap[r].retained \in Nat /\ snap[r].visible \in Nat
  BY DEF TypeOK, ReaderTypes
<1>2. LeaseFrom(r) = IF Lagged(r) THEN snap[r].retained ELSE rx[r].read
  BY <1>1, MaxPair DEF LeaseFrom, Lagged
<1> QED BY <1>1, <1>2 DEF Lagged

\* More frames take no less room.
LEMMA AfterMore ==
  ASSUME NEW l \in Nat, NEW a \in Nat, NEW b \in Nat, a <= b
  PROVE  l * a \in Nat /\ l * b \in Nat /\ l * a <= l * b
<1>1. l * a \in Nat /\ l * b \in Nat /\ b - a \in Nat
  OBVIOUS
<1>2. l * (b - a) \in Nat
  BY <1>1
<1>3. l * b = l * a + l * (b - a)
  BY <1>1
<1> QED BY <1>1, <1>2, <1>3

\* The types of what the publisher counts with, and that more frames end no sooner.
LEMMA ProducerFacts ==
  ASSUME TypeOK, Layout
  PROVE  /\ Cap \in Nat /\ RetentionCapacity \in Nat /\ RetentionCapacity <= Cap
         /\ Cap > 0 /\ RetentionCapacity > 0
         /\ MessageWindow \in Nat /\ MaxFrames \in Nat /\ MaxBatch \in Nat
         /\ search.low \in Nat /\ search.high \in Nat /\ search.now \in Nat
         /\ ask.len \in Nat /\ ask.count \in Nat
         /\ ProducerPos \in Nat /\ visible \in Nat /\ Len(frames) \in Nat
         /\ retained.position \in Nat /\ retained.messages \in Nat
         /\ target.position \in Nat /\ target.messages \in Nat
         /\ \A n \in Nat : After(n) \in Nat /\ ProducerPos <= After(n)
         /\ \A m, n \in Nat : m <= n => After(m) <= After(n)
<1>1. /\ Cap \in Nat /\ RetentionCapacity \in Nat /\ RetentionCapacity <= Cap
      /\ Cap > 0 /\ RetentionCapacity > 0
      /\ MessageWindow \in Nat /\ MaxFrames \in Nat /\ MaxBatch \in Nat
  BY RetentionAssumption
<1>2. search.low \in Nat /\ search.high \in Nat /\ search.now \in Nat
  BY <1>1 DEF TypeOK, ProducerTypes
<1>3. ask.len \in Nat /\ ask.count \in Nat
  <2>1. ask \in [len : FrameLens \cup {0}, count : 0 .. MaxBatch]
    BY DEF TypeOK, ProducerTypes
  <2>2. FrameLens \subseteq Nat
    BY RetentionAssumption
  <2>3. ask.len \in FrameLens \cup {0} /\ ask.count \in 0 .. MaxBatch
    BY <2>1
  <2>4. ask.len \in Nat
    <3>1. ask.len \in FrameLens \/ ask.len = 0
      BY <2>3
    <3> QED BY <2>2, <3>1, 0 \in Nat
  <2>5. ask.count \in Nat
    BY <1>1, <2>3
  <2> QED BY <2>4, <2>5
<1>4. Len(frames) \in Nat /\ ProducerPos \in Nat /\ visible \in Nat
  <2>1. Len(frames) \in Nat /\ ProducerPos = Start(Len(frames))
    BY StartFacts DEF TypeOK
  <2>2. Start(Len(frames)) \in Nat
    BY <2>1, StartFacts DEF TypeOK
  <2> QED BY <2>1, <2>2 DEF TypeOK, RingTypes
<1>5. /\ retained.position \in Nat /\ retained.messages \in Nat
      /\ target.position \in Nat /\ target.messages \in Nat
  BY <1>1 DEF TypeOK, LeaseTypes, ProducerTypes
<1>6. ASSUME NEW n \in Nat PROVE After(n) \in Nat /\ ProducerPos <= After(n)
  <2>1. ask.len * n \in Nat
    BY <1>3
  <2> QED BY <2>1, <1>4 DEF After
<1>7. ASSUME NEW m \in Nat, NEW n \in Nat, m <= n PROVE After(m) <= After(n)
  <2>1. ask.len * m \in Nat /\ ask.len * n \in Nat /\ ask.len * m <= ask.len * n
    BY <1>3, <1>7, AfterMore
  <2> QED BY <2>1, <1>4 DEF After
<1> QED BY <1>1, <1>2, <1>3, <1>4, <1>5, <1>6, <1>7

\* Reader r has frames k to v - 1 under its lease.
ReadsFrom(r, k, v) ==
  /\ k < v /\ v - k <= Cap /\ Start(v) <= visible
  /\ LeaseFrom(r) = Start(k) /\ snap[r].visible = Start(v)
  /\ rx[r].next <= k /\ (~Lagged(r) => rx[r].next = k)
  /\ FirstSequence(r) = k
  /\ \A j \in 0 .. v - k : Positions(r)[j] = Start(k + j)
  /\ \A j \in 0 .. Cap : Readable(r, j) <=> j < v - k

\* A reader whose lease was checked finds the frames that were published.
LEMMA Reading ==
  ASSUME IndInv, NEW r \in Readers, alive[r], rpc[r] = "reading"
  PROVE  /\ ProducerPos <= LeaseFrom(r) + Cap
         /\ \E k \in 0 .. Len(frames) - 1, v \in 0 .. Len(frames) : ReadsFrom(r, k, v)
<1> USE DEF IndInv
<1>1. /\ rx[r].read \in Nat /\ snap[r].retained \in Nat /\ snap[r].visible \in Nat
      /\ LeaseFrom(r) = IF Lagged(r) THEN snap[r].retained ELSE rx[r].read
      /\ LeaseFrom(r) \in Nat
  BY LeaseStarts
<1>2. /\ snap[r].retained \in Starts /\ snap[r].visible \in Starts
      /\ snap[r].visible <= visible /\ LeaseFrom(r) < snap[r].visible
      /\ lease_start[r] = LeaseFrom(r)
  BY DEF ReaderInv, LoadedBy, LeaseOf
<1>3. /\ Len(frames) \in Nat /\ Cap \in Nat /\ ProducerPos \in Nat
      /\ ProducerPos = Start(Len(frames))
  BY ProducerFacts, StartFacts DEF TypeOK
<1>4. rx[r].next \in 0 .. Len(frames) /\ rx[r].read = Start(rx[r].next)
  <2>1. rx[r].next \in Nat
    BY RetentionAssumption DEF TypeOK, ReaderTypes
  <2> QED BY <2>1, <1>3 DEF ReaderInv, CursorOf
<1>5. ProducerPos <= LeaseFrom(r) + Cap
  <2>1. After(search.low) <= LeaseFrom(r) + Cap
    BY <1>2 DEF ReaderInv, Handshake, Covered
  <2>2. /\ After(search.low) \in Nat /\ ProducerPos <= After(search.low)
        /\ Cap \in Nat /\ ProducerPos \in Nat
    BY ProducerFacts
  <2> QED BY <2>1, <2>2, <1>1
<1>6. PICK k \in 0 .. Len(frames) :
        LeaseFrom(r) = Start(k) /\ (~Lagged(r) => rx[r].next = k)
  <2>1. CASE Lagged(r)
    BY <2>1, <1>1, <1>2 DEF Starts
  <2>2. CASE ~Lagged(r)
    BY <2>2, <1>1, <1>4
  <2> QED BY <2>1, <2>2
<1>7. PICK v \in 0 .. Len(frames) : snap[r].visible = Start(v)
  BY <1>2 DEF Starts
<1>8. k < v /\ k \in 0 .. Len(frames) - 1 /\ Start(k) \in Nat /\ Start(v) \in Nat
  <2>1. k < v
    BY <1>2, <1>6, <1>7, StartFacts DEF TypeOK
  <2> QED BY <2>1, <1>3, StartFacts DEF TypeOK
<1>9. /\ v - k <= Cap
      /\ \A j \in 0 .. v - k : Positions(r)[j] = Start(k + j)
      /\ \A j \in 0 .. v - k - 1 :
           header[Unit(Start(k + j))] = Header(k + j, frames[k + j + 1].len)
  <2>1. k <= v /\ Start(v) <= visible /\ ProducerPos <= Start(k) + Cap
    BY <1>2, <1>5, <1>6, <1>7, <1>8
  <2>2. RingTypes /\ Layout /\ Claims /\ Headers
    BY DEF TypeOK
  <2> HIDE DEF IndInv
  <2>3. LeaseFrom(r) = Start(k) /\ k \in 0 .. Len(frames)
    BY <1>6
  <2> HIDE <1>1, <1>2, <1>3, <1>4, <1>5, <1>6, <1>8
  <2> QED BY <2>1, <2>2, <2>3, <1>7, Walked
<1>10. rx[r].next <= k
  <2>1. CASE Lagged(r)
    <3>1. rx[r].read < snap[r].retained
      BY <2>1 DEF Lagged
    <3>2. Start(rx[r].next) < Start(k)
      BY <3>1, <2>1, <1>1, <1>4, <1>6
    <3>3. rx[r].next < k
      BY <3>2, <1>4, StartFacts DEF TypeOK
    <3> QED BY <3>3, <1>4
  <2>2. CASE ~Lagged(r)
    BY <2>2, <1>6, <1>4
  <2> QED BY <2>1, <2>2
<1>11. FirstSequence(r) = k
  <2>1. CASE Lagged(r)
    <3>1. header[Unit(snap[r].retained)].low = k % Period
      <4>1. 0 \in 0 .. v - k - 1 /\ k + 0 = k
        BY <1>8
      <4>2. header[Unit(Start(k))] = Header(k, frames[k + 1].len)
        BY <4>1, <1>9
      <4> QED BY <4>2, <1>1, <1>6, <2>1 DEF Header, SequenceLow
    <3>2. Len(frames) - k <= Cap
      <4>1. Len(frames) \in 0 .. Len(frames) /\ k <= Len(frames)
        BY <1>3, <1>8
      <4>2. Len(frames) - k <= ProducerPos - Start(k)
        BY <4>1, <1>3, StartFacts DEF TypeOK
      <4> QED BY <4>2, <1>3, <1>5, <1>6, <1>8
    <3>3. k \in Nat /\ k < Len(frames) /\ Len(frames) < k + Period
      BY <3>2, <1>3, <1>8, RetentionAssumption
    <3>4. SequenceAtPosition(snap[r].retained) = k
      BY <3>1, <3>3, <1>3, LowBits DEF SequenceAtPosition, SequenceLow
    <3> QED BY <3>4, <2>1 DEF FirstSequence
  <2>2. CASE ~Lagged(r)
    BY <2>2, <1>6 DEF FirstSequence
  <2> QED BY <2>1, <2>2
<1>12. ASSUME NEW j \in 0 .. Cap PROVE Readable(r, j) <=> j < v - k
  <2>1. CASE j < v - k
    <3>1. j \in 0 .. v - k /\ j \in 0 .. v - k - 1
      BY <2>1, <1>8
    <3>2. Positions(r)[j] = Start(k + j)
      BY <3>1, <1>9
    <3>3. header[Unit(Start(k + j))] = Header(k + j, frames[k + j + 1].len)
      BY <3>1, <1>9
    <3>4. /\ k + j \in 0 .. Len(frames) - 1 /\ k + j \in 0 .. Len(frames)
          /\ k + j + 1 \in 0 .. Len(frames) /\ k + j < v
          /\ (k + j + 1 < v \/ k + j + 1 = v)
      <4>1. /\ k \in Nat /\ v \in Nat /\ j \in Nat /\ v <= Len(frames)
            /\ j < v - k
        BY <2>1, <1>8, <1>3
      <4> HIDE DEF IndInv
      <4> QED BY <4>1, <1>3
    <3>5. Start(k + j) < Start(v)
      BY <3>4, StartFacts DEF TypeOK
    <3>6. Start(k + j + 1) < Start(v) \/ Start(k + j + 1) = Start(v)
      BY <3>4, StartFacts DEF TypeOK
    <3>7. /\ Start(k + j + 1) = Start(k + j) + frames[k + j + 1].len
          /\ Start(k + j + 1) \in Nat
      BY <3>4, StartFacts DEF TypeOK
    <3>8. Start(k + j) + frames[k + j + 1].len <= Start(v)
      BY <3>6, <3>7, <1>8
    <3> QED BY <2>1, <3>2, <3>3, <3>5, <3>8, <1>7, <1>11 DEF Readable, Header
  <2>2. CASE j >= v - k
    <3>1. v - k \in 0 .. j /\ v - k \in 0 .. v - k
      BY <2>2, <1>8
    <3>2. Positions(r)[v - k] <= Positions(r)[j] /\ Positions(r)[j] \in Nat
      BY <3>1, <1>1, PositionsRise DEF TypeOK
    <3>3. Positions(r)[v - k] = Start(v)
      <4>1. k + (v - k) = v
        BY <1>8
      <4> QED BY <4>1, <3>1, <1>9
    <3>4. ~(Positions(r)[j] < snap[r].visible)
      BY <3>2, <3>3, <1>7, <1>8
    <3>5. ~Readable(r, j)
      BY <3>4 DEF Readable
    <3> QED BY <3>5, <2>2, <1>8
  <2> QED BY <2>1, <2>2, <1>8
<1>13. ReadsFrom(r, k, v)
  BY <1>2, <1>6, <1>7, <1>8, <1>9, <1>10, <1>11, <1>12 DEF ReadsFrom
<1> QED BY <1>5, <1>8, <1>13

\* So it can read.
LEMMA ReadingCanRead ==
  ASSUME IndInv, NEW r \in Readers, alive[r], rpc[r] = "reading"
  PROVE  CanRead(r)
<1>1. PICK k \in 0 .. Len(frames) - 1, v \in 0 .. Len(frames) : ReadsFrom(r, k, v)
  BY Reading
<1>2. /\ rx[r].next <= k /\ FirstSequence(r) = k
      /\ 0 \in 0 .. Cap /\ 0 < v - k
  <2>1. 0 \in 0 .. Cap
    BY RetentionAssumption
  <2>2. rx[r].next <= k /\ FirstSequence(r) = k /\ k < v
    BY <1>1 DEF ReadsFrom
  <2> QED BY <2>1, <2>2
<1>3. Readable(r, 0)
  BY <1>1, <1>2 DEF ReadsFrom
<1>4. rx[r].next \in Nat
  BY RetentionAssumption DEF IndInv, TypeOK, ReaderTypes
<1> QED BY <1>2, <1>3, <1>4 DEF CanRead

-----------------------------------------------------------------------------
(* The beginning, and what a step leaves alone *)

\* A new channel satisfies the invariant.
LEMMA InitInd == Init => IndInv
<1> SUFFICES ASSUME Init PROVE IndInv
  OBVIOUS
<1> USE DEF Init
<1>1. /\ Cap \in Nat /\ Cap > 0 /\ RetentionCapacity \in Nat /\ Period \in Nat
      /\ Period > 0 /\ MaxFrames \in Nat /\ MaxBatch \in Nat
      /\ Cardinality(Readers) \in Nat
  BY RetentionAssumption
<1>2. Len(frames) = 0 /\ \A n \in 0 .. 0 : Start(n) = 0
  BY DEF Start
<1>3. ProducerPos = 0 /\ After(0) = 0
  BY <1>2 DEF ProducerPos, After, NoAsk
<1>4. RingTypes
  <2>1. header \in [0 .. Cap - 1 -> [low : 0 .. Period - 1, len : Nat, sequence : Int]]
    BY <1>1
  <2>2. frames \in Seq([start : Nat, len : Nat \ {0}]) /\ Len(frames) <= MaxFrames
    BY <1>1
  <2> QED BY <2>1, <2>2 DEF RingTypes
<1>5. LeaseTypes
  <2>1. lease_start \in [Readers -> Nat \cup {NoLease}] /\ lease_end \in [Readers -> Nat]
    OBVIOUS
  <2>2. alive \in [Readers \cup {Producer} -> BOOLEAN]
    BY Zenon
  <2> QED BY <1>1, <2>1, <2>2 DEF LeaseTypes, NoFloor
<1>6. ProducerTypes
  BY <1>1 DEF ProducerTypes, NoAsk, NoSearch, NoFloor
<1>7. ReaderTypes
  BY <1>1 DEF ReaderTypes, NoFloor, NoSnap
<1>8. Layout /\ Claims /\ Headers
  BY <1>2 DEF Layout, Claims, Headers, Starts
<1>9. Search /\ Floored /\ Announced
  BY <1>1, <1>2, <1>3 DEF Search, Floored, Announced, Announcing, NoSearch, NoFloor, Needed
<1>10. ASSUME NEW r \in Readers PROVE ReaderInv(r)
  <2>1. KeptOf(r) /\ CursorOf(r)
    BY <1>2 DEF KeptOf, CursorOf, NoFloor
  <2>2. LoadedBy(r) /\ LeaseOf(r) /\ Handshake(r) /\ HeldBy(r)
    BY DEF LoadedBy, LeaseOf, Handshake, HeldBy
  <2> QED BY <2>1, <2>2 DEF ReaderInv
<1> QED BY <1>4, <1>5, <1>6, <1>7, <1>8, <1>9, <1>10 DEF IndInv, TypeOK

\* As long as no frame is claimed or committed, the ring is what it was.
LEMMA RingFrame ==
  ASSUME IndInv, UNCHANGED ringVars
  PROVE  /\ RingTypes' /\ Layout' /\ Claims' /\ Headers'
         /\ Starts' = Starts /\ ProducerPos' = ProducerPos
         /\ \A n : Start(n)' = Start(n)
<1> USE DEF ringVars
<1>1. \A n : Start(n)' = Start(n)
  BY DEF Start
<1>2. Starts' = Starts /\ ProducerPos' = ProducerPos
  BY <1>1 DEF Starts, ProducerPos
<1>3. RingTypes'
  BY DEF IndInv, TypeOK, RingTypes
<1>4. Layout'
  BY <1>1 DEF IndInv, Layout
<1>5. Claims'
  BY <1>1, <1>2 DEF IndInv, Claims
<1>6. Headers'
  <2>1. \A n : Committed(n)' <=> Committed(n)
    BY DEF Committed
  <2> QED BY <1>1, <1>2, <2>1 DEF IndInv, Headers
<1> QED BY <1>1, <1>2, <1>3, <1>4, <1>5, <1>6

\* The step is not one of reader s, nor about its lease.
SameReader(s) ==
  /\ rpc'[s] = rpc[s] /\ rx'[s] = rx[s] /\ snap'[s] = snap[s] /\ held'[s] = held[s]
  /\ cursor'[s] = cursor[s]
  /\ lease_start'[s] = lease_start[s] /\ lease_end'[s] = lease_end[s]

\* A step of reader r is nobody else's.
LEMMA ReaderFrame ==
  ASSUME IndInv, NEW r \in Readers,
         UNCHANGED <<ringVars, floorVars, producerVars, alive>>,
         \A s \in Readers \ {r} : SameReader(s),
         LeaseTypes', ReaderTypes', ReaderInv(r)'
  PROVE  IndInv'
<1> USE DEF floorVars, producerVars
<1>1. /\ RingTypes' /\ Layout' /\ Claims' /\ Headers'
      /\ Starts' = Starts /\ ProducerPos' = ProducerPos
      /\ \A n : Start(n)' = Start(n)
  BY RingFrame
<1>2. ProducerTypes'
  BY DEF IndInv, TypeOK, ProducerTypes
<1>3. \A n : After(n)' = After(n)
  BY <1>1 DEF After
<1>4. Len(frames)' = Len(frames) /\ visible' = visible
  BY DEF ringVars
<1>5. Search'
  BY <1>4 DEF IndInv, Search
<1>6. \A n, k : Needed(n, k)' <=> Needed(n, k)
  BY <1>1, <1>3, <1>4 DEF Needed
<1>7. Floored'
  BY <1>1, <1>3, <1>4, <1>6 DEF IndInv, Floored
<1>8. Announced'
  BY <1>1, <1>3, <1>4, <1>6 DEF IndInv, Announced
<1>9. ASSUME NEW s \in Readers, s # r PROVE ReaderInv(s)'
  <2>1. SameReader(s) /\ ReaderInv(s)
    BY <1>9 DEF IndInv
  <2>2. LeaseFrom(s)' = LeaseFrom(s) /\ (Lagged(s)' <=> Lagged(s))
    BY <2>1 DEF LeaseFrom, Lagged, SameReader
  <2>3. KeptOf(s)'
    BY <2>1 DEF ReaderInv, KeptOf, SameReader
  <2>4. CursorOf(s)'
    BY <2>1, <1>1, <1>4 DEF ReaderInv, CursorOf, SameReader
  <2>5. LoadedBy(s)'
    BY <2>1, <2>2, <1>1, <1>4 DEF ReaderInv, LoadedBy, SameReader
  <2>6. LeaseOf(s)'
    BY <2>1, <2>2, <1>4 DEF ReaderInv, LeaseOf, SameReader
  <2>7. Covered(s)' <=> Covered(s)
    BY <2>1, <1>3 DEF Covered, Passed, SameReader
  <2>8. Handshake(s)'
    BY <2>1, <2>7 DEF ReaderInv, Handshake, SameReader
  <2>9. HeldBy(s)'
    BY <2>1, <1>1, <1>4 DEF ReaderInv, HeldBy, SameReader
  <2> QED BY <2>3, <2>4, <2>5, <2>6, <2>8, <2>9 DEF ReaderInv
<1>10. \A s \in Readers : ReaderInv(s)'
  BY <1>9
<1> QED BY <1>1, <1>2, <1>5, <1>7, <1>8, <1>10 DEF IndInv, TypeOK

-----------------------------------------------------------------------------
(* The steps of a reader *)

\* What a reader's step finds unchanged.
LEMMA ReaderStep ==
  ASSUME IndInv, NEW r \in Readers,
         UNCHANGED <<ringVars, floorVars, producerVars, alive>>
  PROVE  /\ Starts' = Starts /\ \A n : Start(n)' = Start(n)
         /\ Len(frames)' = Len(frames) /\ visible' = visible /\ retained' = retained
         /\ intent' = intent /\ ppc' = ppc /\ target' = target /\ alive' = alive
         /\ lease_start'[r] = lease_start[r] => (Covered(r)' <=> Covered(r))
         /\ retained.position \in Starts /\ ReaderInv(r)
<1>1. Starts' = Starts /\ ProducerPos' = ProducerPos /\ \A n : Start(n)' = Start(n)
  BY RingFrame
<1>2. /\ Len(frames)' = Len(frames) /\ visible' = visible /\ retained' = retained
      /\ intent' = intent /\ ppc' = ppc /\ target' = target
  BY DEF ringVars, floorVars, producerVars
<1>3. \A n : After(n)' = After(n)
  BY <1>1 DEF After, producerVars
<1>4. lease_start'[r] = lease_start[r] => (Covered(r)' <=> Covered(r))
  BY <1>3 DEF Covered, Passed, producerVars
<1>5. retained.position \in Starts
  <2>1. retained.messages \in 0 .. Len(frames)
    <3>1. retained.messages \in Nat /\ Len(frames) \in Nat
      BY ProducerFacts DEF IndInv
    <3> QED BY <3>1 DEF IndInv, Floored
  <2>2. retained.position = Start(retained.messages)
    BY DEF IndInv, Floored
  <2> QED BY <2>1, <2>2 DEF Starts
<1> QED BY <1>1, <1>2, <1>4, <1>5 DEF IndInv

\* begin_latest_lease() loads the floor.
LEMMA LoadFloorInd ==
  ASSUME IndInv, NEW r \in Readers, LoadFloor(r)
  PROVE  IndInv'
<1> DEFINE S == [retained : Nat, visible : Nat, intent : Nat \cup {NoLease}]
           new == [snap[r] EXCEPT !.retained = retained.position]
<1>1. /\ alive[r] /\ rpc[r] = "idle" /\ rpc' = [rpc EXCEPT ![r] = "floor"]
      /\ UNCHANGED <<ringVars, floorVars, leaseVars, cursor, producerVars, rx, held, alive>>
  BY DEF LoadFloor, Step
<1>2. snap[r] \in S /\ retained.position \in Nat
  BY ProducerFacts DEF IndInv, TypeOK, ReaderTypes
<1>3. snap' = [snap EXCEPT ![r] = new] /\ new \in S /\ new.retained = retained.position
  BY <1>2 DEF LoadFloor
<1>4. rpc \in [Readers -> {"idle", "floor", "lease", "lease_from", "check",
                           "check_floor", "reading", "holding", "polling", "clear"}]
      /\ snap \in [Readers -> S]
  BY DEF IndInv, TypeOK, ReaderTypes
<1> HIDE DEF new, S
<1>5. /\ rpc'[r] = "floor" /\ snap'[r] = new
      /\ \A s \in Readers \ {r} : SameReader(s)
  BY <1>1, <1>3, <1>4 DEF SameReader, leaseVars
<1>6. snap' \in [Readers -> S]
  BY <1>3, <1>4
<1>7. ReaderTypes'
  BY <1>1, <1>4, <1>6 DEF IndInv, TypeOK, ReaderTypes, S
<1>8. LeaseTypes'
  BY <1>1 DEF IndInv, TypeOK, LeaseTypes, leaseVars, floorVars
<1>9. ReaderInv(r)'
  <2>1. ReaderInv(r)
    BY DEF IndInv
  <2>2. \A n : Start(n)' = Start(n)
    BY <1>1, RingFrame
  <2>3. Starts' = Starts
    BY <1>1, RingFrame
  <2>4. Len(frames)' = Len(frames) /\ visible' = visible /\ retained' = retained
    BY <1>1 DEF ringVars, floorVars
  <2>5. retained.position \in Starts
    BY <1>1, ReaderStep
  <2>6. KeptOf(r)' /\ CursorOf(r)'
    BY <1>1, <2>1, <2>2, <2>4 DEF ReaderInv, KeptOf, CursorOf, producerVars
  <2>7. LoadedBy(r)'
    BY <1>2, <1>3, <1>5, <2>3, <2>4, <2>5 DEF LoadedBy
  <2>8. LeaseOf(r)' /\ Handshake(r)'
    BY <1>5 DEF LeaseOf, Handshake
  <2>9. HeldBy(r)'
    BY <1>1, <1>5, <2>1 DEF ReaderInv, HeldBy
  <2> QED BY <2>6, <2>7, <2>8, <2>9 DEF ReaderInv
<1> QED BY <1>1, <1>5, <1>7, <1>8, <1>9, ReaderFrame

\* It loads the visible position: there is something to read, or the call ends.
LEMMA LoadVisibleInd ==
  ASSUME IndInv, NEW r \in Readers, LoadVisible(r)
  PROVE  IndInv'
<1> DEFINE S == [retained : Nat, visible : Nat, intent : Nat \cup {NoLease}]
           some == LeaseFrom(r) < visible /\ (Lagged(r) => r \notin Reliable)
           to == IF some THEN "lease" ELSE "idle"
           new == IF some THEN [snap[r] EXCEPT !.visible = visible] ELSE NoSnap
<1>1. /\ alive[r] /\ rpc[r] = "floor" /\ rpc' = [rpc EXCEPT ![r] = to]
      /\ snap' = [snap EXCEPT ![r] = new]
      /\ UNCHANGED <<ringVars, floorVars, leaseVars, cursor, producerVars, rx, held, alive>>
  <2>1. snap' = [snap EXCEPT ![r] = IF some THEN [@ EXCEPT !.visible = visible] ELSE NoSnap]
    BY DEF LoadVisible
  <2>2. snap' = [snap EXCEPT ![r] = new]
    BY <2>1
  <2> QED BY <2>2 DEF LoadVisible, Step
<1>2. snap[r] \in S /\ visible \in Nat /\ new \in S
  <2>1. snap[r] \in S /\ visible \in Nat
    BY ProducerFacts DEF IndInv, TypeOK, ReaderTypes
  <2>2. NoSnap \in S
    BY DEF NoSnap
  <2> QED BY <2>1, <2>2
<1>3. some => new.retained = snap[r].retained /\ new.visible = visible
  BY <1>2
<1>4. rpc \in [Readers -> {"idle", "floor", "lease", "lease_from", "check",
                           "check_floor", "reading", "holding", "polling", "clear"}]
      /\ snap \in [Readers -> S]
  BY DEF IndInv, TypeOK, ReaderTypes
<1>5. to \in {"idle", "lease"} /\ (some <=> to = "lease")
  OBVIOUS
<1> HIDE DEF new, S, to
<1>6. /\ rpc'[r] = to /\ snap'[r] = new
      /\ \A s \in Readers \ {r} : SameReader(s)
  BY <1>1, <1>4 DEF SameReader, leaseVars
<1>7. snap' \in [Readers -> S]
  BY <1>1, <1>2, <1>4
<1>8. ReaderTypes'
  BY <1>1, <1>4, <1>5, <1>7 DEF IndInv, TypeOK, ReaderTypes, S
<1>9. LeaseTypes'
  BY <1>1 DEF IndInv, TypeOK, LeaseTypes, leaseVars, floorVars
<1>10. ReaderInv(r)'
  <2>1. /\ Starts' = Starts /\ \A n : Start(n)' = Start(n)
        /\ Len(frames)' = Len(frames) /\ visible' = visible /\ retained' = retained
        /\ ppc' = ppc /\ target' = target /\ alive' = alive /\ ReaderInv(r)
    BY <1>1, ReaderStep
  <2>2. KeptOf(r)' /\ CursorOf(r)'
    BY <1>1, <2>1 DEF ReaderInv, KeptOf, CursorOf
  <2>3. LoadedBy(r)'
    <3>1. CASE ~some
      BY <3>1, <1>5, <1>6 DEF LoadedBy
    <3>2. CASE some
      <4>1. LeaseFrom(r)' = LeaseFrom(r) /\ (Lagged(r)' <=> Lagged(r))
        BY <3>2, <1>1, <1>3, <1>6 DEF LeaseFrom, Lagged
      <4>2. visible \in Starts
        BY DEF IndInv, Claims
      <4>3. snap[r].retained \in Starts /\ snap[r].retained <= retained.position
        BY <1>1, <2>1 DEF ReaderInv, LoadedBy
      <4> QED BY <3>2, <1>2, <1>3, <1>6, <2>1, <4>1, <4>2, <4>3 DEF LoadedBy
    <3> QED BY <3>1, <3>2
  <2>4. LeaseOf(r)' /\ Handshake(r)'
    BY <1>5, <1>6 DEF LeaseOf, Handshake
  <2>5. HeldBy(r)'
    BY <1>1, <1>5, <1>6, <2>1 DEF ReaderInv, HeldBy
  <2> QED BY <2>2, <2>3, <2>4, <2>5 DEF ReaderInv
<1> QED BY <1>1, <1>6, <1>8, <1>9, <1>10, ReaderFrame

\* It announces the end of its lease, unless one is still up.
LEMMA StoreLeaseEndInd ==
  ASSUME IndInv, NEW r \in Readers, StoreLeaseEnd(r)
  PROVE  IndInv'
<1> DEFINE S == [retained : Nat, visible : Nat, intent : Nat \cup {NoLease}]
           none == lease_start[r] = NoLease
           to == IF none THEN "lease_from" ELSE "idle"
           new == IF none THEN snap[r] ELSE NoSnap
           end == IF none THEN snap[r].visible ELSE lease_end[r]
<1>1. /\ alive[r] /\ rpc[r] = "lease" /\ rpc' = [rpc EXCEPT ![r] = to]
      /\ snap' = [snap EXCEPT ![r] = new] /\ lease_end' = [lease_end EXCEPT ![r] = end]
      /\ UNCHANGED <<ringVars, floorVars, lease_start, cursor, producerVars, rx, held, alive>>
  BY DEF StoreLeaseEnd, Step
<1>2. snap \in [Readers -> S] /\ lease_end \in [Readers -> Nat]
  BY DEF IndInv, TypeOK, ReaderTypes, LeaseTypes
<1>3. new \in S /\ end \in Nat
  <2>1. NoSnap \in S
    BY DEF NoSnap
  <2> QED BY <1>2, <2>1
<1>4. rpc \in [Readers -> {"idle", "floor", "lease", "lease_from", "check",
                           "check_floor", "reading", "holding", "polling", "clear"}]
  BY DEF IndInv, TypeOK, ReaderTypes
<1>5. /\ to \in {"idle", "lease_from"} /\ (none <=> to = "lease_from")
      /\ none => new = snap[r] /\ end = snap[r].visible
  OBVIOUS
<1> HIDE DEF new, S, to, end
<1>6. /\ rpc'[r] = to /\ snap'[r] = new /\ lease_end'[r] = end
      /\ \A s \in Readers \ {r} : SameReader(s)
  BY <1>1, <1>2, <1>4 DEF SameReader
<1>7. snap' \in [Readers -> S] /\ lease_end' \in [Readers -> Nat]
  BY <1>1, <1>2, <1>3
<1>8. ReaderTypes'
  BY <1>1, <1>4, <1>5, <1>7 DEF IndInv, TypeOK, ReaderTypes, S
<1>9. LeaseTypes'
  BY <1>1, <1>7 DEF IndInv, TypeOK, LeaseTypes, floorVars
<1>10. ReaderInv(r)'
  <2>1. /\ Starts' = Starts /\ \A n : Start(n)' = Start(n)
        /\ Len(frames)' = Len(frames) /\ visible' = visible /\ retained' = retained
        /\ ppc' = ppc /\ target' = target /\ alive' = alive /\ ReaderInv(r)
    BY <1>1, ReaderStep
  <2>2. KeptOf(r)' /\ CursorOf(r)'
    BY <1>1, <2>1 DEF ReaderInv, KeptOf, CursorOf
  <2>3. LoadedBy(r)'
    <3>1. CASE ~none
      BY <3>1, <1>5, <1>6 DEF LoadedBy
    <3>2. CASE none
      <4>1. LeaseFrom(r)' = LeaseFrom(r) /\ (Lagged(r)' <=> Lagged(r))
        BY <3>2, <1>1, <1>5, <1>6 DEF LeaseFrom, Lagged
      <4> QED BY <3>2, <1>1, <1>5, <1>6, <2>1, <4>1 DEF ReaderInv, LoadedBy
    <3> QED BY <3>1, <3>2
  <2>4. LeaseOf(r)' /\ Handshake(r)'
    BY <1>5, <1>6 DEF LeaseOf, Handshake
  <2>5. HeldBy(r)'
    BY <1>1, <1>5, <1>6, <2>1 DEF ReaderInv, HeldBy
  <2> QED BY <2>2, <2>3, <2>4, <2>5 DEF ReaderInv
<1> QED BY <1>1, <1>6, <1>8, <1>9, <1>10, ReaderFrame

\* It announces the start.
LEMMA StoreLeaseStartInd ==
  ASSUME IndInv, NEW r \in Readers, StoreLeaseStart(r)
  PROVE  IndInv'
<1>1. /\ alive[r] /\ rpc[r] = "lease_from" /\ rpc' = [rpc EXCEPT ![r] = "check"]
      /\ lease_start' = [lease_start EXCEPT ![r] = LeaseFrom(r)]
      /\ UNCHANGED <<ringVars, floorVars, lease_end, cursor, producerVars, rx, snap, held,
                     alive>>
  BY DEF StoreLeaseStart, Step
<1>2. lease_start \in [Readers -> Nat \cup {NoLease}] /\ LeaseFrom(r) \in Nat
  BY LeaseStarts DEF IndInv, TypeOK, LeaseTypes
<1>3. rpc \in [Readers -> {"idle", "floor", "lease", "lease_from", "check",
                           "check_floor", "reading", "holding", "polling", "clear"}]
  BY DEF IndInv, TypeOK, ReaderTypes
<1>4. /\ rpc'[r] = "check" /\ lease_start'[r] = LeaseFrom(r)
      /\ \A s \in Readers \ {r} : SameReader(s)
  BY <1>1, <1>2, <1>3 DEF SameReader
<1>5. ReaderTypes'
  BY <1>1, <1>3 DEF IndInv, TypeOK, ReaderTypes
<1>6. LeaseTypes'
  BY <1>1, <1>2 DEF IndInv, TypeOK, LeaseTypes, floorVars
<1>7. ReaderInv(r)'
  <2>1. /\ Starts' = Starts /\ \A n : Start(n)' = Start(n)
        /\ Len(frames)' = Len(frames) /\ visible' = visible /\ retained' = retained
        /\ ppc' = ppc /\ target' = target /\ alive' = alive /\ ReaderInv(r)
    BY <1>1, ReaderStep
  <2>2. LeaseFrom(r)' = LeaseFrom(r) /\ (Lagged(r)' <=> Lagged(r))
    BY <1>1 DEF LeaseFrom, Lagged
  <2>3. KeptOf(r)' /\ CursorOf(r)'
    BY <1>1, <2>1 DEF ReaderInv, KeptOf, CursorOf
  <2>4. LoadedBy(r)'
    BY <1>1, <1>4, <2>1, <2>2 DEF ReaderInv, LoadedBy
  <2>5. LeaseOf(r)' /\ Handshake(r)'
    BY <1>1, <1>4, <2>1, <2>2 DEF ReaderInv, LeaseOf, Handshake
  <2>6. HeldBy(r)'
    BY <1>1, <1>4, <2>1 DEF ReaderInv, HeldBy
  <2> QED BY <2>3, <2>4, <2>5, <2>6 DEF ReaderInv
<1> QED BY <1>1, <1>4, <1>5, <1>6, <1>7, ReaderFrame

\* It loads the intent: if it does not see the floor that the publisher may be
\* about to store, then that floor is no danger to it.
LEMMA LoadIntentInd ==
  ASSUME IndInv, NEW r \in Readers, LoadIntent(r)
  PROVE  IndInv'
<1> DEFINE S == [retained : Nat, visible : Nat, intent : Nat \cup {NoLease}]
           new == [snap[r] EXCEPT !.intent = intent]
<1>1. /\ alive[r] /\ rpc[r] = "check" /\ rpc' = [rpc EXCEPT ![r] = "check_floor"]
      /\ UNCHANGED <<ringVars, floorVars, leaseVars, cursor, producerVars, rx, held, alive>>
  BY DEF LoadIntent, Step
<1>2. snap[r] \in S /\ intent \in Nat \cup {NoLease} /\ snap \in [Readers -> S]
  BY DEF IndInv, TypeOK, ReaderTypes, LeaseTypes
<1>3. /\ snap' = [snap EXCEPT ![r] = new] /\ new \in S /\ new.intent = intent
      /\ new.retained = snap[r].retained /\ new.visible = snap[r].visible
  BY <1>2 DEF LoadIntent
<1>4. rpc \in [Readers -> {"idle", "floor", "lease", "lease_from", "check",
                           "check_floor", "reading", "holding", "polling", "clear"}]
  BY DEF IndInv, TypeOK, ReaderTypes
<1> HIDE DEF new, S
<1>5. /\ rpc'[r] = "check_floor" /\ snap'[r] = new /\ snap' \in [Readers -> S]
      /\ lease_start'[r] = lease_start[r] /\ lease_end'[r] = lease_end[r]
      /\ \A s \in Readers \ {r} : SameReader(s)
  BY <1>1, <1>2, <1>3, <1>4 DEF SameReader, leaseVars
<1>6. ReaderTypes'
  BY <1>1, <1>4, <1>5 DEF IndInv, TypeOK, ReaderTypes, S
<1>7. LeaseTypes'
  BY <1>1 DEF IndInv, TypeOK, LeaseTypes, leaseVars, floorVars
<1>8. ReaderInv(r)'
  <2>1. /\ Starts' = Starts /\ \A n : Start(n)' = Start(n)
        /\ Len(frames)' = Len(frames) /\ visible' = visible /\ retained' = retained
        /\ ppc' = ppc /\ target' = target /\ alive' = alive /\ ReaderInv(r)
        /\ Covered(r)' <=> Covered(r)
    BY <1>1, <1>5, ReaderStep
  <2>2. LeaseFrom(r)' = LeaseFrom(r) /\ (Lagged(r)' <=> Lagged(r))
    BY <1>1, <1>3, <1>5 DEF LeaseFrom, Lagged
  <2>3. KeptOf(r)' /\ CursorOf(r)'
    BY <1>1, <2>1 DEF ReaderInv, KeptOf, CursorOf
  <2>4. LoadedBy(r)'
    BY <1>1, <1>3, <1>5, <2>1, <2>2 DEF ReaderInv, LoadedBy
  <2>5. LeaseOf(r)'
    BY <1>1, <1>3, <1>5, <2>1, <2>2 DEF ReaderInv, LeaseOf
  <2>6. HeldBy(r)'
    BY <1>1, <1>5, <2>1 DEF ReaderInv, HeldBy
  <2>7. ASSUME intent <= lease_start[r], retained.position <= snap[r].retained
        PROVE  Covered(r)
    <3>1. lease_start[r] = LeaseFrom(r)
      BY <1>1, <2>1 DEF ReaderInv, LeaseOf
    <3>2. /\ lease_start[r] \in Nat /\ snap[r].retained \in Nat
          /\ snap[r].retained <= lease_start[r]
      BY <3>1, LeaseStarts DEF IndInv
    <3>3. /\ retained.position \in Nat /\ RetentionCapacity \in Nat /\ Cap \in Nat
          /\ RetentionCapacity <= Cap /\ target.position \in Nat
          /\ After(search.low) \in Nat /\ After(search.now) \in Nat
      BY ProducerFacts DEF IndInv
    <3>4. After(search.low) <= retained.position + RetentionCapacity
      BY DEF IndInv, Floored
    <3>5. After(search.low) <= lease_start[r] + Cap
      BY <2>7, <3>2, <3>3, <3>4
    <3>6. CASE ppc \notin Announcing
      BY <3>5, <3>6 DEF Covered, Passed, Announcing
    <3>7. CASE ppc \in Announcing
      <4>1. /\ intent = target.position
            /\ After(search.now) <= target.position + RetentionCapacity
        BY <3>7 DEF IndInv, Announced
      <4>2. After(search.now) <= lease_start[r] + Cap
        BY <4>1, <2>7, <3>2, <3>3
      <4> QED BY <3>5, <4>2 DEF Covered
    <3> QED BY <3>6, <3>7
  <2>8. Handshake(r)'
    <3>1. \/ Covered(r) \/ intent > lease_start[r] \/ snap[r].retained < retained.position
      <4>1. retained.position \in Nat /\ snap[r].retained \in Nat
        BY LeaseStarts, ProducerFacts DEF IndInv
      <4>2. lease_start[r] \in Nat \cup {NoLease}
        BY DEF IndInv, TypeOK, LeaseTypes
      <4> QED BY <1>2, <2>7, <4>1, <4>2 DEF NoLease
    <3> QED BY <1>3, <1>5, <2>1, <3>1 DEF Handshake
  <2> QED BY <2>3, <2>4, <2>5, <2>6, <2>8 DEF ReaderInv
<1> QED BY <1>1, <1>5, <1>6, <1>7, <1>8, ReaderFrame

\* It loads the floor again: what has passed the check is covered.
LEMMA CheckFloorInd ==
  ASSUME IndInv, NEW r \in Readers, CheckFloor(r)
  PROVE  IndInv'
<1> DEFINE safe == /\ retained.position = snap[r].retained
                   /\ snap[r].intent = NoLease \/ snap[r].intent <= LeaseFrom(r)
           to == IF safe THEN "reading" ELSE "clear"
<1>1. /\ alive[r] /\ rpc[r] = "check_floor" /\ rpc' = [rpc EXCEPT ![r] = to]
      /\ UNCHANGED <<ringVars, floorVars, leaseVars, cursor, producerVars, rx, snap, held,
                     alive>>
  BY DEF CheckFloor, Step
<1>2. rpc \in [Readers -> {"idle", "floor", "lease", "lease_from", "check",
                           "check_floor", "reading", "holding", "polling", "clear"}]
  BY DEF IndInv, TypeOK, ReaderTypes
<1>3. to \in {"reading", "clear"} /\ (safe <=> to = "reading")
  OBVIOUS
<1> HIDE DEF safe, to
<1>4. /\ rpc'[r] = to
      /\ lease_start'[r] = lease_start[r] /\ lease_end'[r] = lease_end[r]
      /\ \A s \in Readers \ {r} : SameReader(s)
  BY <1>1, <1>2 DEF SameReader, leaseVars
<1>5. ReaderTypes'
  BY <1>1, <1>2, <1>3 DEF IndInv, TypeOK, ReaderTypes
<1>6. LeaseTypes'
  BY <1>1 DEF IndInv, TypeOK, LeaseTypes, leaseVars, floorVars
<1>7. ReaderInv(r)'
  <2>1. /\ Starts' = Starts /\ \A n : Start(n)' = Start(n)
        /\ Len(frames)' = Len(frames) /\ visible' = visible /\ retained' = retained
        /\ ppc' = ppc /\ target' = target /\ alive' = alive /\ ReaderInv(r)
        /\ Covered(r)' <=> Covered(r)
    BY <1>1, <1>4, ReaderStep
  <2>2. LeaseFrom(r)' = LeaseFrom(r) /\ (Lagged(r)' <=> Lagged(r))
    BY <1>1 DEF LeaseFrom, Lagged
  <2>3. KeptOf(r)' /\ CursorOf(r)'
    BY <1>1, <2>1 DEF ReaderInv, KeptOf, CursorOf
  <2>4. LoadedBy(r)'
    BY <1>1, <1>3, <1>4, <2>1, <2>2 DEF ReaderInv, LoadedBy
  <2>5. LeaseOf(r)'
    BY <1>1, <1>3, <1>4, <2>1, <2>2 DEF ReaderInv, LeaseOf
  <2>6. HeldBy(r)'
    BY <1>1, <1>3, <1>4, <2>1 DEF ReaderInv, HeldBy
  <2>7. safe => Covered(r)
    <3> SUFFICES ASSUME safe PROVE Covered(r)
      OBVIOUS
    <3>1. \/ Covered(r)
          \/ snap[r].intent > lease_start[r]
          \/ snap[r].retained < retained.position
      BY <1>1, <2>1 DEF ReaderInv, Handshake
    <3>2. lease_start[r] = LeaseFrom(r)
      BY <1>1, <2>1 DEF ReaderInv, LeaseOf
    <3>3. /\ LeaseFrom(r) \in Nat /\ snap[r].retained \in Nat
      BY LeaseStarts DEF IndInv
    <3>4. snap[r].intent \in Nat \cup {NoLease}
      BY DEF IndInv, TypeOK, ReaderTypes
    <3> QED BY <3>1, <3>2, <3>3, <3>4 DEF safe, NoLease
  <2>8. Handshake(r)'
    BY <1>3, <1>4, <2>1, <2>7 DEF Handshake
  <2> QED BY <2>3, <2>4, <2>5, <2>6, <2>8 DEF ReaderInv
<1> QED BY <1>1, <1>4, <1>5, <1>6, <1>7, ReaderFrame

\* Where the j-th frame under the lease ends up in the reader's books.
LEMMA Advance ==
  ASSUME IndInv, NEW r \in Readers, rpc[r] = "reading",
         NEW k \in 0 .. Len(frames) - 1, NEW v \in 0 .. Len(frames), ReadsFrom(r, k, v),
         NEW j \in 0 .. v - k
  PROVE  /\ Positions(r)[j] = Start(k + j) /\ FirstSequence(r) + j = k + j
         /\ k + j \in 0 .. Len(frames) /\ k + j \in 0 .. MaxFrames
         /\ Start(k + j) \in Nat /\ Start(k + j) <= visible
         /\ Start(k) <= Start(k + j) /\ (j > 0 => Start(k) < Start(k + j))
         /\ rx[r].read <= Start(k) /\ rx[r].read \in Nat /\ Start(k) \in Nat
<1>1. /\ k < v /\ Start(v) <= visible /\ LeaseFrom(r) = Start(k) /\ FirstSequence(r) = k
      /\ Positions(r)[j] = Start(k + j)
  BY DEF ReadsFrom
<1>2. /\ Len(frames) \in Nat /\ MaxFrames \in Nat /\ visible \in Nat
  BY ProducerFacts DEF IndInv
<1>3. Len(frames) <= MaxFrames
  BY DEF IndInv, TypeOK, RingTypes
<1>4. /\ k + j \in 0 .. Len(frames) /\ k + j \in 0 .. MaxFrames /\ k \in 0 .. Len(frames)
      /\ (k + j < v \/ k + j = v) /\ (j > 0 => k < k + j) /\ (j = 0 => k + j = k)
  BY <1>1, <1>2, <1>3
<1>5. Start(k + j) \in Nat /\ Start(v) \in Nat /\ Start(k) \in Nat
  BY <1>4, StartFacts DEF IndInv, TypeOK
<1>6. Start(k + j) < Start(v) \/ Start(k + j) = Start(v)
  BY <1>4, StartFacts DEF IndInv, TypeOK
<1>7. j > 0 => Start(k) < Start(k + j)
  BY <1>4, StartFacts DEF IndInv, TypeOK
<1>8. rx[r].read <= Start(k) /\ rx[r].read \in Nat
  BY <1>1, LeaseStarts DEF IndInv
<1>9. Start(k + j) <= visible
  BY <1>1, <1>2, <1>5, <1>6
<1>10. Start(k) <= Start(k + j)
  BY <1>4, <1>5, <1>7
<1> QED BY <1>1, <1>4, <1>5, <1>7, <1>8, <1>9, <1>10

\* Going on without keeping a frame.
LEMMA PassInd ==
  ASSUME IndInv, NEW r \in Readers, rpc[r] = "reading", rpc' = [rpc EXCEPT ![r] = "clear"],
         NEW k \in 0 .. Len(frames) - 1, NEW v \in 0 .. Len(frames), ReadsFrom(r, k, v),
         NEW j \in 0 .. v - k, PublishLatestProgress(r, j),
         UNCHANGED <<ringVars, floorVars, leaseVars, producerVars, snap, held, alive>>
  PROVE  IndInv'
<1> DEFINE new == [read |-> Positions(r)[j], next |-> FirstSequence(r) + j]
           pub == [position |-> Positions(r)[j], messages |-> FirstSequence(r) + j]
           R == [read : Nat, next : 0 .. MaxFrames]
           C == [position : Nat, messages : 0 .. MaxFrames]
<1>1. /\ Positions(r)[j] = Start(k + j) /\ FirstSequence(r) + j = k + j
      /\ k + j \in 0 .. Len(frames) /\ k + j \in 0 .. MaxFrames
      /\ Start(k + j) \in Nat /\ Start(k) <= Start(k + j) /\ Start(k) \in Nat
      /\ rx[r].read <= Start(k) /\ rx[r].read \in Nat
  BY Advance
<1>2. /\ rx' = [rx EXCEPT ![r] = new] /\ cursor' = [cursor EXCEPT ![r] = pub]
      /\ new \in R /\ pub \in C
      /\ new.read = Start(k + j) /\ new.next = k + j /\ pub.position = Start(k + j)
  BY <1>1 DEF PublishLatestProgress, MoveTo
<1>3. rpc \in [Readers -> {"idle", "floor", "lease", "lease_from", "check",
                           "check_floor", "reading", "holding", "polling", "clear"}]
      /\ rx \in [Readers -> R] /\ cursor \in [Readers -> C]
  BY DEF IndInv, TypeOK, ReaderTypes
<1> HIDE DEF new, pub, R, C
<1>4. /\ rpc'[r] = "clear" /\ rx'[r] = new /\ cursor'[r] = pub
      /\ rx' \in [Readers -> R] /\ cursor' \in [Readers -> C]
      /\ \A s \in Readers \ {r} : SameReader(s)
  BY <1>2, <1>3 DEF SameReader, leaseVars
<1>5. ReaderTypes'
  BY <1>3, <1>4 DEF IndInv, TypeOK, ReaderTypes, R, C
<1>6. LeaseTypes'
  BY DEF IndInv, TypeOK, LeaseTypes, leaseVars, floorVars
<1>7. ReaderInv(r)'
  <2>1. /\ Starts' = Starts /\ \A n : Start(n)' = Start(n)
        /\ Len(frames)' = Len(frames) /\ visible' = visible /\ retained' = retained
        /\ ppc' = ppc /\ target' = target /\ alive' = alive /\ ReaderInv(r)
    BY ReaderStep
  <2>2. CursorOf(r)'
    BY <1>1, <1>2, <1>4, <2>1 DEF CursorOf
  <2>3. KeptOf(r)'
    <3>1. /\ retained.position \in Nat /\ target.position \in Nat
      BY ProducerFacts DEF IndInv
    <3>2. /\ cursor[r].position <= rx[r].read /\ cursor[r].position \in Nat
      BY <1>3, <2>1 DEF ReaderInv, CursorOf, C
    <3>3. r \in Reliable /\ alive[r] => retained.position <= new.read
      BY <1>1, <1>2, <2>1, <3>1 DEF ReaderInv, KeptOf
    <3>4. r \in Reliable /\ alive[r] /\ ppc \in {"scan", "scan_end", "evict"} =>
            target = retained \/ target.position <= pub.position
      BY <1>1, <1>2, <2>1, <3>1, <3>2, SMTT(20) DEF ReaderInv, KeptOf
    <3> QED BY <1>4, <2>1, <3>3, <3>4 DEF KeptOf
  <2>4. LoadedBy(r)'
    BY <1>4, <2>1 DEF ReaderInv, LoadedBy
  <2>5. LeaseOf(r)' /\ Handshake(r)'
    BY <1>4 DEF LeaseOf, Handshake
  <2>6. HeldBy(r)'
    BY <1>4, <2>1 DEF ReaderInv, HeldBy
  <2> QED BY <2>2, <2>3, <2>4, <2>5, <2>6 DEF ReaderInv
<1> QED BY <1>4, <1>5, <1>6, <1>7, ReaderFrame

\* A run stays within the lease.
LEMMA RunBounds ==
  ASSUME NEW r, NEW k \in Nat, NEW v \in Nat, ReadsFrom(r, k, v), NEW expired
  PROVE  RunLength(r, expired) \in 0 .. v - k
<1> DEFINE T == {n \in 0 .. Cap : \A j \in 0 .. n - 1 :
                   Readable(r, j) /\ Cardinality((0 .. j - 1) \ expired) < MaxRun}
<1>1. /\ Cap \in Nat /\ v - k \in 0 .. Cap
      /\ \A j \in 0 .. Cap : Readable(r, j) <=> j < v - k
  BY RetentionAssumption DEF ReadsFrom
<1>2. T \subseteq 0 .. Cap /\ T # {}
  <2>1. 0 \in T
    BY <1>1
  <2> QED BY <2>1
<1>3. Max(T) \in T
  BY <1>1, <1>2, MaxNatural
<1>4. ASSUME NEW n \in T, n > v - k PROVE FALSE
  <2>1. v - k \in 0 .. n - 1
    BY <1>1, <1>4
  <2>2. Readable(r, v - k)
    BY <2>1
  <2> QED BY <2>2, <1>1
<1>5. Max(T) \in 0 .. v - k
  <2>1. Max(T) \in 0 .. Cap /\ ~(Max(T) > v - k)
    BY <1>2, <1>3, <1>4
  <2> QED BY <2>1, <1>1
<1> QED BY <1>5 DEF RunLength

\* A frame is passed over: it has expired, or the caller is told of the lag.
LEMMA PassOneInd ==
  ASSUME IndInv, NEW r \in Readers, PassOne(r)
  PROVE  IndInv'
<1>1. /\ alive[r] /\ rpc[r] = "reading" /\ rpc' = [rpc EXCEPT ![r] = "clear"]
      /\ UNCHANGED <<ringVars, floorVars, leaseVars, producerVars, snap, held, alive>>
      /\ PublishLatestProgress(r, 0) \/ PublishLatestProgress(r, 1)
  BY DEF PassOne, Step
<1>2. PICK k \in 0 .. Len(frames) - 1, v \in 0 .. Len(frames) : ReadsFrom(r, k, v)
  BY <1>1, Reading
<1>3. 0 \in 0 .. v - k /\ 1 \in 0 .. v - k
  BY <1>2 DEF ReadsFrom
<1> QED BY <1>1, <1>2, <1>3, PassInd

\* A run of which everything has expired is passed over.
LEMMA PassRunInd ==
  ASSUME IndInv, NEW r \in Readers, PassRun(r)
  PROVE  IndInv'
<1>1. /\ alive[r] /\ rpc[r] = "reading" /\ rpc' = [rpc EXCEPT ![r] = "clear"]
      /\ UNCHANGED <<ringVars, floorVars, leaseVars, producerVars, snap, held, alive>>
      /\ PublishLatestProgress(r, RunLength(r, 0 .. Cap))
  BY DEF PassRun, Step
<1>2. PICK k \in 0 .. Len(frames) - 1, v \in 0 .. Len(frames) : ReadsFrom(r, k, v)
  BY <1>1, Reading
<1>3. k \in Nat /\ v \in Nat
  OBVIOUS
<1>4. RunLength(r, 0 .. Cap) \in 0 .. v - k
  BY <1>2, <1>3, RunBounds
<1> QED BY <1>1, <1>2, <1>4, PassInd

\* skip_to_latest()
LEMMA SkipToLatestInd ==
  ASSUME IndInv, NEW r \in Readers, SkipToLatest(r)
  PROVE  IndInv'
<1> DEFINE T == {j \in 0 .. Cap : Readable(r, j)}
<1>1. /\ alive[r] /\ rpc[r] = "reading" /\ rpc' = [rpc EXCEPT ![r] = "clear"]
      /\ UNCHANGED <<ringVars, floorVars, leaseVars, producerVars, snap, held, alive>>
      /\ PublishLatestProgress(r, Max(T)) /\ Readable(r, 0)
  BY DEF SkipToLatest, Step, CanRead
<1>2. PICK k \in 0 .. Len(frames) - 1, v \in 0 .. Len(frames) : ReadsFrom(r, k, v)
  BY <1>1, Reading
<1>3. Cap \in Nat /\ T \subseteq 0 .. Cap /\ T # {}
  BY <1>1, RetentionAssumption
<1>4. Max(T) \in T
  BY <1>3, MaxNatural
<1>5. Max(T) \in 0 .. v - k
  <2>1. Max(T) \in 0 .. Cap /\ Max(T) < v - k
    BY <1>2, <1>4 DEF ReadsFrom
  <2> QED BY <2>1
<1> HIDE DEF T
<1> QED BY <1>1, <1>2, <1>5, PassInd

\* A lease that was checked is covered, and is from the first frame under it.
LEMMA LeaseHolds ==
  ASSUME IndInv, NEW r \in Readers, alive[r], rpc[r] = "reading"
  PROVE  lease_start[r] = LeaseFrom(r) /\ Covered(r) /\ held[r] = {}
BY DEF IndInv, ReaderInv, LeaseOf, Handshake, HeldBy

\* try_recv() borrows one frame.
LEMMA TakeOneInd ==
  ASSUME IndInv, NEW r \in Readers, TakeOne(r)
  PROVE  IndInv'
<1> DEFINE end == Positions(r)[1]
           m == Message(r, 0)
           R == [read : Nat, next : 0 .. MaxFrames]
           C == [position : Nat, messages : 0 .. MaxFrames]
           H == [position : Nat, sequence : 0 .. MaxFrames]
<1>0. alive[r] /\ rpc[r] = "reading"
  BY DEF TakeOne, Step
<1>1. CanRead(r)
  BY <1>0, ReadingCanRead
<1>2. /\ rpc' = [rpc EXCEPT ![r] = "holding"]
      /\ held' = [held EXCEPT ![r] = {m}] /\ lease_end' = [lease_end EXCEPT ![r] = end]
      /\ IF Lagged(r) THEN PublishLatestProgress(r, 0) ELSE UNCHANGED <<rx, cursor>>
      /\ UNCHANGED <<ringVars, floorVars, lease_start, producerVars, snap, alive>>
  BY <1>1 DEF TakeOne, Step
<1>3. PICK k \in 0 .. Len(frames) - 1, v \in 0 .. Len(frames) : ReadsFrom(r, k, v)
  BY <1>0, Reading
<1>4. 0 \in 0 .. v - k /\ 1 \in 0 .. v - k /\ k + 0 = k
  BY <1>3 DEF ReadsFrom
<1>5. /\ Positions(r)[0] = Start(k) /\ FirstSequence(r) + 0 = k
      /\ k \in 0 .. MaxFrames /\ Start(k) \in Nat
      /\ rx[r].read <= Start(k) /\ rx[r].read \in Nat
  <2>1. /\ Positions(r)[0] = Start(k + 0) /\ FirstSequence(r) + 0 = k + 0
        /\ k + 0 \in 0 .. MaxFrames /\ Start(k) \in Nat
        /\ rx[r].read <= Start(k) /\ rx[r].read \in Nat
    BY <1>0, <1>3, <1>4, Advance
  <2> QED BY <1>4, <2>1
<1>6. /\ end = Start(k + 1) /\ Start(k + 1) \in Nat /\ Start(k) < Start(k + 1)
      /\ Start(k + 1) <= visible
  BY <1>0, <1>3, <1>4, Advance
<1>7. m = [position |-> Start(k), sequence |-> k] /\ m \in H
  BY <1>5 DEF Message
<1>8. lease_start[r] = Start(k) /\ Covered(r) /\ ReaderInv(r)
  BY <1>0, <1>3, LeaseHolds DEF ReadsFrom, IndInv
<1>9. rpc \in [Readers -> {"idle", "floor", "lease", "lease_from", "check",
                           "check_floor", "reading", "holding", "polling", "clear"}]
      /\ rx \in [Readers -> R] /\ cursor \in [Readers -> C]
      /\ held \in [Readers -> SUBSET H] /\ lease_end \in [Readers -> Nat]
  BY DEF IndInv, TypeOK, ReaderTypes, LeaseTypes
<1>10. /\ rx' \in [Readers -> R] /\ cursor' \in [Readers -> C]
       /\ rx'[r].read = Start(k) /\ rx'[r].next = k
       /\ cursor'[r].position <= Start(k)
       /\ cursor[r].position <= cursor'[r].position
       /\ \A s \in Readers \ {r} : rx'[s] = rx[s] /\ cursor'[s] = cursor[s]
  <2>1. cursor[r].position <= rx[r].read /\ cursor[r].position \in Nat
    BY <1>8, <1>9 DEF ReaderInv, CursorOf
  <2>2. CASE Lagged(r)
    <3> DEFINE new == [read |-> Start(k), next |-> k]
               pub == [position |-> Start(k), messages |-> k]
    <3>1. /\ rx' = [rx EXCEPT ![r] = new] /\ cursor' = [cursor EXCEPT ![r] = pub]
      BY <1>2, <1>5, <2>2 DEF PublishLatestProgress, MoveTo
    <3>2. new \in R /\ pub \in C
      BY <1>5
    <3>3. new.read = Start(k) /\ new.next = k /\ pub.position = Start(k)
      OBVIOUS
    <3> HIDE DEF new, pub, R, C
    <3>4. rx'[r] = new /\ cursor'[r] = pub
      BY <1>9, <3>1
    <3> QED BY <1>5, <1>9, <2>1, <3>1, <3>2, <3>3, <3>4
  <2>3. CASE ~Lagged(r)
    <3>1. rx' = rx /\ cursor' = cursor
      BY <1>2, <2>3
    <3>2. rx[r].next = k
      BY <1>3, <2>3 DEF ReadsFrom
    <3>3. rx[r].read = Start(k)
      BY <1>8, <3>2 DEF ReaderInv, CursorOf
    <3> QED BY <1>9, <2>1, <3>1, <3>2, <3>3
  <2> QED BY <2>2, <2>3
<1> HIDE DEF end, m, R, C, H
<1>11. /\ rpc'[r] = "holding" /\ held'[r] = {m} /\ lease_end'[r] = end
       /\ lease_start'[r] = lease_start[r]
       /\ held' \in [Readers -> SUBSET H] /\ lease_end' \in [Readers -> Nat]
       /\ \A s \in Readers \ {r} : SameReader(s)
  BY <1>2, <1>6, <1>7, <1>9, <1>10 DEF SameReader
<1>12. ReaderTypes'
  BY <1>2, <1>9, <1>10, <1>11 DEF IndInv, TypeOK, ReaderTypes, R, C, H
<1>13. LeaseTypes'
  BY <1>2, <1>11 DEF IndInv, TypeOK, LeaseTypes, floorVars
<1>14. ReaderInv(r)'
  <2>1. /\ Starts' = Starts /\ \A n : Start(n)' = Start(n)
        /\ Len(frames)' = Len(frames) /\ visible' = visible /\ retained' = retained
        /\ ppc' = ppc /\ target' = target /\ alive' = alive
        /\ Covered(r)' <=> Covered(r)
    BY <1>2, <1>11, ReaderStep
  <2>2. k < Len(frames) /\ k <= Len(frames)
    <3>1. Len(frames) \in Nat
      BY ProducerFacts DEF IndInv
    <3> QED BY <3>1
  <2>3. CursorOf(r)'
    BY <1>10, <2>1, <2>2 DEF CursorOf
  <2>4. KeptOf(r)'
    <3>1. /\ retained.position \in Nat /\ target.position \in Nat
      BY ProducerFacts DEF IndInv
    <3>2. cursor[r].position \in Nat /\ cursor'[r].position \in Nat
      BY <1>9, <1>10 DEF C
    <3>3. r \in Reliable /\ alive[r] => retained.position <= rx'[r].read
      BY <1>5, <1>8, <1>10, <3>1 DEF ReaderInv, KeptOf
    <3>4. r \in Reliable /\ alive[r] /\ ppc \in {"scan", "scan_end", "evict"} =>
            target = retained \/ target.position <= cursor'[r].position
      BY <1>8, <1>10, <3>1, <3>2 DEF ReaderInv, KeptOf
    <3> QED BY <2>1, <3>3, <3>4 DEF KeptOf
  <2>5. LoadedBy(r)'
    BY <1>0, <1>2, <1>8, <1>11, <2>1 DEF ReaderInv, LoadedBy
  <2>6. LeaseOf(r)'
    BY <1>5, <1>6, <1>8, <1>11, <2>1 DEF LeaseOf
  <2>7. Handshake(r)'
    BY <1>8, <1>11, <2>1 DEF Handshake
  <2>8. HeldBy(r)'
    <3>1. Start(k) < visible
      <4>1. visible \in Nat
        BY ProducerFacts DEF IndInv
      <4> QED BY <1>5, <1>6, <4>1
    <3> QED BY <1>5, <1>6, <1>7, <1>8, <1>10, <1>11, <2>1, <2>2, <3>1 DEF HeldBy
  <2> QED BY <2>3, <2>4, <2>5, <2>6, <2>7, <2>8 DEF ReaderInv
<1> QED BY <1>2, <1>11, <1>12, <1>13, <1>14, ReaderFrame

\* poll() borrows a run.
LEMMA TakeRunInd ==
  ASSUME IndInv, NEW r \in Readers, NEW expired, TakeRun(r, expired)
  PROVE  IndInv'
<1> DEFINE run == RunLength(r, expired)
           live == (0 .. run - 1) \ expired
           new == [read |-> Positions(r)[run], next |-> FirstSequence(r) + run]
           got == {Message(r, j) : j \in live}
           R == [read : Nat, next : 0 .. MaxFrames]
           H == [position : Nat, sequence : 0 .. MaxFrames]
<1>0. alive[r] /\ rpc[r] = "reading"
  BY DEF TakeRun, Step
<1>2. /\ rpc' = [rpc EXCEPT ![r] = "polling"]
      /\ held' = [held EXCEPT ![r] = got]
      /\ lease_end' = [lease_end EXCEPT ![r] = Positions(r)[run]]
      /\ rx' = [rx EXCEPT ![r] = new] /\ live # {}
      /\ UNCHANGED <<ringVars, floorVars, lease_start, cursor, producerVars, snap, alive>>
  BY DEF TakeRun, Step, MoveTo
<1>3. PICK k \in 0 .. Len(frames) - 1, v \in 0 .. Len(frames) : ReadsFrom(r, k, v)
  BY <1>0, Reading
<1>4. run \in 0 .. v - k /\ run > 0 /\ live \subseteq 0 .. run - 1
  <2>1. k \in Nat /\ v \in Nat
    OBVIOUS
  <2>2. run \in 0 .. v - k
    BY <1>3, <2>1, RunBounds
  <2> HIDE DEF run
  <2> QED BY <1>2, <2>2
<1> HIDE DEF run, live
<1>5. /\ Positions(r)[run] = Start(k + run) /\ FirstSequence(r) + run = k + run
      /\ k + run \in 0 .. Len(frames) /\ k + run \in 0 .. MaxFrames
      /\ Start(k + run) \in Nat /\ Start(k + run) <= visible /\ Start(k) < Start(k + run)
      /\ rx[r].read <= Start(k) /\ rx[r].read \in Nat /\ Start(k) \in Nat
  BY <1>0, <1>3, <1>4, Advance
<1>6. lease_start[r] = Start(k) /\ Covered(r) /\ ReaderInv(r)
  BY <1>0, <1>3, LeaseHolds DEF ReadsFrom, IndInv
<1>7. ASSUME NEW m \in got
      PROVE  /\ m \in H /\ m.sequence < Len(frames) /\ m.position = Start(m.sequence)
             /\ lease_start[r] <= m.position /\ m.position < visible
  <2>1. PICK j \in live : m = Message(r, j)
    OBVIOUS
  <2>2. j \in 0 .. v - k /\ j < run /\ j \in 0 .. run - 1
    BY <1>4, <2>1
  <2>3. /\ Positions(r)[j] = Start(k + j) /\ FirstSequence(r) + j = k + j
        /\ k + j \in 0 .. MaxFrames /\ k + j \in 0 .. Len(frames)
        /\ Start(k + j) \in Nat /\ Start(k) <= Start(k + j)
    BY <1>0, <1>3, <2>2, Advance
  <2>4. m = [position |-> Start(k + j), sequence |-> k + j]
    BY <2>1, <2>3 DEF Message
  <2>5. k + j < k + run /\ k + j < Len(frames)
    BY <1>4, <1>5, <2>2, <2>3
  <2>6. Start(k + j) < Start(k + run)
    BY <1>5, <2>3, <2>5, StartFacts DEF IndInv, TypeOK
  <2>7. visible \in Nat
    BY ProducerFacts DEF IndInv
  <2>8. Start(k + j) < visible
    BY <1>5, <2>3, <2>6, <2>7
  <2> QED BY <1>6, <2>3, <2>4, <2>5, <2>8
<1>8. got \in SUBSET H
  BY <1>7
<1>9. rpc \in [Readers -> {"idle", "floor", "lease", "lease_from", "check",
                           "check_floor", "reading", "holding", "polling", "clear"}]
      /\ rx \in [Readers -> R]
      /\ held \in [Readers -> SUBSET H] /\ lease_end \in [Readers -> Nat]
  BY DEF IndInv, TypeOK, ReaderTypes, LeaseTypes
<1>10. new \in R /\ new.read = Start(k + run) /\ new.next = k + run
  BY <1>5
<1> HIDE DEF got, new, R, H
<1>11. /\ rpc'[r] = "polling" /\ held'[r] = got /\ lease_end'[r] = Start(k + run)
       /\ lease_start'[r] = lease_start[r] /\ rx'[r] = new /\ cursor'[r] = cursor[r]
       /\ rx' \in [Readers -> R] /\ held' \in [Readers -> SUBSET H]
       /\ lease_end' \in [Readers -> Nat]
       /\ \A s \in Readers \ {r} : SameReader(s)
  BY <1>2, <1>5, <1>8, <1>9, <1>10 DEF SameReader
<1>12. ReaderTypes'
  BY <1>2, <1>9, <1>11 DEF IndInv, TypeOK, ReaderTypes, R, H
<1>13. LeaseTypes'
  BY <1>2, <1>11 DEF IndInv, TypeOK, LeaseTypes, floorVars
<1>14. ReaderInv(r)'
  <2>1. /\ Starts' = Starts /\ \A n : Start(n)' = Start(n)
        /\ Len(frames)' = Len(frames) /\ visible' = visible /\ retained' = retained
        /\ ppc' = ppc /\ target' = target /\ alive' = alive
        /\ Covered(r)' <=> Covered(r)
    BY <1>2, <1>11, ReaderStep
  <2>2. cursor[r].position \in Nat /\ cursor[r].position <= rx[r].read
    BY <1>6 DEF IndInv, TypeOK, ReaderTypes, ReaderInv, CursorOf
  <2>3. k + run <= Len(frames) /\ rx[r].read <= new.read
    <3>1. Len(frames) \in Nat
      BY ProducerFacts DEF IndInv
    <3> QED BY <1>5, <1>10, <3>1
  <2>4. CursorOf(r)'
    BY <1>5, <1>10, <1>11, <2>1, <2>2, <2>3 DEF CursorOf
  <2>5. KeptOf(r)'
    <3>1. retained.position \in Nat /\ new.read \in Nat
      BY <1>5, <1>10, ProducerFacts DEF IndInv
    <3>2. r \in Reliable /\ alive[r] => retained.position <= new.read
      BY <1>5, <1>6, <2>3, <3>1 DEF ReaderInv, KeptOf
    <3> QED BY <1>6, <1>11, <2>1, <3>2 DEF ReaderInv, KeptOf
  <2>6. LoadedBy(r)'
    BY <1>0, <1>2, <1>6, <1>11, <2>1 DEF ReaderInv, LoadedBy
  <2>7. LeaseOf(r)'
    BY <1>5, <1>6, <1>11, <2>1 DEF LeaseOf
  <2>8. Handshake(r)'
    BY <1>6, <1>11, <2>1 DEF Handshake
  <2>9. HeldBy(r)'
    BY <1>7, <1>11, <2>1 DEF HeldBy
  <2> QED BY <2>4, <2>5, <2>6, <2>7, <2>8, <2>9 DEF ReaderInv
<1> QED BY <1>2, <1>11, <1>12, <1>13, <1>14, ReaderFrame

\* release() and flush_progress(): what was borrowed is given back and published.
LEMMA ReleaseInd ==
  ASSUME IndInv, NEW r \in Readers, Release(r)
  PROVE  IndInv'
<1> DEFINE read == IF rpc[r] = "polling" THEN rx[r].read ELSE lease_end[r]
           next == IF rpc[r] = "polling" THEN rx[r].next ELSE LastGiven(r) + 1
           new == [read |-> read, next |-> next]
           pub == [position |-> read, messages |-> next]
           R == [read : Nat, next : 0 .. MaxFrames]
           C == [position : Nat, messages : 0 .. MaxFrames]
<1>1. /\ alive[r] /\ rpc[r] \in {"holding", "polling"}
      /\ rpc' = [rpc EXCEPT ![r] = "clear"] /\ held' = [held EXCEPT ![r] = {}]
      /\ rx' = [rx EXCEPT ![r] = new] /\ cursor' = [cursor EXCEPT ![r] = pub]
      /\ UNCHANGED <<ringVars, floorVars, leaseVars, producerVars, snap, alive>>
  BY DEF Release, Step
<1>2. rpc \in [Readers -> {"idle", "floor", "lease", "lease_from", "check",
                           "check_floor", "reading", "holding", "polling", "clear"}]
      /\ rx \in [Readers -> R] /\ cursor \in [Readers -> C]
      /\ held \in [Readers -> SUBSET [position : Nat, sequence : 0 .. MaxFrames]]
  BY DEF IndInv, TypeOK, ReaderTypes
<1>3. ReaderInv(r) /\ rx[r].read \in Nat /\ rx[r].next \in Nat
  BY <1>2, RetentionAssumption DEF IndInv
<1>4. rx[r].next <= Len(frames) /\ rx[r].read = Start(rx[r].next)
  BY <1>3 DEF ReaderInv, CursorOf
<1>5. Len(frames) \in Nat /\ MaxFrames \in Nat /\ Len(frames) <= MaxFrames
  BY ProducerFacts DEF IndInv, TypeOK, RingTypes
<1>6. /\ next \in 0 .. Len(frames) /\ read = Start(next) /\ rx[r].read <= read
      /\ read \in Nat
  <2>1. CASE rpc[r] = "polling"
    BY <1>3, <1>4, <1>5, <2>1
  <2>2. CASE rpc[r] = "holding"
    <3>1. /\ held[r] = {[position |-> rx[r].read, sequence |-> rx[r].next]}
          /\ rx[r].next < Len(frames) /\ lease_end[r] = Start(rx[r].next + 1)
      BY <1>3, <2>2 DEF ReaderInv, HeldBy
    <3>2. {m.sequence : m \in held[r]} = {rx[r].next}
      BY <3>1
    <3>3. LastGiven(r) = rx[r].next
      BY <1>3, <3>2, MaxSingleton DEF LastGiven
    <3>4. next = rx[r].next + 1 /\ read = Start(rx[r].next + 1)
      BY <2>2, <3>1, <3>3
    <3>5. /\ rx[r].next \in 0 .. Len(frames) /\ rx[r].next + 1 \in 0 .. Len(frames)
          /\ rx[r].next < rx[r].next + 1
      BY <1>3, <1>5, <3>1
    <3>6. Start(rx[r].next) < Start(rx[r].next + 1) /\ Start(rx[r].next + 1) \in Nat
      BY <3>5, StartFacts DEF IndInv, TypeOK
    <3> QED BY <1>3, <1>4, <3>4, <3>5, <3>6
  <2> QED BY <1>1, <2>1, <2>2
<1> HIDE DEF read, next
<1>7. /\ new \in R /\ pub \in C /\ new.read = read /\ new.next = next
      /\ pub.position = read
  BY <1>5, <1>6
<1> HIDE DEF new, pub, R, C
<1>8. /\ rpc'[r] = "clear" /\ held'[r] = {} /\ rx'[r] = new /\ cursor'[r] = pub
      /\ rx' \in [Readers -> R] /\ cursor' \in [Readers -> C]
      /\ held' \in [Readers -> SUBSET [position : Nat, sequence : 0 .. MaxFrames]]
      /\ \A s \in Readers \ {r} : SameReader(s)
  BY <1>1, <1>2, <1>7 DEF SameReader, leaseVars
<1>9. ReaderTypes'
  BY <1>1, <1>2, <1>8 DEF IndInv, TypeOK, ReaderTypes, R, C
<1>10. LeaseTypes'
  BY <1>1 DEF IndInv, TypeOK, LeaseTypes, leaseVars, floorVars
<1>11. ReaderInv(r)'
  <2>1. /\ Starts' = Starts /\ \A n : Start(n)' = Start(n)
        /\ Len(frames)' = Len(frames) /\ visible' = visible /\ retained' = retained
        /\ ppc' = ppc /\ target' = target /\ alive' = alive
    BY <1>1, ReaderStep
  <2>2. CursorOf(r)'
    BY <1>6, <1>7, <1>8, <2>1, <1>5 DEF CursorOf
  <2>3. KeptOf(r)'
    <3>1. /\ retained.position \in Nat /\ target.position \in Nat
      BY ProducerFacts DEF IndInv
    <3>2. cursor[r].position <= rx[r].read /\ cursor[r].position \in Nat
      BY <1>2, <1>3 DEF ReaderInv, CursorOf, C
    <3>3. r \in Reliable /\ alive[r] => retained.position <= new.read
      BY <1>3, <1>6, <1>7, <3>1 DEF ReaderInv, KeptOf
    <3>4. r \in Reliable /\ alive[r] /\ ppc \in {"scan", "scan_end", "evict"} =>
            target = retained \/ target.position <= pub.position
      BY <1>3, <1>6, <1>7, <3>1, <3>2 DEF ReaderInv, KeptOf
    <3> QED BY <1>8, <2>1, <3>3, <3>4 DEF KeptOf
  <2>4. LoadedBy(r)'
    BY <1>1, <1>3, <1>8, <2>1 DEF ReaderInv, LoadedBy
  <2>5. LeaseOf(r)' /\ Handshake(r)'
    BY <1>8 DEF LeaseOf, Handshake
  <2>6. HeldBy(r)'
    BY <1>8 DEF HeldBy
  <2> QED BY <2>2, <2>3, <2>4, <2>5, <2>6 DEF ReaderInv
<1> QED BY <1>1, <1>8, <1>9, <1>10, <1>11, ReaderFrame

\* clear_latest_lease()
LEMMA ClearLatestLeaseInd ==
  ASSUME IndInv, NEW r \in Readers, ClearLatestLease(r)
  PROVE  IndInv'
<1> DEFINE S == [retained : Nat, visible : Nat, intent : Nat \cup {NoLease}]
<1>1. /\ alive[r] /\ rpc[r] = "clear" /\ rpc' = [rpc EXCEPT ![r] = "idle"]
      /\ lease_start' = [lease_start EXCEPT ![r] = NoLease]
      /\ snap' = [snap EXCEPT ![r] = NoSnap]
      /\ UNCHANGED <<ringVars, floorVars, lease_end, cursor, producerVars, rx, held, alive>>
  BY DEF ClearLatestLease, Step
<1>2. rpc \in [Readers -> {"idle", "floor", "lease", "lease_from", "check",
                           "check_floor", "reading", "holding", "polling", "clear"}]
      /\ snap \in [Readers -> S] /\ lease_start \in [Readers -> Nat \cup {NoLease}]
  BY DEF IndInv, TypeOK, ReaderTypes, LeaseTypes
<1>3. NoSnap \in S
  BY DEF NoSnap
<1> HIDE DEF S
<1>4. /\ rpc'[r] = "idle" /\ snap' \in [Readers -> S]
      /\ lease_start' \in [Readers -> Nat \cup {NoLease}]
      /\ \A s \in Readers \ {r} : SameReader(s)
  BY <1>1, <1>2, <1>3 DEF SameReader
<1>5. ReaderTypes'
  BY <1>1, <1>2, <1>4 DEF IndInv, TypeOK, ReaderTypes, S
<1>6. LeaseTypes'
  BY <1>1, <1>4 DEF IndInv, TypeOK, LeaseTypes, floorVars
<1>7. ReaderInv(r)'
  <2>1. /\ Starts' = Starts /\ \A n : Start(n)' = Start(n)
        /\ Len(frames)' = Len(frames) /\ visible' = visible /\ retained' = retained
        /\ ppc' = ppc /\ target' = target /\ alive' = alive /\ ReaderInv(r)
    BY <1>1, ReaderStep
  <2>2. KeptOf(r)' /\ CursorOf(r)'
    BY <1>1, <2>1 DEF ReaderInv, KeptOf, CursorOf
  <2>3. LoadedBy(r)' /\ LeaseOf(r)' /\ Handshake(r)'
    BY <1>4 DEF LoadedBy, LeaseOf, Handshake
  <2>4. HeldBy(r)'
    BY <1>1, <1>4, <2>1 DEF ReaderInv, HeldBy
  <2> QED BY <2>2, <2>3, <2>4 DEF ReaderInv
<1> QED BY <1>1, <1>4, <1>5, <1>6, <1>7, ReaderFrame

-----------------------------------------------------------------------------
(* The steps of the publisher that leave the ring alone *)

\* Where a reader has a lease that is checked, or may pass its check.
Checking == {"check_floor", "reading", "holding", "polling"}

\* What a live reader announced spans bytes that are visible.
LEMMA LeaseSpan ==
  ASSUME IndInv, NEW r \in Readers, alive[r], rpc[r] \in Checking
  PROVE  /\ lease_start[r] \in Nat /\ lease_end[r] \in Nat
         /\ lease_start[r] < lease_end[r] /\ lease_end[r] <= visible
<1>1. /\ lease_start[r] \in Nat \cup {NoLease} /\ lease_end[r] \in Nat
  BY DEF IndInv, TypeOK, LeaseTypes
<1>2. ReaderInv(r)
  BY DEF IndInv
<1>3. CASE rpc[r] \in {"check_floor", "reading"}
  <2>1. /\ lease_start[r] = LeaseFrom(r) /\ lease_end[r] = snap[r].visible
        /\ LeaseFrom(r) < snap[r].visible /\ snap[r].visible <= visible
    BY <1>2, <1>3 DEF ReaderInv, LeaseOf, LoadedBy
  <2>2. LeaseFrom(r) \in Nat
    BY LeaseStarts DEF IndInv
  <2> QED BY <1>1, <2>1, <2>2
<1>4. CASE rpc[r] \in {"holding", "polling"}
  <2>1. 0 <= lease_start[r] /\ lease_start[r] < lease_end[r] /\ lease_end[r] <= visible
    BY <1>2, <1>4 DEF ReaderInv, LeaseOf
  <2> QED BY <1>1, <2>1 DEF NoLease
<1> QED BY <1>3, <1>4 DEF Checking

\* A step of the publisher that moves the floor up, if at all, and takes no cover
\* from a lease.
LEMMA ProducerFrame ==
  ASSUME IndInv, UNCHANGED <<ringVars, lease_end, cursor, readerVars, alive>>,
         \A r \in Readers : alive[r] => lease_start'[r] = lease_start[r],
         retained.position <= retained'.position,
         LeaseTypes', ProducerTypes', Search', Floored', Announced',
         \A r \in Readers : KeptOf(r)',
         \A r \in Readers :
           alive[r] /\ rpc[r] \in Checking /\ Covered(r) => Covered(r)'
  PROVE  IndInv'
<1>1. /\ RingTypes' /\ Layout' /\ Claims' /\ Headers'
      /\ Starts' = Starts /\ \A n : Start(n)' = Start(n)
  BY RingFrame
<1>2. Len(frames)' = Len(frames) /\ visible' = visible
  BY DEF ringVars
<1>3. ReaderTypes'
  BY DEF IndInv, TypeOK, ReaderTypes, readerVars
<1>4. ASSUME NEW r \in Readers PROVE ReaderInv(r)'
  <2>1. /\ ReaderInv(r) /\ rpc' = rpc /\ rx' = rx /\ snap' = snap /\ held' = held
        /\ cursor' = cursor /\ alive' = alive /\ lease_end' = lease_end
        /\ alive[r] => lease_start'[r] = lease_start[r]
    BY DEF IndInv, readerVars
  <2>2. LeaseFrom(r)' = LeaseFrom(r) /\ (Lagged(r)' <=> Lagged(r))
    BY <2>1 DEF LeaseFrom, Lagged
  <2>3. CursorOf(r)'
    BY <1>1, <1>2, <2>1 DEF ReaderInv, CursorOf
  <2>4. snap[r].retained \in Nat /\ retained.position \in Nat /\ retained'.position \in Nat
    BY LeaseStarts, ProducerFacts DEF IndInv, LeaseTypes
  <2>5. LoadedBy(r)'
    BY <1>1, <1>2, <2>1, <2>2, <2>4 DEF ReaderInv, LoadedBy
  <2>6. LeaseOf(r)'
    BY <1>2, <2>1, <2>2 DEF ReaderInv, LeaseOf
  <2>7. Handshake(r)'
    BY <2>1, <2>4 DEF ReaderInv, Handshake, Checking
  <2>8. HeldBy(r)'
    BY <1>1, <1>2, <2>1 DEF ReaderInv, HeldBy
  <2> QED BY <2>3, <2>5, <2>6, <2>7, <2>8 DEF ReaderInv
<1> QED BY <1>1, <1>3, <1>4 DEF IndInv, TypeOK

\* Which fit, of the count asked for, is at least one.
LEMMA FitBounds ==
  ASSUME NEW len \in FrameLens, NEW count \in 1 .. MaxBatch
  PROVE  WatermarkFit(len, count) \in 1 .. count
<1> DEFINE T == {count, RetentionCapacity \div len} \cup
                  IF MessageWindow = 0 THEN {} ELSE {MessageWindow}
<1>1. /\ len \in Nat /\ len > 0 /\ RetentionCapacity \in Nat /\ len <= RetentionCapacity
      /\ MessageWindow \in Nat /\ count \in Nat /\ count > 0
  BY RetentionAssumption
<1>2. RetentionCapacity \div len \in Nat /\ RetentionCapacity \div len > 0
  <2> DEFINE q == RetentionCapacity \div len
  <2>1. /\ RetentionCapacity = len * q + (RetentionCapacity % len)
        /\ RetentionCapacity % len < len /\ q \in Nat
    BY <1>1
  <2>2. q = 0 => FALSE
    <3>1. q = 0 => len * q = 0
      BY <1>1
    <3>2. RetentionCapacity % len \in Nat
      BY <1>1
    <3> QED BY <3>1, <3>2, <2>1, <1>1
  <2> QED BY <2>1, <2>2
<1>3. T \subseteq Nat /\ T # {} /\ count \in T /\ \A x \in T : x > 0
  BY <1>1, <1>2
<1>4. Min(T) \in T /\ \A y \in T : Min(T) <= y
  BY <1>3, MinNatural
<1>5. Min(T) \in 1 .. count
  BY <1>1, <1>3, <1>4
<1> QED BY <1>5 DEF WatermarkFit

\* claim() and claim_batch() are called.
LEMMA EnterClaimInd ==
  ASSUME IndInv, NEW len \in FrameLens, NEW count \in 1 .. MaxBatch,
         EnterClaim(len, count)
  PROVE  IndInv'
<1> DEFINE fit == WatermarkFit(len, count)
<1>0. /\ MaxBatch \in Nat /\ MaxFrames \in Nat /\ Len(frames) \in Nat
      /\ ProducerPos \in Nat /\ ask.len \in Nat /\ len \in Nat
  <2>1. len \in Nat
    BY RetentionAssumption
  <2> QED BY <2>1, ProducerFacts DEF IndInv
<1>1. fit \in 1 .. count
  BY FitBounds
<1>2. /\ alive[Producer] /\ ppc = "idle" /\ ppc' = "prepare"
      /\ Len(frames) + count <= MaxFrames
      /\ ask' = [len |-> len, count |-> fit]
      /\ search' = [low |-> 0, high |-> fit, now |-> fit]
      /\ UNCHANGED <<ringVars, floorVars, leaseVars, cursor, target, scan, seen_start,
                     readerVars, alive>>
  BY DEF EnterClaim, At
<1> HIDE DEF fit
<1>3. /\ ask'.len = len /\ search'.low = 0 /\ search'.high = fit /\ search'.now = fit
      /\ Len(frames)' = Len(frames) /\ visible' = visible
      /\ retained' = retained /\ intent' = intent
  BY <1>2 DEF ringVars, floorVars
<1>4. ProducerPos' = ProducerPos /\ \A n : Start(n)' = Start(n)
  BY <1>2, RingFrame
<1>5. search.low = 0
  BY <1>2 DEF IndInv, Search
<1>6. After(search.low) = ProducerPos /\ After(search.low)' = ProducerPos
  BY <1>0, <1>3, <1>4, <1>5 DEF After
<1>7. ProducerTypes'
  BY <1>0, <1>1, <1>2 DEF IndInv, TypeOK, ProducerTypes
<1>8. LeaseTypes'
  BY <1>2 DEF IndInv, TypeOK, LeaseTypes, leaseVars, floorVars
<1>9. Search'
  BY <1>0, <1>1, <1>2, <1>3 DEF Search, Announcing
<1>10. Floored'
  <2>1. Needed(retained.messages, search.low)
    BY <1>2 DEF IndInv, Floored
  <2>2. Needed(retained.messages, search.low)'
    BY <2>1, <1>3, <1>4, <1>5, <1>6 DEF Needed
  <2> QED BY <1>3, <1>4, <1>6, <2>2 DEF IndInv, Floored
<1>11. Announced'
  BY <1>2, <1>3 DEF IndInv, Announced, Announcing
<1>12. \A r \in Readers : KeptOf(r)'
  BY <1>2, <1>3 DEF IndInv, ReaderInv, KeptOf, readerVars
<1>13. \A r \in Readers : Covered(r) => Covered(r)'
  BY <1>2, <1>6 DEF Covered, Passed, leaseVars
<1>14. retained.position <= retained'.position
  <2>1. retained.position \in Nat
    BY ProducerFacts DEF IndInv
  <2> QED BY <1>3, <2>1
<1> QED BY <1>2, <1>7, <1>8, <1>9, <1>10, <1>11, <1>12, <1>13, <1>14, ProducerFrame
        DEF leaseVars

\* claim_batch() halves the interval, or is done.
LEMMA AttemptSearch ==
  ASSUME IndInv, NEW ok \in BOOLEAN, ppc \in Announcing \cup {"prepare"},
         AfterAttempt(ok), UNCHANGED <<ringVars, ask>>
  PROVE  /\ Search'
         /\ search' \in [low : 0 .. MaxBatch, high : 0 .. MaxBatch, now : 0 .. MaxBatch]
         /\ search'.low = (IF ok THEN search.now ELSE search.low)
         /\ ppc' \in {"prepare", "idle", "take"}
<1> DEFINE low == IF ok THEN search.now ELSE search.low
           high == IF ok THEN search.high ELSE search.now
           more == high - low > 1
           now == IF more THEN low + (high - low) \div 2 ELSE low
<1>1. /\ search.low \in 0 .. MaxBatch /\ search.high \in 0 .. MaxBatch
      /\ search.now \in 0 .. MaxBatch /\ MaxBatch \in Nat /\ Len(frames) \in Nat
      /\ MaxFrames \in Nat
  BY ProducerFacts DEF IndInv, TypeOK, ProducerTypes
<1>2. /\ search.low < search.now /\ search.now <= search.high
      /\ Len(frames) + search.high <= MaxFrames /\ ask.len \in FrameLens
  BY DEF IndInv, Search, Announcing
<1>3. /\ search' = [low |-> low, high |-> high, now |-> now]
      /\ ppc' = IF more THEN "prepare" ELSE IF low = 0 THEN "idle" ELSE "take"
  BY DEF AfterAttempt
<1>4. /\ low \in 0 .. MaxBatch /\ high \in 0 .. MaxBatch /\ low <= high
      /\ high <= search.high
  BY <1>1, <1>2
<1> HIDE DEF low, high
<1>5. now \in 0 .. MaxBatch /\ (more => low < now /\ now <= high) /\ (~more => now = low)
  BY <1>1, <1>4
<1> HIDE DEF now, more
<1>6. search'.low = low /\ search'.high = high /\ search'.now = now
  BY <1>3
<1>7. Len(frames)' = Len(frames) /\ ask' = ask
  BY DEF ringVars
<1>8. Len(frames) + high <= MaxFrames
  BY <1>1, <1>2, <1>4
<1>9. Search'
  BY <1>1, <1>2, <1>3, <1>4, <1>5, <1>6, <1>7, <1>8 DEF Search, Announcing
<1> QED BY <1>3, <1>4, <1>5, <1>6, <1>9 DEF low

\* The number tried does not fit.
LEMMA PrepareFailsInd ==
  ASSUME IndInv, PrepareFails
  PROVE  IndInv'
<1>1. /\ ppc = "prepare" /\ AfterAttempt(FALSE)
      /\ UNCHANGED <<ringVars, floorVars, leaseVars, cursor, ask, target, scan, seen_start,
                     readerVars, alive>>
  BY DEF PrepareFails
<1>2. /\ Search'
      /\ search' \in [low : 0 .. MaxBatch, high : 0 .. MaxBatch, now : 0 .. MaxBatch]
      /\ search'.low = search.low /\ ppc' \in {"prepare", "idle", "take"}
  BY <1>1, AttemptSearch
<1>3. /\ Len(frames)' = Len(frames) /\ visible' = visible
      /\ retained' = retained /\ intent' = intent
  BY <1>1 DEF ringVars, floorVars
<1>4. ProducerPos' = ProducerPos /\ \A n : Start(n)' = Start(n)
  BY <1>1, RingFrame
<1>5. \A n : After(n)' = After(n)
  BY <1>1, <1>4 DEF After
<1>6. ProducerTypes'
  BY <1>1, <1>2 DEF IndInv, TypeOK, ProducerTypes
<1>7. LeaseTypes'
  BY <1>1 DEF IndInv, TypeOK, LeaseTypes, leaseVars, floorVars
<1>8. Floored'
  <2>1. Needed(retained.messages, search.low)
    BY <1>1 DEF IndInv, Floored
  <2>2. Needed(retained.messages, search.low)'
    BY <2>1, <1>2, <1>3, <1>4, <1>5 DEF Needed
  <2> QED BY <1>2, <1>3, <1>4, <1>5, <2>2 DEF IndInv, Floored
<1>9. Announced'
  BY <1>1, <1>2, <1>3 DEF IndInv, Announced, Announcing
<1>10. \A r \in Readers : KeptOf(r)'
  BY <1>1, <1>2, <1>3 DEF IndInv, ReaderInv, KeptOf, readerVars
<1>11. \A r \in Readers : Covered(r) => Covered(r)'
  BY <1>1, <1>2, <1>5 DEF Covered, Passed, leaseVars
<1>12. retained.position <= retained'.position
  <2>1. retained.position \in Nat
    BY ProducerFacts DEF IndInv
  <2> QED BY <1>3, <2>1
<1> QED BY <1>1, <1>2, <1>6, <1>7, <1>8, <1>9, <1>10, <1>11, <1>12, ProducerFrame
        DEF leaseVars

\* The floor it announces is the lowest that leaves room for what is tried.
LEMMA LowestFits ==
  ASSUME IndInv, MayEvict, ppc = "prepare"
  PROVE  LET n == LowestFloor.messages
         IN  /\ n \in retained.messages .. Len(frames) /\ LowestFloor.position = Start(n)
             /\ Start(n) \in Nat /\ Start(n) <= visible
             /\ After(search.now) <= Start(n) + RetentionCapacity
             /\ Needed(n, search.now)
<1> DEFINE T == Floors(ask.len, search.now)
           n == Min(T)
<1>1. LowestFloor.messages = n /\ LowestFloor.position = Start(n)
  BY DEF LowestFloor, Floor
<1>2. /\ retained.messages \in Nat /\ Len(frames) \in Nat /\ RetentionCapacity \in Nat
      /\ ProducerPos \in Nat /\ visible \in Nat /\ MessageWindow \in Nat
      /\ search.low \in Nat /\ search.now \in Nat
      /\ After(search.low) \in Nat /\ After(search.now) \in Nat
  BY ProducerFacts DEF IndInv
<1>3. T \subseteq Nat /\ T # {}
  BY <1>2 DEF MayEvict, Floors
<1>4. n \in T /\ \A y \in T : n <= y
  BY <1>3, MinNatural
<1> DEFINE Low(x) == /\ Start(x) <= visible
                     /\ After(search.now) - Start(x) <= RetentionCapacity
                     /\ MessageWindow # 0 =>
                          Len(frames) + search.now - x <= MessageWindow
<1>5. \A x \in retained.messages .. Len(frames) : x \in T <=> Low(x)
  <2> TAKE x \in retained.messages .. Len(frames)
  <2>1. Start(x) \in Nat
    <3>1. x \in 0 .. Len(frames)
      BY <1>2
    <3> QED BY <3>1, StartFacts DEF IndInv, TypeOK
  <2>2. ProducerPos + ask.len * search.now = After(search.now) /\ ask.len * search.now \in Nat
    <3>1. ask.len \in Nat
      BY ProducerFacts DEF IndInv
    <3> QED BY <1>2, <3>1 DEF After
  <2>3. ProducerPos + ask.len * search.now - Start(x) = After(search.now) - Start(x)
    BY <1>2, <2>1, <2>2
  <2> QED BY <2>3 DEF Floors
<1> HIDE DEF n, T
<1>6. /\ n \in retained.messages .. Len(frames) /\ n \in 0 .. Len(frames)
      /\ Start(n) <= visible /\ After(search.now) - Start(n) <= RetentionCapacity
  <2>1. n \in retained.messages .. Len(frames)
    BY <1>4 DEF T, Floors
  <2> QED BY <1>2, <1>4, <1>5, <2>1
<1>7. Start(n) \in Nat
  BY <1>6, StartFacts DEF IndInv, TypeOK
<1>8. Needed(n, search.now)
  <2>1. CASE n = retained.messages
    <3>1. Needed(n, search.low)
      BY <2>1 DEF IndInv, Floored
    <3>2. search.low <= search.now
      BY <1>2 DEF IndInv, Search
    <3>3. After(search.low) <= After(search.now)
      BY <1>2, <3>2, ProducerFacts DEF IndInv
    <3>4. n > 0 => Start(n - 1) \in Nat
      <4>1. n > 0 => n - 1 \in 0 .. Len(frames)
        BY <1>2, <1>6
      <4> QED BY <4>1, StartFacts DEF IndInv, TypeOK
    <3>5. n \in Nat
      BY <1>6
    <3>6. CASE n > 0
      BY <1>2, <3>1, <3>2, <3>3, <3>4, <3>5, <3>6, SMTT(20) DEF Needed
    <3> QED BY <3>5, <3>6 DEF Needed
  <2>2. CASE n # retained.messages
    <3>1. n - 1 \in retained.messages .. Len(frames) /\ n - 1 < n
      BY <1>2, <1>6, <2>2
    <3>2. n - 1 \in 0 .. Len(frames)
      BY <1>2, <3>1
    <3>3. n - 1 \notin T
      BY <1>4, <1>6, <3>1, <3>2
    <3>4. Start(n - 1) \in Nat /\ Start(n - 1) < Start(n)
      BY <1>6, <3>1, <3>2, StartFacts DEF IndInv, TypeOK
    <3>5. Start(n - 1) <= visible
      BY <1>2, <1>6, <1>7, <3>4
    <3>6. \/ ~(After(search.now) - Start(n - 1) <= RetentionCapacity)
          \/ MessageWindow # 0 /\ ~(Len(frames) + search.now - (n - 1) <= MessageWindow)
      BY <1>5, <3>1, <3>3, <3>5
    <3> QED BY <1>2, <1>6, <3>4, <3>6, SMTT(20) DEF Needed
  <2> QED BY <2>1, <2>2
<1>9. After(search.now) <= Start(n) + RetentionCapacity
  BY <1>2, <1>6, <1>7
<1> QED BY <1>1, <1>6, <1>7, <1>8, <1>9

\* Where readers start and end.
LEMMA ReaderNumbers ==
  /\ \A r \in Readers : r \in Nat /\ (r + 1 \notin Readers => \A s \in Readers : s <= r)
  /\ 0 \notin Readers => Readers = {}
  /\ \A r \in Readers : r \in 0 .. Cardinality(Readers) /\ r + 1 \in 0 .. Cardinality(Readers)
  /\ 0 \in 0 .. Cardinality(Readers)
<1> DEFINE c == Cardinality(Readers)
<1>1. c \in Nat /\ Readers = 0 .. c - 1
  BY RetentionAssumption
<1> HIDE DEF c
<1>2. /\ \A r \in Readers : r \in Nat /\ (r + 1 \notin Readers => \A s \in Readers : s <= r)
      /\ 0 \notin Readers => Readers = {}
      /\ \A r \in Readers : r \in 0 .. c /\ r + 1 \in 0 .. c
      /\ 0 \in 0 .. c
  BY <1>1
<1> QED BY <1>2 DEF c

\* The floor is announced before the leases are looked at.
LEMMA AnnounceIntentInd ==
  ASSUME IndInv, AnnounceIntent
  PROVE  IndInv'
<1>1. /\ ppc = "prepare" /\ ppc' = ScanFrom(0) /\ MayEvict
      /\ target' = LowestFloor /\ intent' = LowestFloor.position /\ scan' = 0
      /\ UNCHANGED <<ringVars, retained, leaseVars, cursor, ask, search, seen_start,
                     readerVars, alive>>
  BY DEF AnnounceIntent, At
<1> DEFINE n == LowestFloor.messages
<1>2. /\ n \in retained.messages .. Len(frames) /\ LowestFloor.position = Start(n)
      /\ Start(n) \in Nat /\ Start(n) <= visible
      /\ After(search.now) <= Start(n) + RetentionCapacity
      /\ Needed(n, search.now)
  BY <1>1, LowestFits
<1>3. LowestFloor = [position |-> Start(n), messages |-> n]
  BY DEF LowestFloor, Floor
<1> HIDE DEF n
<1>4. /\ Len(frames) \in Nat /\ MaxFrames \in Nat /\ Len(frames) <= MaxFrames
      /\ retained.messages \in Nat /\ retained.position \in Nat
  BY ProducerFacts DEF IndInv, TypeOK, RingTypes
<1>5. /\ target' = [position |-> Start(n), messages |-> n] /\ intent' = Start(n)
      /\ target'.position = Start(n) /\ target'.messages = n
      /\ Len(frames)' = Len(frames) /\ visible' = visible /\ retained' = retained
      /\ search' = search
  BY <1>1, <1>2, <1>3 DEF ringVars
<1>6. ProducerPos' = ProducerPos /\ \A x : Start(x)' = Start(x)
  BY <1>1, RingFrame
<1>7. \A x : After(x)' = After(x)
  BY <1>1, <1>6 DEF After
<1>8. \A x, y : Needed(x, y)' <=> Needed(x, y)
  BY <1>5, <1>6, <1>7 DEF Needed
<1>9. ppc' \in {"scan", "evict"} /\ (ppc' = "scan" <=> 0 \in Readers)
  BY <1>1 DEF ScanFrom
<1>10. ProducerTypes'
  <2>1. target' \in [position : Nat, messages : 0 .. MaxFrames]
    BY <1>2, <1>4, <1>5
  <2> QED BY <1>1, <1>9, <2>1, ReaderNumbers DEF IndInv, TypeOK, ProducerTypes
<1>11. LeaseTypes'
  BY <1>1, <1>2, <1>5 DEF IndInv, TypeOK, LeaseTypes, leaseVars
<1>12. Search'
  BY <1>1, <1>5, <1>9 DEF IndInv, Search, Announcing
<1>13. Floored'
  BY <1>1, <1>5, <1>6, <1>7, <1>8, <1>9 DEF IndInv, Floored
<1>14. Announced'
  BY <1>1, <1>2, <1>5, <1>6, <1>7, <1>8, <1>9 DEF Announced, Announcing
<1>15. ASSUME NEW r \in Readers PROVE KeptOf(r)'
  <2>1. ReaderInv(r)
    BY DEF IndInv
  <2>2. r \in Reliable /\ alive[r] => LowestFloor = retained
                                      \/ LowestFloor.position <= cursor[r].position
    <3>1. LowestFloor.position \in Nat /\ cursor[r].position \in Nat
      BY <1>2 DEF IndInv, TypeOK, ReaderTypes
    <3> QED BY <1>1, <3>1 DEF MayEvict, ReliableConsumersAllow
  <2> QED BY <1>1, <1>5, <2>1, <2>2 DEF ReaderInv, KeptOf, readerVars
<1>16. \A r \in Readers : Covered(r) => Covered(r)'
  BY <1>1, <1>5, <1>7, <1>9, ReaderNumbers DEF Covered, Passed, leaseVars
<1>17. retained.position <= retained'.position
  BY <1>4, <1>5
<1> QED BY <1>1, <1>10, <1>11, <1>12, <1>13, <1>14, <1>15, <1>16, <1>17, ProducerFrame
        DEF leaseVars

\* lease_start of one reader is looked at.
LEMMA ScanStartInd ==
  ASSUME IndInv, ScanStart
  PROVE  IndInv'
<1> DEFINE none == lease_start[scan] = NoLease
<1>1. /\ ppc = "scan" /\ ppc' = IF none THEN ScanFrom(scan + 1) ELSE "scan_end"
      /\ seen_start' = lease_start[scan]
      /\ scan' = IF none THEN scan + 1 ELSE scan
      /\ UNCHANGED <<ringVars, floorVars, leaseVars, cursor, ask, search, target,
                     readerVars, alive>>
  BY DEF ScanStart, At
<1>2. scan \in Readers /\ scan \in Nat
  BY <1>1, ReaderNumbers DEF IndInv, Announced
<1>3. /\ ppc' \in {"scan", "scan_end", "evict"}
      /\ ppc' = "scan_end" <=> ~none
      /\ ppc' = "scan" => scan + 1 \in Readers
      /\ ppc' = "evict" => scan + 1 \notin Readers
  BY <1>1 DEF ScanFrom
<1> HIDE DEF none
<1>4. /\ Len(frames)' = Len(frames) /\ visible' = visible /\ retained' = retained
      /\ intent' = intent /\ target' = target /\ search' = search /\ ask' = ask
  BY <1>1 DEF ringVars, floorVars
<1>5. ProducerPos' = ProducerPos /\ \A x : Start(x)' = Start(x)
  BY <1>1, RingFrame
<1>6. \A x : After(x)' = After(x)
  BY <1>4, <1>5 DEF After
<1>7. \A x, y : Needed(x, y)' <=> Needed(x, y)
  BY <1>4, <1>5, <1>6 DEF Needed
<1>8. ProducerTypes'
  <2>1. seen_start' \in Nat \cup {NoLease}
    BY <1>1, <1>2 DEF IndInv, TypeOK, LeaseTypes
  <2>2. scan' \in 0 .. Cardinality(Readers)
    BY <1>1, <1>2, ReaderNumbers
  <2> QED BY <1>3, <1>4, <2>1, <2>2 DEF IndInv, TypeOK, ProducerTypes
<1>9. LeaseTypes'
  BY <1>1 DEF IndInv, TypeOK, LeaseTypes, leaseVars, floorVars
<1>10. Search'
  BY <1>1, <1>3, <1>4 DEF IndInv, Search, Announcing
<1>11. Floored'
  BY <1>1, <1>3, <1>4, <1>5, <1>6, <1>7 DEF IndInv, Floored
<1>12. Announced'
  <2>1. ppc' \in {"scan", "scan_end"} => scan' \in Readers
    BY <1>1, <1>2, <1>3
  <2> QED BY <1>1, <1>3, <1>4, <1>5, <1>6, <1>7, <2>1 DEF IndInv, Announced, Announcing
<1>13. \A r \in Readers : KeptOf(r)'
  BY <1>1, <1>3, <1>4 DEF IndInv, ReaderInv, KeptOf, readerVars
<1>14. ASSUME NEW r \in Readers, alive[r], rpc[r] \in Checking, Covered(r)
       PROVE  Covered(r)'
  <2>1. lease_start[r] # NoLease
    <3>1. lease_start[r] \in Nat
      BY <1>14, LeaseSpan
    <3> QED BY <3>1 DEF NoLease
  <2>2. Passed(r)' => Passed(r)
    <3>1. CASE none
      <4>1. r # scan /\ r \in Nat
        BY <2>1, <3>1, ReaderNumbers DEF none
      <4>2. ppc' = "evict" => r < scan
        BY <1>2, <1>3, <4>1, ReaderNumbers
      <4>3. ppc' = "scan" /\ scan' > r => r < scan
        BY <1>1, <1>2, <3>1, <4>1
      <4> QED BY <1>1, <1>3, <3>1, <4>2, <4>3, <1>2, <4>1 DEF Passed
    <3>2. CASE ~none
      BY <1>1, <1>3, <3>2 DEF Passed
    <3> QED BY <3>1, <3>2
  <2>3. ppc' = "scan_end" /\ scan' = r => seen_start' = lease_start'[r]
    BY <1>1, <1>3 DEF leaseVars
  <2> QED BY <1>1, <1>4, <1>6, <1>14, <2>2, <2>3 DEF Covered, leaseVars
<1>15. retained.position <= retained'.position
  <2>1. retained.position \in Nat
    BY ProducerFacts DEF IndInv
  <2> QED BY <1>4, <2>1
<1> QED BY <1>1, <1>8, <1>9, <1>10, <1>11, <1>12, <1>13, <1>14, <1>15, ProducerFrame
        DEF leaseVars

\* A write that takes no unit of a range that is still in the ring ends before the
\* ring comes round to it.
LEMMA ApartFits ==
  ASSUME TypeOK, Layout, NEW s \in Nat, NEW e \in Nat, s < e, e <= ProducerPos,
         ~RingRangesOverlap(s, e), ProducerPos <= s + Cap
  PROVE  After(search.now) <= s + Cap
<1>1. /\ Cap \in Nat /\ ProducerPos \in Nat /\ ask.len \in Nat /\ search.now \in Nat
      /\ After(search.now) \in Nat
  BY ProducerFacts
<1>2. SUFFICES ASSUME s + Cap < After(search.now) PROVE FALSE
  BY <1>1
<1>3. ProducerPos + ask.len * search.now = After(search.now)
  BY DEF After
<1>4. s + Cap \in ProducerPos .. After(search.now) - 1
  BY <1>1, <1>2
<1>5. Unit(s + Cap) \in Units(ProducerPos, ProducerPos + ask.len * search.now)
  BY <1>3, <1>4 DEF Units
<1>6. s \in s .. e - 1
  OBVIOUS
<1>7. Unit(s) \in Units(s, e)
  BY <1>6 DEF Units
<1>8. Unit(s + Cap) = Unit(s)
  BY UnitWraps
<1> QED BY <1>5, <1>7, <1>8 DEF RingRangesOverlap

\* lease_end of the same reader is looked at: the lease is apart from the write, or
\* its reader is dead, or the attempt is given up.
LEMMA ScanEndInd ==
  ASSUME IndInv, ScanEnd
  PROVE  IndInv'
<1> DEFINE to == lease_end[scan]
           sane == to - seen_start \in 0 .. Cap
           free == sane /\ ~RingRangesOverlap(seen_start, to)
           stale == sane /\ ~free /\ ~alive[scan]
           on == free \/ stale
<1>1. /\ ppc = "scan_end" /\ ppc' = IF on THEN ScanFrom(scan + 1) ELSE "blocked"
      /\ lease_start' = [lease_start EXCEPT ![scan] = IF stale THEN NoLease ELSE @]
      /\ scan' = scan + 1 /\ seen_start' = NoLease
      /\ UNCHANGED <<ringVars, floorVars, lease_end, cursor, ask, search, target,
                     readerVars, alive>>
  BY DEF ScanEnd, At
<1>2. scan \in Readers /\ scan \in Nat
  BY <1>1, ReaderNumbers DEF IndInv, Announced
<1>3. on /\ alive[scan] => ~RingRangesOverlap(seen_start, to)
  OBVIOUS
<1>4. stale => ~alive[scan]
  OBVIOUS
<1> HIDE DEF sane, free, stale, on
<1>5. /\ ppc' \in {"scan", "evict", "blocked"} /\ (ppc' # "blocked" <=> on)
      /\ ppc' = "scan" => scan + 1 \in Readers
      /\ ppc' = "evict" => scan + 1 \notin Readers
  BY <1>1 DEF ScanFrom
<1>6. /\ Len(frames)' = Len(frames) /\ visible' = visible /\ retained' = retained
      /\ intent' = intent /\ target' = target /\ search' = search /\ ask' = ask
  BY <1>1 DEF ringVars, floorVars
<1>7. ProducerPos' = ProducerPos /\ \A x : Start(x)' = Start(x)
  BY <1>1, RingFrame
<1>8. \A x : After(x)' = After(x)
  BY <1>6, <1>7 DEF After
<1>9. \A x, y : Needed(x, y)' <=> Needed(x, y)
  BY <1>6, <1>7, <1>8 DEF Needed
<1>10. ProducerTypes'
  <2>1. scan' \in 0 .. Cardinality(Readers)
    BY <1>1, <1>2, ReaderNumbers
  <2> QED BY <1>1, <1>5, <1>6, <2>1 DEF IndInv, TypeOK, ProducerTypes
<1>11. lease_start \in [Readers -> Nat \cup {NoLease}]
  BY DEF IndInv, TypeOK, LeaseTypes
<1>12. lease_start' \in [Readers -> Nat \cup {NoLease}]
  BY <1>1, <1>11
<1>13. \A r \in Readers : alive[r] => lease_start'[r] = lease_start[r]
  BY <1>1, <1>4, <1>11
<1>14. LeaseTypes'
  BY <1>1, <1>12 DEF IndInv, TypeOK, LeaseTypes, floorVars
<1>15. Search'
  BY <1>1, <1>5, <1>6 DEF IndInv, Search, Announcing
<1>16. Floored'
  BY <1>1, <1>5, <1>6, <1>7, <1>8, <1>9 DEF IndInv, Floored
<1>17. Announced'
  <2>1. ppc' \in {"scan", "scan_end"} => scan' \in Readers
    BY <1>1, <1>5
  <2> QED BY <1>1, <1>5, <1>6, <1>7, <1>8, <1>9, <2>1 DEF IndInv, Announced, Announcing
<1>18. \A r \in Readers : KeptOf(r)'
  BY <1>1, <1>5, <1>6 DEF IndInv, ReaderInv, KeptOf, readerVars
<1>19. ASSUME NEW r \in Readers, alive[r], rpc[r] \in Checking, Covered(r)
       PROVE  Covered(r)'
  <2>1. lease_start'[r] = lease_start[r]
    BY <1>13, <1>19
  <2>2. CASE r = scan /\ on
    <3>1. ~RingRangesOverlap(seen_start, to)
      BY <1>3, <1>19, <2>2
    <3>2. After(search.now) <= lease_start[r] + Cap
      <4>1. CASE seen_start = lease_start[r]
        <5>1. /\ lease_start[r] \in Nat /\ lease_end[r] \in Nat
              /\ lease_start[r] < lease_end[r] /\ lease_end[r] <= visible
          BY <1>19, LeaseSpan
        <5>2. visible <= ProducerPos
          BY StartFacts DEF IndInv, TypeOK, Claims, Starts
        <5>3. /\ ProducerPos \in Nat /\ visible \in Nat /\ Cap \in Nat
              /\ After(search.low) \in Nat /\ ProducerPos <= After(search.low)
          BY ProducerFacts DEF IndInv
        <5>4. After(search.low) <= lease_start[r] + Cap
          BY <1>19 DEF Covered
        <5>5. lease_end[r] <= ProducerPos /\ ProducerPos <= lease_start[r] + Cap
          BY <5>1, <5>2, <5>3, <5>4
        <5>6. ~RingRangesOverlap(lease_start[r], lease_end[r])
          BY <2>2, <3>1, <4>1
        <5> QED BY <5>1, <5>5, <5>6, ApartFits DEF IndInv
      <4>2. CASE seen_start # lease_start[r]
        BY <1>1, <1>19, <2>2, <4>2 DEF Covered
      <4> QED BY <4>1, <4>2
    <3> QED BY <1>1, <1>5, <1>6, <1>8, <1>19, <2>1, <3>2 DEF Covered
  <2>3. CASE ~on
    BY <1>1, <1>5, <1>6, <1>8, <1>19, <2>1, <2>3 DEF Covered, Passed
  <2>4. CASE r # scan /\ on
    <3>1. Passed(r)' => Passed(r)
      <4>1. r \in Nat
        BY ReaderNumbers
      <4>2. ppc' = "evict" => r < scan
        BY <1>2, <1>5, <2>4, <4>1, ReaderNumbers
      <4>3. ppc' = "scan" /\ scan' > r => r < scan
        BY <1>1, <1>2, <2>4, <4>1
      <4> QED BY <1>1, <1>2, <1>5, <4>1, <4>2, <4>3 DEF Passed
    <3> QED BY <1>5, <1>6, <1>8, <1>19, <2>1, <3>1 DEF Covered
  <2> QED BY <2>2, <2>3, <2>4
<1>20. retained.position <= retained'.position
  <2>1. retained.position \in Nat
    BY ProducerFacts DEF IndInv
  <2> QED BY <1>6, <2>1
<1> QED BY <1>1, <1>10, <1>13, <1>14, <1>15, <1>16, <1>17, <1>18, <1>19, <1>20,
        ProducerFrame

\* The floor is moved to where it was announced.
LEMMA StoreFloorInd ==
  ASSUME IndInv, StoreFloor
  PROVE  IndInv'
<1>1. /\ ppc = "evict" /\ ppc' = "evicted" /\ retained' = target
      /\ UNCHANGED <<ringVars, intent, leaseVars, cursor, ask, search, target, scan,
                     seen_start, readerVars, alive>>
  BY DEF StoreFloor, At
<1>2. Len(frames)' = Len(frames) /\ visible' = visible
  BY <1>1 DEF ringVars
<1>3. ProducerPos' = ProducerPos /\ \A x : Start(x)' = Start(x)
  BY <1>1, RingFrame
<1>4. \A x : After(x)' = After(x)
  BY <1>1, <1>3 DEF After
<1>5. \A x, y : Needed(x, y)' <=> Needed(x, y)
  BY <1>1, <1>2, <1>3, <1>4 DEF Needed
<1>6. /\ intent = target.position /\ target.messages \in retained.messages .. Len(frames)
      /\ target.position = Start(target.messages) /\ target.position <= visible
      /\ After(search.now) <= target.position + RetentionCapacity
      /\ Needed(target.messages, search.now)
  BY <1>1 DEF IndInv, Announced, Announcing
<1>7. /\ retained.messages \in Nat /\ Len(frames) \in Nat /\ RetentionCapacity \in Nat
      /\ After(search.low) \in Nat /\ After(search.now) \in Nat
      /\ target.position \in Nat /\ search.low \in Nat /\ search.now \in Nat
  BY ProducerFacts DEF IndInv
<1>8. retained.position <= target.position
  <2>1. /\ retained.messages \in 0 .. Len(frames) /\ target.messages \in 0 .. Len(frames)
        /\ retained.messages < target.messages \/ retained.messages = target.messages
    BY <1>6, <1>7
  <2>2. Start(retained.messages) < Start(target.messages)
        \/ Start(retained.messages) = Start(target.messages)
    BY <2>1, StartFacts DEF IndInv, TypeOK
  <2>3. retained.position = Start(retained.messages) /\ retained.position \in Nat
    BY ProducerFacts DEF IndInv, Floored
  <2> QED BY <1>6, <1>7, <2>2, <2>3
<1>9. ProducerTypes'
  BY <1>1 DEF IndInv, TypeOK, ProducerTypes
<1>10. LeaseTypes'
  BY <1>1 DEF IndInv, TypeOK, LeaseTypes, ProducerTypes, leaseVars
<1>11. Search'
  BY <1>1, <1>2 DEF IndInv, Search, Announcing
<1>12. Floored'
  <2>1. search.low <= search.now
    <3>1. search.low < search.now
      BY <1>1 DEF IndInv, Search, Announcing
    <3> QED BY <1>7, <3>1
  <2>2. After(search.low) <= After(search.now)
    BY <1>7, <2>1, ProducerFacts DEF IndInv
  <2>3. After(search.low) <= target.position + RetentionCapacity
    BY <1>6, <1>7, <2>2
  <2>4. target.messages <= Len(frames)
    BY <1>6
  <2> QED BY <1>1, <1>2, <1>3, <1>4, <1>6, <2>3, <2>4 DEF Floored
<1>13. Announced'
  <2>1. target.messages \in target.messages .. Len(frames)
    BY <1>6, <1>7
  <2> QED BY <1>1, <1>2, <1>3, <1>4, <1>5, <1>6, <2>1 DEF Announced, Announcing
<1>14. ASSUME NEW r \in Readers PROVE KeptOf(r)'
  <2>1. ReaderInv(r) /\ rx[r].read \in Nat /\ cursor[r].position \in Nat
    BY DEF IndInv, TypeOK, ReaderTypes
  <2>2. r \in Reliable /\ alive[r] => target.position <= rx[r].read
    BY <1>1, <1>7, <2>1 DEF ReaderInv, KeptOf, CursorOf
  <2> QED BY <1>1, <2>2 DEF KeptOf, readerVars
<1>15. \A r \in Readers : Covered(r) => Covered(r)'
  BY <1>1, <1>4 DEF Covered, Passed, leaseVars
<1> QED BY <1>1, <1>8, <1>9, <1>10, <1>11, <1>12, <1>13, <1>14, <1>15, ProducerFrame
        DEF leaseVars

\* The announcement is taken back, and the attempt has succeeded or failed.
LEMMA ClearIntentInd ==
  ASSUME IndInv, ClearIntent
  PROVE  IndInv'
<1> DEFINE ok == ppc = "evicted"
<1>1. /\ ppc \in {"evicted", "blocked"} /\ AfterAttempt(ok)
      /\ intent' = NoLease /\ target' = NoFloor /\ scan' = 0
      /\ UNCHANGED <<ringVars, retained, leaseVars, cursor, ask, seen_start, readerVars,
                     alive>>
  BY DEF ClearIntent
<1>2. /\ Search'
      /\ search' \in [low : 0 .. MaxBatch, high : 0 .. MaxBatch, now : 0 .. MaxBatch]
      /\ search'.low = (IF ok THEN search.now ELSE search.low)
      /\ ppc' \in {"prepare", "idle", "take"}
  <2>1. ppc \in Announcing \cup {"prepare"} /\ ok \in BOOLEAN
    BY <1>1 DEF Announcing
  <2> HIDE DEF ok
  <2> QED BY <1>1, <2>1, AttemptSearch
<1>3. Len(frames)' = Len(frames) /\ visible' = visible
  BY <1>1 DEF ringVars
<1>4. ProducerPos' = ProducerPos /\ \A x : Start(x)' = Start(x)
  BY <1>1, RingFrame
<1>5. \A x : After(x)' = After(x)
  BY <1>1, <1>4 DEF After
<1>6. ProducerTypes'
  <2>1. target' \in [position : Nat, messages : 0 .. MaxFrames]
    BY <1>1, ProducerFacts DEF NoFloor, IndInv
  <2> QED BY <1>1, <1>2, <2>1, ReaderNumbers DEF IndInv, TypeOK, ProducerTypes
<1>7. LeaseTypes'
  BY <1>1 DEF IndInv, TypeOK, LeaseTypes, leaseVars
<1>8. After(search'.low) <= retained.position + RetentionCapacity
      /\ Needed(retained.messages, search'.low)
  BY <1>1, <1>2 DEF IndInv, Floored, Announced, Announcing
<1>9. Floored'
  <2>1. Needed(retained.messages, search.low)'
    BY <1>1, <1>3, <1>4, <1>5, <1>8 DEF Needed
  <2>2. After(search.low)' = After(search'.low)
    BY <1>1, <1>4 DEF After
  <2> QED BY <1>1, <1>2, <1>3, <1>4, <1>8, <2>1, <2>2 DEF IndInv, Floored
<1>10. Announced'
  BY <1>1, <1>2 DEF Announced, Announcing
<1>11. \A r \in Readers : KeptOf(r)'
  BY <1>1, <1>2 DEF IndInv, ReaderInv, KeptOf, readerVars
<1>12. ASSUME NEW r \in Readers, Covered(r) PROVE Covered(r)'
  <2>1. ok => Passed(r)
    BY DEF Passed
  <2>2. After(search'.low) <= lease_start[r] + Cap
    BY <1>2, <1>12, <2>1 DEF Covered
  <2>3. After(search.low)' = After(search'.low)
    BY <1>1, <1>4 DEF After
  <2> QED BY <1>1, <1>2, <2>2, <2>3 DEF Covered, Passed, leaseVars
<1>13. retained.position <= retained'.position
  <2>1. retained.position \in Nat
    BY ProducerFacts DEF IndInv
  <2> QED BY <1>1, <2>1
<1> QED BY <1>1, <1>2, <1>6, <1>7, <1>9, <1>10, <1>11, <1>12, <1>13, ProducerFrame
        DEF leaseVars

-----------------------------------------------------------------------------
(* The steps that change the ring *)

\* Frames of at least one unit are at least as far apart as they are many.
LEMMA Multiples ==
  ASSUME NEW l \in Nat, l > 0, NEW a \in Nat, NEW b \in Nat, a <= b
  PROVE  l * a \in Nat /\ l * b \in Nat /\ b - a <= l * b - l * a
<1>1. l * a \in Nat /\ l * b \in Nat /\ b - a \in Nat /\ l - 1 \in Nat
  OBVIOUS
<1>2. (l - 1) * (b - a) \in Nat
  BY <1>1
<1>3. l * b - l * a = (b - a) + (l - 1) * (b - a)
  BY <1>1
<1> QED BY <1>1, <1>2, <1>3

\* Where the frames of a claim lie.
LEMMA TakeStarts ==
  ASSUME IndInv, TakeSequence
  PROVE  /\ search.low > 0 /\ ask.len > 0
         /\ Len(frames) + search.low <= MaxFrames
         /\ Len(frames)' = Len(frames) + search.low
         /\ frames' \in Seq([start : Nat, len : Nat \ {0}])
         /\ \A i \in 1 .. Len(frames) : frames'[i] = frames[i]
         /\ \A j \in 1 .. search.low : frames'[Len(frames) + j].len = ask.len
         /\ \A n \in 0 .. Len(frames) : Start(n)' = Start(n)
         /\ \A n \in Len(frames) .. Len(frames) + search.low :
              Start(n)' = ProducerPos + ask.len * (n - Len(frames))
         /\ ProducerPos' = After(search.low)
<1> DEFINE N == Len(frames)
           c == search.low
           L == ask.len
           P == ProducerPos
<1>0. N = Len(frames) /\ c = search.low /\ L = ask.len /\ P = ProducerPos
  OBVIOUS
<1> HIDE DEF N, c, L, P
<1> DEFINE F == [start : Nat, len : Nat \ {0}]
           new == [j \in 1 .. c |-> [start |-> P + L * (j - 1), len |-> L]]
<1>1. /\ ppc = "take" /\ frames' = frames \o new
  BY <1>0 DEF TakeSequence, At
<1>2. /\ c > 0 /\ N + search.high <= MaxFrames /\ c <= search.high /\ L \in FrameLens
  BY <1>0, <1>1 DEF IndInv, Search
<1>3. /\ N \in Nat /\ c \in Nat /\ L \in Nat /\ P \in Nat /\ search.high \in Nat
      /\ MaxFrames \in Nat /\ P = Start(N)
  BY <1>0, ProducerFacts, StartFacts DEF IndInv, TypeOK
<1>4. L > 0
  BY <1>2, RetentionAssumption
<1>5. N + c <= MaxFrames
  BY <1>2, <1>3
<1>6. frames \in Seq(F)
  BY DEF IndInv, TypeOK, RingTypes
<1>7. \A j \in 1 .. c : L * (j - 1) \in Nat /\ [start |-> P + L * (j - 1), len |-> L] \in F
  <2> TAKE j \in 1 .. c
  <2>1. j - 1 \in Nat
    BY <1>3
  <2>2. L * (j - 1) \in Nat
    BY <1>3, <2>1
  <2> QED BY <1>3, <1>4, <2>2
<1>8. new \in Seq(F) /\ Len(new) = c /\ \A j \in 1 .. c : new[j] = [start |-> P + L * (j - 1), len |-> L]
  <2>1. new \in [1 .. c -> F]
    BY <1>7
  <2>2. \A j \in 1 .. c : new[j] = [start |-> P + L * (j - 1), len |-> L]
    OBVIOUS
  <2> HIDE DEF F, new
  <2> QED BY <1>3, <2>1, <2>2
<1> HIDE DEF F, new
<1>9. /\ frames' \in Seq(F) /\ Len(frames') = N + c
      /\ \A i \in 1 .. N : frames'[i] = frames[i]
      /\ \A j \in 1 .. c : frames'[N + j] = new[j]
  <2>1. /\ frames \o new \in Seq(F) /\ Len(frames \o new) = N + c
    BY <1>0, <1>6, <1>8
  <2>2. \A i \in 1 .. N + c : (frames \o new)[i] = IF i <= N THEN frames[i] ELSE new[i - N]
    BY <1>0, <1>6, <1>8
  <2>3. ASSUME NEW i \in 1 .. N PROVE (frames \o new)[i] = frames[i]
    <3>1. i \in 1 .. N + c /\ i <= N
      BY <1>3
    <3> QED BY <2>2, <3>1
  <2>4. ASSUME NEW j \in 1 .. c PROVE (frames \o new)[N + j] = new[j]
    <3>1. N + j \in 1 .. N + c /\ ~(N + j <= N) /\ (N + j) - N = j
      BY <1>3
    <3> QED BY <2>2, <3>1
  <2> QED BY <1>1, <2>1, <2>3, <2>4
<1>10. \A j \in 1 .. c : /\ frames'[N + j].start = P + L * (j - 1)
                         /\ frames'[N + j].len = L
  <2> TAKE j \in 1 .. c
  <2>1. frames'[N + j] = [start |-> P + L * (j - 1), len |-> L]
    BY <1>8, <1>9
  <2> QED BY <2>1
<1>11. ASSUME NEW n \in N .. N + c PROVE Start(n)' = P + L * (n - N)
  <2>1. CASE n < N + c
    <3> DEFINE j == (n - N) + 1
    <3>1. j \in 1 .. c /\ j - 1 = n - N /\ n + 1 = N + j
      BY <1>3, <2>1
    <3> HIDE DEF j
    <3>2. Start(n)' = frames'[n + 1].start
      BY <1>9, <2>1 DEF Start
    <3> QED BY <1>10, <3>1, <3>2
  <2>2. CASE n = N + c
    <3>1. ~(n < N + c) /\ n # 0 /\ c \in 1 .. c
      BY <1>2, <1>3, <2>2
    <3>2. Start(n)' = frames'[N + c].start + frames'[N + c].len
      BY <1>9, <2>2, <3>1 DEF Start
    <3>3. L * (c - 1) \in Nat /\ L * (c - 1) + L = L * c
      <4>1. c \in Nat /\ c - 1 \in Nat /\ L \in Nat
        BY <1>2, <1>3
      <4> QED BY <4>1
    <3>4. Start(n)' = (P + L * (c - 1)) + L
      BY <1>10, <3>1, <3>2
    <3>5. n - N = c
      BY <1>3, <2>2
    <3> QED BY <1>3, <3>3, <3>4, <3>5
  <2> QED BY <1>3, <2>1, <2>2
<1>12. ASSUME NEW n \in 0 .. N PROVE Start(n)' = Start(n)
  <2>1. CASE n < N
    <3>1. n + 1 \in 1 .. N /\ n < N + c
      BY <1>3, <2>1
    <3>2. Start(n)' = frames'[n + 1].start
      BY <1>9, <3>1 DEF Start
    <3>3. Start(n) = frames[n + 1].start
      BY <1>0, <2>1 DEF Start
    <3> QED BY <1>9, <3>1, <3>2, <3>3
  <2>2. CASE n = N
    <3>1. n \in N .. N + c /\ n - N = 0 /\ P + L * 0 = P
      BY <1>3, <2>2
    <3>2. Start(n)' = P + L * (n - N)
      BY <1>11, <3>1
    <3> QED BY <1>3, <2>2, <3>1, <3>2
  <2> QED BY <1>3, <2>1, <2>2
<1>13. ProducerPos' = P + L * c
  <2>1. PICK n : n = N + c
    OBVIOUS
  <2>2. n \in N .. N + c /\ n - N = c
    BY <1>3, <2>1
  <2>3. ProducerPos' = Start(n)'
    BY <1>9, <2>1 DEF ProducerPos
  <2> QED BY <1>11, <2>2, <2>3
<1>14. P + L * c = After(search.low)
  BY <1>0 DEF After
<1>15. /\ c > 0 /\ Len(frames)' = N + c
       /\ frames' \in Seq([start : Nat, len : Nat \ {0}])
       /\ \A i \in 1 .. N : frames'[i] = frames[i]
       /\ \A j \in 1 .. c : frames'[N + j].len = L
  BY <1>2, <1>9, <1>10 DEF F
<1> QED BY <1>4, <1>5, <1>11, <1>12, <1>13, <1>14, <1>15 DEF N, c, L, P

\* Frames still follow each other.
LEMMA TakeLayout ==
  ASSUME IndInv, TakeSequence
  PROVE  Layout'
<1> DEFINE N == Len(frames)
           c == search.low
           L == ask.len
           P == ProducerPos
<1>0. N \in Nat /\ c \in Nat /\ L \in Nat /\ L > 0 /\ P \in Nat
  BY ProducerFacts, TakeStarts DEF IndInv
<1>1. /\ Len(frames)' = N + c
      /\ \A i \in 1 .. N : frames'[i] = frames[i]
      /\ \A j \in 1 .. c : frames'[N + j].len = L
      /\ \A n \in 0 .. N : Start(n)' = Start(n)
      /\ \A n \in N .. N + c : Start(n)' = P + L * (n - N)
  BY TakeStarts
<1>2. P = Start(N) /\ \A n \in 0 .. N : Start(n) \in Nat
  BY StartFacts DEF IndInv, TypeOK
<1>3. \A n \in 0 .. N - 1 : Start(n + 1) = Start(n) + frames[n + 1].len
  BY DEF IndInv, Layout
<1>4. \A m, n \in 0 .. N : m <= n => n - m <= Start(n) - Start(m)
  BY DEF IndInv, Layout
<1> HIDE DEF N, c, L, P
<1>6. ASSUME NEW n \in 0 .. N + c - 1 PROVE Start(n + 1)' = Start(n)' + frames'[n + 1].len
  <2>1. CASE n < N
    <3>1. n \in 0 .. N /\ n + 1 \in 0 .. N /\ n + 1 \in 1 .. N /\ n \in 0 .. N - 1
      BY <1>0, <2>1
    <3> QED BY <1>1, <1>3, <3>1
  <2>2. CASE n >= N
    <3> DEFINE j == n - N
    <3>1. /\ j \in 0 .. c /\ j + 1 \in 0 .. c /\ j + 1 \in 1 .. c /\ j \in Nat
          /\ n = N + j /\ n + 1 = N + (j + 1)
      BY <1>0, <2>2
    <3> HIDE DEF j
    <3>2. /\ Start(n)' = P + L * j /\ Start(n + 1)' = P + L * (j + 1)
          /\ frames'[N + (j + 1)].len = L
      <4>1. /\ n \in N .. N + c /\ n - N = j
            /\ n + 1 \in N .. N + c /\ (n + 1) - N = j + 1
        BY <1>0, <3>1
      <4> QED BY <1>1, <3>1, <4>1
    <3>3. L * j \in Nat /\ L * (j + 1) = L * j + L
      <4>1. j \in Nat /\ L \in Nat
        BY <1>0, <3>1
      <4> QED BY <4>1
    <3>4. P + L * (j + 1) = (P + L * j) + L
      BY <1>0, <3>3
    <3> QED BY <3>1, <3>2, <3>4
  <2> QED BY <1>0, <2>1, <2>2
<1>7. ASSUME NEW m \in 0 .. N + c, NEW n \in 0 .. N + c, m <= n
      PROVE  n - m <= Start(n)' - Start(m)'
  <2>1. CASE n \in 0 .. N
    <3>1. m \in 0 .. N
      BY <1>7, <2>1, <1>0
    <3> QED BY <1>1, <1>4, <1>7, <2>1, <3>1
  <2>2. CASE n \notin 0 .. N
    <3> DEFINE j == n - N
    <3>1. j \in 0 .. c /\ j \in Nat /\ n = N + j
      BY <1>0, <2>2
    <3> HIDE DEF j
    <3>2. Start(n)' = P + L * j /\ L * j \in Nat
      <4>1. L * j \in Nat
        BY <1>0, <3>1
      <4>2. n \in N .. N + c /\ n - N = j
        BY <1>0, <3>1
      <4> QED BY <1>1, <4>1, <4>2
    <3>3. CASE m \in 0 .. N
      <4>1. Start(m)' = Start(m) /\ Start(m) \in Nat
        BY <1>1, <1>2, <3>3
      <4>2. N - m <= P - Start(m)
        <5>1. N \in 0 .. N /\ m <= N
          BY <1>0, <3>3
        <5> QED BY <1>2, <1>4, <3>3, <5>1
      <4>3. L \in Nat /\ L > 0 /\ j \in Nat /\ 0 <= j
        BY <1>0, <3>1
      <4>4. j <= L * j
        <5>1. j - 0 <= L * j - L * 0
          BY <4>3, Multiples
        <5> QED BY <4>3, <5>1
      <4>5. N - m + j <= (P + L * j) - Start(m)
        <5>1. N \in Nat /\ m \in Nat
          BY <1>0, <3>3
        <5> QED BY <1>2, <3>1, <3>2, <4>1, <4>2, <4>4, <5>1
      <4>6. n - m = N - m + j
        BY <1>0, <3>1, <3>3
      <4> QED BY <3>2, <4>1, <4>5, <4>6
    <3>4. CASE m \notin 0 .. N
      <4> DEFINE i == m - N
      <4>1. i \in 0 .. c /\ i \in Nat /\ m = N + i /\ i <= j
        BY <1>0, <1>7, <3>1, <3>4
      <4> HIDE DEF i
      <4>2. Start(m)' = P + L * i /\ L * i \in Nat
        <5>1. L * i \in Nat
          BY <1>0, <4>1
        <5>2. m \in N .. N + c /\ m - N = i
          BY <1>0, <4>1
        <5> QED BY <1>1, <5>1, <5>2
      <4>3. j - i <= L * j - L * i
        BY <1>0, <3>1, <4>1, Multiples
      <4>4. j - i <= (P + L * j) - (P + L * i)
        BY <1>0, <3>1, <3>2, <4>1, <4>2, <4>3
      <4>5. n - m = j - i
        BY <1>0, <3>1, <4>1
      <4> QED BY <3>2, <4>2, <4>4, <4>5
    <3> QED BY <3>3, <3>4
  <2> QED BY <2>1, <2>2
<1>9. \A m, n \in 0 .. N + c : m <= n => n - m <= Start(n)' - Start(m)'
  BY <1>7
<1>10. Len(frames)' = N + c
  BY <1>1
<1>11. \A n \in 0 .. Len(frames)' - 1 : Start(n + 1)' = Start(n)' + frames'[n + 1].len
  <2> TAKE n \in 0 .. Len(frames)' - 1
  <2>1. n \in 0 .. N + c - 1
    BY <1>0, <1>10
  <2> QED BY <1>6, <2>1
<1>12. \A m, n \in 0 .. Len(frames)' : m <= n => n - m <= Start(n)' - Start(m)'
  BY <1>9, <1>10
<1> QED BY <1>11, <1>12 DEF Layout

\* A claim that fits is given its numbers and its space.
LEMMA TakeSequenceInd ==
  ASSUME IndInv, TakeSequence
  PROVE  IndInv'
<1> DEFINE N == Len(frames)
           c == search.low
<1>1. /\ ppc = "take" /\ ppc' = "idle" /\ alive[Producer]
      /\ open' = open \cup {[first |-> N, count |-> c]}
      /\ ask' = NoAsk /\ search' = NoSearch
      /\ UNCHANGED <<header, visible, floorVars, leaseVars, cursor, target, scan,
                     seen_start, readerVars, alive>>
  BY DEF TakeSequence, At
<1>2. /\ c > 0 /\ N + c <= MaxFrames /\ Len(frames)' = N + c
      /\ frames' \in Seq([start : Nat, len : Nat \ {0}])
      /\ \A i \in 1 .. N : frames'[i] = frames[i]
      /\ \A n \in 0 .. N : Start(n)' = Start(n)
      /\ ProducerPos' = After(search.low)
  BY TakeStarts
<1>3. /\ N \in Nat /\ c \in Nat /\ MaxFrames \in Nat /\ MaxBatch \in Nat /\ Cap \in Nat
      /\ ProducerPos \in Nat /\ After(c) \in Nat /\ ProducerPos <= After(c)
      /\ retained.messages \in Nat /\ RetentionCapacity \in Nat
  BY ProducerFacts DEF IndInv
<1>0. N \in Nat /\ c \in Nat /\ retained.messages \in Nat /\ Len(frames)' = N + c
  BY <1>2, <1>3
<1>4. c \in 0 .. MaxBatch
  BY DEF IndInv, TypeOK, ProducerTypes
<1>5. /\ search'.low = 0 /\ search'.now = 0 /\ ask'.len = 0
  BY <1>1 DEF NoSearch, NoAsk
<1>6. After(search.low)' = After(c) /\ \A n \in Nat : After(n)' = After(c)
  <2>1. \A n \in Nat : After(n)' = ProducerPos' + 0 * n
    BY <1>5 DEF After
  <2>2. After(search.low)' = ProducerPos' + 0 * 0
    BY <1>5 DEF After
  <2>3. \A n \in Nat : After(c) + 0 * n = After(c)
    BY <1>3
  <2> QED BY <1>2, <2>1, <2>2, <2>3
<1>7. RingTypes'
  <2>1. [first |-> N, count |-> c] \in [first : 0 .. MaxFrames, count : 0 .. MaxBatch]
    <3>1. N \in 0 .. MaxFrames
      BY <1>2, <1>3
    <3> QED BY <1>4, <3>1
  <2>2. open' \subseteq [first : 0 .. MaxFrames, count : 0 .. MaxBatch]
    BY <1>1, <2>1 DEF IndInv, TypeOK, RingTypes
  <2>3. Len(frames') <= MaxFrames
    BY <1>2
  <2> QED BY <1>1, <1>2, <2>2, <2>3 DEF IndInv, TypeOK, RingTypes
<1>8. Layout'
  BY TakeLayout
<1>9. Starts \subseteq Starts'
  <2>1. ASSUME NEW n \in 0 .. N PROVE Start(n) \in Starts'
    <3>1. n \in 0 .. Len(frames)' /\ Start(n)' = Start(n)
      BY <1>2, <1>3
    <3> QED BY <3>1 DEF Starts
  <2> QED BY <2>1 DEF Starts
<1>10. Claims'
  <2>1. visible' \in Starts'
    BY <1>1, <1>9 DEF IndInv, Claims
  <2>2. visible <= ProducerPos
    BY StartFacts DEF IndInv, TypeOK, Claims, Starts
  <2>3. PICK n \in 0 .. N : n = N
    BY <1>3
  <2>7. Start(n)' = ProducerPos
    BY <1>2, <2>3 DEF ProducerPos
  <2>4. ASSUME NEW d \in open PROVE d.first + d.count <= N + c /\ visible <= Start(d.first)'
    <3>1. d.first \in Nat /\ d.count \in Nat
      <4>1. d \in [first : 0 .. MaxFrames, count : 0 .. MaxBatch]
        BY DEF IndInv, TypeOK, RingTypes
      <4> QED BY <1>3, <4>1
    <3>2. d.first + d.count <= N /\ visible <= Start(d.first)
      BY DEF IndInv, Claims
    <3>3. d.first \in 0 .. N
      BY <1>3, <3>1, <3>2
    <3>4. d.first + d.count <= N + c
      BY <1>3, <3>1, <3>2
    <3>5. Start(d.first)' = Start(d.first)
      BY <1>2, <3>3
    <3> QED BY <3>2, <3>4, <3>5
  <2>5. ASSUME NEW d \in open' PROVE d.first + d.count <= N + c /\ visible <= Start(d.first)'
    <3>1. CASE d \in open
      BY <2>4, <3>1
    <3>2. CASE d = [first |-> N, count |-> c]
      <4>1. d.first = N /\ d.count = c
        BY <3>2
      <4>2. N + c <= N + c
        BY <1>3
      <4>3. d.first = n
        BY <2>3, <4>1
      <4>4. visible <= Start(d.first)'
        BY <2>2, <2>7, <4>3
      <4> QED BY <4>1, <4>2, <4>4
    <3> QED BY <1>1, <3>1, <3>2
  <2>6. \A d \in open' : d.first + d.count <= Len(frames') /\ visible' <= Start(d.first)'
    BY <1>1, <1>2, <2>5
  <2> QED BY <2>1, <2>6 DEF Claims
<1>11. Headers'
  <2>1. ASSUME NEW n \in 0 .. Len(frames') - 1, Committed(n)',
               ProducerPos' <= Start(n)' + Cap
        PROVE  header'[Unit(Start(n))'] = Header(n, frames'[n + 1].len)
    <3>1. \A d \in open' : n \notin d.first .. d.first + d.count - 1
      BY <2>1 DEF Committed
    <3>2. n \in 0 .. N - 1 /\ n \in 0 .. N
      <4>1. n \notin N .. N + c - 1
        <5>1. [first |-> N, count |-> c] \in open'
          BY <1>1
        <5> QED BY <3>1, <5>1
      <4>2. n \in Nat /\ n < N + c
        BY <1>2, <1>3
      <4> QED BY <1>3, <4>1, <4>2
    <3>3. Committed(n)
      BY <1>1, <3>1 DEF Committed
    <3>4. Start(n)' = Start(n) /\ Start(n) \in Nat
      BY <1>2, <3>2, StartFacts DEF IndInv, TypeOK
    <3>5. ProducerPos <= Start(n) + Cap
      BY <1>2, <1>3, <2>1, <3>4
    <3>6. header[Unit(Start(n))] = Header(n, frames[n + 1].len)
      BY <3>2, <3>3, <3>5 DEF IndInv, Headers
    <3>7. frames'[n + 1] = frames[n + 1]
      <4>1. n + 1 \in 1 .. N
        BY <1>3, <3>2
      <4> QED BY <1>2, <4>1
    <3>8. Unit(Start(n))' = Unit(Start(n))
      BY <3>4 DEF Unit
    <3> QED BY <1>1, <3>6, <3>7, <3>8
  <2> QED BY <2>1 DEF Headers, Header, SequenceLow
<1>12. /\ visible' = visible /\ retained' = retained /\ intent' = intent
       /\ target' = target /\ alive' = alive
  BY <1>1 DEF floorVars
<1>13. LeaseTypes'
  BY <1>1 DEF IndInv, TypeOK, LeaseTypes, leaseVars, floorVars
<1>14. ReaderTypes'
  BY <1>1 DEF IndInv, TypeOK, ReaderTypes, readerVars
<1>15. ProducerTypes'
  BY <1>1, <1>3 DEF IndInv, TypeOK, ProducerTypes, NoAsk, NoSearch
<1>16. Search'
  BY <1>1, <1>5 DEF Search, Announcing
<1>17. retained.messages \in 0 .. N /\ retained.messages \in 0 .. Len(frames')
  BY <1>0 DEF IndInv, Floored
<1>18. Floored'
  <2>1. Start(retained.messages)' = Start(retained.messages)
    <3>1. PICK n \in 0 .. N : n = retained.messages
      BY <1>17
    <3>2. Start(n)' = Start(n)
      BY <1>2
    <3> QED BY <1>12, <3>1, <3>2 DEF Start
  <2>2. Needed(retained.messages, search.low)'
    <3>1. Needed(retained.messages, c)
      BY <1>1 DEF IndInv, Floored
    <3>2. CASE retained.messages > 0
      <4>1. PICK n \in 0 .. N : n = retained.messages - 1
        BY <1>17, <1>3, <3>2
      <4>2. Start(n)' = Start(n)
        BY <1>2
      <4>3. \/ After(c) - Start(n) > RetentionCapacity
            \/ MessageWindow # 0 /\ Len(frames) + c - n > MessageWindow
        BY <3>1, <3>2, <4>1 DEF Needed
      <4>4. Len(frames') + 0 - n = Len(frames) + c - n
        BY <1>2, <1>3
      <4>5. \/ After(search.low)' - Start(n)' > RetentionCapacity
            \/ MessageWindow # 0 /\ Len(frames') + 0 - n > MessageWindow
        BY <1>6, <4>2, <4>3, <4>4
      <4>6. Start(retained.messages - 1)' = Start(n)'
        BY <1>12, <4>1 DEF Start
      <4> QED BY <1>5, <1>12, <4>1, <4>5, <4>6 DEF Needed
    <3>3. CASE ~(retained.messages > 0)
      BY <1>12, <3>3 DEF Needed
    <3> QED BY <3>2, <3>3
  <2>3. retained.messages <= Len(frames')
    BY <1>17
  <2>4. After(search.low)' <= retained.position + RetentionCapacity
    BY <1>6 DEF IndInv, Floored
  <2> QED BY <1>12, <2>1, <2>2, <2>3, <2>4 DEF IndInv, Floored
<1>19. Announced'
  BY <1>1, <1>12 DEF IndInv, Announced, Announcing
<1>20. ASSUME NEW r \in Readers PROVE ReaderInv(r)'
  <2>1. /\ ReaderInv(r) /\ rpc' = rpc /\ rx' = rx /\ snap' = snap /\ held' = held
        /\ cursor' = cursor /\ lease_start' = lease_start /\ lease_end' = lease_end
    BY <1>1 DEF IndInv, readerVars, leaseVars
  <2>2. LeaseFrom(r)' = LeaseFrom(r) /\ (Lagged(r)' <=> Lagged(r))
    BY <2>1 DEF LeaseFrom, Lagged
  <2>3. /\ rx[r].next \in 0 .. N /\ rx[r].read = Start(rx[r].next)
        /\ cursor[r].position <= rx[r].read
    <3>1. rx[r].next \in Nat
      BY RetentionAssumption DEF IndInv, TypeOK, ReaderTypes
    <3> QED BY <1>3, <2>1, <3>1 DEF ReaderInv, CursorOf
  <2>4. PICK k \in 0 .. N : k = rx[r].next
    BY <2>3
  <2>5. Start(rx[r].next)' = Start(rx[r].next)
    <3>1. Start(k)' = Start(k)
      BY <1>2
    <3> QED BY <2>1, <2>4, <3>1 DEF Start
  <2>6. KeptOf(r)'
    BY <1>1, <1>12, <2>1 DEF ReaderInv, KeptOf
  <2>7. CursorOf(r)'
    <3>1. rx[r].next <= Len(frames')
      BY <1>0, <2>3
    <3> QED BY <2>1, <2>3, <2>5, <3>1 DEF CursorOf
  <2>8. LoadedBy(r)'
    BY <1>9, <1>12, <2>1, <2>2 DEF ReaderInv, LoadedBy
  <2>9. LeaseOf(r)'
    BY <1>12, <2>1, <2>2 DEF ReaderInv, LeaseOf
  <2>10. Covered(r) => Covered(r)'
    BY <1>1, <1>6, <2>1 DEF Covered, Passed
  <2>11. Handshake(r)'
    BY <1>12, <2>1, <2>10 DEF ReaderInv, Handshake
  <2>12. HeldBy(r)'
    <3>1. ASSUME NEW m \in held[r], alive[r]
          PROVE  /\ m.sequence < Len(frames') /\ m.position = Start(m.sequence)'
                 /\ lease_start[r] <= m.position /\ m.position < visible
      <4>1. /\ m.sequence < N /\ m.position = Start(m.sequence)
            /\ lease_start[r] <= m.position /\ m.position < visible
        BY <2>1, <3>1 DEF ReaderInv, HeldBy
      <4>2. m.sequence \in Nat
        BY <1>3 DEF IndInv, TypeOK, ReaderTypes
      <4>3. m.sequence \in 0 .. N /\ m.sequence < Len(frames')
        BY <1>0, <4>1, <4>2
      <4>4. Start(m.sequence)' = Start(m.sequence)
        BY <1>2, <4>3
      <4> QED BY <4>1, <4>3, <4>4
    <3>2. rpc[r] = "holding" =>
            /\ rx[r].next < Len(frames')
            /\ lease_end[r] = Start(rx[r].next + 1)'
      <4>1. SUFFICES ASSUME rpc[r] = "holding"
                     PROVE  /\ rx[r].next < Len(frames')
                            /\ lease_end[r] = Start(rx[r].next + 1)'
        OBVIOUS
      <4>2. rx[r].next < N /\ lease_end[r] = Start(rx[r].next + 1)
        BY <2>1, <4>1 DEF ReaderInv, HeldBy
      <4>3. PICK n \in 0 .. N : n = rx[r].next + 1
        BY <1>3, <2>3, <4>2
      <4>4. Start(n)' = Start(n)
        BY <1>2
      <4>5. Start(rx[r].next + 1)' = Start(n)'
        BY <2>1, <4>3 DEF Start
      <4>6. rx[r].next < Len(frames')
        BY <1>0, <2>3, <4>2
      <4> QED BY <4>2, <4>3, <4>4, <4>5, <4>6
    <3> QED BY <1>12, <2>1, <3>1, <3>2 DEF ReaderInv, HeldBy
  <2> QED BY <2>6, <2>7, <2>8, <2>9, <2>11, <2>12 DEF ReaderInv
<1> QED BY <1>7, <1>8, <1>10, <1>11, <1>13, <1>14, <1>15, <1>16, <1>18, <1>19, <1>20
        DEF IndInv, TypeOK

\* Two frames that the ring has room for share no unit.
LEMMA SameUnit ==
  ASSUME IndInv, NEW m \in 0 .. Len(frames) - 1, NEW n \in 0 .. Len(frames) - 1,
         ProducerPos <= Start(m) + Cap, ProducerPos <= Start(n) + Cap,
         Unit(Start(m)) = Unit(Start(n))
  PROVE  m = n
<1>1. /\ Len(frames) \in Nat /\ Cap \in Nat /\ ProducerPos \in Nat
      /\ ProducerPos = Start(Len(frames))
  BY ProducerFacts, StartFacts DEF IndInv, TypeOK
<1>2. /\ m \in 0 .. Len(frames) /\ n \in 0 .. Len(frames)
      /\ Len(frames) \in 0 .. Len(frames) /\ m < Len(frames) /\ n < Len(frames)
  BY <1>1
<1>3. /\ Start(m) \in Nat /\ Start(n) \in Nat
      /\ Start(m) < ProducerPos /\ Start(n) < ProducerPos
  BY <1>1, <1>2, StartFacts DEF IndInv, TypeOK
<1>4. ~(Start(m) < Start(n)) /\ ~(Start(n) < Start(m))
  <2>1. Start(n) < Start(m) + Cap /\ Start(m) < Start(n) + Cap
    BY <1>1, <1>3
  <2> QED BY <1>3, <2>1, UnitsDiffer
<1>5. Start(m) = Start(n)
  BY <1>3, <1>4
<1> QED BY <1>2, <1>5, StartFacts DEF IndInv, TypeOK

\* What is not yet visible lies within the ring.
LEMMA VisibleWindow ==
  ASSUME IndInv, ppc = "idle", NEW n \in 0 .. Len(frames), visible <= Start(n)
  PROVE  ProducerPos <= Start(n) + Cap
<1>1. /\ ProducerPos \in Nat /\ visible \in Nat /\ Cap \in Nat /\ RetentionCapacity \in Nat
      /\ RetentionCapacity <= Cap /\ After(search.low) \in Nat
      /\ ProducerPos <= After(search.low) /\ retained.position \in Nat
  BY ProducerFacts DEF IndInv
<1>2. /\ After(search.low) <= retained.position + RetentionCapacity
      /\ retained.position <= visible
  BY DEF IndInv, Floored
<1>3. Start(n) \in Nat
  BY StartFacts DEF IndInv, TypeOK
<1> QED BY <1>1, <1>2, <1>3

\* The frames of a claim that start at a unit.
Written(claim, u) == {n \in claim.first .. claim.first + claim.count - 1 : Unit(Start(n)) = u}

\* commit() and commit_batch(): headers are written for the frames of the claim and
\* for no other that the ring has room for.
LEMMA CommitHeaders ==
  ASSUME IndInv, NEW claim \in open, Commit(claim)
  PROVE  Headers' /\ header' \in [0 .. Cap - 1 -> [low : 0 .. Period - 1, len : Nat, sequence : Int]]
<1>1. /\ ppc = "idle" /\ frames' = frames /\ open' = open \ {claim}
      /\ header' = [u \in 0 .. Cap - 1 |->
           IF Written(claim, u) = {} THEN header[u]
           ELSE Header(Max(Written(claim, u)), frames[Max(Written(claim, u)) + 1].len)]
  BY DEF Commit, Written
<1>2. /\ Len(frames) \in Nat /\ claim.first \in Nat /\ claim.count \in Nat
      /\ claim.first + claim.count <= Len(frames) /\ visible <= Start(claim.first)
  <2>1. claim \in [first : 0 .. MaxFrames, count : 0 .. MaxBatch]
    BY DEF IndInv, TypeOK, RingTypes
  <2>2. claim.first \in Nat /\ claim.count \in Nat
    BY <2>1, RetentionAssumption
  <2> QED BY <2>2, ProducerFacts DEF IndInv, Claims
<1> DEFINE R == claim.first .. claim.first + claim.count - 1
<1>3. ASSUME NEW n \in R
      PROVE  n \in 0 .. Len(frames) - 1 /\ ProducerPos <= Start(n) + Cap
  <2>1. /\ n \in 0 .. Len(frames) - 1 /\ n \in 0 .. Len(frames)
        /\ claim.first \in 0 .. Len(frames) /\ claim.first <= n
    BY <1>2
  <2>2. Start(claim.first) <= Start(n)
    <3>1. claim.first < n \/ claim.first = n
      BY <1>2, <2>1
    <3>2. Start(claim.first) \in Nat /\ Start(n) \in Nat
      BY <2>1, StartFacts DEF IndInv, TypeOK
    <3>3. Start(claim.first) < Start(n) \/ Start(claim.first) = Start(n)
      BY <2>1, <3>1, StartFacts DEF IndInv, TypeOK
    <3> QED BY <3>2, <3>3
  <2>3. visible <= Start(n)
    <3>1. Start(claim.first) \in Nat /\ Start(n) \in Nat /\ visible \in Nat
      BY <2>1, ProducerFacts, StartFacts DEF IndInv, TypeOK
    <3> QED BY <1>2, <2>2, <3>1
  <2>4. ProducerPos <= Start(n) + Cap
    BY <1>1, <2>1, <2>3, VisibleWindow
  <2> QED BY <2>1, <2>4
<1>4. \A u : Written(claim, u) \subseteq R
  BY DEF Written
<1> HIDE DEF R
<1>5. \A n : Start(n)' = Start(n)
  BY <1>1 DEF Start
<1>6. Headers'
  <2>1. ASSUME NEW n \in 0 .. Len(frames) - 1, Committed(n)', ProducerPos <= Start(n) + Cap
        PROVE  header'[Unit(Start(n))] = Header(n, frames[n + 1].len)
    <3> DEFINE u == Unit(Start(n))
               W == Written(claim, u)
    <3>1. n \in 0 .. Len(frames) /\ n \in Nat
      BY <1>2
    <3>2. u \in 0 .. Cap - 1
      BY <3>1, UnitType, StartFacts DEF IndInv, TypeOK
    <3>3. ASSUME NEW w \in W PROVE w = n
      <4>1. w \in R /\ Unit(Start(w)) = Unit(Start(n))
        BY <1>4 DEF Written
      <4> QED BY <1>3, <2>1, <4>1, SameUnit
    <3>4. CASE n \in R
      <4>1. n \in W
        BY <3>4 DEF Written, R
      <4>2. W = {n} /\ W # {}
        BY <3>3, <4>1
      <4>3. Max(W) = n
        BY <3>1, <4>2, MaxSingleton
      <4> HIDE DEF u, W
      <4>4. header'[u] = Header(n, frames[n + 1].len)
        BY <1>1, <3>2, <4>2, <4>3 DEF W
      <4> QED BY <4>4 DEF u
    <3>5. CASE n \notin R
      <4>1. W = {}
        BY <1>4, <3>3, <3>5
      <4>2. Committed(n)
        BY <1>1, <2>1, <3>5 DEF Committed, R
      <4>3. header[u] = Header(n, frames[n + 1].len)
        BY <2>1, <4>2 DEF IndInv, Headers
      <4> HIDE DEF u, W
      <4>4. header'[u] = header[u]
        BY <1>1, <3>2, <4>1 DEF W
      <4> QED BY <4>3, <4>4 DEF u
    <3> QED BY <3>4, <3>5
  <2>2. ProducerPos' = ProducerPos
    BY <1>1, <1>5 DEF ProducerPos, Start
  <2> QED BY <1>1, <1>5, <2>1, <2>2 DEF Headers, Unit, Header, SequenceLow
<1>7. ASSUME NEW u \in 0 .. Cap - 1
      PROVE  header'[u] \in [low : 0 .. Period - 1, len : Nat, sequence : Int]
  <2>1. header[u] \in [low : 0 .. Period - 1, len : Nat, sequence : Int]
    BY DEF IndInv, TypeOK, RingTypes
  <2>2. CASE Written(claim, u) # {}
    <3> DEFINE m == Max(Written(claim, u))
    <3>1. m \in Written(claim, u)
      <4>1. Written(claim, u) \subseteq 0 .. Len(frames)
        BY <1>2, <1>3, <1>4
      <4> QED BY <1>2, <2>2, <4>1, MaxNatural
    <3> HIDE DEF m
    <3>2. m \in 0 .. Len(frames) - 1
      BY <1>3, <1>4, <3>1
    <3>3. frames[m + 1].len \in Nat
      BY <3>2, StartFacts DEF IndInv, TypeOK
    <3>4. m \in Nat /\ m % Period \in 0 .. Period - 1
      <4>1. m \in Nat /\ Period \in Nat /\ Period > 0
        BY <1>2, <3>2, RetentionAssumption
      <4> QED BY <4>1
    <3>5. header'[u] = Header(m, frames[m + 1].len)
      BY <1>1, <2>2 DEF m
    <3> QED BY <3>3, <3>4, <3>5 DEF Header, SequenceLow
  <2> QED BY <1>1, <2>1, <2>2
<1>8. header' \in [0 .. Cap - 1 -> [low : 0 .. Period - 1, len : Nat, sequence : Int]]
  <2> DEFINE T == [low : 0 .. Period - 1, len : Nat, sequence : Int]
  <2>1. \A u \in 0 .. Cap - 1 : header'[u] \in T
    BY <1>7
  <2> HIDE DEF T
  <2>2. header' = [u \in 0 .. Cap - 1 |-> header'[u]]
    BY <1>1
  <2>3. header' \in [0 .. Cap - 1 -> T]
    BY <2>1, <2>2
  <2> QED BY <2>3 DEF T
<1> QED BY <1>6, <1>8

\* The visible position moves up to the first claim left open, or to the end.
LEMMA CommitVisible ==
  ASSUME IndInv, NEW claim \in open, Commit(claim)
  PROVE  /\ visible' \in Starts /\ visible' \in Nat /\ visible <= visible'
         /\ \A d \in open' : visible' <= Start(d.first)
<1> DEFINE left == open \ {claim}
           firsts == {d.first : d \in left}
<1>1. /\ visible' = IF left = {} THEN ProducerPos ELSE Start(Min(firsts))
      /\ open' = left
  BY DEF Commit
<1>2. /\ Len(frames) \in Nat /\ visible \in Nat /\ ProducerPos \in Nat
      /\ ProducerPos = Start(Len(frames)) /\ Len(frames) \in 0 .. Len(frames)
  BY ProducerFacts, StartFacts DEF IndInv, TypeOK
<1>3. ASSUME NEW d \in open
      PROVE  d.first \in Nat /\ d.first \in 0 .. Len(frames) /\ visible <= Start(d.first)
  <2>1. d \in [first : 0 .. MaxFrames, count : 0 .. MaxBatch]
    BY DEF IndInv, TypeOK, RingTypes
  <2>2. d.first \in Nat /\ d.count \in Nat
    BY <2>1, RetentionAssumption
  <2>3. d.first + d.count <= Len(frames) /\ visible <= Start(d.first)
    BY DEF IndInv, Claims
  <2> QED BY <1>2, <2>2, <2>3
<1>4. CASE left = {}
  <2>1. visible' = Start(Len(frames)) /\ visible' \in Nat
    BY <1>1, <1>2, <1>4
  <2>2. visible <= Start(Len(frames))
    BY <1>2, StartFacts DEF IndInv, TypeOK, Claims, Starts
  <2>3. visible' \in Starts
    BY <1>2, <2>1 DEF Starts
  <2> QED BY <1>1, <1>4, <2>1, <2>2, <2>3
<1>5. CASE left # {}
  <2>1. firsts \subseteq Nat /\ firsts # {}
    BY <1>3, <1>5
  <2>2. Min(firsts) \in firsts /\ \A y \in firsts : Min(firsts) <= y
    BY <2>1, MinNatural
  <2>3. PICK e \in left : e.first = Min(firsts)
    BY <2>2
  <2>4. visible' = Start(e.first)
    BY <1>1, <1>5, <2>3
  <2>5. visible' \in Starts /\ visible <= visible' /\ visible' \in Nat
    BY <1>3, <2>3, <2>4, StartFacts DEF Starts, IndInv, TypeOK
  <2>6. ASSUME NEW d \in left PROVE Start(e.first) <= Start(d.first)
    <3>1. e.first <= d.first
      BY <2>2, <2>3
    <3>2. /\ e.first \in 0 .. Len(frames) /\ d.first \in 0 .. Len(frames)
          /\ e.first \in Nat /\ d.first \in Nat
      BY <1>3, <2>3
    <3>3. e.first < d.first \/ e.first = d.first
      BY <3>1, <3>2
    <3>4. Start(e.first) \in Nat /\ Start(d.first) \in Nat
      BY <3>2, StartFacts DEF IndInv, TypeOK
    <3>5. Start(e.first) < Start(d.first) \/ Start(e.first) = Start(d.first)
      BY <3>2, <3>3, StartFacts DEF IndInv, TypeOK
    <3> QED BY <3>4, <3>5
  <2> QED BY <1>1, <2>4, <2>5, <2>6
<1> QED BY <1>4, <1>5

\* commit() and commit_batch()
LEMMA CommitInd ==
  ASSUME IndInv, NEW claim \in open, Commit(claim)
  PROVE  IndInv'
<1>1. /\ ppc = "idle" /\ open' = open \ {claim}
      /\ UNCHANGED <<frames, floorVars, leaseVars, cursor, producerVars, readerVars, alive>>
  BY DEF Commit
<1>2. /\ frames' = frames /\ retained' = retained /\ intent' = intent /\ ppc' = ppc
      /\ search' = search /\ target' = target /\ scan' = scan /\ ask' = ask
      /\ seen_start' = seen_start /\ alive' = alive
  BY <1>1 DEF floorVars, producerVars
<1>3. /\ visible' \in Starts /\ visible' \in Nat /\ visible <= visible'
      /\ \A d \in open' : visible' <= Start(d.first)
  BY CommitVisible
<1>4. /\ Headers'
      /\ header' \in [0 .. Cap - 1 -> [low : 0 .. Period - 1, len : Nat, sequence : Int]]
  BY CommitHeaders
<1>5. \A n : Start(n)' = Start(n)
  BY <1>2 DEF Start
<1>6. Starts' = Starts /\ ProducerPos' = ProducerPos
  BY <1>2, <1>5 DEF Starts, ProducerPos
<1>7. \A n : After(n)' = After(n)
  BY <1>2, <1>6 DEF After
<1>8. \A n, k : Needed(n, k)' <=> Needed(n, k)
  BY <1>2, <1>5, <1>7 DEF Needed
<1>9. RingTypes'
  BY <1>1, <1>2, <1>3, <1>4 DEF IndInv, TypeOK, RingTypes
<1>10. Layout'
  BY <1>2, <1>5 DEF IndInv, Layout
<1>11. Claims'
  <2>1. ASSUME NEW d \in open' PROVE d.first + d.count <= Len(frames)
    BY <1>1 DEF IndInv, Claims
  <2> QED BY <1>2, <1>3, <1>5, <1>6, <2>1 DEF Claims
<1>12. LeaseTypes' /\ ProducerTypes' /\ ReaderTypes'
  <2>1. LeaseTypes'
    BY <1>1, <1>2 DEF IndInv, TypeOK, LeaseTypes, leaseVars
  <2>2. ProducerTypes'
    BY <1>2 DEF IndInv, TypeOK, ProducerTypes
  <2>3. ReaderTypes'
    BY <1>1 DEF IndInv, TypeOK, ReaderTypes, readerVars
  <2> QED BY <2>1, <2>2, <2>3
<1>13. Search'
  BY <1>2 DEF IndInv, Search
<1>14. /\ visible \in Nat /\ retained.position \in Nat
  BY ProducerFacts DEF IndInv
<1>15. Floored'
  <2>1. retained.position <= visible'
    BY <1>3, <1>14 DEF IndInv, Floored
  <2> QED BY <1>2, <1>5, <1>7, <1>8, <2>1 DEF IndInv, Floored
<1>16. Announced'
  BY <1>1, <1>2 DEF IndInv, Announced, Announcing
<1>17. ASSUME NEW r \in Readers PROVE ReaderInv(r)'
  <2>1. /\ ReaderInv(r) /\ rpc' = rpc /\ rx' = rx /\ snap' = snap /\ held' = held
        /\ cursor' = cursor /\ lease_start' = lease_start /\ lease_end' = lease_end
    BY <1>1 DEF IndInv, readerVars, leaseVars
  <2>2. LeaseFrom(r)' = LeaseFrom(r) /\ (Lagged(r)' <=> Lagged(r))
    BY <2>1 DEF LeaseFrom, Lagged
  <2>3. KeptOf(r)'
    BY <1>2, <2>1 DEF ReaderInv, KeptOf
  <2>4. CursorOf(r)'
    BY <1>2, <1>5, <2>1 DEF ReaderInv, CursorOf
  <2>5. snap[r].visible \in Nat /\ lease_end[r] \in Nat
    BY DEF IndInv, TypeOK, ReaderTypes, LeaseTypes
  <2>6. LoadedBy(r)'
    <3>1. snap[r].visible <= visible => snap[r].visible <= visible'
      BY <1>3, <1>14, <2>5
    <3> QED BY <1>2, <1>6, <2>1, <2>2, <3>1 DEF ReaderInv, LoadedBy
  <2>7. LeaseOf(r)'
    <3>1. lease_end[r] <= visible => lease_end[r] <= visible'
      BY <1>3, <1>14, <2>5
    <3> QED BY <1>2, <2>1, <2>2, <3>1 DEF ReaderInv, LeaseOf
  <2>8. Covered(r)' <=> Covered(r)
    BY <1>2, <1>7, <2>1 DEF Covered, Passed
  <2>9. Handshake(r)'
    BY <1>2, <2>1, <2>8 DEF ReaderInv, Handshake
  <2>10. HeldBy(r)'
    <3>1. \A m \in held[r] : m.position < visible => m.position < visible'
      <4>1. \A m \in held[r] : m.position \in Nat
        BY DEF IndInv, TypeOK, ReaderTypes
      <4> QED BY <1>3, <1>14, <4>1
    <3> QED BY <1>2, <1>5, <2>1, <3>1 DEF ReaderInv, HeldBy
  <2> QED BY <2>3, <2>4, <2>6, <2>7, <2>9, <2>10 DEF ReaderInv
<1> QED BY <1>4, <1>9, <1>10, <1>11, <1>12, <1>13, <1>15, <1>16, <1>17 DEF IndInv, TypeOK

\* Nothing moves, except that a process may die.
LEMMA QuietStep ==
  ASSUME IndInv,
         UNCHANGED <<ringVars, floorVars, leaseVars, cursor, producerVars, readerVars>>,
         alive' \in [Readers \cup {Producer} -> BOOLEAN],
         \A r \in Readers : alive'[r] => alive[r]
  PROVE  IndInv'
<1>5. /\ Len(frames)' = Len(frames) /\ visible' = visible
      /\ retained' = retained /\ intent' = intent /\ ppc' = ppc
      /\ search' = search /\ target' = target /\ scan' = scan /\ ask' = ask
      /\ seen_start' = seen_start
  BY DEF floorVars, producerVars, ringVars
<1>6. /\ RingTypes' /\ Layout' /\ Claims' /\ Headers'
      /\ Starts' = Starts /\ ProducerPos' = ProducerPos /\ \A n : Start(n)' = Start(n)
  BY RingFrame
<1>7. \A n : After(n)' = After(n)
  BY <1>5, <1>6 DEF After
<1>8. \A n, k : Needed(n, k)' <=> Needed(n, k)
  BY <1>5, <1>6, <1>7 DEF Needed
<1>9. LeaseTypes' /\ ProducerTypes' /\ ReaderTypes'
  <2>1. LeaseTypes'
    BY <1>5 DEF IndInv, TypeOK, LeaseTypes, leaseVars
  <2>2. ProducerTypes'
    BY <1>5 DEF IndInv, TypeOK, ProducerTypes
  <2>3. ReaderTypes'
    BY DEF IndInv, TypeOK, ReaderTypes, readerVars
  <2> QED BY <2>1, <2>2, <2>3
<1>10. Search'
  BY <1>5 DEF IndInv, Search
<1>11. Floored'
  BY <1>5, <1>6, <1>7, <1>8 DEF IndInv, Floored
<1>12. Announced'
  BY <1>5, <1>6, <1>7, <1>8 DEF IndInv, Announced
<1>13. ASSUME NEW r \in Readers PROVE ReaderInv(r)'
  <2>1. /\ ReaderInv(r) /\ rpc' = rpc /\ rx' = rx /\ snap' = snap /\ held' = held
        /\ cursor' = cursor /\ lease_start' = lease_start /\ lease_end' = lease_end
        /\ alive'[r] => alive[r]
    BY DEF IndInv, readerVars, leaseVars
  <2>2. LeaseFrom(r)' = LeaseFrom(r) /\ (Lagged(r)' <=> Lagged(r))
    BY <2>1 DEF LeaseFrom, Lagged
  <2>3. KeptOf(r)'
    BY <1>5, <2>1 DEF ReaderInv, KeptOf
  <2>4. CursorOf(r)'
    BY <1>5, <1>6, <2>1 DEF ReaderInv, CursorOf
  <2>5. LoadedBy(r)'
    BY <1>5, <1>6, <2>1, <2>2 DEF ReaderInv, LoadedBy
  <2>6. LeaseOf(r)'
    BY <1>5, <2>1, <2>2 DEF ReaderInv, LeaseOf
  <2>7. Covered(r)' <=> Covered(r)
    BY <1>5, <1>7, <2>1 DEF Covered, Passed
  <2>8. Handshake(r)'
    BY <1>5, <2>1, <2>7 DEF ReaderInv, Handshake
  <2>9. HeldBy(r)'
    BY <1>5, <1>6, <2>1 DEF ReaderInv, HeldBy
  <2> QED BY <2>3, <2>4, <2>5, <2>6, <2>8, <2>9 DEF ReaderInv
<1> QED BY <1>6, <1>9, <1>10, <1>11, <1>12, <1>13 DEF IndInv, TypeOK

\* A process dies.
LEMMA DiesInd ==
  ASSUME IndInv, NEW q \in Readers \cup {Producer}, Dies(q)
  PROVE  IndInv'
<1>1. /\ alive' = [alive EXCEPT ![q] = FALSE]
      /\ UNCHANGED <<ringVars, floorVars, leaseVars, cursor, producerVars, readerVars>>
  BY DEF Dies
<1>2. alive \in [Readers \cup {Producer} -> BOOLEAN]
  BY DEF IndInv, TypeOK, LeaseTypes
<1>3. alive' \in [Readers \cup {Producer} -> BOOLEAN]
  BY <1>1, <1>2
<1>4. \A r \in Readers : alive'[r] => alive[r]
  BY <1>1, <1>2
<1> QED BY <1>1, <1>3, <1>4, QuietStep

\* Every step of the publisher, of a reader or of death keeps the invariant.
LEMMA NextInd == IndInv /\ [Next]_vars => IndInv'
<1> SUFFICES ASSUME IndInv, [Next]_vars PROVE IndInv'
  OBVIOUS
<1>1. ASSUME Publish PROVE IndInv'
  BY <1>1, EnterClaimInd, PrepareFailsInd, AnnounceIntentInd, ScanStartInd, ScanEndInd,
     StoreFloorInd, ClearIntentInd, TakeSequenceInd DEF Publish
<1>2. ASSUME CommitAny PROVE IndInv'
  BY <1>2, CommitInd DEF CommitAny
<1>3. ASSUME NEW r \in Readers, LoadFloor(r) \/ GoOn(r) PROVE IndInv'
  BY <1>3, LoadFloorInd, LoadVisibleInd, StoreLeaseEndInd, StoreLeaseStartInd,
     LoadIntentInd, CheckFloorInd, TakeOneInd, PassOneInd, TakeRunInd, PassRunInd,
     SkipToLatestInd, ReleaseInd, ClearLatestLeaseInd DEF GoOn
<1>4. ASSUME NEW q \in Readers \cup {Producer}, Dies(q) PROVE IndInv'
  BY <1>4, DiesInd
<1>5. ASSUME UNCHANGED vars PROVE IndInv'
  <2>1. UNCHANGED <<ringVars, floorVars, leaseVars, cursor, producerVars, readerVars>>
        /\ alive' = alive
    BY <1>5 DEF vars
  <2>2. alive \in [Readers \cup {Producer} -> BOOLEAN]
    BY DEF IndInv, TypeOK, LeaseTypes
  <2> QED BY <2>1, <2>2, QuietStep
<1> QED BY <1>1, <1>2, <1>3, <1>4, <1>5 DEF Next

-----------------------------------------------------------------------------
(* What the invariant says of leases, lag and eviction *)

\* A message that a live reader holds is in its place in the ring.
LEMMA HeldInPlace ==
  ASSUME IndInv, NEW r \in Readers, alive[r], NEW m \in held[r]
  PROVE  /\ header[Unit(m.position)].sequence = m.sequence
         /\ ProducerPos <= m.position + Cap
<1>1. /\ ReaderInv(r) /\ rpc[r] \in {"holding", "polling"}
      /\ m.sequence < Len(frames) /\ m.position = Start(m.sequence)
      /\ lease_start[r] <= m.position /\ m.position < visible
  BY DEF IndInv, ReaderInv, HeldBy
<1>2. /\ m.sequence \in Nat /\ m.position \in Nat
  <2>1. held[r] \subseteq [position : Nat, sequence : 0 .. MaxFrames]
    BY DEF IndInv, TypeOK, ReaderTypes
  <2> QED BY <2>1
<1>3. /\ Len(frames) \in Nat /\ Cap \in Nat /\ ProducerPos \in Nat
      /\ After(search.low) \in Nat /\ ProducerPos <= After(search.low)
  BY ProducerFacts DEF IndInv
<1>4. lease_start[r] \in Nat
  BY <1>1, LeaseSpan DEF Checking
<1>5. After(search.low) <= lease_start[r] + Cap
  BY <1>1 DEF ReaderInv, Handshake, Covered
<1>6. ProducerPos <= m.position + Cap
  BY <1>1, <1>2, <1>3, <1>4, <1>5
<1>7. m.sequence \in 0 .. Len(frames) - 1
  BY <1>1, <1>2, <1>3
<1>8. Committed(m.sequence)
  BY <1>1, <1>7, VisibleCommitted DEF IndInv, TypeOK
<1>9. header[Unit(m.position)] = Header(m.sequence, frames[m.sequence + 1].len)
  BY <1>1, <1>6, <1>7, <1>8 DEF IndInv, Headers
<1> QED BY <1>6, <1>9 DEF Header

-----------------------------------------------------------------------------
(* The theorems *)

\* The retention protocol's inductive invariant: it holds of every state that
\* claim(), commit(), try_recv(), poll(), skip_to_latest(), release() and the death of
\* processes can reach, one access to shared memory after the other.
THEOREM RetentionInvariance == Spec => []IndInv
<1> QED BY InitInd, NextInd, PTL DEF Spec, SafeSpec

\* Every variable of the protocol keeps its type.
THEOREM RetentionTypeCorrect == Spec => []TypeOK
<1>1. IndInv => TypeOK
  BY DEF IndInv
<1> QED BY <1>1, RetentionInvariance, PTL

\* The handshake of leases and intent: what a live reader reads in place, or has
\* borrowed, is what was published, and no claim is given those bytes.
THEOREM LeasesAreIntact == Spec => []LeasedIntact
<1>1. IndInv => LeasedIntact
  <2> SUFFICES ASSUME IndInv, NEW r \in Readers, alive[r]
               PROVE  /\ rpc[r] = "reading" =>
                           CanRead(r) /\ ProducerPos <= LeaseFrom(r) + Cap
                      /\ \A m \in held[r] :
                           /\ header[Unit(m.position)].sequence = m.sequence
                           /\ ProducerPos <= m.position + Cap
    BY DEF LeasedIntact
  <2>1. rpc[r] = "reading" => CanRead(r) /\ ProducerPos <= LeaseFrom(r) + Cap
    BY Reading, ReadingCanRead
  <2>2. \A m \in held[r] : /\ header[Unit(m.position)].sequence = m.sequence
                           /\ ProducerPos <= m.position + Cap
    BY HeldInPlace
  <2> QED BY <2>1, <2>2
<1> QED BY <1>1, RetentionInvariance, PTL

\* What the low sequence bits and the headers tell a reader that lagged, skipped or
\* left out what had expired is the number of the frame it stands at.
THEOREM LagIsExact == Spec => []LagExact
<1>1. IndInv => LagExact
  BY DEF IndInv, ReaderInv, CursorOf, LagExact
<1> QED BY <1>1, RetentionInvariance, PTL

\* reliable_consumers_allow_retention(): no frame is evicted that a live Reliable
\* reader has yet to read.
THEOREM ReliableAreKept == Spec => []ReliableKept
<1>1. IndInv => ReliableKept
  BY RetentionAssumption DEF IndInv, ReaderInv, KeptOf, ReliableKept
<1> QED BY <1>1, RetentionInvariance, PTL

\* prepare_drop_oldest_write() evicts no frame that could have stayed, whatever
\* numbers claim_batch() tries and gives up.
THEOREM EvictionIsNeeded == Spec => []EvictsAsNeeded
<1>1. IndInv => EvictsAsNeeded
  <2> SUFFICES ASSUME IndInv, ppc = "idle", retained.messages > 0
               PROVE  \/ ProducerPos - Start(retained.messages - 1) > RetentionCapacity
                      \/ /\ MessageWindow # 0
                         /\ Len(frames) - (retained.messages - 1) > MessageWindow
    BY DEF EvictsAsNeeded
  <2>1. search.low = 0
    BY DEF IndInv, Search
  <2>2. Needed(retained.messages, 0)
    BY <2>1 DEF IndInv, Floored
  <2>3. /\ ask.len \in Nat /\ ProducerPos \in Nat /\ Len(frames) \in Nat
    BY ProducerFacts DEF IndInv
  <2>4. After(0) = ProducerPos /\ Len(frames) + 0 = Len(frames)
    BY <2>3 DEF After
  <2>5. \/ After(0) - Start(retained.messages - 1) > RetentionCapacity
        \/ /\ MessageWindow # 0
           /\ Len(frames) + 0 - (retained.messages - 1) > MessageWindow
    BY <2>2 DEF Needed
  <2>6. retained.messages \in Nat
    BY ProducerFacts DEF IndInv
  <2>7. Len(frames) + 0 - (retained.messages - 1) = Len(frames) - (retained.messages - 1)
    BY <2>3, <2>6
  <2> QED BY <2>4, <2>5, <2>7
<1> QED BY <1>1, RetentionInvariance, PTL
=============================================================================
