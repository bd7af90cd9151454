---------------------------- MODULE FastRingProofs ----------------------------
(***************************************************************************)
(* Proofs about FastRing and LaneFairness for every number of lanes,       *)
(* consumers and slots and every batch.                                    *)
(***************************************************************************)
EXTENDS LaneFairness, TLAPS

\* Two positions less than Cap apart never share a slot.
LEMMA SlotsDiffer ==
  ASSUME NEW m \in Nat, NEW n \in Nat, m < n, n < m + Cap
  PROVE  Slot(m) # Slot(n)
<1> DEFINE q == m \div Cap  r == n \div Cap
<1>1. /\ Cap \in Nat /\ Cap > 0
      /\ m = Cap * q + (m % Cap) /\ n = Cap * r + (n % Cap)
      /\ q \in Nat /\ r \in Nat
  BY CapAssumption
<1>2. SUFFICES ASSUME m % Cap = n % Cap PROVE FALSE
  BY DEF Slot
<1>3. n - m = Cap * r - Cap * q
  BY <1>1, <1>2
<1>4. n - m = Cap * (r - q)
  BY <1>1, <1>3
<1>5. CASE r <= q
  <2>1. Cap * (r - q) <= 0
    BY <1>1, <1>5
  <2> QED BY <2>1, <1>4
<1>6. CASE r >= q + 1
  <2>1. Cap * (r - q) >= Cap
    BY <1>1, <1>6
  <2> QED BY <2>1, <1>4, <1>1
<1> QED BY <1>1, <1>5, <1>6

\* The slot of a position is an index of the lane's slot array.
LEMMA SlotType == \A n \in Nat : Slot(n) \in Slots
BY CapAssumption DEF Slot, Slots

\* Copying message k+1 extends the lane's history 1..k to 1..k+1.
LEMMA AppendNext ==
  ASSUME NEW k \in Nat
  PROVE  /\ Append([n \in 1 .. k |-> n], k + 1) = [n \in 1 .. k + 1 |-> n]
         /\ [n \in 1 .. k |-> n] \in Seq(Nat)
         /\ Len([n \in 1 .. k |-> n]) = k
<1>1. /\ [n \in 1 .. k |-> n] \in Seq(Nat)
      /\ Len([n \in 1 .. k |-> n]) = k
  OBVIOUS
<1>2. Append([n \in 1 .. k |-> n], k + 1) = [n \in 1 .. k + 1 |-> n]
  OBVIOUS
<1> QED BY <1>1, <1>2

\* Lanes and consumers are numbered from 0, and the wrap-around of a lane
\* number is a lane.
LEMMA Index ==
  /\ 0 \in Lanes /\ 0 \in Consumers /\ CursorLimit \in Nat
  /\ CursorLimit > MaxPublish /\ MaxPublish \in Nat
  /\ \A c \in Consumers : /\ c \in Nat /\ c <= ConsumerCount - 1
                          /\ c < ConsumerCount - 1 => c + 1 \in Consumers
  /\ \A l \in Lanes : /\ l \in Nat /\ l + 1 <= ProducerCount
                      /\ l # NoLane
                      /\ l + 1 # ProducerCount => l + 1 \in Lanes
                      /\ (l + 1) % ProducerCount \in Lanes
                      /\ \A k \in Lanes : (l + k) % ProducerCount \in Lanes
BY CountAssumption, BoundAssumption DEF Lanes, Consumers, CursorLimit, NoLane

\* Writing one entry of a table of naturals changes that entry only.
LEMMA Update ==
  ASSUME NEW D, NEW E, NEW f \in [D -> [E -> Nat]], NEW d \in D, NEW e \in E,
         NEW v \in Nat, NEW g, g = [f EXCEPT ![d][e] = v]
  PROVE  /\ g \in [D -> [E -> Nat]]
         /\ g[d][e] = v
         /\ \A i \in E : i # e => g[d][i] = f[d][i]
         /\ \A k \in D : k # d => g[k] = f[k]
OBVIOUS

-----------------------------------------------------------------------------
(* The inductive invariant, one lemma per action *)

\* Every cursor of a lane is bounded by what the lane has published.
LEMMA Chain ==
  ASSUME IndInv, NEW l \in Lanes
  PROVE  /\ slowest_cache[l] <= published[l]
         /\ published[l] <= MaxPublish
         /\ \A c \in Consumers : /\ slowest_cache[l] <= consumed[c][l]
                                 /\ cursor[l][c] <= MaxPublish
                                 /\ published[l] <= consumed[c][l] + Cap
                                 /\ Claimed(l) => published[l] < consumed[c][l] + Cap
<1>1. /\ published[l] \in Nat /\ slowest_cache[l] \in Nat /\ Cap \in Nat
      /\ \A c \in Consumers : cursor[l][c] \in Nat /\ consumed[c][l] \in Nat
  BY CapAssumption DEF IndInv, TypeOK
<1>2. published[l] <= MaxPublish
  BY DEF IndInv, Capacity
<1>3. \A c \in Consumers : /\ slowest_cache[l] <= cursor[l][c]
                           /\ cursor[l][c] <= consumed[c][l]
                           /\ consumed[c][l] <= published[l]
  BY DEF IndInv, CursorOrder
<1>4. /\ published[l] <= slowest_cache[l] + Cap
      /\ Claimed(l) => published[l] < slowest_cache[l] + Cap
  BY DEF IndInv, Capacity
<1>5. slowest_cache[l] <= published[l]
  BY <1>1, <1>3, Index
<1>6. \A c \in Consumers : /\ slowest_cache[l] <= consumed[c][l]
                           /\ cursor[l][c] <= MaxPublish
                           /\ published[l] <= consumed[c][l] + Cap
                           /\ Claimed(l) => published[l] < consumed[c][l] + Cap
  BY <1>1, <1>2, <1>3, <1>4, Index
<1> QED BY <1>2, <1>5, <1>6

\* create() and the endpoints' constructors establish the invariant.
LEMMA InitInd == Init => IndInv
<1> SUFFICES ASSUME Init PROVE IndInv
  OBVIOUS
<1> USE Index, CapAssumption DEF Init
<1>1. TypeOK
  BY DEF TypeOK
<1>2. CursorOrder /\ ScanBound /\ Capacity /\ CallState
  BY DEF CursorOrder, ScanBound, Capacity, CallState, Claimed
<1>3. Retained
  BY SlotType DEF Retained, Claimed
<1>4. Prefix
  <2>1. [n \in 1 .. 0 |-> n] = <<>>
    OBVIOUS
  <2> QED BY <2>1 DEF Prefix
<1> QED BY <1>1, <1>2, <1>3, <1>4 DEF IndInv

\* try_claim() on a cache that shows room.
LEMMA TryClaimInd ==
  ASSUME IndInv, NEW l \in Lanes, TryClaim(l)
  PROVE  IndInv'
<1> USE DEF IndInv, TryClaim, laneVars, callVars
<1>1. TypeOK'
  BY DEF TypeOK
<1>2. CursorOrder'
  BY DEF CursorOrder
<1>3. ScanBound'
  BY DEF ScanBound, TypeOK
<1>4. Capacity'
  BY CapAssumption DEF Capacity, Claimed, Full, TypeOK
<1>5. Retained'
  BY SlotType DEF Retained, Claimed, TypeOK
<1>6. CallState' /\ Prefix'
  BY DEF CallState, Prefix
<1> QED BY <1>1, <1>2, <1>3, <1>4, <1>5, <1>6

\* load_slowest() starts from a minimum above every cursor.
LEMMA RefreshCacheInd ==
  ASSUME IndInv, NEW l \in Lanes, RefreshCache(l)
  PROVE  IndInv'
<1> USE DEF IndInv, RefreshCache, laneVars, callVars
<1>1. TypeOK'
  BY Index DEF TypeOK
<1>2. CursorOrder'
  BY DEF CursorOrder
<1>3. ScanBound'
  <2> SUFFICES ASSUME NEW k \in Lanes, ppc'[k] = "refresh"
               PROVE  /\ slowest_cache'[k] <= slowest'[k]
                      /\ \A c \in Consumers :
                           c < scan'[k] => slowest'[k] <= cursor'[k][c]
    BY DEF ScanBound
  <2>1. CASE k = l
    <3>1. scan'[l] = 0 /\ slowest'[l] = CursorLimit
      BY DEF TypeOK
    <3>2. \A c \in Consumers : ~ (c < 0)
      BY Index
    <3>3. published[l] \in Nat /\ slowest_cache[l] \in Nat
      BY DEF TypeOK
    <3>4. slowest_cache[l] <= CursorLimit
      BY <3>3, Chain, Index
    <3> QED BY <2>1, <3>1, <3>2, <3>4
  <2>2. CASE k # l
    BY <2>2 DEF ScanBound, TypeOK
  <2> QED BY <2>1, <2>2
<1>4. Capacity'
  BY DEF Capacity, Claimed, TypeOK
<1>5. Retained'
  BY SlotType DEF Retained, Claimed, TypeOK
<1>6. CallState' /\ Prefix'
  BY DEF CallState, Prefix
<1> QED BY <1>1, <1>2, <1>3, <1>4, <1>5, <1>6

\* What load_slowest() has after one more cursor: cursors only grow, so a
\* value read earlier still bounds its cursor from below.
LEMMA Merge ==
  ASSUME IndInv, NEW l \in Lanes, ppc[l] = "refresh",
         NEW low, low = Lower(slowest[l], cursor[l][scan[l]])
  PROVE  /\ low \in Nat
         /\ slowest_cache[l] <= low
         /\ \A c \in Consumers : c < scan[l] + 1 => low <= cursor[l][c]
<1>1. /\ slowest[l] \in Nat /\ scan[l] \in Consumers /\ slowest_cache[l] \in Nat
      /\ \A c \in Consumers : cursor[l][c] \in Nat
  BY DEF IndInv, TypeOK
<1>2. /\ slowest_cache[l] <= slowest[l]
      /\ slowest_cache[l] <= cursor[l][scan[l]]
      /\ \A c \in Consumers : c < scan[l] => slowest[l] <= cursor[l][c]
  BY <1>1 DEF IndInv, ScanBound, CursorOrder
<1>3. low \in Nat /\ low <= slowest[l] /\ low <= cursor[l][scan[l]]
      /\ slowest_cache[l] <= low
  BY <1>1, <1>2 DEF Lower
<1>4. ASSUME NEW c \in Consumers, c < scan[l] + 1
      PROVE  low <= cursor[l][c]
  <2>0. c \in Nat /\ scan[l] \in Nat
    BY <1>1, Index
  <2>1. c = scan[l] \/ c < scan[l]
    BY <1>4, <2>0
  <2> QED BY <1>1, <1>2, <1>3, <2>1
<1> QED BY <1>3, <1>4


\* One cursor read by load_slowest().
LEMMA LoadSlowestInd ==
  ASSUME IndInv, NEW l \in Lanes, LoadSlowest(l)
  PROVE  IndInv'
<1> DEFINE low == Lower(slowest[l], cursor[l][scan[l]])
<1>1. /\ low \in Nat /\ slowest_cache[l] <= low
      /\ \A c \in Consumers : c < scan[l] + 1 => low <= cursor[l][c]
  BY Merge DEF LoadSlowest
<1>2. scan[l] + 1 \in Consumers
  BY Index DEF IndInv, TypeOK, LoadSlowest
<1>3. slowest' = [slowest EXCEPT ![l] = low]
  BY DEF LoadSlowest
<1> HIDE DEF low
<1> USE DEF IndInv, laneVars, callVars
<1>4. TypeOK'
  <2>1. slowest' \in [Lanes -> Nat]
    BY <1>1, <1>3 DEF TypeOK
  <2>2. scan' \in [Lanes -> Consumers]
    BY <1>2 DEF TypeOK, LoadSlowest
  <2> QED BY <2>1, <2>2 DEF TypeOK, LoadSlowest
<1>5. CursorOrder'
  BY DEF CursorOrder, LoadSlowest
<1>6. ScanBound'
  <2>1. /\ scan'[l] = scan[l] + 1 /\ slowest'[l] = low
        /\ \A k \in Lanes : k # l => scan'[k] = scan[k] /\ slowest'[k] = slowest[k]
    BY <1>3 DEF TypeOK, LoadSlowest
  <2>2. UNCHANGED <<slowest_cache, cursor, ppc>>
    BY DEF LoadSlowest
  <2> QED BY <1>1, <2>1, <2>2 DEF ScanBound
<1>7. Capacity'
  BY DEF Capacity, Claimed, LoadSlowest
<1>8. Retained'
  BY DEF Retained, Claimed, LoadSlowest
<1>9. CallState' /\ Prefix'
  BY DEF CallState, Prefix, LoadSlowest
<1> QED BY <1>4, <1>5, <1>6, <1>7, <1>8, <1>9

\* The cache is renewed with a minimum that bounds every cursor now.
LEMMA FinishRefreshInd ==
  ASSUME IndInv, NEW l \in Lanes, FinishRefresh(l)
  PROVE  IndInv'
<1> DEFINE low == Lower(slowest[l], cursor[l][scan[l]])
<1>1. /\ low \in Nat /\ slowest_cache[l] <= low
      /\ \A c \in Consumers : c < scan[l] + 1 => low <= cursor[l][c]
  BY Merge DEF FinishRefresh
<1>2. \A c \in Consumers : low <= cursor[l][c]
  <2>0. scan[l] = ConsumerCount - 1 /\ ConsumerCount \in Nat
    BY CountAssumption DEF FinishRefresh
  <2>1. \A c \in Consumers : c \in Nat /\ c <= ConsumerCount - 1
    BY Index
  <2>2. \A c \in Consumers : c < scan[l] + 1
    BY <2>0, <2>1
  <2> QED BY <1>1, <2>2
<1>3. /\ slowest_cache' = [slowest_cache EXCEPT ![l] = low]
      /\ ppc' = [ppc EXCEPT ![l] = IF Full(l, low) THEN "idle" ELSE "claimed"]
  BY DEF FinishRefresh
<1> HIDE DEF low
<1> USE DEF IndInv, laneVars, callVars
<1>4. /\ slowest_cache'[l] = low
      /\ ppc'[l] = IF Full(l, low) THEN "idle" ELSE "claimed"
      /\ \A k \in Lanes : k # l => /\ slowest_cache'[k] = slowest_cache[k]
                                   /\ ppc'[k] = ppc[k]
                                   /\ scan'[k] = scan[k]
                                   /\ slowest'[k] = slowest[k]
  <2>1. /\ DOMAIN slowest_cache = Lanes /\ DOMAIN ppc = Lanes
        /\ DOMAIN scan = Lanes /\ DOMAIN slowest = Lanes
    BY DEF TypeOK
  <2> QED BY <2>1, <1>3 DEF FinishRefresh
<1>5. TypeOK'
  <2>1. slowest_cache' \in [Lanes -> Nat] /\ slowest' \in [Lanes -> Nat]
    <3>1. slowest_cache \in [Lanes -> Nat] /\ slowest \in [Lanes -> Nat]
      BY DEF TypeOK
    <3> QED BY <1>1, <1>3, <3>1 DEF FinishRefresh
  <2>2. scan' \in [Lanes -> Consumers]
    BY Index DEF TypeOK, FinishRefresh
  <2>3. ppc' \in [Lanes -> {"idle", "refresh", "claimed", "written", "abandoned"}]
    BY <1>3 DEF TypeOK
  <2> QED BY <2>1, <2>2, <2>3 DEF TypeOK, FinishRefresh
<1>6. UNCHANGED <<sequence, payload, cursor, published, laneVars, callVars>>
  BY DEF FinishRefresh
<1>7. CursorOrder'
  BY <1>2, <1>4, <1>6 DEF CursorOrder
<1>8. ScanBound'
  BY <1>4, <1>6 DEF ScanBound
<1>9. Capacity'
  <2>1. /\ published[l] <= low + Cap
        /\ ~Full(l, low) => published[l] < low + Cap
        /\ published[l] < MaxPublish
    <3>1. /\ published[l] \in Nat /\ slowest_cache[l] \in Nat
          /\ published[l] <= slowest_cache[l] + Cap
          /\ published[l] < MaxPublish
      BY DEF TypeOK, Capacity, FinishRefresh
    <3> QED BY <1>1, <3>1, CapAssumption DEF Full
  <2>2. Claimed(l)' => ~Full(l, low)
    BY <1>4 DEF Claimed
  <2>3. published'[l] <= MaxPublish
    BY <1>6 DEF Capacity
  <2> QED BY <1>4, <1>6, <2>1, <2>2, <2>3 DEF Capacity, Claimed
<1>10. Retained'
  BY <1>4, <1>6 DEF Retained, Claimed, FinishRefresh
<1>11. CallState' /\ Prefix'
  BY <1>6 DEF CallState, Prefix
<1> QED BY <1>5, <1>7, <1>8, <1>9, <1>10, <1>11

\* The payload goes into a slot that no retained message occupies.
LEMMA WritePayloadInd ==
  ASSUME IndInv, NEW l \in Lanes, WritePayload(l)
  PROVE  IndInv'
<1> USE DEF IndInv, laneVars, callVars
<1>1. /\ published[l] \in Nat /\ Slot(published[l]) \in Slots
      /\ ppc[l] = "claimed"
  BY SlotType DEF TypeOK, WritePayload
<1>2. /\ payload' \in [Lanes -> [Slots -> Nat]]
      /\ payload'[l][Slot(published[l])] = published[l] + 1
      /\ \A i \in Slots :
           i # Slot(published[l]) => payload'[l][i] = payload[l][i]
      /\ \A k \in Lanes : k # l => payload'[k] = payload[k]
  <2>0. published[l] + 1 \in Nat
    BY <1>1
  <2>1. payload \in [Lanes -> [Slots -> Nat]]
    BY DEF TypeOK
  <2>2. payload' = [payload EXCEPT ![l][Slot(published[l])] = published[l] + 1]
    BY DEF WritePayload
  <2> QED BY <1>1, <2>0, <2>1, <2>2, Update
<1>3. /\ ppc' \in [Lanes -> {"idle", "refresh", "claimed", "written", "abandoned"}]
      /\ ppc'[l] = "written"
      /\ \A k \in Lanes : k # l => ppc'[k] = ppc[k]
  BY DEF TypeOK, WritePayload
<1>4. UNCHANGED <<sequence, cursor, published, slowest_cache, scan, slowest,
                  laneVars, callVars>>
  BY DEF WritePayload
<1>5. TypeOK'
  BY <1>2, <1>3, <1>4 DEF TypeOK
<1>6. CursorOrder' /\ CallState' /\ Prefix'
  BY <1>4 DEF CursorOrder, CallState, Prefix
<1>7. ScanBound'
  BY <1>1, <1>3, <1>4 DEF ScanBound
<1>8. Capacity'
  BY <1>1, <1>3, <1>4 DEF Capacity, Claimed
<1>9. Retained'
  <2>1. ASSUME NEW n \in 0 .. MaxPublish, n < published[l],
               published[l] < n + Cap
        PROVE  payload'[l][Slot(n)] = n + 1
    <3>1. n \in Nat /\ Slot(n) # Slot(published[l]) /\ Slot(n) \in Slots
      BY <1>1, <2>1, SlotsDiffer, SlotType
    <3>2. published[l] <= n + Cap
      BY <1>1, <2>1, CapAssumption
    <3>3. payload[l][Slot(n)] = n + 1
      BY <2>1, <3>2 DEF Retained
    <3> QED BY <1>2, <3>1, <3>3
  <2>2. ASSUME NEW k \in Lanes, k # l
        PROVE  /\ published'[k] = published[k] /\ sequence'[k] = sequence[k]
               /\ payload'[k] = payload[k] /\ ppc'[k] = ppc[k]
    BY <1>2, <1>3, <1>4, <2>2
  <2>3. published'[l] = published[l] /\ sequence'[l] = sequence[l]
    BY <1>4
  <2> QED BY <1>1, <1>2, <1>3, <2>1, <2>2, <2>3 DEF Retained, Claimed
<1> QED BY <1>5, <1>6, <1>7, <1>8, <1>9

\* The sequence word makes the written slot the newest of the last Cap.
LEMMA CommitInd ==
  ASSUME IndInv, NEW l \in Lanes, Commit(l)
  PROVE  IndInv'
<1> USE DEF IndInv, laneVars, callVars
<1>1. /\ published[l] \in Nat /\ Slot(published[l]) \in Slots
      /\ ppc[l] = "written"
  BY SlotType DEF TypeOK, Commit
<1>2. /\ sequence' \in [Lanes -> [Slots -> Nat]]
      /\ sequence'[l][Slot(published[l])] = published[l] + 1
      /\ \A i \in Slots :
           i # Slot(published[l]) => sequence'[l][i] = sequence[l][i]
      /\ \A k \in Lanes : k # l => sequence'[k] = sequence[k]
  <2>0. published[l] + 1 \in Nat
    BY <1>1
  <2>1. sequence \in [Lanes -> [Slots -> Nat]]
    BY DEF TypeOK
  <2>2. sequence' = [sequence EXCEPT ![l][Slot(published[l])] = published[l] + 1]
    BY DEF Commit
  <2> QED BY <1>1, <2>0, <2>1, <2>2, Update
<1>3. /\ ppc' \in [Lanes -> {"idle", "refresh", "claimed", "written", "abandoned"}]
      /\ ppc'[l] = "idle"
      /\ \A k \in Lanes : k # l => ppc'[k] = ppc[k]
  BY DEF TypeOK, Commit
<1>4. /\ published' \in [Lanes -> Nat]
      /\ published'[l] = published[l] + 1
      /\ \A k \in Lanes : k # l => published'[k] = published[k]
  <2>0. published[l] + 1 \in Nat
    BY <1>1
  <2>1. published \in [Lanes -> Nat]
    BY DEF TypeOK
  <2> QED BY <2>0, <2>1 DEF Commit
<1>5. UNCHANGED <<payload, cursor, slowest_cache, scan, slowest,
                  laneVars, callVars>>
  BY DEF Commit
<1>6. TypeOK'
  BY <1>2, <1>3, <1>4, <1>5 DEF TypeOK
<1>7. \A k \in Lanes : /\ published[k] \in Nat /\ published'[k] \in Nat
                       /\ published[k] <= published'[k]
  <2>1. published \in [Lanes -> Nat]
    BY DEF TypeOK
  <2> QED BY <1>1, <1>4, <2>1
<1>8. CursorOrder'
  <2>1. \A k \in Lanes, c \in Consumers : consumed[c][k] \in Nat
    BY DEF TypeOK
  <2> QED BY <1>5, <1>7, <2>1 DEF CursorOrder
<1>9. ScanBound'
  BY <1>3, <1>5 DEF ScanBound
<1>10. Capacity'
  <2>1. /\ published[l] < slowest_cache[l] + Cap /\ published[l] < MaxPublish
        /\ slowest_cache[l] \in Nat
    BY <1>1 DEF Capacity, Claimed, TypeOK
  <2>2. published[l] + 1 <= slowest_cache[l] + Cap /\ published[l] + 1 <= MaxPublish
    BY <1>1, <2>1, CapAssumption, BoundAssumption
  <2> QED BY <1>3, <1>4, <1>5, <2>2 DEF Capacity, Claimed
<1>11. Retained'
  <2>1. ASSUME NEW n \in 0 .. MaxPublish, n < published[l] + 1,
               published[l] + 1 <= n + Cap
        PROVE  sequence'[l][Slot(n)] = n + 1 /\ payload[l][Slot(n)] = n + 1
    <3>1. CASE n = published[l]
      BY <1>1, <1>2, <3>1 DEF Retained
    <3>2. CASE n < published[l]
      <4>1. /\ n \in Nat /\ published[l] < n + Cap /\ published[l] <= n + Cap
        BY <1>1, <2>1, CapAssumption
      <4>2. Slot(n) # Slot(published[l]) /\ Slot(n) \in Slots
        BY <1>1, <3>2, <4>1, SlotsDiffer, SlotType
      <4>3. sequence[l][Slot(n)] = n + 1 /\ payload[l][Slot(n)] = n + 1
        BY <3>2, <4>1 DEF Retained
      <4> QED BY <1>2, <4>2, <4>3
    <3> QED BY <1>1, <2>1, <3>1, <3>2
  <2>2. ASSUME NEW i \in Slots
        PROVE  sequence'[l][i] <= published[l] + 1
    <3>1. CASE i = Slot(published[l])
      BY <1>1, <1>2, <3>1
    <3>2. CASE i # Slot(published[l])
      <4>1. sequence[l][i] \in Nat /\ sequence[l][i] <= published[l]
        BY DEF Retained, TypeOK
      <4> QED BY <1>1, <1>2, <3>2, <4>1
    <3> QED BY <3>1, <3>2
  <2>3. ASSUME NEW k \in Lanes, k # l
        PROVE  /\ published'[k] = published[k] /\ sequence'[k] = sequence[k]
               /\ payload'[k] = payload[k] /\ ppc'[k] = ppc[k]
    BY <1>2, <1>3, <1>4, <1>5, <2>3
  <2>4. payload'[l] = payload[l]
    BY <1>5
  <2> QED BY <1>3, <1>4, <2>1, <2>2, <2>3, <2>4 DEF Retained, Claimed
<1>12. CallState'
  <2>1. \A c \in Consumers, k \in Lanes : consumed[c][k] \in Nat
    BY DEF TypeOK
  <2>2. ASSUME NEW c \in Consumers, active_lane[c] \in Lanes,
               consumed[c][active_lane[c]] < published[active_lane[c]]
        PROVE  consumed[c][active_lane[c]] < published'[active_lane[c]]
    BY <1>7, <2>1, <2>2
  <2> QED BY <1>5, <2>2 DEF CallState
<1>13. Prefix'
  BY <1>5 DEF Prefix
<1> QED BY <1>6, <1>8, <1>9, <1>10, <1>11, <1>12, <1>13

\* An abandoned claim keeps its slot claimed.
LEMMA AbandonInd ==
  ASSUME IndInv, NEW l \in Lanes, Abandon(l)
  PROVE  IndInv'
<1> USE DEF IndInv, Abandon, laneVars, callVars
<1>1. TypeOK'
  BY DEF TypeOK
<1>2. CursorOrder'
  BY DEF CursorOrder
<1>3. ScanBound'
  BY DEF ScanBound, TypeOK
<1>4. Capacity'
  BY DEF Capacity, Claimed, TypeOK
<1>5. Retained'
  BY SlotType DEF Retained, Claimed, TypeOK
<1>6. CallState' /\ Prefix'
  BY DEF CallState, Prefix
<1> QED BY <1>1, <1>2, <1>3, <1>4, <1>5, <1>6

\* A call starts.
LEMMA TryRecvCopyInd ==
  ASSUME IndInv, NEW c \in Consumers, TryRecvCopy(c)
  PROVE  IndInv'
<1> USE DEF IndInv, TryRecvCopy, producerVars, laneVars
<1>1. TypeOK'
  BY Index DEF TypeOK
<1>2. CursorOrder' /\ ScanBound' /\ Capacity' /\ Retained' /\ Prefix'
  BY DEF CursorOrder, ScanBound, Capacity, Retained, Prefix, Claimed
<1>3. CallState'
  BY DEF CallState, TypeOK
<1> QED BY <1>1, <1>2, <1>3

\* poll() starts with its own count at zero.
LEMMA PollInd ==
  ASSUME IndInv, NEW c \in Consumers, NEW m \in 1 .. MaxPoll, Poll(c, m)
  PROVE  IndInv'
<1> USE DEF IndInv, producerVars, laneVars
<1>1. /\ cpc' \in [Consumers -> {"idle", "scan", "read", "flush"}]
      /\ at' \in [Consumers -> Lanes]
  BY Index DEF TypeOK, Poll
<1>2. /\ quota' \in [Consumers -> Nat]
      /\ quota'[c] = m /\ m \in Nat
      /\ \A d \in Consumers : d # c => quota'[d] = quota[d]
  <2>1. quota \in [Consumers -> Nat] /\ m \in Nat
    BY BoundAssumption DEF TypeOK
  <2> QED BY <2>1 DEF Poll
<1>3. TypeOK'
  BY <1>1, <1>2 DEF TypeOK, Poll
<1>4. CursorOrder' /\ ScanBound' /\ Capacity' /\ Retained' /\ Prefix'
  BY DEF CursorOrder, ScanBound, Capacity, Retained, Prefix, Claimed, Poll
<1>5. CallState'
  <2>1. /\ cpc'[c] = "scan" /\ cpc[c] = "idle"
        /\ \A d \in Consumers : d # c => cpc'[d] = cpc[d]
    BY DEF TypeOK, Poll
  <2>2. received[c] < m
    BY DEF CallState, Poll
  <2>3. UNCHANGED <<active_lane, remaining, consumed, published, received>>
    BY DEF Poll
  <2> QED BY <1>2, <2>1, <2>2, <2>3 DEF CallState
<1> QED BY <1>3, <1>4, <1>5

\* A hit is on a published message: no sequence word exceeds published_.
LEMMA TryReadHitInd ==
  ASSUME IndInv, NEW c \in Consumers, TryReadHit(c)
  PROVE  IndInv'
<1> DEFINE l == ScannedLane(c)
<1> USE DEF IndInv, producerVars
<1>1. l \in Lanes
  BY Index DEF ScannedLane, TypeOK
<1>2. consumed[c][l] < published[l]
  <2>1. consumed[c][l] \in Nat /\ published[l] \in Nat
    BY <1>1 DEF TypeOK
  <2>2. sequence[l][Slot(consumed[c][l])] = consumed[c][l] + 1
    BY DEF TryReadHit, Ready
  <2>3. sequence[l][Slot(consumed[c][l])] <= published[l]
    BY <1>1, <2>1, SlotType DEF Retained
  <2> QED BY <2>1, <2>2, <2>3
<1> HIDE DEF l
<1>3. TypeOK'
  BY <1>1, BoundAssumption DEF TypeOK, TryReadHit, l
<1>4. CursorOrder' /\ ScanBound' /\ Capacity' /\ Retained' /\ Prefix'
  BY DEF CursorOrder, ScanBound, Capacity, Retained, Prefix, Claimed, TryReadHit
<1>5. CallState'
  <2>1. /\ active_lane'[c] = l /\ remaining'[c] > 0
        /\ \A d \in Consumers : d # c => /\ active_lane'[d] = active_lane[d]
                                         /\ remaining'[d] = remaining[d]
                                         /\ cpc'[d] = cpc[d]
    BY BoundAssumption DEF TypeOK, TryReadHit, l
  <2>2. UNCHANGED <<consumed, published, quota, received>>
    BY DEF TryReadHit
  <2>3. cpc'[c] = "read" /\ cpc[c] = "scan"
    BY DEF TypeOK, TryReadHit
  <2> QED BY <1>1, <1>2, <2>1, <2>2, <2>3 DEF CallState
<1> QED BY <1>3, <1>4, <1>5

\* The scan of the lanes goes on.
LEMMA TryReadNextInd ==
  ASSUME IndInv, NEW c \in Consumers, TryReadNext(c)
  PROVE  IndInv'
<1> USE DEF IndInv, producerVars, laneVars
<1>1. at[c] + 1 \in Lanes
  <2>1. at[c] \in Lanes /\ at[c] + 1 < ProducerCount
    BY DEF TypeOK, TryReadNext
  <2> QED BY <2>1, CountAssumption DEF Lanes
<1>2. TypeOK'
  BY <1>1 DEF TypeOK, TryReadNext
<1>3. CursorOrder' /\ ScanBound' /\ Capacity' /\ Retained' /\ Prefix'
  BY DEF CursorOrder, ScanBound, Capacity, Retained, Prefix, Claimed, TryReadNext
<1>4. CallState'
  BY DEF CallState, TryReadNext
<1> QED BY <1>2, <1>3, <1>4

\* The call ends or flushes.
LEMMA TryReadEmptyInd ==
  ASSUME IndInv, NEW c \in Consumers, TryReadEmpty(c)
  PROVE  IndInv'
<1> USE DEF IndInv, producerVars, laneVars
<1>1. TypeOK'
  BY Index DEF TypeOK, TryReadEmpty
<1>2. CursorOrder' /\ ScanBound' /\ Capacity' /\ Retained' /\ Prefix'
  BY DEF CursorOrder, ScanBound, Capacity, Retained, Prefix, Claimed, TryReadEmpty
<1>3. CallState'
  <2>1. /\ quota'[c] = 0 /\ cpc'[c] # "read"
        /\ cpc'[c] = "idle" => received[c] = 0
        /\ \A d \in Consumers : d # c => quota'[d] = quota[d] /\ cpc'[d] = cpc[d]
    <3>1. /\ cpc \in [Consumers -> {"idle", "scan", "read", "flush"}]
          /\ received \in [Consumers -> Nat] /\ quota \in [Consumers -> Nat]
      BY DEF TypeOK
    <3> QED BY <3>1 DEF TryReadEmpty
  <2>2. UNCHANGED <<active_lane, remaining, consumed, published, received>>
    BY DEF TryReadEmpty
  <2> QED BY <2>1, <2>2 DEF CallState
<1> QED BY <1>1, <1>2, <1>3

\* The copy extends what the consumer has of the lane, and the cursor never
\* passes what was copied.
LEMMA ReleaseInd ==
  ASSUME IndInv, NEW c \in Consumers, Release(c)
  PROVE  IndInv'
<1> DEFINE l == active_lane[c]
           n == consumed[c][l]
<1> USE DEF IndInv, producerVars
<1>1. /\ l \in Lanes /\ n < published[l] /\ remaining[c] > 0
  BY DEF CallState, Release
<1>2. /\ n \in Nat /\ published[l] \in Nat /\ remaining[c] \in Nat
      /\ remaining[c] - 1 \in Nat
  <2>1. n \in Nat /\ published[l] \in Nat /\ remaining[c] \in Nat
    BY <1>1 DEF TypeOK
  <2> QED BY <1>1, <2>1
<1>3. payload[l][Slot(n)] = n + 1
  <2>1. /\ published[l] <= n + Cap
        /\ Claimed(l) => published[l] < n + Cap
        /\ published[l] <= MaxPublish
    BY <1>1, Chain
  <2>2. n \in 0 .. MaxPublish
    BY <1>1, <1>2, <2>1, Index
  <2> QED BY <1>1, <2>1, <2>2 DEF Retained
<1>4. /\ consumed' = [consumed EXCEPT ![c][l] = n + 1]
      /\ delivered' = [delivered EXCEPT ![c][l] = Append(@, n + 1)]
      /\ \E b \in BOOLEAN : cursor' = [cursor EXCEPT ![l][c] = IF b THEN n + 1 ELSE @]
      /\ UNCHANGED <<sequence, payload, published, slowest_cache, ppc, scan, slowest>>
  BY <1>3 DEF Release
<1> HIDE DEF l, n
<1>5. /\ consumed' \in [Consumers -> [Lanes -> Nat]]
      /\ consumed'[c][l] = n + 1
      /\ \A d \in Consumers, k \in Lanes :
           (d # c \/ k # l) => consumed'[d][k] = consumed[d][k]
  <2>1. consumed \in [Consumers -> [Lanes -> Nat]]
    BY DEF TypeOK
  <2> QED BY <1>1, <1>2, <1>4, <2>1
<1>6. /\ cursor' \in [Lanes -> [Consumers -> Nat]]
      /\ cursor'[l][c] = cursor[l][c] \/ cursor'[l][c] = n + 1
      /\ \A d \in Consumers, k \in Lanes :
           (d # c \/ k # l) => cursor'[k][d] = cursor[k][d]
  <2>1. cursor \in [Lanes -> [Consumers -> Nat]]
    BY DEF TypeOK
  <2> QED BY <1>1, <1>2, <1>4, <2>1
<1>7. /\ delivered' \in [Consumers -> [Lanes -> Seq(Nat)]]
      /\ delivered'[c][l] = Append(delivered[c][l], n + 1)
      /\ \A d \in Consumers, k \in Lanes :
           (d # c \/ k # l) => delivered'[d][k] = delivered[d][k]
  <2>1. /\ delivered \in [Consumers -> [Lanes -> Seq(Nat)]]
        /\ n + 1 \in Nat
    BY <1>2 DEF TypeOK
  <2>2. Append(delivered[c][l], n + 1) \in Seq(Nat)
    BY <1>1, <2>1
  <2> QED BY <1>1, <1>4, <2>1, <2>2
<1>8. TypeOK'
  <2>1. dirty' \in [Consumers -> [Lanes -> BOOLEAN]]
    <3>1. dirty \in [Consumers -> [Lanes -> BOOLEAN]]
      BY DEF TypeOK
    <3> QED BY <1>1, <3>1 DEF Release, l
  <2>2. /\ active_lane' \in [Consumers -> Lanes \cup {NoLane}]
        /\ next_lane' \in [Consumers -> Lanes]
        /\ remaining' \in [Consumers -> Nat]
        /\ at' \in [Consumers -> Lanes]
    <3>1. /\ active_lane \in [Consumers -> Lanes \cup {NoLane}]
          /\ next_lane \in [Consumers -> Lanes]
          /\ remaining \in [Consumers -> Nat]
          /\ at \in [Consumers -> Lanes]
      BY DEF TypeOK
    <3>2. 0 \in Lanes /\ (l + 1) % ProducerCount \in Lanes
      BY <1>1, Index
    <3> QED BY <1>1, <1>2, <3>1, <3>2 DEF Release, l
  <2>3. received' \in [Consumers -> Nat] /\ quota' \in [Consumers -> Nat]
    <3>1. received \in [Consumers -> Nat] /\ quota \in [Consumers -> Nat]
      BY DEF TypeOK
    <3> QED BY <3>1 DEF Release
  <2>4. cpc' \in [Consumers -> {"idle", "scan", "read", "flush"}]
    BY DEF TypeOK, Release
  <2> QED BY <1>4, <1>5, <1>6, <1>7, <2>1, <2>2, <2>3, <2>4 DEF TypeOK
<1>9. \A k \in Lanes, d \in Consumers :
        /\ consumed[d][k] \in Nat /\ cursor[k][d] \in Nat
        /\ published[k] \in Nat /\ slowest_cache[k] \in Nat /\ slowest[k] \in Nat
        /\ slowest_cache[k] <= cursor[k][d]
        /\ cursor[k][d] <= consumed[d][k]
        /\ consumed[d][k] <= published[k]
  BY DEF TypeOK, CursorOrder
<1>10. cursor[l][c] <= n
  BY <1>1, <1>9 DEF n
<1>11. CursorOrder'
  <2> SUFFICES ASSUME NEW k \in Lanes, NEW d \in Consumers
               PROVE  /\ slowest_cache'[k] <= cursor'[k][d]
                      /\ cursor'[k][d] <= consumed'[d][k]
                      /\ consumed'[d][k] <= published'[k]
    BY DEF CursorOrder
  <2>1. CASE d = c /\ k = l
    BY <1>1, <1>2, <1>4, <1>5, <1>6, <1>9, <1>10, <2>1
  <2>2. CASE d # c \/ k # l
    BY <1>4, <1>5, <1>6, <1>9, <2>2
  <2> QED BY <2>1, <2>2
<1>12. \A k \in Lanes, d \in Consumers : cursor'[k][d] \in Nat /\ cursor[k][d] <= cursor'[k][d]
  <2> TAKE k \in Lanes, d \in Consumers
  <2>1. CASE d = c /\ k = l
    BY <1>1, <1>2, <1>6, <1>9, <1>10, <2>1
  <2>2. CASE d # c \/ k # l
    BY <1>6, <1>9, <2>2
  <2> QED BY <2>1, <2>2
<1>13. ScanBound'
  BY <1>4, <1>9, <1>12 DEF ScanBound
<1>14. Capacity' /\ Retained'
  BY <1>4 DEF Capacity, Retained, Claimed
<1>15. CallState'
  <2>1. /\ cpc'[c] # "read" /\ (quota'[c] > 0 => received'[c] < quota'[c])
        /\ cpc'[c] = "idle" => received'[c] = 0
    <3>1. /\ cpc \in [Consumers -> {"idle", "scan", "read", "flush"}]
          /\ received \in [Consumers -> Nat] /\ quota \in [Consumers -> Nat]
      BY DEF TypeOK
    <3> QED BY <3>1 DEF Release
  <2>2. \A d \in Consumers : d # c =>
          /\ active_lane'[d] = active_lane[d] /\ remaining'[d] = remaining[d]
          /\ cpc'[d] = cpc[d] /\ received'[d] = received[d] /\ quota'[d] = quota[d]
    BY DEF TypeOK, Release
  <2>3. \A d \in Consumers : d # c => \A k \in Lanes : consumed'[d][k] = consumed[d][k]
    BY <1>5
  <2> QED BY <1>4, <2>1, <2>2, <2>3 DEF CallState
<1>16. Prefix'
  <2>1. delivered'[c][l] = [i \in 1 .. n + 1 |-> i]
    <3>1. delivered[c][l] = [i \in 1 .. n |-> i]
      BY <1>1 DEF Prefix, n
    <3> QED BY <1>2, <1>7, <3>1, AppendNext
  <2>2. ASSUME NEW d \in Consumers, NEW k \in Lanes
        PROVE  delivered'[d][k] = [i \in 1 .. consumed'[d][k] |-> i]
    <3>1. CASE d = c /\ k = l
      BY <1>5, <2>1, <3>1
    <3>2. CASE d # c \/ k # l
      <4>1. delivered[d][k] = [i \in 1 .. consumed[d][k] |-> i]
        BY DEF Prefix
      <4>2. delivered'[d][k] = delivered[d][k] /\ consumed'[d][k] = consumed[d][k]
        BY <1>5, <1>7, <3>2
      <4> QED BY <4>1, <4>2
    <3> QED BY <3>1, <3>2
  <2> QED BY <2>2 DEF Prefix
<1> QED BY <1>8, <1>11, <1>13, <1>14, <1>15, <1>16

\* A flushed cursor announces what was copied.
LEMMA FlushReleaseInd ==
  ASSUME IndInv, NEW c \in Consumers, FlushRelease(c)
  PROVE  IndInv'
<1> DEFINE l == at[c]
<1> USE DEF IndInv, producerVars
<1>1. l \in Lanes /\ consumed[c][l] \in Nat
  BY DEF TypeOK
<1>2. /\ cursor' \in [Lanes -> [Consumers -> Nat]]
      /\ \A k \in Lanes, d \in Consumers :
           cursor'[k][d] = cursor[k][d] \/ cursor'[k][d] = consumed[d][k]
  <2>1. cursor \in [Lanes -> [Consumers -> Nat]]
    BY DEF TypeOK
  <2> QED BY <1>1, <2>1 DEF FlushRelease
<1>3. UNCHANGED <<sequence, payload, published, slowest_cache, ppc, scan, slowest,
                  consumed, active_lane, next_lane, remaining, delivered, quota>>
  BY DEF FlushRelease
<1>4. TypeOK'
  <2>1. dirty' \in [Consumers -> [Lanes -> BOOLEAN]]
    <3>1. dirty \in [Consumers -> [Lanes -> BOOLEAN]]
      BY DEF TypeOK
    <3> QED BY <1>1, <3>1 DEF FlushRelease
  <2>2. at' \in [Consumers -> Lanes]
    <3>1. at \in [Consumers -> Lanes] /\ 0 \in Lanes
          /\ (l + 1 # ProducerCount => l + 1 \in Lanes)
      BY <1>1, Index DEF TypeOK
    <3> QED BY <3>1 DEF FlushRelease
  <2>3. /\ received' \in [Consumers -> Nat]
        /\ cpc' \in [Consumers -> {"idle", "scan", "read", "flush"}]
    BY DEF TypeOK, FlushRelease
  <2> QED BY <1>2, <1>3, <2>1, <2>2, <2>3 DEF TypeOK
<1>5. \A k \in Lanes, d \in Consumers :
        /\ consumed[d][k] \in Nat /\ cursor[k][d] \in Nat
        /\ slowest_cache[k] \in Nat /\ slowest[k] \in Nat
        /\ slowest_cache[k] <= cursor[k][d]
        /\ cursor[k][d] <= consumed[d][k]
        /\ consumed[d][k] <= published[k]
  BY DEF TypeOK, CursorOrder
<1>6. CursorOrder'
  BY <1>2, <1>3, <1>5 DEF CursorOrder
<1>7. \A k \in Lanes, d \in Consumers : cursor'[k][d] \in Nat /\ cursor[k][d] <= cursor'[k][d]
  BY <1>2, <1>5
<1>8. ScanBound'
  BY <1>3, <1>5, <1>7 DEF ScanBound
<1>9. Capacity' /\ Retained' /\ Prefix'
  BY <1>3 DEF Capacity, Retained, Claimed, Prefix
<1>10. CallState'
  <2>1. /\ cpc'[c] # "read" /\ (quota[c] > 0 => received'[c] < quota[c])
        /\ cpc'[c] = "idle" => received'[c] = 0
        /\ \A d \in Consumers : d # c => cpc'[d] = cpc[d] /\ received'[d] = received[d]
    <3>1. /\ cpc \in [Consumers -> {"idle", "scan", "read", "flush"}]
          /\ received \in [Consumers -> Nat] /\ quota \in [Consumers -> Nat]
          /\ quota[c] > 0 => received[c] < quota[c]
      BY DEF TypeOK, CallState
    <3> QED BY <3>1 DEF FlushRelease
  <2> QED BY <1>3, <2>1 DEF CallState
<1> QED BY <1>4, <1>6, <1>8, <1>9, <1>10

-----------------------------------------------------------------------------
(* Theorems *)

\* Every step of every producer and consumer preserves the invariant.
LEMMA NextInd == IndInv /\ [Next]_vars => IndInv'
<1> SUFFICES ASSUME IndInv, [Next]_vars PROVE IndInv'
  OBVIOUS
<1>1. ASSUME NEW l \in Lanes, Producer(l) PROVE IndInv'
  BY <1>1, TryClaimInd, RefreshCacheInd, LoadSlowestInd, FinishRefreshInd,
     WritePayloadInd, CommitInd, AbandonInd DEF Producer
<1>2. ASSUME NEW c \in Consumers, Consumer(c) PROVE IndInv'
  <2>1. ASSUME NEW m \in 1 .. MaxPoll, Poll(c, m) PROVE IndInv'
    BY <2>1, PollInd
  <2> QED BY <1>2, <2>1, TryRecvCopyInd, TryReadHitInd, TryReadNextInd,
             TryReadEmptyInd, ReleaseInd, FlushReleaseInd DEF Consumer
<1>3. CASE UNCHANGED vars
  BY <1>3 DEF vars, producerVars, laneVars, callVars, IndInv, TypeOK, CursorOrder,
              ScanBound, Capacity, Retained, CallState, Prefix, Claimed
<1> QED BY <1>1, <1>2, <1>3 DEF Next

\* The invariant holds in every reachable state of a ring of any size.
THEOREM Invariance == SafeSpec => []IndInv
<1>1. Init => IndInv
  BY InitInd
<1>2. IndInv /\ [Next]_vars => IndInv'
  BY NextInd
<1> QED BY <1>1, <1>2, PTL DEF SafeSpec

\* Type correctness of the ring's shared words and endpoint fields.
THEOREM TypeCorrect == SafeSpec => []TypeOK
<1>1. IndInv => TypeOK
  BY DEF IndInv
<1> QED BY <1>1, Invariance, PTL

\* The invariant says what is in the slot a consumer is about to take.
LEMMA SlotContents ==
  ASSUME IndInv, NEW c \in Consumers, NEW l \in Lanes,
         consumed[c][l] < published[l]
  PROVE  /\ sequence[l][Slot(consumed[c][l])] = consumed[c][l] + 1
         /\ payload[l][Slot(consumed[c][l])] = consumed[c][l] + 1
<1>1. consumed[c][l] \in Nat /\ published[l] \in Nat
  BY DEF IndInv, TypeOK
<1>2. /\ published[l] <= consumed[c][l] + Cap
      /\ Claimed(l) => published[l] < consumed[c][l] + Cap
      /\ published[l] <= MaxPublish
  BY Chain
<1>3. consumed[c][l] \in 0 .. MaxPublish
  BY <1>1, <1>2, Index
<1> QED BY <1>2, <1>3 DEF IndInv, Retained

\* No producer overwrites a slot while a consumer holds it (try_read() to
\* release()), for any number of lanes, consumers and slots.
THEOREM NoTornReads == SafeSpec => []NoTornRead
<1>1. IndInv => NoTornRead
  <2> SUFFICES ASSUME IndInv, NEW c \in Consumers, cpc[c] = "read"
               PROVE  payload[active_lane[c]][Slot(consumed[c][active_lane[c]])]
                        = consumed[c][active_lane[c]] + 1
    BY DEF NoTornRead
  <2>1. active_lane[c] \in Lanes /\ consumed[c][active_lane[c]] < published[active_lane[c]]
    BY DEF IndInv, CallState
  <2> QED BY <2>1, SlotContents
<1> QED BY <1>1, Invariance, PTL

\* try_read() finds every message that is published and not yet consumed.
THEOREM NoFalseEmpties == SafeSpec => []NoFalseEmpty
<1>1. IndInv => NoFalseEmpty
  BY SlotContents DEF NoFalseEmpty, Ready
<1> QED BY <1>1, Invariance, PTL

-----------------------------------------------------------------------------
(* The ring implements the bounded fan-out queue *)

\* What each lane has sent: its n-th message carries n.
Sent == [l \in Lanes |-> [n \in 1 .. published[l] |-> n]]

\* commit() is the abstract queue's Publish.
LEMMA CommitRefines ==
  ASSUME IndInv, NEW l \in Lanes, Commit(l)
  PROVE  Fanout!Publish(l)
<1>1. published[l] \in Nat /\ published'[l] = published[l] + 1
  BY DEF IndInv, TypeOK, Commit
<1>2. \A k \in Lanes : k # l => published'[k] = published[k]
  BY DEF IndInv, TypeOK, Commit
<1>3. /\ Len(Sent[l]) = published[l]
      /\ Append(Sent[l], published[l] + 1) = [n \in 1 .. published[l] + 1 |-> n]
  BY <1>1, AppendNext DEF Sent
<1>4. ASSUME NEW c \in Consumers
      PROVE  Len(delivered[c][l]) = consumed[c][l] /\ consumed[c][l] \in Nat
  <2>1. consumed[c][l] \in Nat /\ delivered[c][l] = [n \in 1 .. consumed[c][l] |-> n]
    BY DEF IndInv, TypeOK, Prefix
  <2> QED BY <2>1, AppendNext
<1>5. \A c \in Consumers : Len(Sent[l]) < Len(delivered[c][l]) + Cap
  <2>1. \A c \in Consumers : published[l] < consumed[c][l] + Cap
    BY Chain DEF Commit, Claimed
  <2> QED BY <1>3, <1>4, <2>1
<1>6. Sent' = [Sent EXCEPT ![l] = Append(@, Len(@) + 1)]
  BY <1>1, <1>2, <1>3 DEF Sent
<1>7. UNCHANGED delivered
  BY DEF Commit, laneVars
<1> QED BY <1>5, <1>6, <1>7 DEF Sent, Fanout!Publish

\* release() is the abstract queue's Deliver.
LEMMA ReleaseRefines ==
  ASSUME IndInv, NEW c \in Consumers, Release(c)
  PROVE  Fanout!Deliver(c, active_lane[c])
<1> DEFINE l == active_lane[c]
           n == consumed[c][l]
<1>1. l \in Lanes /\ n < published[l] /\ n \in Nat /\ published[l] \in Nat
  <2>1. l \in Lanes /\ n < published[l]
    BY DEF IndInv, CallState, Release
  <2> QED BY <2>1 DEF IndInv, TypeOK
<1>2. delivered' = [delivered EXCEPT ![c][l] = Append(@, n + 1)]
  BY <1>1, SlotContents DEF Release
<1>3. delivered[c][l] = [i \in 1 .. n |-> i]
  BY <1>1 DEF IndInv, Prefix
<1> HIDE DEF l, n
<1>4. Len(delivered[c][l]) = n
  BY <1>1, <1>3, AppendNext
<1>5. Len(Sent[l]) = published[l] /\ Sent[l][n + 1] = n + 1
  BY <1>1, AppendNext DEF Sent
<1>6. UNCHANGED Sent
  BY DEF Release, producerVars, Sent
<1>7. delivered' = [delivered EXCEPT ![c][l] = Append(@, Sent[l][Len(@) + 1])]
  BY <1>2, <1>4, <1>5
<1> QED BY <1>1, <1>4, <1>5, <1>6, <1>7 DEF Sent, Fanout!Deliver, l

\* The ring implements the fan-out queue: every consumer receives every lane's
\* messages once and in order, and no lane runs Cap ahead of a consumer.
THEOREM Refinement == SafeSpec => Fanout!SafeSpec
<1>1. Init => Fanout!Init
  <2>1. [n \in 1 .. 0 |-> n] = <<>>
    OBVIOUS
  <2> QED BY <2>1 DEF Init, Fanout!Init
<1>2. IndInv /\ [Next]_vars => [Fanout!Next]_Fanout!vars
  <2> SUFFICES ASSUME IndInv, [Next]_vars PROVE [Fanout!Next]_Fanout!vars
    OBVIOUS
  <2>1. ASSUME NEW l \in Lanes, Commit(l) PROVE Fanout!Next
    BY <2>1, CommitRefines DEF Fanout!Next
  <2>2. ASSUME NEW c \in Consumers, Release(c) PROVE Fanout!Next
    <3>1. active_lane[c] \in Lanes
      BY <2>2 DEF IndInv, CallState, Release
    <3> QED BY <2>2, <3>1, ReleaseRefines DEF Fanout!Next
  <2>3. ASSUME UNCHANGED <<published, delivered>> PROVE UNCHANGED Fanout!vars
    BY <2>3 DEF Fanout!vars
  <2>4. ASSUME NEW l \in Lanes, Producer(l)
        PROVE  Commit(l) \/ UNCHANGED <<published, delivered>>
    BY <2>4 DEF Producer, TryClaim, RefreshCache, LoadSlowest, FinishRefresh,
                WritePayload, Abandon, laneVars
  <2>5. ASSUME NEW c \in Consumers, Consumer(c)
        PROVE  Release(c) \/ UNCHANGED <<published, delivered>>
    BY <2>5 DEF Consumer, TryRecvCopy, Poll, TryReadHit, TryReadNext, TryReadEmpty,
                FlushRelease, laneVars, producerVars
  <2>6. CASE UNCHANGED vars
    BY <2>3, <2>6 DEF vars, producerVars, laneVars
  <2> QED BY <2>1, <2>2, <2>3, <2>4, <2>5, <2>6 DEF Next
<1> QED BY <1>1, <1>2, Invariance, PTL DEF SafeSpec, Fanout!SafeSpec

-----------------------------------------------------------------------------
(***************************************************************************)
(* How often a consumer passes over a lane.  A lane that has been passed   *)
(* over keeps its message, and NoFalseEmpty says that the scan does not    *)
(* miss it.  So the lane is served when the scan comes round to it, and    *)
(* what other lanes can be given before that is the rest of the batch      *)
(* under way and a batch for each lane between.                            *)
(***************************************************************************)

\* How many lanes the scan goes on from lane n to reach lane l.
Distance(n, l) == IF n <= l THEN l - n ELSE l + ProducerCount - n

\* Messages in n full batches.
Batches(n) == n * LaneBatch

\* What the lanes before the one d places ahead may still be given when r
\* messages of a batch are left.
Allowance(d, r) ==
  IF d = 0 THEN 0 ELSE IF r = 0 THEN Batches(d) ELSE Batches(d - 1) + r

\* A lane that was passed over still has its message, the scan under way has
\* not gone past it, and with what may still be taken elsewhere it stays
\* within the bound.
Passed(c, l) ==
  LET d == Distance(next_lane[c], l) IN
  /\ consumed[c][l] < published[l]
  /\ cpc[c] \in {"scan", "read"} => at[c] <= d
  /\ bypassed[c][l] + Allowance(d, remaining[c]) <= Batches(ProducerCount - 1)

\* remaining_lane_batch_ never exceeds kLaneBatch, the span a consumer holds is
\* of the lane its scan stopped at, and every lane passed over is so rightly.
Fair(c) ==
  /\ remaining[c] <= LaneBatch
  /\ cpc[c] = "read" => active_lane[c] = ScannedLane(c)
  /\ \A l \in Lanes : bypassed[c][l] > 0 => Passed(c, l)

\* What is inductive, given IndInv.
FairInv ==
  /\ bypassed \in [Consumers -> [Lanes -> Nat]]
  /\ \A c \in Consumers : Fair(c)

-----------------------------------------------------------------------------
(* Distances and batches *)

\* The distance to a lane is less than the number of lanes, is 0 for the lane
\* itself only, and falls by one with each lane the scan goes on.
LEMMA Distances ==
  ASSUME NEW n \in Lanes, NEW l \in Lanes
  PROVE  /\ Distance(n, l) \in 0 .. ProducerCount - 1
         /\ Distance(n, l) = 0 <=> n = l
         /\ n # l => Distance((n + 1) % ProducerCount, l) = Distance(n, l) - 1
<1>1. /\ n \in Nat /\ l \in Nat /\ n <= ProducerCount - 1 /\ l <= ProducerCount - 1
      /\ ProducerCount \in Nat /\ ProducerCount > 0
  BY CountAssumption DEF Lanes
<1>2. /\ n + 1 < ProducerCount => (n + 1) % ProducerCount = n + 1
      /\ n + 1 = ProducerCount => (n + 1) % ProducerCount = 0
  BY <1>1
<1>3. CASE n + 1 < ProducerCount
  BY <1>1, <1>2, <1>3 DEF Distance
<1>4. CASE n + 1 = ProducerCount
  BY <1>1, <1>2, <1>4 DEF Distance
<1> QED BY <1>1, <1>3, <1>4

\* The lane s places on from lane n is s places nearer to every lane at least
\* as far away.
LEMMA Nearer ==
  ASSUME NEW n \in Lanes, NEW l \in Lanes, NEW s \in Lanes, s <= Distance(n, l)
  PROVE  Distance((n + s) % ProducerCount, l) = Distance(n, l) - s
<1>1. /\ n \in Nat /\ l \in Nat /\ s \in Nat /\ n <= ProducerCount - 1
      /\ l <= ProducerCount - 1 /\ s <= ProducerCount - 1
      /\ ProducerCount \in Nat /\ ProducerCount > 0
  BY CountAssumption DEF Lanes
<1>2. CASE n + s < ProducerCount
  <2>1. (n + s) % ProducerCount = n + s
    BY <1>1, <1>2
  <2> QED BY <2>1, <1>1, <1>2 DEF Distance
<1>3. CASE n + s >= ProducerCount
  <2> DEFINE k == n + s - ProducerCount
  <2>1. k \in Nat /\ k < ProducerCount /\ n + s = ProducerCount * 1 + k
    BY <1>1, <1>3
  <2>2. (n + s) % ProducerCount = k
    BY <2>1, <1>1
  <2>3. (n + s) % ProducerCount = n + s - ProducerCount
    BY <2>2
  <2> QED BY <2>3, <1>1, <1>3 DEF Distance
<1> QED BY <1>1, <1>2, <1>3

\* Batches add up and grow.
LEMMA BatchSums ==
  /\ LaneBatch \in Nat /\ LaneBatch > 0
  /\ \A n \in Nat : Batches(n) \in Nat
  /\ \A n \in Nat : Batches(n + 1) = Batches(n) + LaneBatch
  /\ \A m, n \in Nat : m <= n => Batches(m) <= Batches(n)
<1>1. LaneBatch \in Nat /\ LaneBatch > 0
  BY BoundAssumption
<1>2. ASSUME NEW n \in Nat PROVE Batches(n) \in Nat
  BY <1>1 DEF Batches
<1>3. ASSUME NEW n \in Nat PROVE Batches(n + 1) = Batches(n) + LaneBatch
  BY <1>1 DEF Batches
<1>4. ASSUME NEW m \in Nat, NEW n \in Nat, m <= n PROVE Batches(m) <= Batches(n)
  BY <1>1, <1>4 DEF Batches
<1> QED BY <1>1, <1>2, <1>3, <1>4

\* One message taken from a lane d places away or nearer, with r messages of
\* its batch left, is paid for out of the allowance; so is the end of the batch.
LEMMA Spent ==
  ASSUME NEW d \in Nat, NEW e \in Nat, NEW r \in Nat, r > 0, r <= LaneBatch,
         e <= d, e > 0
  PROVE  /\ Allowance(e, r) <= Allowance(d, r)
         /\ r > 1 => Allowance(e, r - 1) + 1 = Allowance(e, r)
         /\ r = 1 => Allowance(e - 1, 0) + 1 = Allowance(e, r)
<1>1. /\ d - 1 \in Nat /\ e - 1 \in Nat /\ e - 1 <= d - 1 /\ d # 0 /\ e # 0
      /\ r - 1 \in Nat
  OBVIOUS
<1>2. /\ Batches(e - 1) \in Nat /\ Batches(d - 1) \in Nat
      /\ Batches(e - 1) <= Batches(d - 1)
  BY <1>1, BatchSums
<1>3. /\ Allowance(e, r) = Batches(e - 1) + r
      /\ Allowance(d, r) = Batches(d - 1) + r
      /\ r > 1 => Allowance(e, r - 1) = Batches(e - 1) + (r - 1)
  BY <1>1 DEF Allowance
<1>4. Allowance(e - 1, 0) = Batches(e - 1)
  <2>1. Batches(0) = 0
    BY BatchSums DEF Batches
  <2> QED BY <2>1, <1>1 DEF Allowance
<1> QED BY <1>2, <1>3, <1>4

\* A new batch is allowed for what it replaces, and less than a full batch for
\* each other lane is within the bound.
LEMMA Fresh ==
  ASSUME NEW d \in Nat, NEW r \in Nat, r <= LaneBatch
  PROVE  /\ Allowance(d, r) \in Nat
         /\ Allowance(d, LaneBatch) = Allowance(d, 0)
         /\ d <= ProducerCount - 1 /\ r > 0
              => Allowance(d, r) <= Batches(ProducerCount - 1)
<1>0. ProducerCount - 1 \in Nat
  BY CountAssumption
<1>1. CASE d = 0
  BY <1>0, <1>1, BatchSums DEF Allowance
<1>2. CASE d # 0
  <2>1. d - 1 \in Nat /\ d = (d - 1) + 1
    BY <1>2
  <2>2. Batches(d) = Batches(d - 1) + LaneBatch
    BY <2>1, BatchSums
  <2>3. /\ Batches(d) \in Nat /\ Batches(d - 1) \in Nat /\ LaneBatch \in Nat
        /\ LaneBatch > 0
    BY <2>1, BatchSums
  <2>4. d <= ProducerCount - 1 => Batches(d) <= Batches(ProducerCount - 1)
    BY <1>0, BatchSums
  <2>5. Batches(ProducerCount - 1) \in Nat
    BY <1>0, BatchSums
  <2> QED BY <1>2, <2>2, <2>3, <2>4, <2>5 DEF Allowance
<1> QED BY <1>1, <1>2
-----------------------------------------------------------------------------
(* The invariant, one lemma per kind of step *)

\* A step that leaves a consumer where it is, or moves another one, or a
\* producer's commit, does not touch what has been passed over.
LEMMA Elsewhere ==
  ASSUME IndInv, NEW c \in Consumers, Fair(c),
         UNCHANGED <<bypassed[c], remaining[c], active_lane[c], next_lane[c],
                     consumed[c]>>,
         cpc'[c] \in {"idle", "flush"} \/ UNCHANGED <<cpc[c], at[c]>>,
         \A l \in Lanes : published'[l] \in Nat /\ published[l] <= published'[l]
  PROVE  Fair(c)'
<1>1. \A l \in Lanes : /\ consumed[c][l] \in Nat /\ published[l] \in Nat
                       /\ published'[l] \in Nat /\ published[l] <= published'[l]
  BY DEF IndInv, TypeOK
<1>2. ASSUME NEW l \in Lanes, bypassed'[c][l] > 0
      PROVE  Passed(c, l)'
  <2>1. Passed(c, l)
    BY <1>2 DEF Fair
  <2>2. consumed'[c][l] < published'[l]
    BY <2>1, <1>1 DEF Passed
  <2> QED BY <2>1, <2>2 DEF Passed
<1> QED BY <1>2 DEF Fair, ScannedLane

\* A lane that was passed over has its message in its slot.
LEMMA StillReady ==
  ASSUME IndInv, NEW c \in Consumers, NEW l \in Lanes, Passed(c, l)
  PROVE  Ready(c, l)
BY SlotContents DEF Passed, Ready

\* What the proofs about a consumer's step need to know of its locals.
LEMMA Locals ==
  ASSUME IndInv, NEW c \in Consumers
  PROVE  /\ next_lane[c] \in Lanes /\ at[c] \in Lanes /\ at[c] \in Nat
         /\ remaining[c] \in Nat /\ ScannedLane(c) \in Lanes
         /\ \A l \in Lanes : consumed[c][l] \in Nat /\ published[l] \in Nat
<1>1. next_lane[c] \in Lanes /\ at[c] \in Lanes
  BY DEF IndInv, TypeOK
<1>2. ScannedLane(c) \in Lanes
  BY <1>1, Index DEF ScannedLane
<1>3. at[c] \in Nat
  BY <1>1, Index
<1>4. /\ remaining[c] \in Nat
      /\ \A l \in Lanes : consumed[c][l] \in Nat /\ published[l] \in Nat
  BY DEF IndInv, TypeOK
<1> QED BY <1>1, <1>2, <1>3, <1>4

\* try_recv_copy() and poll() begin their scan at next_lane_.
LEMMA CallFair ==
  ASSUME IndInv, NEW c \in Consumers, Fair(c), UNCHANGED bypassed,
         TryRecvCopy(c) \/ \E m \in 1 .. MaxPoll : Poll(c, m)
  PROVE  Fair(c)'
<1>1. /\ cpc'[c] = "scan" /\ at'[c] = 0
      /\ UNCHANGED <<consumed, published, next_lane, remaining>>
  BY DEF TryRecvCopy, Poll, laneVars, producerVars, IndInv, TypeOK
<1>2. ASSUME NEW l \in Lanes, bypassed'[c][l] > 0
      PROVE  Passed(c, l)'
  <2>1. Passed(c, l)
    BY <1>2 DEF Fair
  <2>2. Distance(next_lane[c], l) \in Nat
    BY Locals, Distances
  <2> QED BY <2>1, <2>2, <1>1 DEF Passed
<1> QED BY <1>1, <1>2 DEF Fair

\* try_read() goes past a lane only when it has nothing, so never past one that
\* waits.
LEMMA NextFairly ==
  ASSUME IndInv, NEW c \in Consumers, Fair(c), UNCHANGED bypassed, TryReadNext(c)
  PROVE  Fair(c)'
<1>1. /\ cpc[c] = "scan" /\ cpc'[c] = "scan" /\ at'[c] = at[c] + 1
      /\ UNCHANGED <<consumed, published, next_lane, remaining>>
      /\ ~Ready(c, ScannedLane(c))
  BY DEF TryReadNext, laneVars, producerVars, IndInv, TypeOK
<1>2. ASSUME NEW l \in Lanes, bypassed'[c][l] > 0
      PROVE  Passed(c, l)'
  <2> DEFINE d == Distance(next_lane[c], l)
  <2>1. Passed(c, l)
    BY <1>2 DEF Fair
  <2>2. d \in Nat /\ at[c] \in Nat /\ at[c] <= d
    BY <2>1, <1>1, Locals, Distances DEF Passed
  <2>3. at[c] # d
    <3>1. SUFFICES ASSUME at[c] = d PROVE FALSE
      OBVIOUS
    <3>2. Distance(ScannedLane(c), l) = 0
      BY <3>1, <2>2, Nearer, Locals DEF ScannedLane
    <3>3. ScannedLane(c) = l
      BY <3>2, Distances, Locals
    <3> QED BY <3>3, <2>1, <1>1, StillReady
  <2>4. at'[c] <= d
    BY <2>2, <2>3, <1>1
  <2> QED BY <2>1, <2>4, <1>1 DEF Passed
<1> QED BY <1>1, <1>2 DEF Fair

\* A hit starts a batch if none is under way, which the allowance covers.
LEMMA HitFair ==
  ASSUME IndInv, NEW c \in Consumers, Fair(c), UNCHANGED bypassed, TryReadHit(c)
  PROVE  Fair(c)'
<1>1. /\ cpc[c] = "scan" /\ at'[c] = at[c] /\ active_lane'[c] = ScannedLane(c)
      /\ remaining'[c] = IF remaining[c] = 0 THEN LaneBatch ELSE remaining[c]
      /\ UNCHANGED <<consumed, published, next_lane>>
  BY DEF TryReadHit, producerVars, IndInv, TypeOK
<1>2. ASSUME NEW l \in Lanes, bypassed'[c][l] > 0
      PROVE  Passed(c, l)'
  <2> DEFINE d == Distance(next_lane[c], l)
  <2>1. Passed(c, l)
    BY <1>2 DEF Fair
  <2>2. d \in Nat
    BY Locals, Distances
  <2>3. Allowance(d, remaining'[c]) = Allowance(d, remaining[c])
    <3>1. Allowance(d, LaneBatch) = Allowance(d, 0)
      BY <2>2, Fresh, BatchSums
    <3> QED BY <3>1, <1>1
  <2>4. at'[c] <= d
    BY <2>1, <1>1 DEF Passed
  <2> QED BY <2>1, <2>3, <2>4, <1>1 DEF Passed
<1>3. remaining'[c] <= LaneBatch
  BY <1>1, BatchSums DEF Fair
<1>4. active_lane'[c] = ScannedLane(c)'
  BY <1>1 DEF ScannedLane
<1> QED BY <1>2, <1>3, <1>4 DEF Fair

\* Every consumer's batch is within kLaneBatch, whoever moves.
LEMMA Elsewise ==
  ASSUME IndInv, FairInv, NEW c \in Consumers, UNCHANGED bypassed,
         \A k \in Consumers \ {c} :
           UNCHANGED <<remaining[k], active_lane[k], next_lane[k], consumed[k],
                       cpc[k], at[k]>>,
         UNCHANGED published, Fair(c)'
  PROVE  FairInv'
<1>1. ASSUME NEW k \in Consumers, k # c PROVE Fair(k)'
  <2>1. UNCHANGED <<bypassed[k], remaining[k], active_lane[k], next_lane[k],
                    consumed[k], cpc[k], at[k]>>
    BY <1>1
  <2>2. \A l \in Lanes : published'[l] \in Nat /\ published[l] <= published'[l]
    BY Locals
  <2>3. Fair(k)
    BY DEF FairInv
  <2> QED BY <2>1, <2>2, <2>3, Elsewhere
<1> QED BY <1>1 DEF FairInv

\* A consumer that takes nothing in this step.
LEMMA WithoutTaking ==
  ASSUME IndInv, FairInv, NEW c \in Consumers, UNCHANGED bypassed,
         \/ TryRecvCopy(c) \/ \E m \in 1 .. MaxPoll : Poll(c, m)
         \/ TryReadHit(c) \/ TryReadNext(c) \/ TryReadEmpty(c) \/ FlushRelease(c)
  PROVE  FairInv'
<1> USE DEF laneVars, producerVars, callVars
<1>0. Fair(c)
  BY DEF FairInv
<1>1. \A k \in Consumers \ {c} :
        UNCHANGED <<remaining[k], active_lane[k], next_lane[k], consumed[k],
                    cpc[k], at[k]>>
  <2>1. /\ remaining \in [Consumers -> Nat] /\ DOMAIN active_lane = Consumers
        /\ DOMAIN cpc = Consumers /\ DOMAIN at = Consumers
    BY DEF IndInv, TypeOK
  <2>2. CASE TryRecvCopy(c) \/ \E m \in 1 .. MaxPoll : Poll(c, m)
    BY <2>1, <2>2 DEF TryRecvCopy, Poll
  <2>3. CASE TryReadHit(c)
    BY <2>1, <2>3 DEF TryReadHit
  <2>4. CASE TryReadNext(c) \/ TryReadEmpty(c)
    BY <2>1, <2>4 DEF TryReadNext, TryReadEmpty
  <2>5. CASE FlushRelease(c)
    BY <2>1, <2>5 DEF FlushRelease
  <2> QED BY <2>2, <2>3, <2>4, <2>5
<1>2. UNCHANGED published
  BY DEF TryRecvCopy, Poll, TryReadHit, TryReadNext, TryReadEmpty, FlushRelease
<1>3. CASE TryRecvCopy(c) \/ \E m \in 1 .. MaxPoll : Poll(c, m)
  BY <1>0, <1>1, <1>2, <1>3, CallFair, Elsewise
<1>4. CASE TryReadHit(c)
  BY <1>0, <1>1, <1>2, <1>4, HitFair, Elsewise
<1>5. CASE TryReadNext(c)
  BY <1>0, <1>1, <1>2, <1>5, NextFairly, Elsewise
<1>6. CASE TryReadEmpty(c) \/ FlushRelease(c)
  <2>1. UNCHANGED <<bypassed[c], remaining[c], active_lane[c], next_lane[c],
                    consumed[c]>>
    BY <1>6 DEF TryReadEmpty, FlushRelease
  <2>2. cpc'[c] \in {"idle", "flush"}
    BY <1>6 DEF TryReadEmpty, FlushRelease, IndInv, TypeOK
  <2>3. \A l \in Lanes : published'[l] \in Nat /\ published[l] <= published'[l]
    BY <1>2, Locals
  <2>4. Fair(c)'
    BY <1>0, <2>1, <2>2, <2>3, Elsewhere
  <2> QED BY <2>4, <1>1, <1>2, Elsewise
<1> QED BY <1>3, <1>4, <1>5, <1>6

\* release() takes a message from the lane the scan stopped at.  A lane passed
\* over before comes nearer and pays for it out of its allowance; one passed
\* over for the first time has at most the rest of the batch and all other
\* lanes before it.
LEMMA ReleaseFair ==
  ASSUME IndInv, NEW c \in Consumers, Fair(c), Release(c),
         bypassed[c] \in [Lanes -> Nat],
         \A l \in Lanes : bypassed'[c][l] =
           IF l = active_lane[c] \/ consumed[c][l] = published[l] THEN 0
           ELSE bypassed[c][l] + 1
  PROVE  Fair(c)'
<1> DEFINE a == active_lane[c]  r == remaining[c]
<1>1. a \in Lanes /\ r \in Nat /\ r > 0 /\ a = ScannedLane(c) /\ r <= LaneBatch
  BY Locals DEF Fair, Release, IndInv, CallState
<1>2. /\ remaining'[c] = r - 1
      /\ next_lane'[c] = IF r = 1 THEN (a + 1) % ProducerCount ELSE a
      /\ cpc'[c] \in {"idle", "scan", "flush"} /\ at'[c] = 0
      /\ UNCHANGED published
      /\ \A l \in Lanes : l # a => consumed'[c][l] = consumed[c][l]
  <2>1. r - 1 = 0 <=> r = 1
    BY <1>1
  <2> QED BY <2>1 DEF Release, producerVars, IndInv, TypeOK
<1>3. ASSUME NEW l \in Lanes, bypassed'[c][l] > 0
      PROVE  Passed(c, l)'
  <2> DEFINE b == bypassed[c][l]
             d == Distance(next_lane[c], l)
             e == Distance(a, l)
  <2>1. l # a /\ consumed[c][l] # published[l] /\ bypassed'[c][l] = b + 1
    BY <1>3
  <2>2. consumed'[c][l] < published'[l]
    <3>1. consumed[c][l] <= published[l]
      BY DEF IndInv, CursorOrder
    <3> QED BY <3>1, <2>1, <1>2, Locals
  <2>3. /\ b \in Nat /\ d \in Nat /\ e \in Nat /\ e > 0 /\ e <= ProducerCount - 1
        /\ Distance((a + 1) % ProducerCount, l) = e - 1
    BY <2>1, <1>1, Locals, Distances
  <2>4. b + Allowance(e, r) <= Batches(ProducerCount - 1)
    <3>1. CASE b = 0
      BY <3>1, <2>3, <1>1, Fresh
    <3>2. CASE b > 0
      <4>1. Passed(c, l)
        BY <3>2 DEF Fair
      <4>2. at[c] <= d
        BY <4>1 DEF Passed, Release
      <4>3. e = d - at[c]
        BY <4>2, <1>1, Nearer, Locals DEF ScannedLane
      <4>4. e <= d
        BY <4>3, <2>3, Locals
      <4>5. Allowance(e, r) <= Allowance(d, r)
        BY <4>4, <2>3, <1>1, Spent
      <4>6. b + Allowance(d, r) <= Batches(ProducerCount - 1)
        BY <4>1 DEF Passed
      <4>7. Allowance(e, r) \in Nat /\ Allowance(d, r) \in Nat
        BY <2>3, <1>1, Fresh
      <4>8. Batches(ProducerCount - 1) \in Nat
        BY BatchSums, CountAssumption
      <4> QED BY <4>5, <4>6, <4>7, <4>8, <2>3
    <3> QED BY <3>1, <3>2, <2>3
  <2>5. b + 1 + Allowance(Distance(next_lane'[c], l), r - 1)
          = b + Allowance(e, r)
    <3>1. Allowance(e, r) \in Nat
      BY <2>3, <1>1, Fresh
    <3>2. CASE r = 1
      <4>1. Allowance(e - 1, 0) + 1 = Allowance(e, r)
        BY <3>2, <2>3, <1>1, Spent
      <4>2. Allowance(e - 1, 0) \in Nat /\ e - 1 \in Nat
        <5>1. e - 1 \in Nat
          BY <2>3
        <5>2. 0 <= LaneBatch
          BY BatchSums
        <5> QED BY <5>1, <5>2, Fresh
      <4>3. Distance(next_lane'[c], l) = e - 1 /\ r - 1 = 0
        BY <3>2, <2>3, <1>2
      <4>4. Allowance(Distance(next_lane'[c], l), r - 1) = Allowance(e - 1, 0)
        BY <4>3
      <4> QED BY <4>1, <4>2, <4>4, <3>1, <2>3
    <3>3. CASE r > 1
      <4>1. Allowance(e, r - 1) + 1 = Allowance(e, r)
        BY <3>3, <2>3, <1>1, Spent
      <4>2. Allowance(e, r - 1) \in Nat
        <5>1. r - 1 \in Nat
          BY <1>1
        <5>2. r - 1 <= LaneBatch
          BY <1>1, BoundAssumption
        <5> QED BY <5>1, <5>2, <2>3, Fresh
      <4>3. Distance(next_lane'[c], l) = e
        BY <3>3, <1>2, <1>1
      <4> QED BY <4>1, <4>2, <4>3, <3>1, <2>3
    <3> QED BY <3>2, <3>3, <1>1
  <2>6. Distance(next_lane'[c], l) \in Nat
    <3>1. next_lane'[c] \in Lanes
      BY <1>1, <1>2, Index
    <3> QED BY <3>1, Distances
  <2>7. bypassed'[c][l] + Allowance(Distance(next_lane'[c], l), remaining'[c])
          <= Batches(ProducerCount - 1)
    BY <2>1, <2>4, <2>5, <1>2
  <2>8. at'[c] <= Distance(next_lane'[c], l)
    BY <2>6, <1>2
  <2> QED BY <2>2, <2>7, <2>8 DEF Passed
<1>4. remaining'[c] <= LaneBatch
  <2>1. r - 1 <= LaneBatch
    BY <1>1, BoundAssumption
  <2> QED BY <2>1, <1>2
<1> QED BY <1>2, <1>3, <1>4 DEF Fair

\* Every step of the specification keeps the invariant.
LEMMA NextFairInd ==
  ASSUME IndInv, FairInv, [NextFair]_fairVars
  PROVE  FairInv'
<1>1. CASE UNCHANGED fairVars
  <2>1. UNCHANGED <<bypassed, published, consumed, remaining, active_lane,
                    next_lane, cpc, at>>
    BY <1>1 DEF fairVars, vars, producerVars, laneVars, callVars
  <2> QED BY <2>1 DEF FairInv, Fair, Passed, ScannedLane
<1>2. CASE NextFair
  <2>0. bypassed \in [Consumers -> [Lanes -> Nat]]
    BY DEF FairInv
  <2>1. \A k \in Consumers : ~Took(k) => bypassed'[k] = bypassed[k]
    BY <1>2 DEF NextFair
  <2>2. bypassed' \in [Consumers -> [Lanes -> Nat]]
    BY <1>2, <2>0 DEF NextFair
  <2>3. (\A k \in Consumers : ~Took(k)) => UNCHANGED bypassed
    BY <2>0, <2>1, <2>2
  <2>4. ASSUME NEW l \in Lanes, Producer(l) PROVE FairInv'
    <3>1. UNCHANGED <<laneVars, callVars>>
      BY <2>4 DEF Producer, TryClaim, RefreshCache, LoadSlowest, FinishRefresh,
                  WritePayload, Commit, Abandon
    <3>2. \A m \in Lanes : published'[m] \in Nat /\ published[m] <= published'[m]
      <4>1. published \in [Lanes -> Nat]
        BY DEF IndInv, TypeOK
      <4>2. UNCHANGED published \/ published' = [published EXCEPT ![l] = @ + 1]
        BY <2>4 DEF Producer, TryClaim, RefreshCache, LoadSlowest, FinishRefresh,
                    WritePayload, Commit, Abandon
      <4> QED BY <4>1, <4>2
    <3>3. UNCHANGED bypassed
      BY <3>1, <2>3 DEF callVars, Took
    <3>4. ASSUME NEW k \in Consumers PROVE Fair(k)'
      <4>1. Fair(k)
        BY DEF FairInv
      <4> QED BY <3>1, <3>2, <3>3, <4>1, Elsewhere DEF laneVars, callVars
    <3> QED BY <3>3, <3>4 DEF FairInv
  <2>5. ASSUME NEW c \in Consumers, Consumer(c), ~Release(c) PROVE FairInv'
    <3>1. \/ TryRecvCopy(c) \/ \E m \in 1 .. MaxPoll : Poll(c, m)
          \/ TryReadHit(c) \/ TryReadNext(c) \/ TryReadEmpty(c) \/ FlushRelease(c)
      BY <2>5 DEF Consumer
    <3>2. \A k \in Consumers : ~Took(k)
      <4>1. cpc \in [Consumers -> {"idle", "scan", "read", "flush"}]
        BY DEF IndInv, TypeOK
      <4> QED BY <3>1, <4>1 DEF Took, TryRecvCopy, Poll, TryReadHit, TryReadNext,
                 TryReadEmpty, FlushRelease, callVars
    <3> QED BY <3>1, <3>2, <2>3, WithoutTaking
  <2>6. ASSUME NEW c \in Consumers, Release(c) PROVE FairInv'
    <3>1. \A k \in Consumers \ {c} :
            UNCHANGED <<remaining[k], active_lane[k], next_lane[k], consumed[k],
                        cpc[k], at[k]>>
      BY <2>6 DEF Release, IndInv, TypeOK
    <3>2. UNCHANGED published
      BY <2>6 DEF Release, producerVars
    <3>3. Took(c)
      BY <2>6 DEF Release, Took, IndInv, TypeOK
    <3>4. \A l \in Lanes : bypassed'[c][l] =
            IF l = active_lane[c] \/ consumed[c][l] = published[l] THEN 0
            ELSE bypassed[c][l] + 1
      BY <1>2, <3>3 DEF NextFair
    <3>5. Fair(c) /\ bypassed[c] \in [Lanes -> Nat]
      BY <2>0 DEF FairInv
    <3>6. Fair(c)'
      BY <2>6, <3>4, <3>5, ReleaseFair
    <3>7. ASSUME NEW k \in Consumers, k # c PROVE Fair(k)'
      <4>1. UNCHANGED <<remaining[k], active_lane[k], next_lane[k], consumed[k],
                        cpc[k], at[k]>>
        BY <3>1, <3>7
      <4>2. bypassed'[k] = bypassed[k]
        BY <4>1, <2>1 DEF Took
      <4>3. \A l \in Lanes : published'[l] \in Nat /\ published[l] <= published'[l]
        BY <3>2, Locals
      <4>4. Fair(k)
        BY DEF FairInv
      <4> QED BY <4>1, <4>2, <4>3, <4>4, Elsewhere
    <3> QED BY <2>2, <3>6, <3>7 DEF FairInv
  <2> QED BY <1>2, <2>4, <2>5, <2>6 DEF NextFair, Next, Consumer
<1> QED BY <1>1, <1>2

\* The invariant gives the bound.
LEMMA FairBounds == IndInv /\ FairInv => BoundedBypass
<1> SUFFICES ASSUME IndInv, FairInv, NEW c \in Consumers, NEW l \in Lanes
             PROVE  bypassed[c][l] <= Batches(ProducerCount - 1)
  BY DEF BoundedBypass, Batches
<1>1. bypassed[c][l] \in Nat /\ Fair(c)
  BY DEF FairInv
<1>2. Batches(ProducerCount - 1) \in Nat
  BY BatchSums, CountAssumption
<1>3. CASE bypassed[c][l] > 0
  <2>1. Passed(c, l)
    BY <1>1, <1>3 DEF Fair
  <2>2. Allowance(Distance(next_lane[c], l), remaining[c]) \in Nat
    BY <1>1, Fresh, Locals, Distances DEF Fair
  <2> QED BY <2>1, <2>2, <1>1, <1>2 DEF Passed
<1> QED BY <1>1, <1>2, <1>3

\* FixedSubscriber never passes over a lane that has a message for it by more
\* than a batch of each other lane, whatever the producers do and however its
\* scans, polls and flushes are interleaved with theirs.
THEOREM BypassIsBounded == FairSpec => []BoundedBypass
<1>1. FairSpec => SafeSpec
  <2>1. InitFair => Init
    BY DEF InitFair
  <2>2. [NextFair]_fairVars => [Next]_vars
    BY DEF NextFair, fairVars
  <2> QED BY <2>1, <2>2, PTL DEF FairSpec, SafeSpec
<1>2. InitFair => FairInv
  <2> SUFFICES ASSUME InitFair PROVE FairInv
    OBVIOUS
  <2>1. 0 <= LaneBatch
    BY BatchSums
  <2> QED BY <2>1 DEF InitFair, Init, FairInv, Fair
<1>3. IndInv /\ FairInv /\ [NextFair]_fairVars => FairInv'
  BY NextFairInd
<1> QED BY <1>1, <1>2, <1>3, FairBounds, Invariance, PTL DEF FairSpec
=============================================================================
