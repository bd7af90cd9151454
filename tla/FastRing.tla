------------------------------- MODULE FastRing -------------------------------
(***************************************************************************)
(* The fixed-topology data plane (src/src/core/ring/fast_*_ring.hpp as     *)
(* FixedPublisher and FixedSubscriber of fixed_channel.hpp drive it).      *)
(*                                                                         *)
(* A ring is ProducerCount lanes; a lane has one writer, Cap slots of      *)
(* (sequence, payload) and one shared cursor per consumer.  MPMC is the    *)
(* general case; SPMC is one lane, MPSC one consumer, SPSC both.  One step *)
(* is at most one access to shared memory, so the producer's scan of the   *)
(* consumer cursors, the consumer's scan of the lanes and the flush of     *)
(* several lanes all interleave with everybody else.                       *)
(*                                                                         *)
(* The n-th message of a lane carries payload n: a slot overwritten while  *)
(* it is read, a lost, repeated or reordered message all change the value  *)
(* a consumer copies.                                                      *)
(***************************************************************************)
EXTENDS Naturals, Sequences

CONSTANTS
  ProducerCount,  \* lanes
  ConsumerCount,  \* fan-out consumers
  Cap,            \* CapacitySlotCount
  LaneBatch,      \* kLaneBatch = min(Cap, 64)
  MaxPoll,        \* bound: largest max_messages given to poll()
  MaxPublish      \* bound: messages a lane publishes

ASSUME CountAssumption == /\ ProducerCount \in Nat \ {0}
                          /\ ConsumerCount \in Nat \ {0}
ASSUME CapAssumption == Cap \in Nat /\ Cap >= 2
ASSUME BoundAssumption == /\ LaneBatch \in Nat \ {0}
                          /\ MaxPoll \in Nat
                          /\ MaxPublish \in Nat

Lanes == 0 .. ProducerCount - 1
Consumers == 0 .. ConsumerCount - 1
NoLane == ProducerCount          \* active_lane_ holds no value

\* numeric_limits<uint64_t>::max(): above every cursor.
CursorLimit == MaxPublish + 1

VARIABLES
  \* shared memory
  sequence,       \* sequence[l][i]: the sequence word of slot i of lane l
  payload,        \* payload[l][i]: the payload bytes of that slot
  cursor,         \* cursor[l][c]: how far c says it has consumed lane l
  \* producer l
  published,      \* published_
  slowest_cache,  \* slowest_cache_
  ppc,            \* where the producer is; "idle" iff ~claim_outstanding_
  scan,           \* scan[l]: next cursor load_slowest() reads
  slowest,        \* slowest[l]: load_slowest()'s running minimum
  \* consumer c
  consumed,       \* consumed_[l]
  dirty,          \* dirty_[l]
  active_lane,    \* active_lane_
  next_lane,      \* next_lane_
  remaining,      \* remaining_lane_batch_
  cpc,            \* where the consumer is
  at,             \* lanes already scanned by try_read() or flush_release()
  quota,          \* poll()'s max_messages while it takes messages; else 0
  received,       \* poll()'s received
  delivered       \* history: what c copied from lane l

producerVars == <<published, slowest_cache, ppc, scan, slowest>>
laneVars == <<consumed, dirty, active_lane, next_lane, remaining, delivered>>
callVars == <<cpc, at, quota, received>>
vars == <<sequence, payload, cursor, producerVars, laneVars, callVars>>

Slots == 0 .. Cap - 1
Slot(n) == n % Cap

TypeOK ==
  /\ sequence \in [Lanes -> [Slots -> Nat]]
  /\ payload \in [Lanes -> [Slots -> Nat]]
  /\ cursor \in [Lanes -> [Consumers -> Nat]]
  /\ published \in [Lanes -> Nat]
  /\ slowest_cache \in [Lanes -> Nat]
  /\ ppc \in [Lanes -> {"idle", "refresh", "claimed", "written", "abandoned"}]
  /\ scan \in [Lanes -> Consumers]
  /\ slowest \in [Lanes -> Nat]
  /\ consumed \in [Consumers -> [Lanes -> Nat]]
  /\ dirty \in [Consumers -> [Lanes -> BOOLEAN]]
  /\ active_lane \in [Consumers -> Lanes \cup {NoLane}]
  /\ next_lane \in [Consumers -> Lanes]
  /\ remaining \in [Consumers -> Nat]
  /\ cpc \in [Consumers -> {"idle", "scan", "read", "flush"}]
  /\ at \in [Consumers -> Lanes]
  /\ quota \in [Consumers -> Nat]
  /\ received \in [Consumers -> Nat]
  /\ delivered \in [Consumers -> [Lanes -> Seq(Nat)]]

\* create() zeroes the storage; every endpoint is made before traffic starts.
Init ==
  /\ sequence = [l \in Lanes |-> [i \in Slots |-> 0]]
  /\ payload = [l \in Lanes |-> [i \in Slots |-> 0]]
  /\ cursor = [l \in Lanes |-> [c \in Consumers |-> 0]]
  /\ published = [l \in Lanes |-> 0]
  /\ slowest_cache = [l \in Lanes |-> 0]
  /\ ppc = [l \in Lanes |-> "idle"]
  /\ scan = [l \in Lanes |-> 0]
  /\ slowest = [l \in Lanes |-> 0]
  /\ consumed = [c \in Consumers |-> [l \in Lanes |-> 0]]
  /\ dirty = [c \in Consumers |-> [l \in Lanes |-> FALSE]]
  /\ active_lane = [c \in Consumers |-> NoLane]
  /\ next_lane = [c \in Consumers |-> 0]
  /\ remaining = [c \in Consumers |-> 0]
  /\ cpc = [c \in Consumers |-> "idle"]
  /\ at = [c \in Consumers |-> 0]
  /\ quota = [c \in Consumers |-> 0]
  /\ received = [c \in Consumers |-> 0]
  /\ delivered = [c \in Consumers |-> [l \in Lanes |-> <<>>]]

-----------------------------------------------------------------------------
(* The producer of a lane *)

\* Mutant: a lane holds one message more than it has slots.
FullOneLate(l, low) == published[l] > low + Cap

Full(l, low) == published[l] >= low + Cap

\* try_claim() when the cache already shows a free slot.
TryClaim(l) ==
  /\ ppc[l] = "idle"
  /\ published[l] < MaxPublish
  /\ ~Full(l, slowest_cache[l])
  /\ ppc' = [ppc EXCEPT ![l] = "claimed"]
  /\ UNCHANGED <<sequence, payload, cursor, published, slowest_cache, scan,
                 slowest, laneVars, callVars>>

\* try_claim() when the cache says the lane is full: load_slowest() starts.
RefreshCache(l) ==
  /\ ppc[l] = "idle"
  /\ published[l] < MaxPublish
  /\ Full(l, slowest_cache[l])
  /\ ppc' = [ppc EXCEPT ![l] = "refresh"]
  /\ scan' = [scan EXCEPT ![l] = 0]
  /\ slowest' = [slowest EXCEPT ![l] = CursorLimit]
  /\ UNCHANGED <<sequence, payload, cursor, published, slowest_cache,
                 laneVars, callVars>>

Lower(m, n) == IF n < m THEN n ELSE m

\* One cursor read by load_slowest(), not the last.
LoadSlowest(l) ==
  /\ ppc[l] = "refresh"
  /\ scan[l] < ConsumerCount - 1
  /\ slowest' = [slowest EXCEPT ![l] = Lower(@, cursor[l][scan[l]])]
  /\ scan' = [scan EXCEPT ![l] = @ + 1]
  /\ UNCHANGED <<sequence, payload, cursor, published, slowest_cache, ppc,
                 laneVars, callVars>>

\* Mutant: the last cursor read stands for the slowest.
FinishRefreshLast(l) ==
  LET low == cursor[l][scan[l]] IN
  /\ ppc[l] = "refresh"
  /\ scan[l] = ConsumerCount - 1
  /\ slowest_cache' = [slowest_cache EXCEPT ![l] = low]
  /\ ppc' = [ppc EXCEPT ![l] = IF Full(l, low) THEN "idle" ELSE "claimed"]
  /\ scan' = [scan EXCEPT ![l] = 0]
  /\ slowest' = [slowest EXCEPT ![l] = 0]
  /\ UNCHANGED <<sequence, payload, cursor, published, laneVars, callVars>>

\* The last cursor: the cache is renewed, and try_claim() either has a slot
\* now or returns BackPressured.
FinishRefresh(l) ==
  LET low == Lower(slowest[l], cursor[l][scan[l]]) IN
  /\ ppc[l] = "refresh"
  /\ scan[l] = ConsumerCount - 1
  /\ slowest_cache' = [slowest_cache EXCEPT ![l] = low]
  /\ ppc' = [ppc EXCEPT ![l] = IF Full(l, low) THEN "idle" ELSE "claimed"]
  /\ scan' = [scan EXCEPT ![l] = 0]
  /\ slowest' = [slowest EXCEPT ![l] = 0]
  /\ UNCHANGED <<sequence, payload, cursor, published, laneVars, callVars>>

\* The claimed span is filled in place (by try_push()'s memcpy, or by the
\* holder of a FixedPublishClaim): no lock, no atomic, any time before commit().
WritePayload(l) ==
  /\ ppc[l] = "claimed"
  /\ payload' = [payload EXCEPT ![l][Slot(published[l])] = published[l] + 1]
  /\ ppc' = [ppc EXCEPT ![l] = "written"]
  /\ UNCHANGED <<sequence, cursor, published, slowest_cache, scan, slowest,
                 laneVars, callVars>>

Commit(l) ==
  /\ ppc[l] = "written"
  /\ ppc' = [ppc EXCEPT ![l] = "idle"]
  /\ sequence' = [sequence EXCEPT ![l][Slot(published[l])] = published[l] + 1]
  /\ published' = [published EXCEPT ![l] = @ + 1]
  /\ UNCHANGED <<payload, cursor, slowest_cache, scan, slowest,
                 laneVars, callVars>>

\* A FixedPublishClaim dropped without commit, or the death of the producer:
\* claim_outstanding_ stays set, so every later try_claim() is refused.
Abandon(l) ==
  /\ ppc[l] \in {"claimed", "written"}
  /\ ppc' = [ppc EXCEPT ![l] = "abandoned"]
  /\ UNCHANGED <<sequence, payload, cursor, published, slowest_cache, scan,
                 slowest, laneVars, callVars>>

-----------------------------------------------------------------------------
(* A consumer *)

\* FixedSubscriber::try_recv_copy(): one message, its cursor published at once.
TryRecvCopy(c) ==
  /\ cpc[c] = "idle"
  /\ cpc' = [cpc EXCEPT ![c] = "scan"]
  /\ at' = [at EXCEPT ![c] = 0]
  /\ UNCHANGED <<sequence, payload, cursor, producerVars, laneVars,
                 quota, received>>

\* FixedSubscriber::poll(m): up to m messages, cursors published at the end.
Poll(c, m) ==
  /\ cpc[c] = "idle"
  /\ cpc' = [cpc EXCEPT ![c] = "scan"]
  /\ at' = [at EXCEPT ![c] = 0]
  /\ quota' = [quota EXCEPT ![c] = m]
  /\ UNCHANGED <<sequence, payload, cursor, producerVars, laneVars, received>>

ScannedLane(c) == (next_lane[c] + at[c]) % ProducerCount

\* A slot holds the message the consumer wants next.
Ready(c, l) == sequence[l][Slot(consumed[c][l])] = consumed[c][l] + 1

\* try_read() finds a message on the lane it looks at.
TryReadHit(c) ==
  LET l == ScannedLane(c) IN
  /\ cpc[c] = "scan"
  /\ Ready(c, l)
  /\ active_lane' = [active_lane EXCEPT ![c] = l]
  /\ remaining' = [remaining EXCEPT ![c] = IF @ = 0 THEN LaneBatch ELSE @]
  /\ cpc' = [cpc EXCEPT ![c] = "read"]
  /\ UNCHANGED <<sequence, payload, cursor, producerVars, consumed, dirty,
                 next_lane, delivered, at, quota, received>>

\* try_read() goes on to the next lane.
TryReadNext(c) ==
  /\ cpc[c] = "scan"
  /\ ~Ready(c, ScannedLane(c))
  /\ at[c] + 1 < ProducerCount
  /\ at' = [at EXCEPT ![c] = @ + 1]
  /\ UNCHANGED <<sequence, payload, cursor, producerVars, laneVars,
                 cpc, quota, received>>

\* Mutant: a poll() that runs out of messages leaves its cursors unpublished.
EmptyWithoutFlush(c) ==
  /\ cpc[c] = "scan"
  /\ ~Ready(c, ScannedLane(c))
  /\ at[c] + 1 = ProducerCount
  /\ at' = [at EXCEPT ![c] = 0]
  /\ cpc' = [cpc EXCEPT ![c] = "idle"]
  /\ quota' = [quota EXCEPT ![c] = 0]
  /\ received' = [received EXCEPT ![c] = 0]
  /\ UNCHANGED <<sequence, payload, cursor, producerVars, laneVars>>

\* try_read() returns Empty after the last lane, which ends the call; a poll()
\* that delivered something flushes first.
TryReadEmpty(c) ==
  /\ cpc[c] = "scan"
  /\ ~Ready(c, ScannedLane(c))
  /\ at[c] + 1 = ProducerCount
  /\ at' = [at EXCEPT ![c] = 0]
  /\ cpc' = [cpc EXCEPT ![c] = IF received[c] > 0 THEN "flush" ELSE "idle"]
  /\ quota' = [quota EXCEPT ![c] = 0]
  /\ UNCHANGED <<sequence, payload, cursor, producerVars, laneVars, received>>

\* Mutant: the message is taken from the lane the scan began at.
ReleaseScanned(c) ==
  LET l == next_lane[c]
      n == consumed[c][l] + 1
      publish == quota[c] = 0
      left == remaining[c] - 1
  IN
  /\ cpc[c] = "read"
  /\ delivered' = [delivered EXCEPT
                     ![c][l] = Append(@, payload[l][Slot(consumed[c][l])])]
  /\ consumed' = [consumed EXCEPT ![c][l] = n]
  /\ cursor' = [cursor EXCEPT ![l][c] = IF publish THEN n ELSE @]
  /\ dirty' = [dirty EXCEPT ![c][l] = ~publish]
  /\ active_lane' = [active_lane EXCEPT ![c] = NoLane]
  /\ remaining' = [remaining EXCEPT ![c] = left]
  /\ next_lane' = [next_lane EXCEPT
                     ![c] = IF left = 0 THEN (l + 1) % ProducerCount ELSE l]
  /\ at' = [at EXCEPT ![c] = 0]
  /\ received' = [received EXCEPT ![c] = IF publish THEN 0 ELSE @ + 1]
  /\ quota' = [quota EXCEPT ![c] = IF received[c] + 1 < @ THEN @ ELSE 0]
  /\ cpc' = [cpc EXCEPT ![c] = IF publish THEN "idle"
                               ELSE IF received[c] + 1 < quota[c] THEN "scan"
                               ELSE "flush"]
  /\ UNCHANGED <<sequence, payload, producerVars>>

\* Mutant: a consumer stays with a lane after its batch.
ReleaseStays(c) ==
  LET l == active_lane[c]
      n == consumed[c][l] + 1
      publish == quota[c] = 0
      left == remaining[c] - 1
  IN
  /\ cpc[c] = "read"
  /\ delivered' = [delivered EXCEPT
                     ![c][l] = Append(@, payload[l][Slot(consumed[c][l])])]
  /\ consumed' = [consumed EXCEPT ![c][l] = n]
  /\ cursor' = [cursor EXCEPT ![l][c] = IF publish THEN n ELSE @]
  /\ dirty' = [dirty EXCEPT ![c][l] = ~publish]
  /\ active_lane' = [active_lane EXCEPT ![c] = NoLane]
  /\ remaining' = [remaining EXCEPT ![c] = left]
  /\ next_lane' = [next_lane EXCEPT
                     ![c] = l]
  /\ at' = [at EXCEPT ![c] = 0]
  /\ received' = [received EXCEPT ![c] = IF publish THEN 0 ELSE @ + 1]
  /\ quota' = [quota EXCEPT ![c] = IF received[c] + 1 < @ THEN @ ELSE 0]
  /\ cpc' = [cpc EXCEPT ![c] = IF publish THEN "idle"
                               ELSE IF received[c] + 1 < quota[c] THEN "scan"
                               ELSE "flush"]
  /\ UNCHANGED <<sequence, payload, producerVars>>

\* The payload is copied and release(publish) called; try_recv_copy() publishes
\* the cursor, poll() does not and goes on until it has max_messages.
Release(c) ==
  LET l == active_lane[c]
      n == consumed[c][l] + 1
      publish == quota[c] = 0
      left == remaining[c] - 1
  IN
  /\ cpc[c] = "read"
  /\ delivered' = [delivered EXCEPT
                     ![c][l] = Append(@, payload[l][Slot(consumed[c][l])])]
  /\ consumed' = [consumed EXCEPT ![c][l] = n]
  /\ cursor' = [cursor EXCEPT ![l][c] = IF publish THEN n ELSE @]
  /\ dirty' = [dirty EXCEPT ![c][l] = ~publish]
  /\ active_lane' = [active_lane EXCEPT ![c] = NoLane]
  /\ remaining' = [remaining EXCEPT ![c] = left]
  /\ next_lane' = [next_lane EXCEPT
                     ![c] = IF left = 0 THEN (l + 1) % ProducerCount ELSE l]
  /\ at' = [at EXCEPT ![c] = 0]
  /\ received' = [received EXCEPT ![c] = IF publish THEN 0 ELSE @ + 1]
  /\ quota' = [quota EXCEPT ![c] = IF received[c] + 1 < @ THEN @ ELSE 0]
  /\ cpc' = [cpc EXCEPT ![c] = IF publish THEN "idle"
                               ELSE IF received[c] + 1 < quota[c] THEN "scan"
                               ELSE "flush"]
  /\ UNCHANGED <<sequence, payload, producerVars>>

\* Mutant: the flush announces the newest message as consumed.
FlushAll(c) ==
  LET l == at[c]
      last == l + 1 = ProducerCount
  IN
  /\ cpc[c] = "flush"
  /\ cursor' = [cursor EXCEPT ![l][c] = published[l]]
  /\ dirty' = [dirty EXCEPT ![c][l] = FALSE]
  /\ at' = [at EXCEPT ![c] = IF last THEN 0 ELSE l + 1]
  /\ cpc' = [cpc EXCEPT ![c] = IF last THEN "idle" ELSE @]
  /\ received' = [received EXCEPT ![c] = IF last THEN 0 ELSE @]
  /\ UNCHANGED <<sequence, payload, producerVars, consumed, active_lane,
                 next_lane, remaining, delivered, quota>>

\* One lane of flush_release(): a dirty lane's cursor is published.
FlushRelease(c) ==
  LET l == at[c]
      last == l + 1 = ProducerCount
  IN
  /\ cpc[c] = "flush"
  /\ cursor' = [cursor EXCEPT ![l][c] = IF dirty[c][l] THEN consumed[c][l] ELSE @]
  /\ dirty' = [dirty EXCEPT ![c][l] = FALSE]
  /\ at' = [at EXCEPT ![c] = IF last THEN 0 ELSE l + 1]
  /\ cpc' = [cpc EXCEPT ![c] = IF last THEN "idle" ELSE @]
  /\ received' = [received EXCEPT ![c] = IF last THEN 0 ELSE @]
  /\ UNCHANGED <<sequence, payload, producerVars, consumed, active_lane,
                 next_lane, remaining, delivered, quota>>

-----------------------------------------------------------------------------
Producer(l) == \/ TryClaim(l) \/ RefreshCache(l) \/ LoadSlowest(l)
               \/ FinishRefresh(l) \/ WritePayload(l) \/ Commit(l) \/ Abandon(l)

Consumer(c) == \/ TryRecvCopy(c)
               \/ \E m \in 1 .. MaxPoll : Poll(c, m)
               \/ TryReadHit(c) \/ TryReadNext(c) \/ TryReadEmpty(c)
               \/ Release(c) \/ FlushRelease(c)

Next == \/ \E l \in Lanes : Producer(l)
        \/ \E c \in Consumers : Consumer(c)

SafeSpec == Init /\ [][Next]_vars

\* The application keeps calling try_recv_copy() or poll() on every consumer;
\* nothing is assumed of the producers.
Spec == SafeSpec /\ \A c \in Consumers : WF_vars(Consumer(c))
-----------------------------------------------------------------------------
(* Properties *)

Claimed(l) == ppc[l] \in {"claimed", "written", "abandoned"}

\* The cursors of a lane trail one another: the producer's cached minimum,
\* what a consumer has announced, what it has consumed, what is published.
CursorOrder ==
  \A l \in Lanes, c \in Consumers :
    /\ slowest_cache[l] <= cursor[l][c]
    /\ cursor[l][c] <= consumed[c][l]
    /\ consumed[c][l] <= published[l]

\* load_slowest() under way: no cursor already read is below the running
\* minimum, because cursors only grow.
ScanBound ==
  \A l \in Lanes : ppc[l] = "refresh" =>
    /\ slowest_cache[l] <= slowest[l]
    /\ \A c \in Consumers : c < scan[l] => slowest[l] <= cursor[l][c]

\* A lane is never more than Cap ahead of its cached slowest consumer, and an
\* outstanding claim is on a slot that consumer has left.
Capacity ==
  \A l \in Lanes :
    /\ published[l] <= slowest_cache[l] + Cap
    /\ published[l] <= MaxPublish
    /\ Claimed(l) => /\ published[l] < slowest_cache[l] + Cap
                     /\ published[l] < MaxPublish
    /\ ppc[l] = "refresh" => published[l] < MaxPublish

\* The last Cap messages are in their slots (but the one an outstanding claim
\* is about to replace), and no slot announces a message that is not there.
Retained ==
  \A l \in Lanes :
    /\ \A n \in 0 .. MaxPublish :
         (n < published[l] /\ published[l] <= n + Cap) =>
           /\ sequence[l][Slot(n)] = n + 1
           /\ (Claimed(l) => published[l] < n + Cap) =>
                payload[l][Slot(n)] = n + 1
    /\ \A i \in Slots : sequence[l][i] <= published[l]
    /\ ppc[l] = "written" => payload[l][Slot(published[l])] = published[l] + 1

\* Where a consumer is determines what it holds.
CallState ==
  \A c \in Consumers :
    /\ cpc[c] = "read" => /\ active_lane[c] \in Lanes
                          /\ remaining[c] > 0
                          /\ consumed[c][active_lane[c]] <
                               published[active_lane[c]]
    /\ quota[c] > 0 => received[c] < quota[c]
    /\ cpc[c] = "idle" => received[c] = 0

\* What a consumer copied is the lane's history, message by message.
Prefix ==
  \A c \in Consumers, l \in Lanes :
    delivered[c][l] = [n \in 1 .. consumed[c][l] |-> n]

IndInv == /\ TypeOK /\ CursorOrder /\ ScanBound /\ Capacity
          /\ Retained /\ CallState /\ Prefix

\* The span a consumer holds between try_read() and release() is the message
\* it asked for and stays so, whatever the lane's producer does meanwhile:
\* a slot is reused only when every consumer's cursor has passed it.
NoTornRead ==
  \A c \in Consumers : cpc[c] = "read" =>
    LET l == active_lane[c] IN
    payload[l][Slot(consumed[c][l])] = consumed[c][l] + 1

\* A published message a consumer has not consumed is there to be read: no
\* sequence word of a later lap hides it, so try_read() never says Empty for
\* a lane that has a message for it.
NoFalseEmpty ==
  \A c \in Consumers, l \in Lanes :
    consumed[c][l] < published[l] => Ready(c, l)

\* Delivery and back-pressure together: the ring implements the bounded
\* fan-out queue, every published message reaching every consumer once.
Fanout == INSTANCE FanoutQueue WITH
            sent <- [l \in Lanes |-> [n \in 1 .. published[l] |-> n]]

ImplementsFanout == Fanout!Spec

LaneIsFull(l) == \E c \in Consumers : Full(l, cursor[l][c])

\* A lane does not stay full while its consumers poll: every call that
\* consumed something publishes its cursor before it ends.
BackPressureEnds == \A l \in Lanes : LaneIsFull(l) ~> ~LaneIsFull(l)
=============================================================================
