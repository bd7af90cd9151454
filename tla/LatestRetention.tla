--------------------------- MODULE LatestRetention ---------------------------
(***************************************************************************)
(* One ring of a LatestMpmc channel: SharedHybridMpscChannel with          *)
(* DropOldest (src/src/core/channel/shared_hybrid_mpsc.hpp).               *)
(*                                                                         *)
(* The producer never waits for a DropOldest reader: it evicts the oldest  *)
(* frames until a write fits the retention capacity.  A reader borrows     *)
(* frames in place under a lease.  The producer announces where it will    *)
(* evict to and then scans the leases; a reader announces its lease and    *)
(* then looks for an eviction.  Neither takes a lock.                      *)
(*                                                                         *)
(* A step makes one access to the words of that handshake.  Readers are    *)
(* registered throughout (module SharedChannel is about joining); rings    *)
(* share nothing in this mode, so one stands for all.                      *)
(***************************************************************************)
EXTENDS Integers, SequencesExt

CONSTANTS
  Readers,            \* registered subscribers, 0 .. n - 1 in scanning order
  Reliable,           \* those whose policy is Reliable
  Cap,                \* ring capacity, in units of kFrameAlign
  RetentionCapacity,  \* retention_capacity, in units
  MessageWindow,      \* publication_window_messages; 0 is off
  FrameLens,          \* frame lengths the publisher uses, in units
  Period,             \* 2^kSequenceLowBits
  Expiry,             \* the publisher gives messages a time to live
  MaxBatch,           \* bound: max_frames of claim_batch(); claim() asks for 1
  MaxRun,             \* kChunk: messages poll() takes at a time
  MaxFrames,          \* bound: frames the producer claims
  MaxDeaths           \* bound: processes that die

NoLease == -1         \* kNoLease; also "no intent"
Producer == -1        \* among the processes

\* A ring holds fewer frames than the low sequence bits can count: so below 2^24 * kFrameAlign
\* bytes; sequence_low_window_fits() lets a larger ring of one sequence domain pass.
ASSUME RetentionAssumption ==
  /\ Cardinality(Readers) \in Nat /\ Readers = 0 .. Cardinality(Readers) - 1
  /\ Reliable \subseteq Readers
  /\ Cap \in Nat \ {0} /\ RetentionCapacity \in 1 .. Cap
  /\ MessageWindow \in Nat /\ Period \in Nat /\ Period > Cap /\ Expiry \in BOOLEAN
  /\ FrameLens \subseteq 1 .. RetentionCapacity
  /\ MaxBatch \in Nat \ {0} /\ MaxRun \in Nat \ {0} /\ MaxFrames \in Nat

VARIABLES
  \* shared memory
  header,        \* header[u]: the frame header last written at unit u
  frames,        \* frames[n]: position and length of the n-th frame claimed
  open,          \* the claims not yet committed: first frame and how many
  visible,       \* visible_producer_pos
  retained,      \* retained_position and retained_message_sequence
  intent,        \* retention_intent
  lease_start, lease_end,
  cursor,        \* cursor[r]: position and message_sequence r has published
  \* the producer
  ppc, ask,      \* where it is; length and number of frames asked for
  search,        \* claim_batch(): low, high and the number now tried
  target,        \* the floor it would evict to
  scan,          \* the reader whose lease it looks at
  seen_start,    \* the lease_start it read
  \* reader r
  rpc,
  rx,            \* read_positions_ and next_sequences_
  snap,          \* retained, visible and intent as r loaded them
  held,          \* the frames r has been given and not released
  \* every process
  alive

ringVars == <<header, frames, open, visible>>
floorVars == <<retained, intent>>
leaseVars == <<lease_start, lease_end>>
producerVars == <<ppc, ask, search, target, scan, seen_start>>
readerVars == <<rpc, rx, snap, held>>
vars == <<ringVars, floorVars, leaseVars, cursor, producerVars, readerVars, alive>>

Unit(x) == x % Cap

\* sequence_low(), and the header word made of it; the full number is a history.
SequenceLow(n) == n % Period
Header(n, len) == [low |-> SequenceLow(n), len |-> len, sequence |-> n]

NoSnap == [retained |-> 0, visible |-> 0, intent |-> NoLease]
NoSearch == [low |-> 0, high |-> 0, now |-> 0]
NoFloor == [position |-> 0, messages |-> 0]
NoAsk == [len |-> 0, count |-> 0]

Init ==
  /\ header = [u \in 0 .. Cap - 1 |-> [low |-> 0, len |-> 0, sequence |-> -1]]
  /\ frames = <<>>
  /\ open = {}
  /\ visible = 0
  /\ retained = NoFloor
  /\ intent = NoLease
  /\ lease_start = [r \in Readers |-> NoLease]
  /\ lease_end = [r \in Readers |-> 0]
  /\ cursor = [r \in Readers |-> NoFloor]
  /\ ppc = "idle"
  /\ ask = NoAsk
  /\ search = NoSearch
  /\ target = NoFloor
  /\ scan = 0
  /\ seen_start = NoLease
  /\ rpc = [r \in Readers |-> "idle"]
  /\ rx = [r \in Readers |-> [read |-> 0, next |-> 0]]
  /\ snap = [r \in Readers |-> NoSnap]
  /\ held = [r \in Readers |-> {}]
  /\ alive = [q \in Readers \cup {Producer} |-> TRUE]

\* Where frame number n starts, or will start.  The producer's position, and
\* local_sequence and message_sequence, follow from the frames claimed.
Start(n) == IF n < Len(frames) THEN frames[n + 1].start
            ELSE IF n = 0 THEN 0 ELSE frames[n].start + frames[n].len
ProducerPos == Start(Len(frames))

-----------------------------------------------------------------------------
(* The producer: claim() and claim_batch() through                         *)
(* prepare_drop_oldest_write(), commit() and commit_batch().               *)

At(from, to) == alive[Producer] /\ ppc = from /\ ppc' = to

\* How many frames of this length may be asked for at all.
WatermarkFit(len, count) ==
  Min({count, RetentionCapacity \div len} \cup
      IF MessageWindow = 0 THEN {} ELSE {MessageWindow})

EnterClaim(len, count) ==
  LET fit == WatermarkFit(len, count) IN
  /\ At("idle", "prepare")
  /\ Len(frames) + count <= MaxFrames
  /\ ask' = [len |-> len, count |-> fit]
  /\ search' = [low |-> 0, high |-> fit, now |-> fit]
  /\ UNCHANGED <<ringVars, floorVars, leaseVars, cursor, target, scan, seen_start,
                 readerVars, alive>>

\* The floors a write of count frames fits above, among the ends of evicted
\* frames: eviction goes by whole frames and stops at the first open claim.
Floors(len, count) ==
  {n \in retained.messages .. Len(frames) :
     /\ Start(n) <= visible
     /\ ProducerPos + len * count - Start(n) <= RetentionCapacity
     /\ MessageWindow # 0 => Len(frames) + count - n <= MessageWindow}

\* Mutant: a Reliable reader may be one frame behind.
ReliableConsumersAllowOneMore(floor) ==
  floor # retained => \A r \in Reliable :
    cursor[r].messages + 1 >= floor.messages \/ ~alive[r]

\* reliable_consumers_allow_retention(): no live Reliable reader is behind it.
ReliableConsumersAllow(floor) ==
  floor # retained => \A r \in Reliable :
    \/ /\ cursor[r].position >= floor.position
       /\ MessageWindow # 0 => cursor[r].messages >= floor.messages
    \/ ~alive[r]

Floor(n) == [position |-> Start(n), messages |-> n]

\* What claim_batch() does when the number it tried has fitted, or has not: it
\* halves the interval, takes what fitted last, or is BackPressured.
AfterAttempt(ok) ==
  LET low == IF ok THEN search.now ELSE search.low
      high == IF ok THEN search.high ELSE search.now
      more == high - low > 1
  IN /\ search' = [low |-> low, high |-> high,
                   now |-> IF more THEN low + (high - low) \div 2 ELSE low]
     /\ ppc' = IF more THEN "prepare" ELSE IF low = 0 THEN "idle" ELSE "take"

\* The lowest floor that does, if no Reliable reader is in the way.
LowestFloor == Floor(Min(Floors(ask.len, search.now)))
MayEvict == /\ Floors(ask.len, search.now) # {}
            /\ ReliableConsumersAllow(LowestFloor)

\* Nothing is announced.
PrepareFails ==
  /\ alive[Producer] /\ ppc = "prepare"
  /\ ~MayEvict
  /\ AfterAttempt(FALSE)
  /\ UNCHANGED <<ringVars, floorVars, leaseVars, cursor, ask, target, scan,
                 seen_start, readerVars, alive>>

\* The leases are looked at in the order of the readers.
ScanFrom(n) == IF n \in Readers THEN "scan" ELSE "evict"

\* Mutant: the floor is moved before the leases are checked.
EvictThenScan ==
  /\ At("prepare", ScanFrom(0))
  /\ MayEvict
  /\ target' = LowestFloor
  /\ intent' = LowestFloor.position
  /\ retained' = LowestFloor
  /\ scan' = 0
  /\ UNCHANGED <<ringVars, leaseVars, cursor, ask, search, seen_start, readerVars,
                 alive>>

\* RetentionIntentGuard: the floor is announced before any lease is looked at.
AnnounceIntent ==
  /\ At("prepare", ScanFrom(0))
  /\ MayEvict
  /\ target' = LowestFloor
  /\ intent' = LowestFloor.position
  /\ scan' = 0
  /\ UNCHANGED <<ringVars, retained, leaseVars, cursor, ask, search, seen_start,
                 readerVars, alive>>

\* lease_start, then lease_end, of one reader after the other.
ScanStart ==
  /\ At("scan", IF lease_start[scan] = NoLease THEN ScanFrom(scan + 1) ELSE "scan_end")
  /\ seen_start' = lease_start[scan]
  /\ scan' = IF lease_start[scan] = NoLease THEN scan + 1 ELSE scan
  /\ UNCHANGED <<ringVars, floorVars, leaseVars, cursor, ask, search, target,
                 readerVars, alive>>

Units(from, to) == {Unit(x) : x \in from .. to - 1}

\* ring_ranges_overlap(): the write would touch leased bytes.
RingRangesOverlap(from, to) ==
  Units(ProducerPos, ProducerPos + ask.len * search.now) \cap Units(from, to) # {}

\* Mutant: the lease of a dead reader is respected.
ScanEndRespectsDead ==
  LET to == lease_end[scan]
      free == to - seen_start \in 0 .. Cap /\ ~RingRangesOverlap(seen_start, to)
  IN
  /\ At("scan_end", IF free THEN ScanFrom(scan + 1) ELSE "blocked")
  /\ scan' = scan + 1
  /\ seen_start' = NoLease
  /\ UNCHANGED <<ringVars, floorVars, leaseVars, cursor, ask, search, target,
                 readerVars, alive>>

\* A lease the write would touch stops it, unless its reader died: then the
\* lease is cleared.
ScanEnd ==
  LET to == lease_end[scan]
      sane == to - seen_start \in 0 .. Cap
      free == sane /\ ~RingRangesOverlap(seen_start, to)
      stale == sane /\ ~free /\ ~alive[scan]
  IN
  /\ At("scan_end", IF free \/ stale THEN ScanFrom(scan + 1) ELSE "blocked")
  /\ lease_start' = [lease_start EXCEPT ![scan] = IF stale THEN NoLease ELSE @]
  /\ scan' = scan + 1
  /\ seen_start' = NoLease
  /\ UNCHANGED <<ringVars, floorVars, lease_end, cursor, ask, search, target,
                 readerVars, alive>>

StoreFloor ==
  /\ At("evict", "evicted")
  /\ retained' = target
  /\ UNCHANGED <<ringVars, intent, leaseVars, cursor, ask, search, target, scan,
                 seen_start, readerVars, alive>>

\* ~RetentionIntentGuard(), after success and after failure.
ClearIntent ==
  /\ alive[Producer] /\ ppc \in {"evicted", "blocked"}
  /\ intent' = NoLease
  /\ target' = NoFloor
  /\ scan' = 0
  /\ AfterAttempt(ppc = "evicted")
  /\ UNCHANGED <<ringVars, retained, leaseVars, cursor, ask, seen_start,
                 readerVars, alive>>

\* The frames are numbered and their space is the claim's.
TakeSequence ==
  /\ At("take", "idle")
  /\ frames' = frames \o [j \in 1 .. search.low |->
       [start |-> ProducerPos + ask.len * (j - 1), len |-> ask.len]]
  /\ open' = open \cup {[first |-> Len(frames), count |-> search.low]}
  /\ ask' = NoAsk
  /\ search' = NoSearch
  /\ UNCHANGED <<header, visible, floorVars, leaseVars, cursor, target, scan,
                 seen_start, readerVars, alive>>

\* commit() or commit_batch() of any open claim: the headers are written, and
\* the committed prefix becomes visible.
Commit(claim) ==
  LET written(u) == {n \in claim.first .. claim.first + claim.count - 1 :
                       Unit(Start(n)) = u}
      left == open \ {claim}
  IN
  /\ alive[Producer] /\ ppc = "idle"
  /\ header' = [u \in 0 .. Cap - 1 |->
       IF written(u) = {} THEN header[u]
       ELSE LET n == Max(written(u))
            IN Header(n, frames[n + 1].len)]
  /\ open' = left
  /\ visible' = IF left = {} THEN ProducerPos
                ELSE Start(Min({c.first : c \in left}))
  /\ UNCHANGED <<frames, floorVars, leaseVars, cursor, producerVars, readerVars,
                 alive>>

-----------------------------------------------------------------------------
(* A reader: begin_latest_lease() and what is done under the lease *)

Step(r, from, to) == alive[r] /\ rpc[r] = from /\ rpc' = [rpc EXCEPT ![r] = to]

LoadFloor(r) ==
  /\ Step(r, "idle", "floor")
  /\ snap' = [snap EXCEPT ![r].retained = retained.position]
  /\ UNCHANGED <<ringVars, floorVars, leaseVars, cursor, producerVars, rx, held,
                 alive>>

Lagged(r) == rx[r].read < snap[r].retained
LeaseFrom(r) == Max({rx[r].read, snap[r].retained})

\* Nothing to read ends the call, and so does a Reliable reader that lags.
LoadVisible(r) ==
  LET some == LeaseFrom(r) < visible /\ (Lagged(r) => r \notin Reliable) IN
  /\ Step(r, "floor", IF some THEN "lease" ELSE "idle")
  /\ snap' = [snap EXCEPT ![r] = IF some THEN [@ EXCEPT !.visible = visible]
                                 ELSE NoSnap]
  /\ UNCHANGED <<ringVars, floorVars, leaseVars, cursor, producerVars, rx, held,
                 alive>>

\* A lease that is still up refuses a second one.
StoreLeaseEnd(r) ==
  LET none == lease_start[r] = NoLease IN
  /\ Step(r, "lease", IF none THEN "lease_from" ELSE "idle")
  /\ lease_end' = [lease_end EXCEPT ![r] = IF none THEN snap[r].visible ELSE @]
  /\ snap' = [snap EXCEPT ![r] = IF none THEN @ ELSE NoSnap]
  /\ UNCHANGED <<ringVars, floorVars, lease_start, cursor, producerVars, rx, held,
                 alive>>

StoreLeaseStart(r) ==
  /\ Step(r, "lease_from", "check")
  /\ lease_start' = [lease_start EXCEPT ![r] = LeaseFrom(r)]
  /\ UNCHANGED <<ringVars, floorVars, lease_end, cursor, producerVars, rx, snap,
                 held, alive>>

LoadIntent(r) ==
  /\ Step(r, "check", "check_floor")
  /\ snap' = [snap EXCEPT ![r].intent = intent]
  /\ UNCHANGED <<ringVars, floorVars, leaseVars, cursor, producerVars, rx, held,
                 alive>>

\* Mutant: the announced floor is not looked at.
CheckFloorOnly(r) ==
  LET safe == retained.position = snap[r].retained IN
  /\ Step(r, "check_floor", IF safe THEN "reading" ELSE "clear")
  /\ UNCHANGED <<ringVars, floorVars, leaseVars, cursor, producerVars, rx, snap,
                 held, alive>>

\* The floor is loaded after the intent: it must not have moved since, and must
\* not be about to pass the lease.
CheckFloor(r) ==
  LET safe == /\ retained.position = snap[r].retained
              /\ snap[r].intent = NoLease \/ snap[r].intent <= LeaseFrom(r)
  IN
  /\ Step(r, "check_floor", IF safe THEN "reading" ELSE "clear")
  /\ UNCHANGED <<ringVars, floorVars, leaseVars, cursor, producerVars, rx, snap,
                 held, alive>>

\* sequence_at_position(): the number of a frame from its low bits and the
\* number the producer gives next.
SequenceAtPosition(position) ==
  LET n == Len(frames) - SequenceLow(Len(frames)) + header[Unit(position)].low
  IN IF n >= Len(frames) /\ n >= Period THEN n - Period ELSE n

FirstSequence(r) ==
  IF Lagged(r) THEN SequenceAtPosition(snap[r].retained) ELSE rx[r].next

\* Where the frames under the lease start, going by the headers.
Positions(r) ==
  LET at[j \in 0 .. Cap] == IF j = 0 THEN LeaseFrom(r)
                            ELSE at[j - 1] + header[Unit(at[j - 1])].len
  IN at

\* try_read_from_ring() of the j-th of them.
Readable(r, j) ==
  LET x == Positions(r)[j] IN
  /\ x < snap[r].visible
  /\ header[Unit(x)].low = SequenceLow(FirstSequence(r) + j)
  /\ x + header[Unit(x)].len <= snap[r].visible

Message(r, j) ==
  [position |-> Positions(r)[j], sequence |-> FirstSequence(r) + j]

\* r has got to the j-th frame, or the end of the last.
MoveTo(r, j) ==
  rx' = [rx EXCEPT ![r] = [read |-> Positions(r)[j], next |-> FirstSequence(r) + j]]

\* publish_latest_progress()
PublishLatestProgress(r, j) ==
  /\ MoveTo(r, j)
  /\ cursor' = [cursor EXCEPT ![r] = [position |-> Positions(r)[j],
                                      messages |-> FirstSequence(r) + j]]

CanRead(r) == FirstSequence(r) >= rx[r].next /\ Readable(r, 0)

\* try_recv(): one frame is borrowed, and the lease shrinks to it.
TakeOne(r) ==
  /\ Step(r, "reading", IF CanRead(r) THEN "holding" ELSE "clear")
  /\ IF CanRead(r)
     THEN /\ held' = [held EXCEPT ![r] = {Message(r, 0)}]
          /\ lease_end' = [lease_end EXCEPT ![r] = Positions(r)[1]]
          /\ IF Lagged(r) THEN PublishLatestProgress(r, 0) ELSE UNCHANGED <<rx, cursor>>
     ELSE UNCHANGED <<held, lease_end, rx, cursor>>
  /\ UNCHANGED <<ringVars, floorVars, lease_start, producerVars, snap, alive>>

\* It has expired, or the caller asked to be told that it lagged.
PassOne(r) ==
  /\ Step(r, "reading", "clear")
  /\ CanRead(r)
  /\ \/ Expiry /\ PublishLatestProgress(r, 1)
     \/ Lagged(r) /\ PublishLatestProgress(r, 0)
  /\ UNCHANGED <<ringVars, floorVars, leaseVars, producerVars, snap, held, alive>>

RunLength(r, expired) ==
  Max({n \in 0 .. Cap : \A j \in 0 .. n - 1 :
         Readable(r, j) /\ Cardinality((0 .. j - 1) \ expired) < MaxRun})

\* poll(): try_recv_run_latest() borrows a run, leaving out what has expired.
TakeRun(r, expired) ==
  LET run == RunLength(r, expired)
      live == (0 .. run - 1) \ expired
  IN
  /\ Step(r, "reading", "polling")
  /\ CanRead(r) /\ live # {} /\ expired \subseteq 0 .. run - 1
  /\ held' = [held EXCEPT ![r] = {Message(r, j) : j \in live}]
  /\ MoveTo(r, run)
  /\ lease_end' = [lease_end EXCEPT ![r] = Positions(r)[run]]
  /\ UNCHANGED <<ringVars, floorVars, lease_start, cursor, producerVars, snap, alive>>

\* The whole run has expired.
PassRun(r) ==
  /\ Step(r, "reading", "clear")
  /\ Expiry /\ CanRead(r)
  /\ PublishLatestProgress(r, RunLength(r, 0 .. Cap))
  /\ UNCHANGED <<ringVars, floorVars, leaseVars, producerVars, snap, held, alive>>

\* skip_to_latest(): on to the last frame under the lease.
SkipToLatest(r) ==
  /\ Step(r, "reading", "clear")
  /\ r \notin Reliable /\ CanRead(r)
  /\ PublishLatestProgress(r, Max({j \in 0 .. Cap : Readable(r, j)}))
  /\ UNCHANGED <<ringVars, floorVars, leaseVars, producerVars, snap, held, alive>>

\* The number of the last message r was given.
LastGiven(r) == Max({m.sequence : m \in held[r]})

\* Mutant: a poll counts on from the last message it gave, not the last it read.
ReleaseLastGiven(r) ==
  LET read == IF rpc[r] = "polling" THEN rx[r].read ELSE lease_end[r]
      next == LastGiven(r) + 1
  IN
  /\ Step(r, rpc[r], "clear") /\ rpc[r] \in {"holding", "polling"}
  /\ rx' = [rx EXCEPT ![r] = [read |-> read, next |-> next]]
  /\ cursor' = [cursor EXCEPT ![r] = [position |-> read, messages |-> next]]
  /\ held' = [held EXCEPT ![r] = {}]
  /\ UNCHANGED <<ringVars, floorVars, leaseVars, producerVars, snap, alive>>

\* release(), or flush_progress() after the callbacks.
Release(r) ==
  LET polled == rpc[r] = "polling"
      read == IF polled THEN rx[r].read ELSE lease_end[r]
      next == IF polled THEN rx[r].next ELSE LastGiven(r) + 1
  IN
  /\ Step(r, rpc[r], "clear") /\ rpc[r] \in {"holding", "polling"}
  /\ rx' = [rx EXCEPT ![r] = [read |-> read, next |-> next]]
  /\ cursor' = [cursor EXCEPT ![r] = [position |-> read, messages |-> next]]
  /\ held' = [held EXCEPT ![r] = {}]
  /\ UNCHANGED <<ringVars, floorVars, leaseVars, producerVars, snap, alive>>

\* Mutant: only the reader's own flag is cleared.
ClearLocalFlag(r) ==
  /\ Step(r, "clear", "idle")
  /\ snap' = [snap EXCEPT ![r] = NoSnap]
  /\ UNCHANGED <<ringVars, floorVars, leaseVars, cursor, producerVars, rx, held,
                 alive>>

\* clear_latest_lease()
ClearLatestLease(r) ==
  /\ Step(r, "clear", "idle")
  /\ lease_start' = [lease_start EXCEPT ![r] = NoLease]
  /\ snap' = [snap EXCEPT ![r] = NoSnap]
  /\ UNCHANGED <<ringVars, floorVars, lease_end, cursor, producerVars, rx, held,
                 alive>>

-----------------------------------------------------------------------------
\* A process dies: its lease or its intent stays as it is.
Dies(q) ==
  /\ alive[q] /\ Cardinality({x \in DOMAIN alive : ~alive[x]}) < MaxDeaths
  /\ alive' = [alive EXCEPT ![q] = FALSE]
  /\ UNCHANGED <<ringVars, floorVars, leaseVars, cursor, producerVars, readerVars>>

Publish ==
  \/ \E len \in FrameLens, count \in 1 .. MaxBatch : EnterClaim(len, count)
  \/ PrepareFails \/ AnnounceIntent \/ ScanStart \/ ScanEnd \/ StoreFloor
  \/ ClearIntent \/ TakeSequence

CommitAny == \E claim \in open : Commit(claim)

\* The rest of a receive call that has begun.
GoOn(r) ==
  \/ LoadVisible(r) \/ StoreLeaseEnd(r) \/ StoreLeaseStart(r) \/ LoadIntent(r)
  \/ CheckFloor(r) \/ TakeOne(r) \/ PassOne(r)
  \/ \E expired \in IF Expiry THEN SUBSET (0 .. Cap - 1) ELSE {{}} : TakeRun(r, expired)
  \/ PassRun(r) \/ SkipToLatest(r) \/ Release(r) \/ ClearLatestLease(r)

Next ==
  \/ Publish \/ CommitAny
  \/ \E r \in Readers : LoadFloor(r) \/ GoOn(r)
  \/ \E q \in Readers \cup {Producer} : Dies(q)

SafeSpec == Init /\ [][Next]_vars

\* The publisher keeps trying and commits what it claims; calls that have begun
\* are finished, and what they borrowed is given back.  Only Reliable readers
\* have to call again and again.
Spec ==
  /\ SafeSpec
  /\ WF_vars(Publish) /\ SF_vars(CommitAny)
  /\ \A r \in Readers : WF_vars(GoOn(r))
  /\ \A r \in Reliable : WF_vars(LoadFloor(r))
-----------------------------------------------------------------------------
(* Properties *)

RingTypes ==
  /\ header \in [0 .. Cap - 1 -> [low : 0 .. Period - 1, len : Nat, sequence : Int]]
  /\ frames \in Seq([start : Nat, len : Nat \ {0}]) /\ Len(frames) <= MaxFrames
  /\ open \subseteq [first : 0 .. MaxFrames, count : 0 .. MaxBatch]
  /\ visible \in Nat

LeaseTypes ==
  /\ retained \in [position : Nat, messages : 0 .. MaxFrames]
  /\ intent \in Nat \cup {NoLease}
  /\ lease_start \in [Readers -> Nat \cup {NoLease}]
  /\ lease_end \in [Readers -> Nat]
  /\ alive \in [Readers \cup {Producer} -> BOOLEAN]

ProducerTypes ==
  /\ ppc \in {"idle", "prepare", "scan", "scan_end", "evict", "evicted", "blocked",
              "take"}
  /\ ask \in [len : FrameLens \cup {0}, count : 0 .. MaxBatch]
  /\ search \in [low : 0 .. MaxBatch, high : 0 .. MaxBatch, now : 0 .. MaxBatch]
  /\ target \in [position : Nat, messages : 0 .. MaxFrames]
  /\ scan \in 0 .. Cardinality(Readers)
  /\ seen_start \in Nat \cup {NoLease}

ReaderTypes ==
  /\ cursor \in [Readers -> [position : Nat, messages : 0 .. MaxFrames]]
  /\ rpc \in [Readers -> {"idle", "floor", "lease", "lease_from", "check",
                          "check_floor", "reading", "holding", "polling", "clear"}]
  /\ rx \in [Readers -> [read : Nat, next : 0 .. MaxFrames]]
  /\ snap \in [Readers -> [retained : Nat, visible : Nat, intent : Nat \cup {NoLease}]]
  /\ held \in [Readers -> SUBSET [position : Nat, sequence : 0 .. MaxFrames]]

TypeOK == RingTypes /\ LeaseTypes /\ ProducerTypes /\ ReaderTypes

\* What a live reader reads under its lease, or has borrowed, is what was
\* published, and no claim has been given its bytes.
LeasedIntact ==
  \A r \in Readers :
    /\ alive[r] /\ rpc[r] = "reading" =>
         CanRead(r) /\ ProducerPos <= LeaseFrom(r) + Cap
    /\ alive[r] => \A m \in held[r] :
         /\ header[Unit(m.position)].sequence = m.sequence
         /\ ProducerPos <= m.position + Cap

\* However many frames were evicted, skipped or expired under it, a reader's next
\* sequence number is that of the frame at its position: the lag it is told of
\* is the number of messages it missed.
LagExact ==
  \A r \in Readers : rx[r].read = Start(rx[r].next)

\* Nothing is evicted that a live Reliable reader has not read.
ReliableKept ==
  \A r \in Reliable : alive[r] => retained.position <= rx[r].read

\* A claim that fails evicts nothing, and one that succeeds nothing it did not
\* need the room of: with the youngest evicted frame kept, what has been claimed
\* would not fit.
EvictsAsNeeded ==
  ppc = "idle" /\ retained.messages > 0 =>
    \/ ProducerPos - Start(retained.messages - 1) > RetentionCapacity
    \/ MessageWindow # 0 /\ Len(frames) - (retained.messages - 1) > MessageWindow

\* Neither side takes a lock, and a reader's tentative lease and the publisher's
\* intent can turn each other away for as long as both retry.  What holds is that
\* each gets on when the other lets it.

\* A reader died between announcing a lease and checking it, having seen an old
\* floor and a new visible position: together they span more than the ring.
Oversized(r) == ~alive[r] /\ lease_start[r] # NoLease /\ lease_end[r] - lease_start[r] > Cap

\* The publisher is not stopped for good by DropOldest readers that died, do not
\* read or have stopped, nor by Reliable ones that do read, except by an
\* oversized lease (see DeadLeasesCleared).
EvictionGoesOn ==
  (\A r \in Readers \ Reliable : <>[][~LoadFloor(r)]_vars)
    => []<>(\/ ~alive[Producer] \/ Len(frames) = MaxFrames
            \/ \E r \in Readers : Oversized(r))

\* What the documentation says of a reader that dies with a lease: the publisher
\* recognises that before it needs the bytes, and clears the lease.
DeadLeasesCleared ==
  (\A r \in Readers \ Reliable : <>[][~LoadFloor(r)]_vars)
    => []<>(~alive[Producer] \/ Len(frames) = MaxFrames)

\* A reader that keeps receiving (rather than skipping) reads all that is visible
\* and retained once the publisher has stopped evicting, unless the publisher died
\* in the middle of that: then its intent stays up for good.
LatestReached ==
  \A r \in Readers :
    []<><<LoadFloor(r)>>_vars /\ <>[][~SkipToLatest(r)]_vars
      /\ <>[][~AnnounceIntent]_vars
    => []<>(\/ Max({rx[r].read, retained.position}) >= visible
            \/ ~alive[Producer] /\ intent # NoLease)
=============================================================================
