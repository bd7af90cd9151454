---------------------------- MODULE SharedChannel ----------------------------
(***************************************************************************)
(* A reliable named channel: SharedHybridMpscChannel without DropOldest    *)
(* (src/src/core/channel/shared_hybrid_mpsc.hpp) and the registration of   *)
(* subscribers in NamedState (src/src/salias/src/channel.cpp).             *)
(*                                                                         *)
(* Every producer owns a ring of Cap units addressed by positions that     *)
(* only grow.  It claims a run of equal frames, fills and commits claims   *)
(* in any order, and publishes the end of the committed prefix.  A         *)
(* subscriber process takes a slot, starts at the producers' reservations, *)
(* reads frames in place and publishes how far it is; the slowest live     *)
(* subscriber holds the producers back.  Processes die at any step.        *)
(*                                                                         *)
(* The gate is taken and claims are waited for in one step here: how the   *)
(* gate word and claim_active achieve that is module RegistrationGate.     *)
(* While a producer is inside claim() no registration changes, and         *)
(* positions only grow, so its pass over the slots is one step.            *)
(***************************************************************************)
EXTENDS Integers, SequencesExt

CONSTANTS
  Ordered,            \* Order::Ordered rather than Order::Fifo
  ProducerCount,      \* num_producers
  SlotCount,          \* num_consumers
  Clients,            \* subscriber processes
  Cap,                \* ring capacity, in units of kFrameAlign
  FrameLens,          \* frame lengths the publishers use, in units
  PublicationWindow,  \* publication_window, in units; 0 is the whole ring
  MessageWindow,      \* publication_window_messages; 0 is off
  Period,             \* 2^kSequenceLowBits
  Expiry,             \* publishers give messages a time to live
  Disciplined,        \* publishers commit a claim before the ring comes round to it
  MaxBatch,           \* bound: max_frames of claim_batch(); claim() asks for 1
  MaxRun,             \* kChunk: messages poll() takes at a time
  MaxFrames,          \* bound: frames a producer claims
  MaxJoins,           \* bound: registrations of a client
  MaxDeaths,          \* bound: processes that die
  NoClient            \* pid 0

Producers == 0 .. ProducerCount - 1
Slots == 0 .. SlotCount - 1

\* The rings that take their numbers from one counter.
SequenceDomains == IF Ordered THEN ProducerCount ELSE 1

\* hybrid_detail::sequence_low_window_fits(): a channel is only created when
\* the low sequence bits of a frame header cannot repeat among unread frames.
SequenceLowWindowFits ==
  SequenceDomains = 1 \/ SequenceDomains - 1 < (Period + Cap - 1) \div Cap

ASSUME ChannelAssumption ==
  /\ Ordered \in BOOLEAN /\ Expiry \in BOOLEAN
  /\ ProducerCount \in Nat \ {0} /\ SlotCount \in Nat \ {0}
  /\ Cap \in Nat \ {0} /\ FrameLens \subseteq 1 .. Cap
  /\ PublicationWindow \in Nat /\ MessageWindow \in Nat
  /\ Period \in Nat \ {0} /\ SequenceLowWindowFits
  /\ MaxBatch \in Nat \ {0} /\ MaxRun \in Nat \ {0}
  /\ NoClient \notin Clients /\ Clients \cap Producers = {}

VARIABLES
  \* shared memory
  header,         \* header[p][u]: the frame header last written at unit u
  visible,        \* visible_producer_pos[p]
  reservation,    \* reservation_position, _sequence, _message_sequence of p
  global_seq,     \* global_seq
  slot,           \* slot[s]: the registration token of slot s
  cursor,         \* cursor[p][s]: position, sequence, messages, generation
  gate,           \* the client that holds the registration gate
  \* producer p
  ppc,            \* where p is; claim_active is raised iff it is not "idle"
  ask,            \* frame length and count the claim under way asks for
  claims,         \* claims[p]: p's claims in order, with what is committed
  producer_pos,   \* producer_pos_
  messages,       \* producer.message_sequence
  cached_pos,     \* cached_consumer_pos_
  cached_messages,\* cached_consumer_message_sequence_
  \* client k
  kpc,            \* where k is in registering, reading and releasing
  mine,           \* the slot k looks at or holds
  token,          \* its registration token
  rx,             \* rx[k][p]: k's Rx, the part it keeps per producer
  last_hit,       \* last_hit_ring_
  held,           \* the messages k has been given and not released
  joins,
  \* every process
  alive

ringVars == <<header, visible, reservation, global_seq>>
producerVars == <<ppc, ask, claims, producer_pos, messages, cached_pos,
                  cached_messages>>
rxVars == <<rx, last_hit, held>>
clientVars == <<kpc, mine, token, joins>>
vars == <<ringVars, slot, cursor, gate, producerVars, rxVars, clientVars, alive>>

Processes == Producers \cup Clients
LiveClients == {k \in Clients : alive[k]}
Unit(x) == x % Cap

\* sequence_low(), and the header word meta_for_sequence() and pack_header() make
\* of it; the full number is a history.
SequenceLow(n) == n % Period
Header(n, len) == [low |-> SequenceLow(n), len |-> len, sequence |-> n]

Token(g, k, phase) == [generation |-> g, pid |-> k, phase |-> phase]
NoToken == Token(0, NoClient, "Free")
NoHeader == [low |-> 0, len |-> 0, sequence |-> -1]
NoCursor(g) == [position |-> 0, sequence |-> 0, messages |-> 0, generation |-> g]
NoRx == [p \in Producers |-> [read |-> 0, next |-> 0, messages |-> 0,
                              visible |-> 0, flushed |-> 0]]
NoClaim == [len |-> 0, count |-> 0]

Init ==
  /\ header = [p \in Producers |-> [u \in 0 .. Cap - 1 |-> NoHeader]]
  /\ visible = [p \in Producers |-> 0]
  /\ reservation = [p \in Producers |-> [position |-> 0, sequence |-> 0, messages |-> 0]]
  /\ global_seq = 0
  /\ slot = [s \in Slots |-> NoToken]
  /\ cursor = [p \in Producers |-> [s \in Slots |-> NoCursor(0)]]
  /\ gate = NoClient
  /\ ppc = [p \in Producers |-> "idle"]
  /\ ask = [p \in Producers |-> NoClaim]
  /\ claims = [p \in Producers |-> <<>>]
  /\ producer_pos = [p \in Producers |-> 0]
  /\ messages = [p \in Producers |-> 0]
  /\ cached_pos = [p \in Producers |-> 0]
  /\ cached_messages = [p \in Producers |-> 0]
  /\ kpc = [k \in Clients |-> "out"]
  /\ mine = [k \in Clients |-> 0]
  /\ token = [k \in Clients |-> NoToken]
  /\ rx = [k \in Clients |-> NoRx]
  /\ last_hit = [k \in Clients |-> 0]
  /\ held = [k \in Clients |-> {}]
  /\ joins = [k \in Clients |-> 0]
  /\ alive = [q \in Processes |-> TRUE]

-----------------------------------------------------------------------------
(* Flow control *)

EffectiveCapacity ==
  IF PublicationWindow = 0 THEN Cap ELSE Min({Cap, PublicationWindow})

\* uint64 subtraction: a head beyond the tail leaves no room at all.
HasCapacity(tail, head, need) ==
  tail - head \in 0 .. EffectiveCapacity /\ need <= EffectiveCapacity - (tail - head)

\* batch_fit(); for one frame it is has_capacity().
BatchFit(tail, head, len, count) ==
  IF HasCapacity(tail, head, len)
  THEN Min({count, (EffectiveCapacity - (tail - head)) \div len}) ELSE 0

ActiveSlots == {s \in Slots : slot[s].phase = "Active"}

\* A subscription's cursor belongs to an earlier holder of its slot.
StaleCursor(p) ==
  \E s \in ActiveSlots : cursor[p][s].generation # slot[s].generation

Lowest(values) == IF values = {} THEN 0 ELSE Min(values)

\* Mutant: a blocking subscriber is not probed for being alive.
MinimumWithoutProbe(p) ==
  IF StaleCursor(p) THEN 0
  ELSE Lowest({cursor[p][s].position : s \in ActiveSlots})

\* minimum_consumer_position(): only a subscriber that blocks the claim is
\* probed, and counts only if its process lives.  Nobody to wait for is 0.
MinimumConsumerPosition(p) ==
  LET counts == {s \in ActiveSlots :
        \/ HasCapacity(producer_pos[p], cursor[p][s].position, ask[p].len)
        \/ slot[s].pid \in LiveClients}
  IN IF StaleCursor(p) THEN 0 ELSE Lowest({cursor[p][s].position : s \in counts})

\* Mutant: the message window is one message too wide.
WindowFitOneMore(p, head, fit) ==
  IF MessageWindow = 0 THEN fit
  ELSE IF messages[p] - head \in 0 .. MessageWindow
  THEN Min({fit, MessageWindow + 1 - (messages[p] - head)}) ELSE 0

\* Frames the message window still allows after head; all when it is off.
WindowFit(p, head, fit) ==
  IF MessageWindow = 0 THEN fit
  ELSE IF messages[p] - head \in 0 .. MessageWindow - 1
  THEN Min({fit, MessageWindow - (messages[p] - head)}) ELSE 0

\* minimum_consumer_message_sequence(), in the same way.
MinimumConsumerMessages(p) ==
  LET counts == {s \in ActiveSlots :
        WindowFit(p, cursor[p][s].messages, 1) > 0 \/ slot[s].pid \in LiveClients}
  IN IF StaleCursor(p) THEN 0 ELSE Lowest({cursor[p][s].messages : s \in counts})

-----------------------------------------------------------------------------
(* A producer: claim(), claim_batch(), commit(), commit_batch() *)

End(claim) == claim.start + claim.len * claim.count

\* The end of the committed prefix of a sequence of claims: what
\* publish_contiguous() makes of published_pos_ and the pending spans.
ContiguousEnd(cs) ==
  LET holes == {i \in DOMAIN cs : ~cs[i].committed}
  IN IF holes # {} THEN cs[Min(holes)].start
     ELSE IF cs = <<>> THEN 0 ELSE End(Last(cs))

\* What the application does, not the code: nothing stops a publisher from
\* holding a claim open for as long as it likes (see ClaimsExclusive).
OpenClaimsAllow(p, need) ==
  Disciplined => producer_pos[p] + need <= ContiguousEnd(claims[p]) + Cap

\* ClaimReservationGuard is acquired; a closed gate is BackPressured.
EnterClaim(p, len, count) ==
  /\ alive[p] /\ ppc[p] = "idle"
  /\ messages[p] + count <= MaxFrames
  /\ OpenClaimsAllow(p, len * count)
  /\ gate = NoClient
  /\ ppc' = [ppc EXCEPT ![p] = "claim"]
  /\ ask' = [ask EXCEPT ![p] = [len |-> len, count |-> count]]
  /\ UNCHANGED <<ringVars, slot, cursor, gate, claims, producer_pos, messages,
                 cached_pos, cached_messages, rxVars, clientVars, alive>>

\* The caches are renewed when they leave no room; still none is BackPressured.
CheckRoom(p) ==
  LET fitAt(head) == BatchFit(producer_pos[p], head, ask[p].len, ask[p].count)
      head == IF fitAt(cached_pos[p]) = 0 THEN MinimumConsumerPosition(p)
              ELSE cached_pos[p]
      fit == fitAt(head)
      seen == IF WindowFit(p, cached_messages[p], fit) = 0
              THEN MinimumConsumerMessages(p) ELSE cached_messages[p]
      room == IF fit = 0 THEN 0 ELSE WindowFit(p, seen, fit)
  IN
  /\ alive[p] /\ ppc[p] = "claim"
  /\ cached_pos' = [cached_pos EXCEPT ![p] = head]
  /\ cached_messages' = [cached_messages EXCEPT
                           ![p] = IF fit = 0 \/ MessageWindow = 0 THEN @ ELSE seen]
  /\ ppc' = [ppc EXCEPT ![p] = IF room = 0 THEN "idle" ELSE "room"]
  /\ ask' = [ask EXCEPT ![p] = IF room = 0 THEN NoClaim
                               ELSE [@ EXCEPT !.count = room]]
  /\ UNCHANGED <<ringVars, slot, cursor, gate, claims, producer_pos, messages,
                 rxVars, clientVars, alive>>

\* The sequence numbers are taken, from the shared counter or the producer's
\* own, and the ring space with them.
TakeSequence(p) ==
  /\ alive[p] /\ ppc[p] = "room"
  /\ claims' = [claims EXCEPT ![p] = Append(@,
       [start |-> producer_pos[p], len |-> ask[p].len, count |-> ask[p].count,
        sequence |-> IF Ordered THEN global_seq ELSE messages[p],
        committed |-> FALSE])]
  /\ global_seq' = IF Ordered THEN global_seq + ask[p].count ELSE global_seq
  /\ producer_pos' = [producer_pos EXCEPT ![p] = @ + ask[p].len * ask[p].count]
  /\ messages' = [messages EXCEPT ![p] = @ + ask[p].count]
  /\ ppc' = [ppc EXCEPT ![p] = "reserved"]
  /\ ask' = [ask EXCEPT ![p] = NoClaim]
  /\ UNCHANGED <<header, visible, reservation, slot, cursor, gate, cached_pos,
                 cached_messages, rxVars, clientVars, alive>>

\* publish_reservation(), and the guard lets go of claim_active.
PublishReservation(p) ==
  /\ alive[p] /\ ppc[p] = "reserved"
  /\ reservation' = [reservation EXCEPT ![p] =
       [position |-> producer_pos[p],
        sequence |-> Last(claims[p]).sequence + Last(claims[p]).count,
        messages |-> messages[p]]]
  /\ ppc' = [ppc EXCEPT ![p] = "idle"]
  /\ UNCHANGED <<header, visible, global_seq, slot, cursor, gate, ask, claims,
                 producer_pos, messages, cached_pos, cached_messages,
                 rxVars, clientVars, alive>>

\* Mutant: an out-of-order commit is not remembered.
CommitForgetsPending(p, i) ==
  LET claim == claims[p][i]
      written(u) == {j \in 0 .. claim.count - 1 : Unit(claim.start + claim.len * j) = u}
  IN
  /\ alive[p] /\ ppc[p] = "idle"
  /\ ~claim.committed
  /\ claims' = [claims EXCEPT ![p][i].committed = TRUE]
  /\ header' = [header EXCEPT ![p] = [u \in 0 .. Cap - 1 |->
       IF written(u) = {} THEN @[u]
       ELSE LET n == claim.sequence + Max(written(u))
            IN Header(n, claim.len)]]
  /\ visible' = [visible EXCEPT ![p] = IF claim.start = @ THEN End(claim) ELSE @]
  /\ UNCHANGED <<reservation, global_seq, slot, cursor, gate, ppc, ask,
                 producer_pos, messages, cached_pos, cached_messages,
                 rxVars, clientVars, alive>>

\* commit() or commit_batch() of any outstanding claim: the frame headers are
\* written, and the visible position moves if the committed prefix grew.
Commit(p, i) ==
  LET claim == claims[p][i]
      written(u) == {j \in 0 .. claim.count - 1 : Unit(claim.start + claim.len * j) = u}
  IN
  /\ alive[p] /\ ppc[p] = "idle"
  /\ ~claim.committed
  /\ claims' = [claims EXCEPT ![p][i].committed = TRUE]
  /\ header' = [header EXCEPT ![p] = [u \in 0 .. Cap - 1 |->
       IF written(u) = {} THEN @[u]
       ELSE LET n == claim.sequence + Max(written(u))
            IN Header(n, claim.len)]]
  /\ visible' = [visible EXCEPT ![p] = ContiguousEnd(claims'[p])]
  /\ UNCHANGED <<reservation, global_seq, slot, cursor, gate, ppc, ask,
                 producer_pos, messages, cached_pos, cached_messages,
                 rxVars, clientVars, alive>>

-----------------------------------------------------------------------------
(* Registering and releasing a subscriber *)

Step(k, from, to) == alive[k] /\ kpc[k] = from /\ kpc' = [kpc EXCEPT ![k] = to]

\* The registration gate; a dead holder's is cleared and taken.
GateFree == gate \notin LiveClients

AcquireConsumer(k) ==
  /\ Step(k, "out", "quiesce")
  /\ joins[k] < MaxJoins /\ GateFree
  /\ gate' = k
  /\ joins' = [joins EXCEPT ![k] = @ + 1]
  /\ UNCHANGED <<ringVars, slot, cursor, producerVars, rxVars, mine, token, alive>>

\* wait_for_claims(): no live producer is inside claim(), and with the gate
\* closed none enters.
ClaimsQuiet == \A p \in Producers : ppc[p] = "idle" \/ ~alive[p]

WaitForClaims(k) ==
  /\ Step(k, "quiesce", "slots")
  /\ ClaimsQuiet
  /\ mine' = [mine EXCEPT ![k] = 0]
  /\ UNCHANGED <<ringVars, slot, cursor, gate, producerVars, rxVars, token,
                 joins, alive>>

\* The slot is somebody else's: on to the next, or NoSubscriberSlots.
SkipSlot(k) ==
  LET s == mine[k]
      last == s + 1 = SlotCount
  IN
  /\ Step(k, "slots", IF last THEN "leave" ELSE "slots")
  /\ slot[s].phase # "Free" /\ slot[s].pid \in LiveClients
  /\ mine' = [mine EXCEPT ![k] = IF last THEN 0 ELSE s + 1]
  /\ UNCHANGED <<ringVars, slot, cursor, gate, producerVars, rxVars, token,
                 joins, alive>>

\* clear_consumer_cursors()
ClearCursors(s, g) ==
  cursor' = [p \in Producers |-> [cursor[p] EXCEPT ![s] = NoCursor(g)]]

\* Mutant: a slot is reclaimed without asking whether its owner lives.
ReclaimUnchecked(k) ==
  LET s == mine[k] IN
  /\ Step(k, "slots", "reclaim")
  /\ slot[s].phase # "Free"
  /\ slot' = [slot EXCEPT ![s].phase = "Reclaiming"]
  /\ UNCHANGED <<ringVars, cursor, gate, producerVars, rxVars, mine, token,
                 joins, alive>>

\* Its owner died, in whatever phase: the slot is marked, then freed.
ReclaimSlot(k) ==
  LET s == mine[k] IN
  /\ Step(k, "slots", "reclaim")
  /\ slot[s].phase # "Free" /\ slot[s].pid \notin LiveClients
  /\ slot' = [slot EXCEPT ![s].phase = "Reclaiming"]
  /\ UNCHANGED <<ringVars, cursor, gate, producerVars, rxVars, mine, token,
                 joins, alive>>

FreeReclaimed(k) ==
  LET s == mine[k] IN
  /\ Step(k, "reclaim", "slots")
  /\ ClearCursors(s, slot[s].generation)
  /\ slot' = [slot EXCEPT ![s] = Token(@.generation, NoClient, "Free")]
  /\ UNCHANGED <<ringVars, gate, producerVars, rxVars, mine, token, joins, alive>>

TakeSlot(k) ==
  LET s == mine[k] IN
  /\ Step(k, "slots", "fill")
  /\ slot[s].phase = "Free"
  /\ slot' = [slot EXCEPT ![s] = Token(@.generation + 1, k, "Initializing")]
  /\ UNCHANGED <<ringVars, cursor, gate, producerVars, rxVars, mine, token,
                 joins, alive>>

\* Mutant: the snapshot takes the visible position, not the reserved one.
FillFromVisible(k) ==
  LET s == mine[k] IN
  /\ Step(k, "fill", "activate")
  /\ cursor' = [p \in Producers |-> [cursor[p] EXCEPT ![s] =
       [position |-> visible[p],
        sequence |-> IF Ordered THEN global_seq ELSE reservation[p].sequence,
        messages |-> reservation[p].messages,
        generation |-> slot[s].generation]]]
  /\ UNCHANGED <<ringVars, slot, gate, producerVars, rxVars, mine, token,
                 joins, alive>>

\* The snapshot: the subscription starts where every producer stands.
FillCursors(k) ==
  LET s == mine[k] IN
  /\ Step(k, "fill", "activate")
  /\ cursor' = [p \in Producers |-> [cursor[p] EXCEPT ![s] =
       [position |-> reservation[p].position,
        sequence |-> IF Ordered THEN global_seq ELSE reservation[p].sequence,
        messages |-> reservation[p].messages,
        generation |-> slot[s].generation]]]
  /\ UNCHANGED <<ringVars, slot, gate, producerVars, rxVars, mine, token,
                 joins, alive>>

StoreActive(k) ==
  LET s == mine[k] IN
  /\ Step(k, "activate", "leave")
  /\ slot' = [slot EXCEPT ![s].phase = "Active"]
  /\ token' = [token EXCEPT ![k] = Token(slot[s].generation, k, "Active")]
  /\ UNCHANGED <<ringVars, cursor, gate, producerVars, rxVars, mine, joins, alive>>

\* ~RegistrationGateGuard(), however the operation ended.
ReleaseGate(k) ==
  /\ Step(k, "leave", IF token[k] = NoToken THEN "out" ELSE "joined")
  /\ gate' = IF gate = k THEN NoClient ELSE gate
  /\ UNCHANGED <<ringVars, slot, cursor, producerVars, rxVars, mine, token,
                 joins, alive>>

HasConsumer(k) == slot[mine[k]] = token[k]

\* The Rx constructor.
OpenRx(k) ==
  /\ Step(k, "joined", "open")
  /\ HasConsumer(k)
  /\ rx' = [rx EXCEPT ![k] = [p \in Producers |->
       LET c == cursor[p][mine[k]]
       IN [read |-> c.position, next |-> c.sequence, messages |-> c.messages,
           visible |-> 0, flushed |-> c.position]]]
  /\ last_hit' = [last_hit EXCEPT ![k] = 0]
  /\ UNCHANGED <<ringVars, slot, cursor, gate, producerVars, held, mine, token,
                 joins, alive>>

\* release_consumer(): the subscriber is destroyed, with what it still holds.
ReleaseConsumer(k) ==
  /\ kpc[k] \in {"open", "holding", "polling"} /\ alive[k]
  /\ kpc' = [kpc EXCEPT ![k] = "closing"]
  /\ GateFree
  /\ gate' = k
  /\ rx' = [rx EXCEPT ![k] = NoRx]
  /\ held' = [held EXCEPT ![k] = {}]
  /\ UNCHANGED <<ringVars, slot, cursor, producerVars, last_hit, mine, token,
                 joins, alive>>

MarkReleasing(k) ==
  /\ Step(k, "closing", IF HasConsumer(k) THEN "freeing" ELSE "leave")
  /\ ClaimsQuiet
  /\ slot' = IF HasConsumer(k) THEN [slot EXCEPT ![mine[k]].phase = "Releasing"]
             ELSE slot
  /\ token' = [token EXCEPT ![k] = NoToken]
  /\ UNCHANGED <<ringVars, cursor, gate, producerVars, rxVars, mine, joins, alive>>

FreeSlot(k) ==
  LET s == mine[k] IN
  /\ Step(k, "freeing", "leave")
  /\ ClearCursors(s, slot[s].generation)
  /\ slot' = [slot EXCEPT ![s] = Token(@.generation, NoClient, "Free")]
  /\ mine' = [mine EXCEPT ![k] = 0]
  /\ UNCHANGED <<ringVars, gate, producerVars, rxVars, token, joins, alive>>

-----------------------------------------------------------------------------
(* Receiving *)

\* The visible bound a receiver uses: it looks again when it has read up to
\* the one it remembers.
Bound(k, p) == IF rx[k][p].read >= rx[k][p].visible THEN visible[p] ELSE rx[k][p].visible

\* Mutant: the sequence bits of the header are not compared.
ReadableAnySequence(p, position, sequence, bound) ==
  /\ position < bound
  /\ position + header[p][Unit(position)].len <= bound

\* try_read_from_ring(): a frame header with the low bits of the wanted
\* sequence number, whose frame ends within the bound.
Readable(p, position, sequence, bound) ==
  LET h == header[p][Unit(position)] IN
  /\ position < bound
  /\ h.low = SequenceLow(sequence)
  /\ position + h.len <= bound

Ring(k, i) == (last_hit[k] + i) % ProducerCount
\* A poll() that passed over a ring full of expired messages does not look at it
\* again; between calls no ring is behind.
Behind(k, p) == rx[k][p].read # rx[k][p].flushed
Hits(k) == {i \in Producers : LET p == Ring(k, i) IN
              /\ ~Behind(k, p)
              /\ Readable(p, rx[k][p].read, rx[k][p].next, Bound(k, p))}

\* The receiver's bounds after it has looked at the first n rings.
Refreshed(k, n) ==
  [p \in Producers |->
     IF ~Behind(k, p) /\ \E i \in 0 .. n - 1 : Ring(k, i) = p
     THEN [rx[k][p] EXCEPT !.visible = Bound(k, p)] ELSE rx[k][p]]

Message(p, position, sequence) ==
  [producer |-> p, position |-> position, sequence |-> sequence,
   next |-> position + header[p][Unit(position)].len]

\* k has read up to position: the sequence it wants next is the producer's,
\* or in an Ordered channel one for all.
Advance(r, p, position, sequence, n) ==
  [q \in Producers |->
     IF q = p THEN [r[q] EXCEPT !.read = position, !.next = sequence,
                                !.messages = @ + n]
     ELSE IF Ordered THEN [r[q] EXCEPT !.next = sequence] ELSE r[q]]

\* try_recv(): the first ring with a message, in turn; it is read in place and
\* stays the next one to read until release().
TryRecv(k) ==
  LET i == Min(Hits(k))
      p == Ring(k, i)
  IN
  /\ Step(k, "open", "holding")
  /\ HasConsumer(k) /\ Hits(k) # {}
  /\ held' = [held EXCEPT ![k] = {Message(p, rx[k][p].read, rx[k][p].next)}]
  /\ rx' = [rx EXCEPT ![k] = Refreshed(k, i + 1)]
  /\ last_hit' = [last_hit EXCEPT ![k] = (p + 1) % ProducerCount]
  /\ UNCHANGED <<ringVars, slot, cursor, gate, producerVars, mine, token,
                 joins, alive>>

\* The shared cursor of k on p says what r says.
Published(k, r, p) ==
  [cursor[p][mine[k]] EXCEPT !.position = r[p].read, !.sequence = r[p].next,
                             !.messages = r[p].messages]

\* flush_progress(): every ring read further than announced is announced.
Flush(k, r) ==
  /\ cursor' = [p \in Producers |-> IF r[p].read = r[p].flushed THEN cursor[p]
       ELSE [cursor[p] EXCEPT ![mine[k]] = Published(k, r, p)]]
  /\ rx' = [rx EXCEPT ![k] = [p \in Producers |->
              [r[p] EXCEPT !.flushed = r[p].read]]]

\* try_recv() or poll() finds nothing (more): it remembers the bounds it saw, and
\* announces the expired messages it passed over.
TryRecvEmpty(k) ==
  /\ Step(k, kpc[k], "open") /\ kpc[k] \in {"open", "skipping"}
  /\ HasConsumer(k) /\ Hits(k) = {}
  /\ Flush(k, Refreshed(k, ProducerCount))
  /\ UNCHANGED <<ringVars, slot, gate, producerVars, last_hit, held,
                 mine, token, joins, alive>>

\* The first message found has expired: it is consumed and announced, and the
\* search goes on.  This is try_recv(), and the head of a run of poll().
SkipExpired(k) ==
  LET i == Min(Hits(k))
      p == Ring(k, i)
      m == Message(p, rx[k][p].read, rx[k][p].next)
  IN
  /\ Expiry
  /\ Step(k, "open", "open")
  /\ HasConsumer(k) /\ Hits(k) # {}
  /\ Flush(k, Advance(Refreshed(k, i + 1), p, m.next, m.sequence + 1, 1))
  /\ UNCHANGED <<ringVars, slot, gate, producerVars, last_hit, held,
                 mine, token, joins, alive>>

Release(k) ==
  /\ Step(k, "holding", "open")
  /\ HasConsumer(k)
  /\ \E m \in held[k] :
       LET r == Advance(rx[k], m.producer, m.next, m.sequence + 1, 1) IN
       /\ rx' = [rx EXCEPT ![k] = [r EXCEPT ![m.producer].flushed = m.next]]
       /\ cursor' = [cursor EXCEPT ![m.producer][mine[k]] = Published(k, r, m.producer)]
  /\ held' = [held EXCEPT ![k] = {}]
  /\ UNCHANGED <<ringVars, slot, gate, producerVars, last_hit, mine, token,
                 joins, alive>>

\* Where the frames of a ring start, going by the headers.
RunPosition(k, p) ==
  LET at[j \in 0 .. Cap] == IF j = 0 THEN rx[k][p].read
                            ELSE at[j - 1] + header[p][Unit(at[j - 1])].len
  IN at

\* How many frames try_recv_run() reads of a ring: it stops after MaxRun messages
\* that have not expired, or at the first it cannot read.
RunLength(k, p, expired) ==
  LET at == RunPosition(k, p) IN
  Max({n \in 0 .. Cap : \A j \in 0 .. n - 1 :
         /\ Readable(p, at[j], rx[k][p].next + j, Bound(k, p))
         /\ Cardinality((0 .. j - 1) \ expired) < MaxRun})

\* Mutant: the run's progress is published before its messages are used.
RunPublishedEarly(k, expired) ==
  LET i == Min(Hits(k))
      p == Ring(k, i)
      at == RunPosition(k, p)
      wanted(j) == rx[k][p].next + j
      run == RunLength(k, p, expired)
      r == Advance(Refreshed(k, i + 1), p, at[run], wanted(run), run)
  IN
  /\ Step(k, kpc[k], "polling") /\ kpc[k] \in {"open", "skipping"}
  /\ HasConsumer(k) /\ Hits(k) # {}
  /\ expired \subseteq 1 .. run - 1
  /\ held' = [held EXCEPT ![k] =
       {Message(p, at[j], wanted(j)) : j \in (0 .. run - 1) \ expired}]
  /\ Flush(k, r)
  /\ last_hit' = [last_hit EXCEPT ![k] = (p + 1) % ProducerCount]
  /\ UNCHANGED <<ringVars, slot, gate, producerVars, mine, token, joins, alive>>

\* poll(): try_recv_run() takes up to MaxRun messages of the first ring that has
\* one, leaving out those expired since; k moves on locally and the callbacks
\* read in place.
TryRecvRun(k, expired) ==
  LET i == Min(Hits(k))
      p == Ring(k, i)
      at == RunPosition(k, p)
      wanted(j) == rx[k][p].next + j
      run == RunLength(k, p, expired)
      r == Advance(Refreshed(k, i + 1), p, at[run], wanted(run), run)
  IN
  /\ Step(k, kpc[k], "polling") /\ kpc[k] \in {"open", "skipping"}
  /\ HasConsumer(k) /\ Hits(k) # {}
  /\ expired \subseteq 1 .. run - 1
  /\ held' = [held EXCEPT ![k] =
       {Message(p, at[j], wanted(j)) : j \in (0 .. run - 1) \ expired}]
  /\ rx' = [rx EXCEPT ![k] = r]
  /\ last_hit' = [last_hit EXCEPT ![k] = (p + 1) % ProducerCount]
  /\ UNCHANGED <<ringVars, slot, cursor, gate, producerVars, mine, token,
                 joins, alive>>

\* All that an Order::Fifo run finds on a ring has expired: poll() moves past it,
\* announces nothing yet and looks at the other rings.
PassExpiredRing(k) ==
  LET i == Min(Hits(k))
      p == Ring(k, i)
      run == RunLength(k, p, 0 .. Cap)
  IN
  /\ Expiry /\ ~Ordered
  /\ Step(k, kpc[k], "skipping") /\ kpc[k] \in {"open", "skipping"}
  /\ HasConsumer(k) /\ Hits(k) # {}
  /\ rx' = [rx EXCEPT ![k] = Advance(Refreshed(k, i + 1), p,
               RunPosition(k, p)[run], rx[k][p].next + run, run)]
  /\ UNCHANGED <<ringVars, slot, cursor, gate, producerVars, last_hit, held,
                 mine, token, joins, alive>>

\* The callbacks are done.
FlushProgress(k) ==
  /\ Step(k, "polling", "open")
  /\ HasConsumer(k)
  /\ Flush(k, rx[k])
  /\ held' = [held EXCEPT ![k] = {}]
  /\ UNCHANGED <<ringVars, slot, gate, producerVars, last_hit, mine, token,
                 joins, alive>>

-----------------------------------------------------------------------------
MayDie(q) == alive[q] /\ Cardinality({x \in Processes : ~alive[x]}) < MaxDeaths

\* A producer dies: what it claimed and did not commit stays a hole.
ProducerDies(p) ==
  /\ MayDie(p)
  /\ alive' = [alive EXCEPT ![p] = FALSE]
  /\ UNCHANGED <<ringVars, slot, cursor, gate, producerVars, rxVars, clientVars>>

\* A client dies: its slot, its cursors and the gate stay as they are.
ClientDies(k) ==
  /\ MayDie(k)
  /\ alive' = [alive EXCEPT ![k] = FALSE]
  /\ kpc' = [kpc EXCEPT ![k] = "out"]
  /\ token' = [token EXCEPT ![k] = NoToken]
  /\ mine' = [mine EXCEPT ![k] = 0]
  /\ rx' = [rx EXCEPT ![k] = NoRx]
  /\ held' = [held EXCEPT ![k] = {}]
  /\ last_hit' = [last_hit EXCEPT ![k] = 0]
  /\ UNCHANGED <<ringVars, slot, cursor, gate, producerVars, joins>>

Claim(p) == \/ \E len \in FrameLens, count \in 1 .. MaxBatch : EnterClaim(p, len, count)
            \/ CheckRoom(p) \/ TakeSequence(p) \/ PublishReservation(p)
CommitAny(p) == \E i \in DOMAIN claims[p] : Commit(p, i)

Register(k) == \/ WaitForClaims(k) \/ SkipSlot(k) \/ ReclaimSlot(k)
               \/ FreeReclaimed(k) \/ TakeSlot(k) \/ FillCursors(k)
               \/ StoreActive(k) \/ ReleaseGate(k) \/ OpenRx(k)
               \/ MarkReleasing(k) \/ FreeSlot(k)
Receive(k) ==
  \/ TryRecv(k) \/ TryRecvEmpty(k) \/ Release(k)
  \/ \E expired \in IF Expiry THEN SUBSET (1 .. Cap - 1) ELSE {{}} : TryRecvRun(k, expired)
  \/ SkipExpired(k) \/ PassExpiredRing(k) \/ FlushProgress(k)

Next ==
  \/ \E p \in Producers : Claim(p) \/ CommitAny(p) \/ ProducerDies(p)
  \/ \E k \in Clients : \/ AcquireConsumer(k) \/ ReleaseConsumer(k)
                        \/ Register(k) \/ Receive(k) \/ ClientDies(k)

SafeSpec == Init /\ [][Next]_vars

\* Live publishers keep trying, and commit what they claim although they may
\* try to claim more in between (commit() is not always enabled while claim()
\* is under way, hence strong fairness); live subscribers keep receiving and
\* finish a registration they have begun.
Spec == /\ SafeSpec
        /\ \A p \in Producers : WF_vars(Claim(p)) /\ SF_vars(CommitAny(p))
        /\ \A k \in Clients : WF_vars(Register(k)) /\ WF_vars(Receive(k))
-----------------------------------------------------------------------------
(* Properties *)

TypeOK ==
  /\ visible \in [Producers -> Nat]
  /\ global_seq \in Nat
  /\ slot \in [Slots -> [generation : Nat, pid : Clients \cup {NoClient},
        phase : {"Free", "Initializing", "Active", "Releasing", "Reclaiming"}]]
  /\ cursor \in [Producers -> [Slots -> [position : Nat, sequence : Nat,
                                         messages : Nat, generation : Nat]]]
  /\ gate \in Clients \cup {NoClient}
  /\ ppc \in [Producers -> {"idle", "claim", "room", "reserved"}]
  /\ ask \in [Producers -> [len : 0 .. Cap, count : 0 .. MaxBatch]]
  /\ producer_pos \in [Producers -> Nat]
  /\ messages \in [Producers -> Nat]
  /\ kpc \in [Clients -> {"out", "quiesce", "slots", "reclaim", "fill", "activate",
        "leave", "joined", "open", "holding", "polling", "skipping", "closing",
        "freeing"}]
  /\ mine \in [Clients -> Slots]
  /\ rx \in [Clients -> [Producers -> [read : Nat, next : Nat, messages : Nat,
                                       visible : Nat, flushed : Nat]]]
  /\ last_hit \in [Clients -> Producers]
  /\ alive \in [Processes -> BOOLEAN]

Reading(k) == alive[k] /\ kpc[k] \in {"open", "holding", "polling", "skipping"}

\* The frames of p's claims.
Frames(p) ==
  UNION {LET c == claims[p][i] IN
         {[position |-> c.start + c.len * j, sequence |-> c.sequence + j] :
            j \in 0 .. c.count - 1} : i \in DOMAIN claims[p]}

\* A message a live subscriber holds is the one its number says (not one whose
\* low sequence bits look alike), and the space it lies in has not been given to
\* another claim: the publisher may be writing there already.
HeldIntact ==
  \A k \in Clients : \A m \in held[k] :
    /\ header[m.producer][Unit(m.position)].sequence = m.sequence
    /\ producer_pos[m.producer] <= m.position + Cap

\* A claim's space is its own until it is committed, however long the publisher
\* keeps it open and whatever it claims and commits meanwhile.
ClaimsExclusive ==
  \A p \in Producers : \A i \in DOMAIN claims[p] :
    ~claims[p][i].committed => producer_pos[p] <= claims[p][i].start + Cap

\* However long a claim is kept open, its space stays its own as long as one live
\* subscriber has it still to read.
ClaimsProtected ==
  \A p \in Producers : \A i \in DOMAIN claims[p], s \in ActiveSlots :
    /\ ~claims[p][i].committed
    /\ slot[s].pid \in LiveClients /\ cursor[p][s].position < End(claims[p][i])
    => producer_pos[p] <= claims[p][i].start + Cap

\* No gap, no repetition: what a subscriber has still to read of a producer is
\* exactly what was numbered after the point it has reached, from its join on.
\* A claim cut off by its producer's death is no message.
ReadsOn ==
  \A k \in Clients : Reading(k) =>
    \A p \in Producers : \A f \in Frames(p) :
      alive[p] \/ f.position < visible[p] =>
        (f.position >= rx[k][p].read <=> f.sequence >= rx[k][p].next)

\* What a producer has claimed is within the byte window of a live subscriber, ...
WithinPositions ==
  \A s \in ActiveSlots, p \in Producers : slot[s].pid \in LiveClients =>
    producer_pos[p] - cursor[p][s].position <= EffectiveCapacity

\* ... and within the message window as well: no producer is ahead of one by more,
\* whatever it remembers of the subscribers' progress.
WithinWindow ==
  /\ WithinPositions
  /\ MessageWindow # 0 =>
       \A s \in ActiveSlots, p \in Producers : slot[s].pid \in LiveClients =>
         messages[p] - cursor[p][s].messages <= MessageWindow

\* A subscription is its process's until released: reclaiming dead ones and
\* reusing slots never takes it or gives it twice.
RegistrationKept ==
  \A k \in Clients : Reading(k) => HasConsumer(k)

\* An Ordered producer died with a claim open: nobody will ever commit that
\* number, and subscribers wait for it (a stop the documentation announces).
Gap == Ordered /\ \E p \in Producers :
         ~alive[p] /\ \E i \in DOMAIN claims[p] : ~claims[p][i].committed

\* A message that can be seen is received although other processes die, other
\* producers are busy, and claims before and after it are outstanding.
Received ==
  \A k \in Clients, p \in Producers :
    []<>(~Reading(k) \/ Gap \/ rx[k][p].read >= visible[p])

Waits(p) == alive[p] /\ messages[p] < MaxFrames

\* A live publisher with a live subscriber is not held up for good by
\* subscribers that died or left, unless one of them died with the gate closed.
PublisherGoesOn ==
  \A p \in Producers :
    []<>(\/ ~Waits(p)
         \/ ~\E k \in Clients : Reading(k)
         \/ gate # NoClient /\ gate \notin LiveClients)
=============================================================================
