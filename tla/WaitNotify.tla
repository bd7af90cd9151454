------------------------------ MODULE WaitNotify ------------------------------
(***************************************************************************)
(* Blocking receive on a named channel: recv() with the AdaptiveFutex wait  *)
(* strategy against commit()'s wake_consumer()                             *)
(* (src/src/core/channel/shared_hybrid_mpsc.hpp, core/wait/futex_wait.hpp). *)
(*                                                                         *)
(* A subscriber that has spun in vain switches notifications on, puts its  *)
(* registration token into its ticket, takes the epoch, scans once more    *)
(* and sleeps while the epoch is unchanged, for at most a millisecond.  A  *)
(* publisher that finds notifications on moves the epoch, takes the        *)
(* tickets out, and only if it got one moves the epoch again and wakes.    *)
(*                                                                         *)
(* A step is one access to the words of this protocol.  The store of a     *)
(* visible position waits in the producer's store buffer until it drains   *)
(* by itself or at the seq_cst fetch_add of the epoch.  The channel is     *)
(* Ordered: a message can be visible and not yet readable.                 *)
(***************************************************************************)
EXTENDS Naturals, Sequences, FiniteSets

CONSTANTS
  ProducerCount,
  SubscriberCount,  \* num_consumers; slot s has one subscriber at a time
  SpinAttempts,     \* scans before a subscriber arms (64)
  MaxMessages,      \* bound: messages claimed
  MaxGenerations,   \* bound: registrations of one slot
  MaxDeaths         \* bound: processes that die

Producers == 0 .. ProducerCount - 1
Subscribers == 0 .. SubscriberCount - 1

ASSUME WaitAssumption == /\ ProducerCount \in Nat \ {0}
                         /\ SubscriberCount \in Nat \ {0}
                         /\ SpinAttempts \in Nat
                         /\ MaxMessages \in Nat /\ MaxGenerations \in Nat

VARIABLES
  \* shared memory
  log,           \* the producer of each message claimed, in sequence order
  visible,       \* the numbers of the messages in memory
  enabled,       \* notification_enabled
  epoch,         \* wait_word
  ticket,        \* ticket[s]: notification_ticket, a generation; 0 is none
  slot,          \* slot[s]: generation of the Active registration; 0 is Free
  \* producer p
  ppc,
  buffer,        \* numbers it made visible that are not in memory yet
  at,            \* the consumer slot its loop has come to
  registration,  \* the registration it read there
  consumed,      \* consumed_ticket
  \* the subscriber of slot s
  rpc,
  token,         \* registration_token_; generations never repeat
  spins,         \* spin_attempts
  armed,         \* notification_armed
  active,        \* notifications_active
  expected,      \* the epoch it took
  next,          \* the number it reads next
  \* every process
  alive,         \* alive[<<"p", p>>], alive[<<"s", s>>]
  \* history
  unannounced    \* numbers whose publisher found notifications off

messageVars == <<log, visible, unannounced>>
wordVars == <<enabled, epoch>>
slotVars == <<ticket, slot, token>>
producerVars == <<ppc, buffer, at, registration, consumed>>
recvVars == <<rpc, spins, armed, active, expected, next>>
vars == <<messageVars, wordVars, slotVars, producerVars, recvVars, alive>>

Processes == ({"p"} \X Producers) \cup ({"s"} \X Subscribers)

Init ==
  /\ log = <<>> /\ visible = {} /\ unannounced = {}
  /\ enabled = FALSE /\ epoch = 0
  /\ ticket = [s \in Subscribers |-> 0]
  /\ slot = [s \in Subscribers |-> 0]
  /\ token = [s \in Subscribers |-> 0]
  /\ ppc = [p \in Producers |-> "idle"]
  /\ buffer = [p \in Producers |-> {}]
  /\ at = [p \in Producers |-> 0]
  /\ registration = [p \in Producers |-> 0]
  /\ consumed = [p \in Producers |-> FALSE]
  /\ rpc = [s \in Subscribers |-> "out"]
  /\ spins = [s \in Subscribers |-> 0]
  /\ armed = [s \in Subscribers |-> FALSE]
  /\ active = [s \in Subscribers |-> FALSE]
  /\ expected = [s \in Subscribers |-> 0]
  /\ next = [s \in Subscribers |-> 0]
  /\ alive = [q \in Processes |-> TRUE]

-----------------------------------------------------------------------------
(* A publisher: claim(), and commit() with wake_consumer() *)

PStep(p, from, to) ==
  alive[<<"p", p>>] /\ ppc[p] = from /\ ppc' = [ppc EXCEPT ![p] = to]

\* The last message p claimed: the one it publishes.
Mine(p) == CHOOSE n \in 0 .. Len(log) - 1 :
             log[n + 1] = p /\ \A k \in n + 1 .. Len(log) - 1 : log[k + 1] # p

\* claim() takes the next number.
Claim(p) ==
  /\ PStep(p, "idle", "commit")
  /\ Len(log) < MaxMessages
  /\ log' = Append(log, p)
  /\ UNCHANGED <<visible, unannounced, wordVars, slotVars, buffer, at, registration,
                 consumed, recvVars, alive>>

\* publish_contiguous(): the release store of the visible position.
PublishContiguous(p) ==
  /\ PStep(p, "commit", "check")
  /\ buffer' = [buffer EXCEPT ![p] = @ \cup {Mine(p)}]
  /\ UNCHANGED <<messageVars, wordVars, slotVars, at, registration, consumed, recvVars,
                 alive>>

\* wake_consumer() asks needs_wake() first.
NeedsWake(p) ==
  /\ PStep(p, "check", IF enabled THEN "bump" ELSE "idle")
  /\ unannounced' = unannounced \cup IF enabled THEN {} ELSE {Mine(p)}
  /\ UNCHANGED <<log, visible, wordVars, slotVars, buffer, at, registration, consumed,
                 recvVars, alive>>

\* The first fetch_add of the epoch, a full fence.
BumpEpoch(p) ==
  /\ PStep(p, "bump", "scan")
  /\ epoch' = epoch + 1
  /\ visible' = visible \cup buffer[p]
  /\ buffer' = [buffer EXCEPT ![p] = {}]
  /\ UNCHANGED <<log, unannounced, enabled, slotVars, at, registration, consumed, recvVars,
                 alive>>

\* Where the loop goes from slot at[p], with a ticket in hand or without.
AfterSlot(p, got) ==
  IF at[p] + 1 < SubscriberCount THEN "scan" ELSE IF got THEN "rebump" ELSE "idle"

NextSlot(p) == (at[p] + 1) % SubscriberCount

\* The registration in a slot; one that is not Active is passed over.
LoadRegistration(p) ==
  LET s == at[p] IN
  /\ PStep(p, "scan", IF slot[s] # 0 THEN "ticket" ELSE AfterSlot(p, consumed[p]))
  /\ registration' = [registration EXCEPT ![p] = slot[s]]
  /\ at' = [at EXCEPT ![p] = IF slot[s] # 0 THEN @ ELSE NextSlot(p)]
  /\ UNCHANGED <<messageVars, wordVars, slotVars, buffer, consumed, recvVars, alive>>

\* Its ticket, if it is that registration's, is taken out.  (A load comes before
\* the CAS to spare it; what the CAS finds decides.)
ConsumeTicket(p) ==
  LET s == at[p]
      got == ticket[s] = registration[p]
  IN
  /\ PStep(p, "ticket", AfterSlot(p, consumed[p] \/ got))
  /\ ticket' = [ticket EXCEPT ![s] = IF got THEN 0 ELSE @]
  /\ consumed' = [consumed EXCEPT ![p] = @ \/ got]
  /\ registration' = [registration EXCEPT ![p] = 0]
  /\ at' = [at EXCEPT ![p] = NextSlot(p)]
  /\ UNCHANGED <<messageVars, wordVars, slot, token, buffer, recvVars, alive>>

\* Mutant: no second epoch.
RebumpOmitted(p) ==
  /\ PStep(p, "rebump", "wake")
  /\ UNCHANGED <<messageVars, wordVars, slotVars, buffer, at, registration, consumed,
                 recvVars, alive>>

\* The second fetch_add, for a subscriber that saw its ticket but does not sleep
\* yet.
Rebump(p) ==
  /\ PStep(p, "rebump", "wake")
  /\ epoch' = epoch + 1
  /\ UNCHANGED <<messageVars, enabled, slotVars, buffer, at, registration, consumed,
                 recvVars, alive>>

\* futex_wake_all()
Wake(p) ==
  /\ PStep(p, "wake", "idle")
  /\ rpc' = [s \in Subscribers |-> IF rpc[s] = "asleep" THEN "clear" ELSE rpc[s]]
  /\ consumed' = [consumed EXCEPT ![p] = FALSE]
  /\ UNCHANGED <<messageVars, wordVars, slotVars, buffer, at, registration, spins,
                 armed, active, expected, next, alive>>

Drain(p) ==
  /\ buffer[p] # {}
  /\ visible' = visible \cup buffer[p]
  /\ buffer' = [buffer EXCEPT ![p] = {}]
  /\ UNCHANGED <<log, unannounced, wordVars, slotVars, ppc, at, registration, consumed,
                 recvVars, alive>>

-----------------------------------------------------------------------------
(* A subscriber: recv_payload() *)

SStep(s, from, to) ==
  alive[<<"s", s>>] /\ rpc[s] = from /\ rpc' = [rpc EXCEPT ![s] = to]

Recv(s) ==
  /\ SStep(s, "idle", IF SpinAttempts = 0 THEN "arm" ELSE "snapshot")
  /\ UNCHANGED <<messageVars, wordVars, slotVars, producerVars, spins, armed, active,
                 expected, next, alive>>

\* try_arm_wait_notification(): notifications are on, or are switched on under
\* the registration gate (module RegistrationGate) ...
Activate(s) ==
  /\ SStep(s, "arm", "ticket")
  /\ enabled' = TRUE
  /\ UNCHANGED <<messageVars, epoch, slotVars, producerVars, spins, armed, active,
                 expected, next, alive>>

\* ... which is busy, or a producer is inside claim().
ActivateFails(s) ==
  /\ SStep(s, "arm", "active")
  /\ ~enabled
  /\ UNCHANGED <<messageVars, wordVars, slotVars, producerVars, spins, armed, active,
                 expected, next, alive>>

\* The subscriber of a slot that is not modelled switches notifications on.
OtherActivates ==
  /\ ~enabled /\ enabled' = TRUE
  /\ UNCHANGED <<messageVars, epoch, slotVars, producerVars, recvVars, alive>>

\* Another subscriber may have switched them on meanwhile.
LoadActive(s) ==
  /\ SStep(s, "active", "snapshot")
  /\ active' = [active EXCEPT ![s] = enabled]
  /\ UNCHANGED <<messageVars, wordVars, slotVars, producerVars, spins, armed, expected,
                 next, alive>>

\* The token goes into an empty ticket.  Somebody else's ticket ends recv().
ArmTicket(s) ==
  LET ok == ticket[s] \in {0, token[s]} IN
  /\ SStep(s, "ticket", IF ok THEN "snapshot" ELSE "return")
  /\ ticket' = [ticket EXCEPT ![s] = IF ok THEN token[s] ELSE @]
  /\ armed' = [armed EXCEPT ![s] = ok]
  /\ active' = [active EXCEPT ![s] = TRUE]
  /\ UNCHANGED <<messageVars, wordVars, slot, token, producerVars, spins, expected,
                 next, alive>>

\* The epoch is taken before the scan.
Snapshot(s) ==
  /\ SStep(s, "snapshot", "scan")
  /\ expected' = [expected EXCEPT ![s] = epoch]
  /\ UNCHANGED <<messageVars, wordVars, slotVars, producerVars, spins, armed, active,
                 next, alive>>

\* try_recv() finds the next message, and recv() returns it.
ScanHit(s) ==
  /\ SStep(s, "scan", "return")
  /\ next[s] \in visible
  /\ next' = [next EXCEPT ![s] = @ + 1]
  /\ UNCHANGED <<messageVars, wordVars, slotVars, producerVars, spins, armed, active,
                 expected, alive>>

\* It finds nothing: spin on, scan again after a pause, or get ready to sleep.
ScanMiss(s) ==
  LET spin == spins[s] < SpinAttempts IN
  /\ SStep(s, "scan", IF spin THEN IF spins[s] + 1 < SpinAttempts THEN "snapshot" ELSE "arm"
                      ELSE IF ~active[s] THEN "arm"
                      ELSE IF armed[s] THEN "state" ELSE "wait")
  /\ next[s] \notin visible
  /\ spins' = [spins EXCEPT ![s] = IF spin THEN @ + 1 ELSE @]
  /\ UNCHANGED <<messageVars, wordVars, slotVars, producerVars, armed, active, expected,
                 next, alive>>

\* wait_ticket_state(): a ticket that was taken out ends this round.
WaitTicketState(s) ==
  /\ SStep(s, "state", IF ticket[s] = token[s] THEN "wait"
                       ELSE IF ticket[s] = 0 THEN "clear" ELSE "return")
  /\ UNCHANGED <<messageVars, wordVars, slotVars, producerVars, spins, armed, active,
                 expected, next, alive>>

\* AdaptiveFutex::wait(): the kernel compares the epoch and sleeps in one step.
FutexWait(s) ==
  /\ SStep(s, "wait", IF epoch = expected[s] THEN "asleep" ELSE "clear")
  /\ UNCHANGED <<messageVars, wordVars, slotVars, producerVars, spins, armed, active,
                 expected, next, alive>>

\* Mutant: the wait has no time limit.
TimeoutNever(s) == FALSE /\ UNCHANGED vars

\* A millisecond is over.
Timeout(s) ==
  /\ SStep(s, "asleep", "clear")
  /\ UNCHANGED <<messageVars, wordVars, slotVars, producerVars, spins, armed, active,
                 expected, next, alive>>

\* ~TicketCleanup(), at the end of a round and when recv() returns.
ClearWaitNotification(s) ==
  /\ \/ SStep(s, "clear", "arm") /\ UNCHANGED spins
     \/ SStep(s, "return", "idle") /\ spins' = [spins EXCEPT ![s] = 0]
  /\ ticket' = [ticket EXCEPT ![s] = IF armed[s] /\ @ = token[s] THEN 0 ELSE @]
  /\ armed' = [armed EXCEPT ![s] = FALSE]
  /\ active' = [active EXCEPT ![s] = FALSE]
  /\ expected' = [expected EXCEPT ![s] = 0]
  /\ UNCHANGED <<messageVars, wordVars, slot, token, producerVars, next, alive>>

-----------------------------------------------------------------------------
(* Registration and death *)

\* Mutant: the ticket of the slot's last registration stays.
AcquireKeepsTicket(s) ==
  /\ slot[s] = 0 \/ ~alive[<<"s", s>>]
  /\ token[s] < MaxGenerations
  /\ slot' = [slot EXCEPT ![s] = token[s] + 1]
  /\ token' = [token EXCEPT ![s] = @ + 1]
  /\ next' = [next EXCEPT ![s] = Len(log)]
  /\ rpc' = [rpc EXCEPT ![s] = "idle"]
  /\ alive' = [alive EXCEPT ![<<"s", s>>] = TRUE]
  /\ UNCHANGED <<messageVars, wordVars, ticket, producerVars, spins, armed, active,
                 expected>>

\* acquire_consumer(): a process takes a free slot, or the slot of a dead one, and
\* starts after everything claimed so far.
AcquireConsumer(s) ==
  /\ slot[s] = 0 \/ ~alive[<<"s", s>>]
  /\ token[s] < MaxGenerations
  /\ slot' = [slot EXCEPT ![s] = token[s] + 1]
  /\ token' = [token EXCEPT ![s] = @ + 1]
  /\ ticket' = [ticket EXCEPT ![s] = 0]
  /\ next' = [next EXCEPT ![s] = Len(log)]
  /\ rpc' = [rpc EXCEPT ![s] = "idle"]
  /\ alive' = [alive EXCEPT ![<<"s", s>>] = TRUE]
  /\ UNCHANGED <<messageVars, wordVars, producerVars, spins, armed, active, expected>>

ReleaseConsumer(s) ==
  /\ SStep(s, "idle", "out")
  /\ slot' = [slot EXCEPT ![s] = 0]
  /\ ticket' = [ticket EXCEPT ![s] = IF @ = token[s] THEN 0 ELSE @]
  /\ UNCHANGED <<messageVars, wordVars, token, producerVars, spins, armed, active,
                 expected, next, alive>>

MayDie(q) == alive[q] /\ Cardinality({x \in Processes : ~alive[x]}) < MaxDeaths

\* What a dead producer stored is in memory; its wake-up may be missing.
ProducerDies(p) ==
  /\ MayDie(<<"p", p>>)
  /\ alive' = [alive EXCEPT ![<<"p", p>>] = FALSE]
  /\ visible' = visible \cup buffer[p]
  /\ buffer' = [buffer EXCEPT ![p] = {}]
  /\ UNCHANGED <<log, unannounced, wordVars, slotVars, ppc, at, registration, consumed,
                 recvVars>>

\* Its slot and its ticket stay; its locals are gone.
SubscriberDies(s) ==
  /\ MayDie(<<"s", s>>) /\ slot[s] # 0
  /\ alive' = [alive EXCEPT ![<<"s", s>>] = FALSE]
  /\ rpc' = [rpc EXCEPT ![s] = "out"]
  /\ spins' = [spins EXCEPT ![s] = 0]
  /\ armed' = [armed EXCEPT ![s] = FALSE]
  /\ active' = [active EXCEPT ![s] = FALSE]
  /\ expected' = [expected EXCEPT ![s] = 0]
  /\ next' = [next EXCEPT ![s] = 0]
  /\ UNCHANGED <<messageVars, wordVars, slotVars, producerVars>>

-----------------------------------------------------------------------------
\* The rest of a publication.
Commit(p) == PublishContiguous(p) \/ NeedsWake(p) \/ BumpEpoch(p) \/ LoadRegistration(p)
             \/ ConsumeTicket(p) \/ Rebump(p) \/ Wake(p)

\* The rest of a recv() that does not sleep.
Receive(s) == Activate(s) \/ ActivateFails(s) \/ LoadActive(s) \/ ArmTicket(s)
              \/ Snapshot(s) \/ ScanHit(s) \/ ScanMiss(s) \/ WaitTicketState(s)
              \/ FutexWait(s) \/ ClearWaitNotification(s)

Next ==
  \/ \E p \in Producers : Claim(p) \/ Commit(p) \/ Drain(p) \/ ProducerDies(p)
  \/ \E s \in Subscribers : \/ Recv(s) \/ Receive(s) \/ Timeout(s)
                            \/ AcquireConsumer(s) \/ ReleaseConsumer(s)
                            \/ SubscriberDies(s)
  \/ OtherActivates

SafeSpec == Init /\ [][Next]_vars

\* Publications and receive calls that have begun go on, stores drain, and the
\* kernel keeps the time limit.  Nobody has to begin anything, or to die.
Spec == /\ SafeSpec
        /\ \A p \in Producers : WF_vars(Commit(p)) /\ WF_vars(Drain(p))
        /\ \A s \in Subscribers : WF_vars(Receive(s)) /\ WF_vars(Timeout(s))

-----------------------------------------------------------------------------
(* Properties *)

Receiving(s) == alive[<<"s", s>>] /\ rpc[s] \notin {"out", "idle"}
Published(n) == n \in visible \/ \E p \in Producers : n \in buffer[p]

MemoryTypes ==
  /\ log \in Seq(Producers) /\ Len(log) <= MaxMessages
  /\ visible \cup unannounced \subseteq 0 .. MaxMessages - 1
  /\ enabled \in BOOLEAN /\ epoch \in Nat
  /\ ticket \in [Subscribers -> 0 .. MaxGenerations]
  /\ slot \in [Subscribers -> 0 .. MaxGenerations]
  /\ token \in [Subscribers -> 0 .. MaxGenerations]
  /\ alive \in [Processes -> BOOLEAN]

ProducerTypes ==
  /\ ppc \in [Producers -> {"idle", "commit", "check", "bump", "scan", "ticket",
                            "rebump", "wake"}]
  /\ buffer \in [Producers -> SUBSET (0 .. MaxMessages - 1)]
  /\ at \in [Producers -> Subscribers]
  /\ registration \in [Producers -> 0 .. MaxGenerations]
  /\ consumed \in [Producers -> BOOLEAN]

SubscriberTypes ==
  /\ rpc \in [Subscribers -> {"out", "idle", "arm", "active", "ticket", "snapshot",
                              "scan", "state", "wait", "asleep", "clear", "return"}]
  /\ spins \in [Subscribers -> 0 .. SpinAttempts]
  /\ armed \in [Subscribers -> BOOLEAN]
  /\ active \in [Subscribers -> BOOLEAN]
  /\ expected \in [Subscribers -> Nat]
  /\ next \in [Subscribers -> 0 .. MaxMessages]

TypeOK == MemoryTypes /\ ProducerTypes /\ SubscriberTypes

\* p has still to wake subscriber s: it holds a ticket, or will find that of s.
WillWake(p, s) ==
  /\ alive[<<"p", p>>]
  /\ \/ ppc[p] \in {"rebump", "wake"}
     \/ ppc[p] \in {"scan", "ticket"} /\ consumed[p]
     \/ ticket[s] = token[s] /\ (\/ ppc[p] \in {"check", "bump"}
                                 \/ ppc[p] = "scan" /\ at[p] <= s
                                 \/ ppc[p] = "ticket" /\ at[p] < s
                                 \/ ppc[p] = "ticket" /\ at[p] = s /\ registration[p] = token[s])

\* A publisher died between its store and the end of wake_consumer().
Interrupted == \E p \in Producers : ~alive[<<"p", p>>] /\ ppc[p] \notin {"idle", "commit"}

\* No lost wake-up: when a subscriber sleeps with a ticket it armed and its next
\* message is there, a publisher is on its way to wake it.  Left to the time limit
\* are messages whose publisher read notification_enabled before the subscriber
\* set it (its store of the visible position may still be in the store buffer when
\* the subscriber scans), and publishers that died.
NoLostWakeup ==
  \A s \in Subscribers :
    /\ alive[<<"s", s>>] /\ rpc[s] = "asleep" /\ armed[s]
    /\ Published(next[s]) /\ next[s] \notin unannounced /\ ~Interrupted
    => \E p \in Producers : WillWake(p, s)

\* A ticket is the live subscriber's own: recv() does not end empty-handed
\* because of what an earlier registration left in the slot.
TicketOwned ==
  \A s \in Subscribers :
    alive[<<"s", s>>] /\ slot[s] # 0 => ticket[s] \in {0, token[s]}

\* A subscriber inside recv() gets the message it waits for once that has been
\* published, whoever dies and whatever wake-ups are missing.
Delivered ==
  \A s \in Subscribers : []<>(~Receiving(s) \/ ~Published(next[s]))
=============================================================================
