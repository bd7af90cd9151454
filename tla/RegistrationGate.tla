--------------------------- MODULE RegistrationGate ---------------------------
(***************************************************************************)
(* The registration gate of a named channel and the claims it keeps out.   *)
(*                                                                         *)
(* A process that registers or releases a subscriber (acquire_consumer,    *)
(* release_consumer) takes the gate word, waits until no producer is       *)
(* inside claim(), and reads every producer's reservation as one snapshot. *)
(* A producer enters claim() by raising its claim_active word and reading  *)
(* the gate again.  A waiting subscriber takes the same gate to switch     *)
(* notifications on (try_arm_wait_notification).                           *)
(*                                                                         *)
(* A step is one access to shared memory.  A store that is not seq_cst     *)
(* waits in the producer's store buffer, in order, until it drains by      *)
(* itself, at a seq_cst store, or at a registrar's heavy_fence(); this is  *)
(* what the light claim path of a kMembarrier channel relies on.  Any      *)
(* process may die at any step, with its stores drained.                   *)
(***************************************************************************)
EXTENDS Naturals, Sequences, FiniteSets

CONSTANTS
  Registrars,     \* processes that register, release and wait
  ProducerCount,  \* num_producers
  StoreBuffer,    \* stores a buffer holds; a further one waits for a drain
  MaxOps,         \* bound: gate operations of one registrar
  MaxClaims,      \* bound: claims of one producer
  MaxDeaths,      \* bound: processes that die
  None            \* no process: pid 0, start token 0

Producers == 0 .. ProducerCount - 1

ASSUME GateAssumption == /\ ProducerCount \in Nat \ {0}
                         /\ None \notin Registrars \cup Producers
                         /\ Registrars \cap Producers = {}
                         /\ StoreBuffer \in Nat /\ MaxOps \in Nat /\ MaxClaims \in Nat

VARIABLES
  \* settled when the channel is created and its publishers are opened
  protocol,       \* claim_fence_protocol
  asymmetric,     \* the producers with asymmetric_claim_fence_
  \* shared memory
  gate,           \* registration_gate
  gate_start,     \* registration_gate_process_start
  claim_active,   \* claim_active[p]
  reservation,    \* reservation_position[p], counted in claims
  notification,   \* notification_enabled
  \* producer p
  ppc,            \* where p is in claim()
  reserved,       \* producer_pos_, counted in claims
  buffer,         \* p's stores that are not in shared memory yet
  \* registrar r
  rpc,            \* where r is
  expected,       \* the gate word its CAS met
  owner_start,    \* the start token it loaded for that owner
  held,           \* the token it put into the gate
  at,             \* the producer its loop has come to
  snapshot,       \* snapshot[r]: the reservations read so far
  ops,
  \* every process
  alive

fenceVars == <<protocol, asymmetric>>
gateVars == <<gate, gate_start>>
producerVars == <<ppc, reserved, buffer>>
memoryVars == <<claim_active, reservation>>
registrarVars == <<rpc, expected, owner_start, held, at, snapshot, ops>>
vars == <<fenceVars, gateVars, memoryVars, notification, producerVars, registrarVars,
          alive>>

Processes == Registrars \cup Producers

\* consumer_registration::make_token(generation, pid, phase); 0 is Open.
Token(g, r, phase) == [generation |-> g, pid |-> r, phase |-> phase]
Open == Token(0, None, "Free")

\* The generation of the subscription a waiter holds: never 0, so its gate
\* token differs from the registrars' own.
Subscription == 1
Tokens == {Open} \cup {Token(0, r, ph) : r \in Registrars, ph \in {"Preparing", "Active"}}
                 \cup {Token(Subscription, r, "Preparing") : r \in Registrars}

Stores == [word : {"active"}, value : {0, 1}]
            \cup [word : {"reservation"}, value : 0 .. MaxClaims]

ClaimFenceProtocol == {"kSeqCst", "kMembarrier"}

\* register_publisher_process(), called for a kMembarrier channel only: the
\* producers whose process the kernel has registered.
Registrations(pr) == IF pr = "kMembarrier" THEN SUBSET Producers ELSE {{}}

\* Where a process stands inside the part the gate protects.
Scanning == {"wait", "armScan"}
Quiet == {"snapshot", "activate"}
Holding == {"fence", "armFence", "release"} \cup Scanning \cup Quiet
Acquiring == {"cas", "loadStart", "judge", "clear", "storeStart", "storeActive"}

SharedTypes ==
  /\ protocol \in ClaimFenceProtocol
  /\ asymmetric \subseteq Producers
  /\ gate \in Tokens
  /\ gate_start \in Registrars \cup {None}
  /\ notification \in BOOLEAN
  /\ alive \in [Processes -> BOOLEAN]

ClaimTypes ==
  /\ claim_active \in [Producers -> {0, 1}]
  /\ reservation \in [Producers -> 0 .. MaxClaims]
  /\ ppc \in [Producers -> {"idle", "entering", "recheck", "claim", "leave"}]
  /\ reserved \in [Producers -> 0 .. MaxClaims]
  /\ buffer \in [Producers -> Seq(Stores)]

RegistrarTypes ==
  /\ rpc \in [Registrars -> {"idle"} \cup Acquiring \cup Holding]
  /\ expected \in [Registrars -> Tokens]
  /\ owner_start \in [Registrars -> Registrars \cup {None}]
  /\ held \in [Registrars -> Tokens]
  /\ at \in [Registrars -> Producers]
  /\ snapshot \in [Registrars -> Seq(0 .. MaxClaims)]
  /\ ops \in [Registrars -> 0 .. MaxOps]

TypeOK == SharedTypes /\ ClaimTypes /\ RegistrarTypes

\* select_channel_protocol() goes by the kernel and the environment.
Init ==
  /\ protocol \in ClaimFenceProtocol
  /\ asymmetric \in Registrations(protocol)
  /\ gate = Open
  /\ gate_start = None
  /\ claim_active = [p \in Producers |-> 0]
  /\ reservation = [p \in Producers |-> 0]
  /\ notification = FALSE
  /\ ppc = [p \in Producers |-> "idle"]
  /\ reserved = [p \in Producers |-> 0]
  /\ buffer = [p \in Producers |-> <<>>]
  /\ rpc = [r \in Registrars |-> "idle"]
  /\ expected = [r \in Registrars |-> Open]
  /\ owner_start = [r \in Registrars |-> None]
  /\ held = [r \in Registrars |-> Open]
  /\ at = [r \in Registrars |-> 0]
  /\ snapshot = [r \in Registrars |-> <<>>]
  /\ ops = [r \in Registrars |-> 0]
  /\ alive = [q \in Processes |-> TRUE]

\* is_registered_process_alive(pid, start): without a start token only the
\* process id counts, with one it must be that very process's.
IsRegisteredProcessAlive(q, start) ==
  q # None /\ alive[q] /\ start \in {None, q}

-----------------------------------------------------------------------------
(* Store buffers *)

\* The last value a buffer holds for a word, or what memory has.
Drained(p, word, memory) ==
  LET values == {i \in DOMAIN buffer[p] : buffer[p][i].word = word}
  IN IF values = {} THEN memory
     ELSE buffer[p][CHOOSE i \in values : \A j \in values : j <= i].value

\* Every buffer of the processes in ps reaches memory.
DrainAll(ps) ==
  /\ claim_active' = [p \in Producers |->
       IF p \in ps THEN Drained(p, "active", claim_active[p]) ELSE claim_active[p]]
  /\ reservation' = [p \in Producers |->
       IF p \in ps THEN Drained(p, "reservation", reservation[p]) ELSE reservation[p]]
  /\ buffer' = [p \in Producers |-> IF p \in ps THEN <<>> ELSE buffer[p]]

\* A relaxed or release store.
StorePlain(p, word, value) ==
  /\ Len(buffer[p]) < StoreBuffer
  /\ buffer' = [buffer EXCEPT ![p] = Append(@, [word |-> word, value |-> value])]
  /\ UNCHANGED memoryVars

\* A store to claim_active: light for an asymmetric producer; otherwise
\* seq_cst, which drains what is buffered.
StoreActiveWord(p, value) ==
  IF p \in asymmetric
  THEN StorePlain(p, "active", value)
  ELSE /\ claim_active' = [claim_active EXCEPT ![p] = value]
       /\ reservation' = [reservation EXCEPT ![p] = Drained(p, "reservation", @)]
       /\ buffer' = [buffer EXCEPT ![p] = <<>>]

\* The oldest store of a buffer reaches memory.
Drain(p) ==
  /\ buffer[p] # <<>>
  /\ LET s == Head(buffer[p]) IN
     /\ claim_active' = [claim_active EXCEPT
                           ![p] = IF s.word = "active" THEN s.value ELSE @]
     /\ reservation' = [reservation EXCEPT
                          ![p] = IF s.word = "reservation" THEN s.value ELSE @]
  /\ buffer' = [buffer EXCEPT ![p] = Tail(@)]
  /\ UNCHANGED <<fenceVars, gateVars, notification, ppc, reserved, registrarVars, alive>>

-----------------------------------------------------------------------------
(* ClaimReservationGuard and the part of claim() it protects *)

\* The first look at the gate; a closed gate is BackPressured, without a trace.
CheckGate(p) ==
  /\ ppc[p] = "idle" /\ reserved[p] < MaxClaims
  /\ gate = Open
  /\ ppc' = [ppc EXCEPT ![p] = "entering"]
  /\ UNCHANGED <<gateVars, memoryVars, notification, reserved, buffer,
                 registrarVars, alive>>

RaiseActive(p) ==
  /\ ppc[p] = "entering"
  /\ StoreActiveWord(p, 1)
  /\ ppc' = [ppc EXCEPT ![p] = "recheck"]
  /\ UNCHANGED <<gateVars, notification, reserved, registrarVars, alive>>

\* Mutant: the gate is not read again after claim_active is raised.
RecheckSkipped(p) ==
  /\ ppc[p] = "recheck"
  /\ ppc' = [ppc EXCEPT ![p] = "claim"]
  /\ UNCHANGED <<gateVars, memoryVars, notification, reserved, buffer,
                 registrarVars, alive>>

RecheckOpen(p) ==
  /\ ppc[p] = "recheck" /\ gate = Open
  /\ ppc' = [ppc EXCEPT ![p] = "claim"]
  /\ UNCHANGED <<gateVars, memoryVars, notification, reserved, buffer,
                 registrarVars, alive>>

RecheckClosed(p) ==
  /\ ppc[p] = "recheck" /\ gate # Open
  /\ StoreActiveWord(p, 0)
  /\ ppc' = [ppc EXCEPT ![p] = "idle"]
  /\ UNCHANGED <<gateVars, notification, reserved, registrarVars, alive>>

\* The claim has room: producer_pos_ moves and publish_reservation() says so.
PublishReservation(p) ==
  /\ ppc[p] = "claim"
  /\ reserved' = [reserved EXCEPT ![p] = @ + 1]
  /\ StorePlain(p, "reservation", reserved[p] + 1)
  /\ ppc' = [ppc EXCEPT ![p] = "leave"]
  /\ UNCHANGED <<gateVars, notification, registrarVars, alive>>

\* The guard's destructor, after the reservation or after BackPressured.
LeaveClaim(p) ==
  /\ ppc[p] \in {"claim", "leave"}
  /\ StoreActiveWord(p, 0)
  /\ ppc' = [ppc EXCEPT ![p] = "idle"]
  /\ UNCHANGED <<gateVars, notification, reserved, registrarVars, alive>>

-----------------------------------------------------------------------------
(* acquire_registration_gate() *)

Goto(r, label) == rpc' = [rpc EXCEPT ![r] = label]

\* acquire_consumer() or release_consumer() is called.
Begin(r) ==
  /\ rpc[r] = "idle" /\ ops[r] < MaxOps
  /\ ops' = [ops EXCEPT ![r] = @ + 1]
  /\ Goto(r, "cas")
  /\ UNCHANGED <<gateVars, memoryVars, notification, producerVars,
                 expected, owner_start, held, at, snapshot, alive>>

CasGate(r) ==
  /\ rpc[r] = "cas" /\ gate = Open
  /\ gate' = Token(0, r, "Preparing")
  /\ Goto(r, "storeStart")
  /\ UNCHANGED <<gate_start, memoryVars, notification, producerVars,
                 expected, owner_start, held, at, snapshot, ops, alive>>

StoreStart(r) ==
  /\ rpc[r] = "storeStart"
  /\ gate_start' = r
  /\ Goto(r, "storeActive")
  /\ UNCHANGED <<gate, memoryVars, notification, producerVars,
                 expected, owner_start, held, at, snapshot, ops, alive>>

StoreActive(r) ==
  /\ rpc[r] = "storeActive"
  /\ gate' = Token(0, r, "Active")
  /\ held' = [held EXCEPT ![r] = Token(0, r, "Active")]
  /\ Goto(r, "fence")
  /\ UNCHANGED <<gate_start, memoryVars, notification, producerVars,
                 expected, owner_start, at, snapshot, ops, alive>>

\* Mutant: the start token is trusted while the owner is still Preparing.
CasFailsLoadsAlways(r) ==
  /\ rpc[r] = "cas" /\ gate # Open
  /\ expected' = [expected EXCEPT ![r] = gate]
  /\ owner_start' = [owner_start EXCEPT ![r] = None]
  /\ Goto(r, "loadStart")
  /\ UNCHANGED <<gateVars, memoryVars, notification, producerVars,
                 held, at, snapshot, ops, alive>>

\* The CAS fails and reports the word it met; a Preparing owner has no start
\* token yet, an Active one's is loaded next.
CasFails(r) ==
  /\ rpc[r] = "cas" /\ gate # Open
  /\ expected' = [expected EXCEPT ![r] = gate]
  /\ owner_start' = [owner_start EXCEPT ![r] = None]
  /\ Goto(r, IF gate.phase = "Preparing" THEN "judge" ELSE "loadStart")
  /\ UNCHANGED <<gateVars, memoryVars, notification, producerVars,
                 held, at, snapshot, ops, alive>>

LoadStart(r) ==
  /\ rpc[r] = "loadStart"
  /\ owner_start' = [owner_start EXCEPT ![r] = gate_start]
  /\ Goto(r, "judge")
  /\ UNCHANGED <<gateVars, memoryVars, notification, producerVars,
                 expected, held, at, snapshot, ops, alive>>

\* Back to the top of the loop: the iteration's locals end.
Retry(r) == /\ Goto(r, "cas")
            /\ expected' = [expected EXCEPT ![r] = Open]
            /\ owner_start' = [owner_start EXCEPT ![r] = None]

\* The owner is alive: yield and try again.
JudgeAlive(r) ==
  /\ rpc[r] = "judge"
  /\ IsRegisteredProcessAlive(expected[r].pid, owner_start[r])
  /\ Retry(r)
  /\ UNCHANGED <<gateVars, memoryVars, notification, producerVars,
                 held, at, snapshot, ops, alive>>

\* The owner is dead: clear its word, then try again.
JudgeDead(r) ==
  /\ rpc[r] = "judge"
  /\ ~IsRegisteredProcessAlive(expected[r].pid, owner_start[r])
  /\ Goto(r, "clear")
  /\ UNCHANGED <<gateVars, memoryVars, notification, producerVars,
                 expected, owner_start, held, at, snapshot, ops, alive>>

CasClear(r) ==
  /\ rpc[r] = "clear"
  /\ gate' = IF gate = expected[r] THEN Open ELSE gate
  /\ Retry(r)
  /\ UNCHANGED <<gate_start, memoryVars, notification, producerVars,
                 held, at, snapshot, ops, alive>>

-----------------------------------------------------------------------------
(* What is done under the gate *)

\* try_arm_wait_notification() tries the gate once; a busy gate means polling.
TryArm(r) ==
  /\ rpc[r] = "idle" /\ ops[r] < MaxOps
  /\ gate = Open /\ ~notification
  /\ gate' = Token(Subscription, r, "Preparing")
  /\ held' = [held EXCEPT ![r] = Token(Subscription, r, "Preparing")]
  /\ ops' = [ops EXCEPT ![r] = @ + 1]
  /\ Goto(r, "armFence")
  /\ UNCHANGED <<gate_start, memoryVars, notification, producerVars,
                 expected, owner_start, at, snapshot, alive>>

\* Mutant: no heavy_fence() between the gate and claim_active.
FenceOmitted(r) ==
  /\ rpc[r] \in {"fence", "armFence"}
  /\ Goto(r, IF rpc[r] = "fence" THEN "wait" ELSE "armScan")
  /\ at' = [at EXCEPT ![r] = 0]
  /\ UNCHANGED <<gateVars, memoryVars, notification, producerVars,
                 expected, owner_start, held, snapshot, ops, alive>>

\* enter_registration_barrier(): heavy_fence() on a kMembarrier channel,
\* nothing on a kSeqCst one.
Fence(r) ==
  /\ rpc[r] \in {"fence", "armFence"}
  /\ DrainAll(IF protocol = "kMembarrier" THEN asymmetric ELSE {})
  /\ Goto(r, IF rpc[r] = "fence" THEN "wait" ELSE "armScan")
  /\ at' = [at EXCEPT ![r] = 0]
  /\ UNCHANGED <<gateVars, notification, ppc, reserved,
                 expected, owner_start, held, snapshot, ops, alive>>

\* Neither membarrier command is available: fail closed.
FenceFails(r) ==
  /\ protocol = "kMembarrier"
  /\ rpc[r] \in {"fence", "armFence"}
  /\ Goto(r, "release")
  /\ UNCHANGED <<gateVars, memoryVars, notification, producerVars,
                 expected, owner_start, held, at, snapshot, ops, alive>>

Last(r) == at[r] + 1 = ProducerCount
Advance(r) == at' = [at EXCEPT ![r] = IF Last(r) THEN 0 ELSE @ + 1]

\* wait_for_claims() and try_arm's loop pass a producer that is not claiming;
\* the last one ends the loop.
PassProducer(r) ==
  /\ rpc[r] \in Scanning
  /\ claim_active[at[r]] = 0
  /\ Advance(r)
  /\ Goto(r, IF ~Last(r) THEN rpc[r]
             ELSE IF rpc[r] = "wait" THEN "snapshot" ELSE "activate")
  /\ UNCHANGED <<gateVars, memoryVars, notification, producerVars,
                 expected, owner_start, held, snapshot, ops, alive>>

\* Mutant: wait_for_claims() has no liveness check.
DeadClaimKept(r) == FALSE

\* wait_for_claims() meets a claim of a producer that died inside it; for a
\* live one it yields and looks again.
ClearDeadClaim(r) ==
  /\ rpc[r] = "wait"
  /\ claim_active[at[r]] = 1
  /\ ~IsRegisteredProcessAlive(at[r], at[r])
  /\ claim_active' = [claim_active EXCEPT ![at[r]] = 0]
  /\ UNCHANGED <<gateVars, reservation, notification, producerVars,
                 registrarVars, alive>>

\* try_arm does not wait for a claim: it gives the gate back.
ArmBusy(r) ==
  /\ rpc[r] = "armScan"
  /\ claim_active[at[r]] = 1
  /\ Goto(r, "release")
  /\ UNCHANGED <<gateVars, memoryVars, notification, producerVars,
                 expected, owner_start, held, at, snapshot, ops, alive>>

Activate(r) ==
  /\ rpc[r] = "activate"
  /\ notification' = TRUE
  /\ Goto(r, "release")
  /\ UNCHANGED <<gateVars, memoryVars, producerVars,
                 expected, owner_start, held, at, snapshot, ops, alive>>

\* acquire_consumer() reads one producer's reservation; release_consumer()
\* works on the slot in the same place.
ReadReservation(r) ==
  /\ rpc[r] = "snapshot"
  /\ snapshot' = [snapshot EXCEPT ![r] = Append(@, reservation[at[r]])]
  /\ Advance(r)
  /\ Goto(r, IF Last(r) THEN "release" ELSE "snapshot")
  /\ UNCHANGED <<gateVars, memoryVars, notification, producerVars,
                 expected, owner_start, held, ops, alive>>

\* ~RegistrationGateGuard(), and the last CAS of try_arm.
ReleaseGate(r) ==
  /\ rpc[r] = "release"
  /\ gate' = IF gate = held[r] THEN Open ELSE gate
  /\ held' = [held EXCEPT ![r] = Open]
  /\ at' = [at EXCEPT ![r] = 0]
  /\ snapshot' = [snapshot EXCEPT ![r] = <<>>]
  /\ Goto(r, "idle")
  /\ UNCHANGED <<gate_start, memoryVars, notification, producerVars,
                 expected, owner_start, ops, alive>>

-----------------------------------------------------------------------------
MayDie(q) == /\ alive[q]
             /\ Cardinality({x \in Processes : ~alive[x]}) < MaxDeaths

\* A process is killed.  What it stored is in memory before its death shows;
\* its locals are gone.
ProducerDies(p) ==
  /\ MayDie(p)
  /\ alive' = [alive EXCEPT ![p] = FALSE]
  /\ DrainAll({p})
  /\ ppc' = [ppc EXCEPT ![p] = "idle"]
  /\ UNCHANGED <<fenceVars, gateVars, notification, reserved, registrarVars>>

RegistrarDies(r) ==
  /\ MayDie(r)
  /\ alive' = [alive EXCEPT ![r] = FALSE]
  /\ rpc' = [rpc EXCEPT ![r] = "idle"]
  /\ expected' = [expected EXCEPT ![r] = Open]
  /\ owner_start' = [owner_start EXCEPT ![r] = None]
  /\ held' = [held EXCEPT ![r] = Open]
  /\ at' = [at EXCEPT ![r] = 0]
  /\ snapshot' = [snapshot EXCEPT ![r] = <<>>]
  /\ UNCHANGED <<fenceVars, gateVars, memoryVars, notification, producerVars, ops>>

\* Steps that end a claim once it has begun.
ClaimStep(p) ==
  /\ alive[p] /\ UNCHANGED fenceVars
  /\ RaiseActive(p) \/ RecheckOpen(p) \/ RecheckClosed(p)
     \/ PublishReservation(p) \/ LeaveClaim(p)

\* Steps of a gate operation once it has begun.
GateStep(r) ==
  /\ alive[r] /\ UNCHANGED fenceVars
  /\ \/ CasGate(r) \/ StoreStart(r) \/ StoreActive(r)
     \/ CasFails(r) \/ LoadStart(r) \/ JudgeAlive(r)
     \/ JudgeDead(r) \/ CasClear(r)
     \/ Fence(r) \/ FenceFails(r) \/ PassProducer(r) \/ ClearDeadClaim(r)
     \/ ArmBusy(r) \/ Activate(r) \/ ReadReservation(r) \/ ReleaseGate(r)

Enter(p) == alive[p] /\ CheckGate(p) /\ UNCHANGED fenceVars
Start(r) == alive[r] /\ (Begin(r) \/ TryArm(r)) /\ UNCHANGED fenceVars

Next ==
  \/ \E p \in Producers : Enter(p) \/ ClaimStep(p) \/ Drain(p) \/ ProducerDies(p)
  \/ \E r \in Registrars : Start(r) \/ GateStep(r) \/ RegistrarDies(r)

SafeSpec == Init /\ [][Next]_vars

\* A live process goes on with what it has begun, and stores drain; nobody has
\* to start a claim or a registration, or to die.
Spec == /\ SafeSpec
        /\ \A p \in Producers : WF_vars(ClaimStep(p)) /\ WF_vars(Drain(p))
        /\ \A r \in Registrars : WF_vars(GateStep(r))

-----------------------------------------------------------------------------
(* Properties *)

InClaim(p) == alive[p] /\ ppc[p] \in {"claim", "leave"}
Inside(r) == alive[r] /\ rpc[r] \in Holding

\* The Dekker handshake: while a live registrar takes its snapshot, or a live
\* waiter switches notifications on, no producer is inside claim().
ClaimsExcluded ==
  \A r \in Registrars, p \in Producers :
    alive[r] /\ rpc[r] \in Quiet => ~InClaim(p)

\* The gate word excludes: two live processes are never both past their CAS.
GateExclusive ==
  \A r, s \in Registrars : Inside(r) /\ Inside(s) => r = s

\* What a registrar has read of a producer is where that producer really is, and
\* stays so until the gate is given back, although a claim's stores may
\* still be in its store buffer when the gate closes.
SnapshotExact ==
  \A r \in Registrars : alive[r] =>
    \A p \in Producers :
      p < Len(snapshot[r]) /\ alive[p] => snapshot[r][p + 1] = reserved[p]

\* Nobody waits for ever: a registration that has begun ends although the
\* holder of the gate, or a producer inside claim(), may die on the way.
RegistrationEnds ==
  \A r \in Registrars :
    (rpc[r] = "cas") ~> (rpc[r] = "idle" \/ ~alive[r])
=============================================================================
