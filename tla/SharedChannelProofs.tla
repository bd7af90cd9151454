-------------------------- MODULE SharedChannelProofs --------------------------
(***************************************************************************)
(* Proofs about the registration of subscribers in SharedChannel, for any  *)
(* number of producers, slots, clients, deaths and registrations.          *)
(***************************************************************************)
EXTENDS SharedChannel, TLAPS

\* Where a client is while it has the registration gate.
Gated == {"quiesce", "slots", "reclaim", "fill", "activate", "leave", "closing",
          "freeing"}
\* Where it is while it reads.
Receiving == {"open", "holding", "polling", "skipping"}
\* Where it is while it has a subscription.
Joined == {"joined", "closing"} \cup Receiving

\* Registration tokens.
Tokens == [generation : Nat, pid : Clients \cup {NoClient},
           phase : {"Free", "Initializing", "Active", "Releasing", "Reclaiming"}]

\* The types of what registration reads and writes.
RegTypes ==
  /\ slot \in [Slots -> Tokens]
  /\ gate \in Clients \cup {NoClient}
  /\ kpc \in [Clients -> {"out", "joined"} \cup Gated \cup Receiving]
  /\ mine \in [Clients -> Slots]
  /\ token \in [Clients -> Tokens]
  /\ alive \in [Processes -> BOOLEAN]

\* k's slot bears its pid and this phase.
Owns(k, phase) == slot[mine[k]].pid = k /\ slot[mine[k]].phase = phase

\* k has an active slot, and the token of it.
Subscribed(k) == Owns(k, "Active") /\ HasConsumer(k)

\* Where a live client is says what it has: the gate, the slot it works on, its
\* subscription and the token of it.
Registered(k) ==
  /\ kpc[k] \in Gated => gate = k
  /\ kpc[k] \in Joined => Subscribed(k)
  /\ kpc[k] \notin Joined =>
       \/ token[k] = NoToken
       \/ kpc[k] = "leave" /\ Subscribed(k)
  /\ kpc[k] = "reclaim" => slot[mine[k]].phase = "Reclaiming"
  /\ kpc[k] \in {"fill", "activate"} => Owns(k, "Initializing")
  /\ kpc[k] = "freeing" => Owns(k, "Releasing")

\* What is inductive.  Nothing is asked of dead clients: their slots wait to
\* be reclaimed in whatever phase they were left.
RegInv == RegTypes /\ \A k \in LiveClients : Registered(k)

-----------------------------------------------------------------------------
(* Clients that take no part in a step *)

\* Two different clients, and what pids and phases tell apart.
LEMMA Names ==
  /\ NoClient \notin Clients
  /\ \A k \in Clients : k \in Processes /\ k # NoClient /\ k \notin Producers
  /\ NoToken \in Tokens /\ NoToken.phase = "Free" /\ NoToken.pid = NoClient
  /\ 0 \in Slots
BY ChannelAssumption DEF Processes, NoToken, Token, Tokens, Slots

\* A client whose own words stand, and whose slot is written by nobody while it
\* has a subscription, is as registered as before.
LEMMA Undisturbed ==
  ASSUME RegTypes, NEW j \in Clients, Registered(j),
         UNCHANGED <<kpc[j], mine[j], token[j]>>,
         kpc[j] \in Gated => gate' = gate /\ slot'[mine[j]] = slot[mine[j]],
         Owns(j, "Active") => slot'[mine[j]] = slot[mine[j]]
  PROVE  Registered(j)'
<1>1. CASE slot'[mine[j]] = slot[mine[j]]
  BY <1>1 DEF Registered, Subscribed, Owns, HasConsumer
<1>2. CASE slot'[mine[j]] # slot[mine[j]]
  <2>1. kpc[j] \notin Gated /\ ~Owns(j, "Active")
    BY <1>2
  <2>2. kpc[j] \notin Joined
    BY <2>1 DEF Registered, Subscribed
  <2>3. token[j] = NoToken
    BY <2>1, <2>2 DEF Registered, Gated
  <2> QED BY <2>1, <2>2, <2>3 DEF Registered, Gated
<1> QED BY <1>1, <1>2

\* A step of k with the gate, or taking it, leaves alone the other live
\* clients: none has the gate, and k writes no subscription of theirs.
LEMMA Others ==
  ASSUME RegInv, NEW k \in Clients, gate = k \/ GateFree,
         UNCHANGED alive,
         \A j \in Clients \ {k} : UNCHANGED <<kpc[j], mine[j], token[j]>>,
         \A s \in Slots :
           slot[s].pid \in LiveClients \ {k} /\ slot[s].phase = "Active"
             => slot'[s] = slot[s],
         RegTypes', alive[k] => Registered(k)'
  PROVE  RegInv'
<1>1. ASSUME NEW j \in LiveClients', j # k
      PROVE  Registered(j)'
  <2>1. j \in Clients /\ j \in LiveClients
    BY DEF LiveClients
  <2>2. Registered(j)
    BY <2>1 DEF RegInv
  <2>3. kpc[j] \notin Gated
    BY <1>1, <2>1, <2>2 DEF Registered, GateFree
  <2>4. mine[j] \in Slots
    BY <2>1 DEF RegInv, RegTypes
  <2>5. Owns(j, "Active") => slot'[mine[j]] = slot[mine[j]]
    BY <1>1, <2>1, <2>4 DEF Owns
  <2>6. UNCHANGED <<kpc[j], mine[j], token[j]>>
    BY <1>1, <2>1
  <2> QED BY <2>1, <2>2, <2>3, <2>5, <2>6, Undisturbed DEF RegInv
<1>2. k \in LiveClients' => Registered(k)'
  BY DEF LiveClients
<1> QED BY <1>1, <1>2 DEF RegInv

\* A step of k that writes neither slots nor the gate.
LEMMA Alone ==
  ASSUME RegInv, NEW k \in Clients, UNCHANGED <<alive, slot, gate>>,
         \A j \in Clients \ {k} : UNCHANGED <<kpc[j], mine[j], token[j]>>,
         RegTypes', alive[k] => Registered(k)'
  PROVE  RegInv'
<1>1. ASSUME NEW j \in LiveClients', j # k
      PROVE  Registered(j)'
  <2>1. j \in Clients /\ j \in LiveClients
    BY DEF LiveClients
  <2>2. Registered(j)
    BY <2>1 DEF RegInv
  <2>3. UNCHANGED <<kpc[j], mine[j], token[j]>>
    BY <1>1, <2>1
  <2> QED BY <2>1, <2>2, <2>3, Undisturbed DEF RegInv
<1>2. k \in LiveClients' => Registered(k)'
  BY DEF LiveClients
<1> QED BY <1>1, <1>2 DEF RegInv

-----------------------------------------------------------------------------
(* Steps outside registration *)

\* claim(), commit() and the death of a producer.
LEMMA ProducerReg ==
  ASSUME RegInv, NEW p \in Producers, Claim(p) \/ CommitAny(p) \/ ProducerDies(p)
  PROVE  RegInv'
<1>1. UNCHANGED <<slot, gate, kpc, mine, token>>
  BY DEF Claim, EnterClaim, CheckRoom, TakeSequence, PublishReservation,
         CommitAny, Commit, ProducerDies, clientVars
<1>2. UNCHANGED alive \/ ProducerDies(p)
  BY DEF Claim, EnterClaim, CheckRoom, TakeSequence, PublishReservation,
         CommitAny, Commit
<1>3. /\ alive' \in [Processes -> BOOLEAN]
      /\ \A k \in Clients : alive'[k] = alive[k]
  BY <1>2, Names DEF RegInv, RegTypes, ProducerDies
<1>4. LiveClients' = LiveClients
  BY <1>3 DEF LiveClients
<1>5. RegTypes'
  BY <1>1, <1>3 DEF RegInv, RegTypes
<1>6. \A k \in LiveClients : Registered(k)'
  BY <1>1 DEF RegInv, Registered, Subscribed, Owns, HasConsumer
<1> QED BY <1>4, <1>5, <1>6 DEF RegInv

\* try_recv(), poll(), release() and flush_progress(), and the Rx constructor.
LEMMA ReceiveReg ==
  ASSUME RegInv, NEW k \in Clients, Receive(k) \/ OpenRx(k)
  PROVE  RegInv'
<1>1. UNCHANGED <<slot, gate, mine, token, alive>>
  BY DEF Receive, TryRecv, TryRecvEmpty, Release, TryRecvRun, SkipExpired,
         PassExpiredRing, FlushProgress, OpenRx
<1>2. /\ alive[k] /\ kpc[k] \in {"joined"} \cup Receiving
      /\ \E to \in Receiving : kpc' = [kpc EXCEPT ![k] = to]
  BY DEF Receive, TryRecv, TryRecvEmpty, Release, TryRecvRun, SkipExpired,
         PassExpiredRing, FlushProgress, OpenRx, Step, Receiving
<1>3. RegTypes' /\ kpc'[k] \in Receiving
  BY <1>1, <1>2 DEF RegInv, RegTypes
<1>4. \A j \in Clients \ {k} : UNCHANGED <<kpc[j], mine[j], token[j]>>
  BY <1>1, <1>2 DEF RegInv, RegTypes
<1>5. Registered(k)'
  <2>1. Registered(k)
    BY <1>2 DEF RegInv, LiveClients
  <2>2. Subscribed(k)
    BY <1>2, <2>1 DEF Registered, Joined
  <2>3. Subscribed(k)'
    BY <1>1, <2>2 DEF Subscribed, Owns, HasConsumer
  <2> QED BY <1>3, <2>3 DEF Registered, Joined, Receiving, Gated
<1> QED BY <1>1, <1>3, <1>4, <1>5, Alone

\* A client dies in whatever state: the others are not touched.
LEMMA DeathReg ==
  ASSUME RegInv, NEW k \in Clients, ClientDies(k)
  PROVE  RegInv'
<1>1. /\ UNCHANGED <<slot, gate>>
      /\ alive' = [alive EXCEPT ![k] = FALSE]
      /\ kpc' = [kpc EXCEPT ![k] = "out"]
      /\ token' = [token EXCEPT ![k] = NoToken]
      /\ mine' = [mine EXCEPT ![k] = 0]
  BY DEF ClientDies
<1>2. RegTypes'
  BY <1>1, Names DEF RegInv, RegTypes
<1>3. ASSUME NEW j \in LiveClients' PROVE Registered(j)'
  <2>1. j \in Clients /\ j # k /\ alive[j]
    BY <1>1, Names DEF LiveClients, RegInv, RegTypes
  <2>2. Registered(j)
    BY <2>1 DEF RegInv, LiveClients
  <2>3. UNCHANGED <<kpc[j], mine[j], token[j]>>
    BY <1>1, <2>1 DEF RegInv, RegTypes
  <2> QED BY <1>1, <2>1, <2>2, <2>3, Undisturbed DEF RegInv
<1> QED BY <1>2, <1>3 DEF RegInv
-----------------------------------------------------------------------------
(* Registering and releasing *)

\* The gate is taken: by a client that registers, which has no token, or by
\* one that leaves, which has its own until it is marked.
LEMMA TakeGateReg ==
  ASSUME RegInv, NEW k \in Clients, AcquireConsumer(k) \/ ReleaseConsumer(k)
  PROVE  RegInv'
<1>1. /\ alive[k] /\ GateFree /\ gate' = k
      /\ UNCHANGED <<slot, mine, token, alive>>
      /\ \/ kpc[k] = "out" /\ kpc' = [kpc EXCEPT ![k] = "quiesce"]
         \/ kpc[k] \in Receiving /\ kpc' = [kpc EXCEPT ![k] = "closing"]
  BY DEF AcquireConsumer, ReleaseConsumer, Step, Receiving
<1>2. RegTypes'
  BY <1>1 DEF RegInv, RegTypes, Gated
<1>3. \A j \in Clients \ {k} : UNCHANGED <<kpc[j], mine[j], token[j]>>
  BY <1>1 DEF RegInv, RegTypes
<1>4. Registered(k)
  BY <1>1 DEF RegInv, LiveClients
<1>5. Registered(k)'
  <2>1. CASE kpc[k] = "out"
    <3>1. token[k] = NoToken
      BY <1>4, <2>1 DEF Registered, Joined, Receiving
    <3>2. kpc'[k] = "quiesce"
      BY <1>1, <2>1 DEF RegInv, RegTypes, Receiving
    <3> QED BY <1>1, <3>1, <3>2 DEF Registered, Joined, Receiving
  <2>2. CASE kpc[k] \in Receiving
    <3>1. Subscribed(k)
      BY <1>4, <2>2 DEF Registered, Joined
    <3>2. Subscribed(k)'
      BY <1>1, <3>1 DEF Subscribed, Owns, HasConsumer
    <3>3. kpc'[k] = "closing"
      BY <1>1, <2>2 DEF RegInv, RegTypes, Receiving
    <3> QED BY <1>1, <3>2, <3>3 DEF Registered, Joined
  <2> QED BY <1>1, <2>1, <2>2
<1> QED BY <1>1, <1>2, <1>3, <1>5, Others

\* The search for a slot: claims are waited for, slots of others passed by.
LEMMA SearchReg ==
  ASSUME RegInv, NEW k \in Clients, WaitForClaims(k) \/ SkipSlot(k)
  PROVE  RegInv'
<1>1. /\ alive[k] /\ kpc[k] \in {"quiesce", "slots"}
      /\ UNCHANGED <<slot, gate, token, alive>>
      /\ \E to \in {"slots", "leave"} : kpc' = [kpc EXCEPT ![k] = to]
  BY DEF WaitForClaims, SkipSlot, Step
<1>2. \E s \in Slots : mine' = [mine EXCEPT ![k] = s]
  <2>1. CASE WaitForClaims(k)
    BY <2>1, Names DEF WaitForClaims
  <2>2. CASE SkipSlot(k)
    <3>1. /\ mine[k] \in Slots
          /\ mine' = [mine EXCEPT ![k] =
                        IF mine[k] + 1 = SlotCount THEN 0 ELSE mine[k] + 1]
      BY <2>2 DEF SkipSlot, RegInv, RegTypes
    <3>2. mine[k] + 1 = SlotCount \/ mine[k] + 1 \in Slots
      BY <3>1, ChannelAssumption DEF Slots
    <3> QED BY <3>1, <3>2, Names
  <2> QED BY <2>1, <2>2
<1>3. RegTypes'
  BY <1>1, <1>2 DEF RegInv, RegTypes, Gated
<1>4. \A j \in Clients \ {k} : UNCHANGED <<kpc[j], mine[j], token[j]>>
  BY <1>1, <1>2 DEF RegInv, RegTypes
<1>5. gate = k /\ token[k] = NoToken
  BY <1>1 DEF RegInv, LiveClients, Registered, Gated, Joined, Receiving
<1>6. kpc'[k] \in {"slots", "leave"}
  BY <1>1 DEF RegInv, RegTypes
<1>7. Registered(k)'
  BY <1>1, <1>5, <1>6 DEF Registered, Joined, Receiving
<1> QED BY <1>1, <1>3, <1>4, <1>7, Alone

\* A slot whose owner died is marked and freed; a free one is taken.
LEMMA TakeSlotReg ==
  ASSUME RegInv, NEW k \in Clients,
         ReclaimSlot(k) \/ FreeReclaimed(k) \/ TakeSlot(k)
  PROVE  RegInv'
<1> DEFINE s == mine[k]
<1>1. /\ alive[k] /\ kpc[k] \in {"slots", "reclaim"}
      /\ UNCHANGED <<gate, mine, token, alive>>
      /\ s \in Slots /\ slot[s] \in Tokens
  BY DEF ReclaimSlot, FreeReclaimed, TakeSlot, Step, RegInv, RegTypes
<1>2. Registered(k)
  BY <1>1 DEF RegInv, LiveClients
<1>3. gate = k /\ token[k] = NoToken
  BY <1>1, <1>2 DEF Registered, Gated, Joined, Receiving
<1>5. CASE ReclaimSlot(k)
  <2>1. /\ slot[s].pid \notin LiveClients
        /\ kpc' = [kpc EXCEPT ![k] = "reclaim"]
        /\ slot' = [slot EXCEPT ![s].phase = "Reclaiming"]
    BY <1>5 DEF ReclaimSlot, Step
  <2>2. slot'[s].phase = "Reclaiming" /\ kpc'[k] = "reclaim"
    BY <2>1, <1>1 DEF RegInv, RegTypes, Tokens
  <2>3. RegTypes'
    BY <2>1, <1>1 DEF RegInv, RegTypes, Tokens, Gated
  <2>4. Registered(k)'
    BY <2>2, <1>1, <1>3 DEF Registered, Joined, Receiving
  <2>5. \A j \in Clients \ {k} : UNCHANGED <<kpc[j], mine[j], token[j]>>
    BY <2>1, <1>1 DEF RegInv, RegTypes
  <2>6. \A t \in Slots : slot[t].pid \in LiveClients \ {k} => slot'[t] = slot[t]
    BY <2>1 DEF RegInv, RegTypes
  <2> QED BY <1>1, <1>3, <2>3, <2>4, <2>5, <2>6, Others
<1>6. CASE FreeReclaimed(k)
  <2>1. /\ kpc[k] = "reclaim" /\ kpc' = [kpc EXCEPT ![k] = "slots"]
        /\ slot' = [slot EXCEPT ![s] = Token(@.generation, NoClient, "Free")]
    BY <1>6 DEF FreeReclaimed, Step
  <2>2. kpc'[k] = "slots"
    BY <2>1 DEF RegInv, RegTypes
  <2>3. RegTypes'
    BY <2>1, <1>1 DEF RegInv, RegTypes, Tokens, Gated, Token
  <2>4. Registered(k)'
    BY <2>2, <1>1, <1>3 DEF Registered, Joined, Receiving
  <2>5. \A j \in Clients \ {k} : UNCHANGED <<kpc[j], mine[j], token[j]>>
    BY <2>1, <1>1 DEF RegInv, RegTypes
  <2>6. \A t \in Slots : slot[t].phase = "Active" => slot'[t] = slot[t]
    <3>1. slot[s].phase = "Reclaiming"
      BY <2>1, <1>2 DEF Registered
    <3> QED BY <2>1, <3>1 DEF RegInv, RegTypes
  <2> QED BY <1>1, <1>3, <2>3, <2>4, <2>5, <2>6, Others
<1>7. CASE TakeSlot(k)
  <2>1. /\ slot[s].phase = "Free"
        /\ kpc' = [kpc EXCEPT ![k] = "fill"]
        /\ slot' = [slot EXCEPT ![s] = Token(@.generation + 1, k, "Initializing")]
    BY <1>7 DEF TakeSlot, Step
  <2>2. kpc'[k] = "fill" /\ slot'[s].pid = k /\ slot'[s].phase = "Initializing"
    BY <2>1, <1>1 DEF RegInv, RegTypes, Token
  <2>3. RegTypes'
    BY <2>1, <1>1 DEF RegInv, RegTypes, Tokens, Gated, Token
  <2>4. Registered(k)'
    BY <2>2, <1>1, <1>3 DEF Registered, Joined, Receiving, Owns
  <2>5. \A j \in Clients \ {k} : UNCHANGED <<kpc[j], mine[j], token[j]>>
    BY <2>1, <1>1 DEF RegInv, RegTypes
  <2>6. \A t \in Slots : slot[t].phase = "Active" => slot'[t] = slot[t]
    BY <2>1 DEF RegInv, RegTypes
  <2> QED BY <1>1, <1>3, <2>3, <2>4, <2>5, <2>6, Others
<1> QED BY <1>5, <1>6, <1>7

\* The snapshot is taken and the slot made active; the token says so.
LEMMA ActivateReg ==
  ASSUME RegInv, NEW k \in Clients, FillCursors(k) \/ StoreActive(k)
  PROVE  RegInv'
<1> DEFINE s == mine[k]
<1>1. /\ alive[k] /\ kpc[k] \in {"fill", "activate"}
      /\ UNCHANGED <<gate, mine, alive>>
      /\ s \in Slots /\ slot[s] \in Tokens
  BY DEF FillCursors, StoreActive, Step, RegInv, RegTypes
<1>2. Registered(k)
  BY <1>1 DEF RegInv, LiveClients
<1>3. gate = k /\ token[k] = NoToken /\ Owns(k, "Initializing")
  BY <1>1, <1>2 DEF Registered, Gated, Joined, Receiving
<1>4. CASE FillCursors(k)
  <2>1. kpc' = [kpc EXCEPT ![k] = "activate"] /\ UNCHANGED <<slot, token>>
    BY <1>4 DEF FillCursors, Step
  <2>2. RegTypes' /\ kpc'[k] = "activate"
    BY <2>1, <1>1 DEF RegInv, RegTypes, Gated
  <2>3. \A j \in Clients \ {k} : UNCHANGED <<kpc[j], mine[j], token[j]>>
    BY <2>1, <1>1 DEF RegInv, RegTypes
  <2>4. Registered(k)'
    BY <2>1, <2>2, <1>1, <1>3 DEF Registered, Owns, Joined, Receiving
  <2> QED BY <2>1, <2>2, <2>3, <2>4, <1>1, Alone
<1>5. CASE StoreActive(k)
  <2>1. /\ kpc' = [kpc EXCEPT ![k] = "leave"]
        /\ slot' = [slot EXCEPT ![s].phase = "Active"]
        /\ token' = [token EXCEPT ![k] = Token(slot[s].generation, k, "Active")]
    BY <1>5 DEF StoreActive, Step
  <2>2. RegTypes' /\ kpc'[k] = "leave"
    <3>1. slot' \in [Slots -> Tokens]
      BY <2>1, <1>1 DEF RegInv, RegTypes, Tokens
    <3>2. token' \in [Clients -> Tokens]
      BY <2>1, <1>1 DEF RegInv, RegTypes, Tokens, Token
    <3> QED BY <2>1, <3>1, <3>2, <1>1 DEF RegInv, RegTypes, Gated
  <2>3. \A j \in Clients \ {k} : UNCHANGED <<kpc[j], mine[j], token[j]>>
    BY <2>1, <1>1 DEF RegInv, RegTypes
  <2>4. slot'[s] = Token(slot[s].generation, k, "Active") /\ token'[k] = slot'[s]
    BY <2>1, <1>1, <1>3 DEF RegInv, RegTypes, Tokens, Token, Owns
  <2>5. Subscribed(k)'
    BY <2>4, <1>1 DEF Subscribed, Owns, HasConsumer, Token
  <2>6. Registered(k)'
    BY <2>2, <2>5, <1>1, <1>3 DEF Registered, Joined, Receiving
  <2>7. \A t \in Slots : slot[t].phase = "Active" => slot'[t] = slot[t]
    BY <2>1, <1>3 DEF RegInv, RegTypes, Owns
  <2> QED BY <1>1, <1>3, <2>2, <2>3, <2>6, <2>7, Others
<1> QED BY <1>4, <1>5

\* The gate is let go of by its holder, with a subscription or without.
LEMMA ReleaseGateReg ==
  ASSUME RegInv, NEW k \in Clients, ReleaseGate(k)
  PROVE  RegInv'
<1>1. /\ alive[k] /\ kpc[k] = "leave"
      /\ kpc' = [kpc EXCEPT ![k] = IF token[k] = NoToken THEN "out" ELSE "joined"]
      /\ gate' = IF gate = k THEN NoClient ELSE gate
      /\ UNCHANGED <<slot, mine, token, alive>>
  BY DEF ReleaseGate, Step
<1>2. Registered(k)
  BY <1>1 DEF RegInv, LiveClients
<1>3. gate = k /\ (token[k] = NoToken \/ Subscribed(k))
  BY <1>1, <1>2 DEF Registered, Gated, Joined, Receiving
<1>4. RegTypes'
  BY <1>1 DEF RegInv, RegTypes
<1>5. \A j \in Clients \ {k} : UNCHANGED <<kpc[j], mine[j], token[j]>>
  BY <1>1 DEF RegInv, RegTypes
<1>6. Registered(k)'
  <2>1. CASE token[k] = NoToken
    <3>1. kpc'[k] = "out" /\ token'[k] = NoToken
      BY <1>1, <2>1 DEF RegInv, RegTypes
    <3> QED BY <3>1 DEF Registered, Gated, Joined, Receiving
  <2>2. CASE token[k] # NoToken
    <3>1. kpc'[k] = "joined"
      BY <1>1, <2>2 DEF RegInv, RegTypes
    <3>2. Subscribed(k)'
      BY <1>1, <1>3, <2>2 DEF Subscribed, Owns, HasConsumer
    <3> QED BY <3>1, <3>2 DEF Registered, Gated, Joined
  <2> QED BY <2>1, <2>2
<1> QED BY <1>1, <1>3, <1>4, <1>5, <1>6, Others

\* release_consumer() marks its slot, clears the cursors and frees it.
LEMMA ReleaseSlotReg ==
  ASSUME RegInv, NEW k \in Clients, MarkReleasing(k) \/ FreeSlot(k)
  PROVE  RegInv'
<1> DEFINE s == mine[k]
<1>1. /\ alive[k] /\ kpc[k] \in {"closing", "freeing"}
      /\ UNCHANGED <<gate, alive>>
      /\ s \in Slots /\ slot[s] \in Tokens
  BY DEF MarkReleasing, FreeSlot, Step, RegInv, RegTypes
<1>2. Registered(k)
  BY <1>1 DEF RegInv, LiveClients
<1>3. gate = k
  BY <1>1, <1>2 DEF Registered, Gated
<1>4. CASE MarkReleasing(k)
  <2>1. Subscribed(k)
    BY <1>4, <1>2 DEF MarkReleasing, Step, Registered, Joined
  <2>2. /\ kpc' = [kpc EXCEPT ![k] = "freeing"]
        /\ slot' = [slot EXCEPT ![s].phase = "Releasing"]
        /\ token' = [token EXCEPT ![k] = NoToken]
        /\ UNCHANGED mine
    BY <1>4, <2>1 DEF MarkReleasing, Step, Subscribed
  <2>3. RegTypes' /\ kpc'[k] = "freeing" /\ token'[k] = NoToken
    <3>1. slot' \in [Slots -> Tokens]
      BY <2>2, <1>1 DEF RegInv, RegTypes, Tokens
    <3> QED BY <2>2, <3>1, <1>1, Names DEF RegInv, RegTypes, Gated
  <2>4. \A j \in Clients \ {k} : UNCHANGED <<kpc[j], mine[j], token[j]>>
    BY <2>2 DEF RegInv, RegTypes
  <2>5. Owns(k, "Releasing")'
    BY <2>1, <2>2, <1>1 DEF Subscribed, Owns, RegInv, RegTypes, Tokens
  <2>6. Registered(k)'
    BY <2>3, <2>5, <1>1, <1>3 DEF Registered, Joined, Receiving
  <2>7. \A t \in Slots : slot[t].pid \in LiveClients \ {k} => slot'[t] = slot[t]
    BY <2>1, <2>2 DEF Subscribed, Owns, RegInv, RegTypes
  <2> QED BY <1>1, <1>3, <2>3, <2>4, <2>6, <2>7, Others
<1>5. CASE FreeSlot(k)
  <2>1. /\ kpc[k] = "freeing" /\ kpc' = [kpc EXCEPT ![k] = "leave"]
        /\ slot' = [slot EXCEPT ![s] = Token(@.generation, NoClient, "Free")]
        /\ mine' = [mine EXCEPT ![k] = 0]
        /\ UNCHANGED token
    BY <1>5 DEF FreeSlot, Step
  <2>2. Owns(k, "Releasing") /\ token[k] = NoToken
    BY <2>1, <1>2 DEF Registered, Joined, Receiving
  <2>3. RegTypes' /\ kpc'[k] = "leave"
    <3>1. slot' \in [Slots -> Tokens]
      BY <2>1, <1>1 DEF RegInv, RegTypes, Tokens, Token
    <3> QED BY <2>1, <3>1, <1>1, Names DEF RegInv, RegTypes, Gated
  <2>4. \A j \in Clients \ {k} : UNCHANGED <<kpc[j], mine[j], token[j]>>
    BY <2>1 DEF RegInv, RegTypes
  <2>5. Registered(k)'
    BY <2>1, <2>2, <2>3, <1>1, <1>3 DEF Registered, Joined, Receiving
  <2>6. \A t \in Slots : slot[t].pid \in LiveClients \ {k} => slot'[t] = slot[t]
    BY <2>1, <2>2 DEF Owns, RegInv, RegTypes
  <2> QED BY <1>1, <1>3, <2>3, <2>4, <2>5, <2>6, Others
<1> QED BY <1>4, <1>5

-----------------------------------------------------------------------------
(* The theorems *)

\* create_named_state() makes every slot free and the gate open.
LEMMA InitReg == Init => RegInv
<1> SUFFICES ASSUME Init PROVE RegInv
  OBVIOUS
<1>1. RegTypes
  BY Names DEF Init, RegTypes
<1>2. ASSUME NEW k \in LiveClients PROVE Registered(k)
  <2>1. kpc[k] = "out" /\ token[k] = NoToken
    BY DEF Init, LiveClients
  <2> QED BY <2>1 DEF Registered, Gated, Joined, Receiving
<1> QED BY <1>1, <1>2 DEF RegInv

\* Every step keeps it.
LEMMA NextReg == RegInv /\ [Next]_vars => RegInv'
<1> SUFFICES ASSUME RegInv, [Next]_vars PROVE RegInv'
  OBVIOUS
<1>1. ASSUME NEW p \in Producers, Claim(p) \/ CommitAny(p) \/ ProducerDies(p)
      PROVE  RegInv'
  BY <1>1, ProducerReg
<1>2. ASSUME NEW k \in Clients, AcquireConsumer(k) \/ ReleaseConsumer(k)
      PROVE  RegInv'
  BY <1>2, TakeGateReg
<1>3. ASSUME NEW k \in Clients, Register(k)
      PROVE  RegInv'
  BY <1>3, SearchReg, TakeSlotReg, ActivateReg, ReleaseGateReg, ReceiveReg,
     ReleaseSlotReg DEF Register
<1>4. ASSUME NEW k \in Clients, Receive(k) \/ ClientDies(k)
      PROVE  RegInv'
  BY <1>4, ReceiveReg, DeathReg
<1>5. CASE UNCHANGED vars
  <2>1. UNCHANGED <<slot, gate, kpc, mine, token, alive>>
    BY <1>5 DEF vars, clientVars
  <2> QED BY <2>1 DEF RegInv, RegTypes, Registered, Subscribed, Owns,
             HasConsumer, LiveClients
<1> QED BY <1>1, <1>2, <1>3, <1>4, <1>5 DEF Next

\* Registration keeps every client's phase in step with the gate, the slots and
\* its token, however many processes join, leave and die, and whatever
\* publishers and receivers do meanwhile.
THEOREM RegistrationInvariance == SafeSpec => []RegInv
BY InitReg, NextReg, PTL DEF SafeSpec

\* A subscription is its process's from StoreActive() to release_consumer():
\* no other client reclaims, takes or frees the slot of a live subscriber.
THEOREM RegistrationsAreKept == SafeSpec => []RegistrationKept
<1>1. RegInv => RegistrationKept
  BY DEF RegInv, RegistrationKept, Reading, LiveClients, Registered, Joined,
         Receiving, Subscribed
<1> QED BY <1>1, RegistrationInvariance, PTL

=============================================================================
