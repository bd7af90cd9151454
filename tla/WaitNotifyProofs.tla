--------------------------- MODULE WaitNotifyProofs ---------------------------
(***************************************************************************)
(* Proofs about WaitNotify for every number of producers and subscribers.  *)
(***************************************************************************)
EXTENDS WaitNotify, TLAPS

\* n is the last message p claimed: what Mine(p) chooses.
LastOf(p, n) ==
  /\ n \in 0 .. Len(log) - 1
  /\ log[n + 1] = p
  /\ \A k \in n + 1 .. Len(log) - 1 : log[k + 1] # p

\* A dead subscriber has no recv() going on; one that is registered owns its slot,
\* and a ticket is never older than the slot's token.
Owned ==
  \A s \in Subscribers :
    /\ ticket[s] \in {0, token[s]} /\ slot[s] \in {0, token[s]}
    /\ ~alive[<<"s", s>>] => rpc[s] = "out"
    /\ rpc[s] # "out" => slot[s] = token[s] /\ token[s] # 0

\* Notifications stay on once somebody armed, who has done with spinning, and an
\* epoch taken is not ahead.
Armed ==
  \A s \in Subscribers :
    /\ rpc[s] = "ticket" \/ armed[s] => enabled
    /\ armed[s] => /\ rpc[s] \notin {"out", "idle", "arm", "active", "ticket"}
                   /\ active[s] /\ spins[s] = SpinAttempts
    /\ rpc[s] \in {"arm", "active", "ticket", "state", "wait", "asleep", "clear"} =>
         spins[s] = SpinAttempts
    /\ rpc[s] \in {"out", "idle"} => spins[s] = 0
    /\ expected[s] <= epoch

\* The loop over the slots starts at slot 0, and a ticket in hand leads to a wake-up.
Looping ==
  \A p \in Producers :
    /\ ppc[p] \notin {"scan", "ticket"} => at[p] = 0
    /\ ppc[p] \in {"rebump", "wake"} => consumed[p]

\* What waits in a store buffer either was found unannounced or is the message
\* being announced.
Announced ==
  \A p \in Producers :
    \A n \in buffer[p] : n \in unannounced \/ (ppc[p] \in {"check", "bump"} /\ LastOf(p, n))

\* p holds a ticket and has still to wake its owner.
Holding(p, pcs) == alive[<<"p", p>>] /\ consumed[p] /\ ppc[p] \in pcs

\* A subscriber about to sleep, or asleep, has its ticket in place or a publisher
\* took it and will move the epoch, or wake.
TicketOrWaker ==
  \A s \in Subscribers :
    armed[s] /\ ~Interrupted =>
      /\ rpc[s] = "wait" => \/ ticket[s] = token[s]
                            \/ expected[s] < epoch
                            \/ \E p \in Producers : Holding(p, {"scan", "ticket", "rebump"})
      /\ rpc[s] = "asleep" => \/ ticket[s] = token[s]
                              \/ \E p \in Producers :
                                   Holding(p, {"scan", "ticket", "rebump", "wake"})

\* A message that came after the last scan: its publisher has moved the epoch, or
\* is about to.
EpochMoves ==
  \A s \in Subscribers :
    /\ armed[s] /\ rpc[s] \in {"state", "wait"} /\ ~Interrupted
    /\ Published(next[s]) /\ next[s] \notin unannounced
    => \/ expected[s] < epoch
       \/ \E p \in Producers : /\ alive[<<"p", p>>] /\ ppc[p] \in {"check", "bump"}
                               /\ LastOf(p, next[s])

\* A publication in progress has a number.
Numbered ==
  \A p \in Producers : ppc[p] # "idle" => \E n \in 0 .. Len(log) - 1 : LastOf(p, n)

\* The inductive invariant.
IndInv == /\ TypeOK /\ Numbered /\ Owned /\ Armed /\ Looping /\ Announced
          /\ TicketOrWaker /\ EpochMoves /\ NoLostWakeup

-----------------------------------------------------------------------------
(* The operators *)

\* Mine(p) is the last message p claimed, and there is only one.
LEMMA MineLast ==
  ASSUME log \in Seq(Producers), NEW p \in Producers, NEW m, LastOf(p, m)
  PROVE  LastOf(p, Mine(p)) /\ Mine(p) = m
<1>1. LastOf(p, Mine(p))
  BY DEF LastOf, Mine
<1>2. \A n, k : LastOf(p, n) /\ LastOf(p, k) => n = k
  BY DEF LastOf
<1> QED BY <1>1, <1>2

\* A claim makes its number the last of its producer and keeps that of the others.
LEMMA LastAppend ==
  ASSUME log \in Seq(Producers), NEW q \in Producers, log' = Append(log, q)
  PROVE  /\ \A n : n = Len(log) => LastOf(q, n)'
         /\ \A p \in Producers \ {q} : \A n : LastOf(p, n) => LastOf(p, n)'
<1>1. /\ Len(log) \in Nat /\ Len(log') = Len(log) + 1
      /\ log'[Len(log) + 1] = q
      /\ \A i \in 1 .. Len(log) : log'[i] = log[i]
  OBVIOUS
<1>2. \A n : n = Len(log) => LastOf(q, n)'
  BY <1>1 DEF LastOf
<1>3. ASSUME NEW p \in Producers \ {q}, NEW n, LastOf(p, n)
      PROVE  LastOf(p, n)'
  <2>1. n \in 0 .. Len(log) - 1 /\ log[n + 1] = p
    BY <1>3 DEF LastOf
  <2>2. n \in 0 .. Len(log') - 1 /\ log'[n + 1] = p
    BY <1>1, <2>1
  <2>3. ASSUME NEW k \in n + 1 .. Len(log') - 1 PROVE log'[k + 1] # p
    <3>1. CASE k = Len(log)
      BY <3>1, <1>1
    <3>2. CASE k # Len(log)
      <4>1. k \in n + 1 .. Len(log) - 1 /\ k + 1 \in 1 .. Len(log)
        BY <3>2, <1>1, <2>1
      <4> QED BY <4>1, <1>1, <1>3 DEF LastOf
    <3> QED BY <3>1, <3>2
  <2> QED BY <2>2, <2>3 DEF LastOf
<1> QED BY <1>2, <1>3

\* Slots and processes are what their numbering says.
LEMMA Index ==
  /\ 0 \in Subscribers /\ Subscribers \subseteq Nat
  /\ \A s \in Subscribers : /\ s < SubscriberCount /\ (s + 1) % SubscriberCount \in Subscribers
                            /\ s + 1 < SubscriberCount => (s + 1) % SubscriberCount = s + 1
                            /\ s + 1 >= SubscriberCount => (s + 1) % SubscriberCount = 0
  /\ \A p \in Producers : <<"p", p>> \in Processes
  /\ \A s \in Subscribers : <<"s", s>> \in Processes
  /\ \A s \in Subscribers, p \in Producers : <<"p", p>> # <<"s", s>>
<1>1. SubscriberCount \in Nat /\ SubscriberCount > 0
  BY WaitAssumption
<1>2. \A s \in Subscribers : s \in Nat /\ s < SubscriberCount
  BY <1>1 DEF Subscribers
<1>3. \A s \in Subscribers : s + 1 < SubscriberCount => (s + 1) % SubscriberCount = s + 1
  BY <1>1, <1>2
<1>4. \A s \in Subscribers : s + 1 >= SubscriberCount => (s + 1) % SubscriberCount = 0
  <2> SUFFICES ASSUME NEW s \in Subscribers, s + 1 >= SubscriberCount
               PROVE  (s + 1) % SubscriberCount = 0
    OBVIOUS
  <2>1. s + 1 = SubscriberCount
    BY <1>1, <1>2
  <2> QED BY <1>1, <2>1
<1>5. \A s \in Subscribers : (s + 1) % SubscriberCount \in Subscribers
  BY <1>1 DEF Subscribers
<1> QED BY <1>1, <1>2, <1>3, <1>4, <1>5 DEF Subscribers, Processes

-----------------------------------------------------------------------------
(* Types *)

\* The constructors give every variable its type.
LEMMA TypeInit == Init => TypeOK /\ Numbered
<1> SUFFICES ASSUME Init PROVE TypeOK /\ Numbered
  OBVIOUS
<1>1. TypeOK
  <2>1. MemoryTypes
    <3>1. <<>> \in Seq(Producers) /\ Len(<<>>) = 0
      OBVIOUS
    <3>2. log \in Seq(Producers) /\ Len(log) <= MaxMessages
      BY <3>1, WaitAssumption DEF Init
    <3>3. visible \cup unannounced \subseteq 0 .. MaxMessages - 1
      BY DEF Init
    <3>4. alive \in [Processes -> BOOLEAN]
      BY Zenon DEF Init
    <3>5. enabled \in BOOLEAN /\ epoch \in Nat
      BY DEF Init
    <3>6. /\ ticket \in [Subscribers -> 0 .. MaxGenerations]
          /\ slot \in [Subscribers -> 0 .. MaxGenerations]
          /\ token \in [Subscribers -> 0 .. MaxGenerations]
      BY WaitAssumption DEF Init
    <3> QED BY <3>2, <3>3, <3>4, <3>5, <3>6 DEF MemoryTypes
  <2>2. ProducerTypes BY Index, WaitAssumption DEF Init, ProducerTypes
  <2>3. SubscriberTypes BY WaitAssumption DEF Init, SubscriberTypes
  <2> QED BY <2>1, <2>2, <2>3 DEF TypeOK
<1>2. Numbered
  BY DEF Init, Numbered
<1> QED BY <1>1, <1>2

\* Every step keeps the types, and a number with every publication in progress.
LEMMA TypeStep ==
  ASSUME TypeOK, Numbered, [Next]_vars
  PROVE  TypeOK' /\ Numbered'
<1> USE DEF messageVars, wordVars, slotVars, producerVars, recvVars, vars
<1>0. \A p \in Producers : ppc[p] # "idle" => Mine(p) \in 0 .. MaxMessages - 1
  <2> SUFFICES ASSUME NEW p \in Producers, ppc[p] # "idle" PROVE Mine(p) \in 0 .. MaxMessages - 1
    OBVIOUS
  <2>1. PICK n \in 0 .. Len(log) - 1 : LastOf(p, n)
    BY DEF Numbered
  <2>2. Mine(p) = n
    BY <2>1, MineLast DEF TypeOK, MemoryTypes
  <2> QED BY <2>2, WaitAssumption DEF TypeOK, MemoryTypes
<1>1. ASSUME NEW p \in Producers, Claim(p) PROVE TypeOK' /\ Numbered'
  <2>0. log' \in Seq(Producers) /\ Len(log') = Len(log) + 1 /\ Len(log) \in Nat
    BY <1>1 DEF Claim, MemoryTypes, TypeOK
  <2>1. MemoryTypes'
    BY <1>1, <2>0, WaitAssumption DEF Claim, MemoryTypes, TypeOK
  <2>2. ProducerTypes'
    BY <1>1 DEF Claim, PStep, ProducerTypes, TypeOK
  <2>3. SubscriberTypes'
    BY <1>1 DEF Claim, PStep, SubscriberTypes, TypeOK
  <2>4. Numbered'
    <3> SUFFICES ASSUME NEW q \in Producers, ppc'[q] # "idle"
                 PROVE  \E n \in 0 .. Len(log') - 1 : LastOf(q, n)'
      BY DEF Numbered
    <3>1. CASE q = p
      <4>1. log \in Seq(Producers) /\ log' = Append(log, p)
        BY <1>1 DEF Claim, TypeOK, MemoryTypes
      <4>2. PICK n \in 0 .. Len(log') - 1 : n = Len(log)
        BY <2>0
      <4>3. LastOf(p, n)'
        BY <4>1, <4>2, LastAppend
      <4> QED BY <3>1, <4>3
    <3>2. CASE q # p
      <4>1. PICK n \in 0 .. Len(log) - 1 : LastOf(q, n)
        BY <3>2, <1>1 DEF Numbered, Claim, PStep, TypeOK, ProducerTypes
      <4>2. LastOf(q, n)'
        BY <4>1, <3>2, <1>1, LastAppend DEF Claim, TypeOK, MemoryTypes
      <4> QED BY <4>2, <2>0
    <3> QED BY <3>1, <3>2
  <2> QED BY <2>1, <2>2, <2>3, <2>4 DEF TypeOK
<1>2. ASSUME NEW p \in Producers, PublishContiguous(p) PROVE TypeOK' /\ Numbered'
  <2>1. MemoryTypes'
    BY <1>2 DEF PublishContiguous, PStep, MemoryTypes, TypeOK
  <2>2. ProducerTypes'
    BY <1>2, <1>0 DEF PublishContiguous, PStep, ProducerTypes, TypeOK
  <2>3. SubscriberTypes'
    BY <1>2 DEF PublishContiguous, PStep, SubscriberTypes, TypeOK
  <2>4. Numbered'
    <3>1. \A q \in Producers : ppc'[q] # "idle" => ppc[q] # "idle"
      BY <1>2 DEF PublishContiguous, PStep, TypeOK, ProducerTypes
    <3> QED BY <3>1, <1>2 DEF Numbered, LastOf, PublishContiguous
  <2> QED BY <2>1, <2>2, <2>3, <2>4 DEF TypeOK
<1>3. ASSUME NEW p \in Producers, NeedsWake(p) PROVE TypeOK' /\ Numbered'
  <2>1. MemoryTypes'
    BY <1>3, <1>0 DEF NeedsWake, PStep, MemoryTypes, TypeOK, ProducerTypes
  <2>2. ProducerTypes'
    BY <1>3 DEF NeedsWake, PStep, ProducerTypes, TypeOK
  <2>3. SubscriberTypes'
    BY <1>3 DEF NeedsWake, PStep, SubscriberTypes, TypeOK
  <2>4. Numbered'
    <3>1. \A q \in Producers : ppc'[q] # "idle" => ppc[q] # "idle"
      BY <1>3 DEF NeedsWake, PStep, TypeOK, ProducerTypes
    <3> QED BY <3>1, <1>3 DEF Numbered, LastOf, NeedsWake
  <2> QED BY <2>1, <2>2, <2>3, <2>4 DEF TypeOK
<1>4. ASSUME NEW p \in Producers, BumpEpoch(p) PROVE TypeOK' /\ Numbered'
  <2>1. MemoryTypes'
    BY <1>4 DEF BumpEpoch, PStep, MemoryTypes, TypeOK, ProducerTypes
  <2>2. ProducerTypes'
    BY <1>4 DEF BumpEpoch, PStep, ProducerTypes, TypeOK
  <2>3. SubscriberTypes'
    BY <1>4 DEF BumpEpoch, PStep, SubscriberTypes, TypeOK
  <2>4. Numbered'
    <3>1. \A q \in Producers : ppc'[q] # "idle" => ppc[q] # "idle"
      BY <1>4 DEF BumpEpoch, PStep, TypeOK, ProducerTypes
    <3> QED BY <3>1, <1>4 DEF Numbered, LastOf, BumpEpoch
  <2> QED BY <2>1, <2>2, <2>3, <2>4 DEF TypeOK
<1>5. ASSUME NEW p \in Producers, LoadRegistration(p) PROVE TypeOK' /\ Numbered'
  <2>1. MemoryTypes'
    BY <1>5 DEF LoadRegistration, PStep, AfterSlot, NextSlot, MemoryTypes, TypeOK
  <2>2. ProducerTypes'
    BY <1>5, Index DEF LoadRegistration, PStep, AfterSlot, NextSlot, ProducerTypes, TypeOK, MemoryTypes
  <2>3. SubscriberTypes'
    BY <1>5 DEF LoadRegistration, PStep, AfterSlot, NextSlot, SubscriberTypes, TypeOK
  <2>4. Numbered'
    <3>1. \A q \in Producers : ppc'[q] # "idle" => ppc[q] # "idle"
      BY <1>5 DEF LoadRegistration, PStep, AfterSlot, NextSlot, TypeOK, ProducerTypes
    <3> QED BY <3>1, <1>5 DEF Numbered, LastOf, LoadRegistration
  <2> QED BY <2>1, <2>2, <2>3, <2>4 DEF TypeOK
<1>6. ASSUME NEW p \in Producers, ConsumeTicket(p) PROVE TypeOK' /\ Numbered'
  <2>1. MemoryTypes'
    BY <1>6, WaitAssumption DEF ConsumeTicket, PStep, AfterSlot, NextSlot, MemoryTypes, TypeOK, ProducerTypes
  <2>2. ProducerTypes'
    <3>1. at' \in [Producers -> Subscribers]
      BY <1>6, Index DEF ConsumeTicket, NextSlot, ProducerTypes, TypeOK
    <3>2. registration' \in [Producers -> 0 .. MaxGenerations]
      BY <1>6, WaitAssumption DEF ConsumeTicket, ProducerTypes, TypeOK
    <3> QED BY <3>1, <3>2, <1>6 DEF ConsumeTicket, PStep, AfterSlot, ProducerTypes, TypeOK
  <2>3. SubscriberTypes'
    BY <1>6 DEF ConsumeTicket, PStep, AfterSlot, NextSlot, SubscriberTypes, TypeOK
  <2>4. Numbered'
    <3>1. \A q \in Producers : ppc'[q] # "idle" => ppc[q] # "idle"
      BY <1>6 DEF ConsumeTicket, PStep, AfterSlot, NextSlot, TypeOK, ProducerTypes
    <3> QED BY <3>1, <1>6 DEF Numbered, LastOf, ConsumeTicket
  <2> QED BY <2>1, <2>2, <2>3, <2>4 DEF TypeOK
<1>7. ASSUME NEW p \in Producers, Rebump(p) PROVE TypeOK' /\ Numbered'
  <2>1. MemoryTypes'
    BY <1>7 DEF Rebump, PStep, MemoryTypes, TypeOK
  <2>2. ProducerTypes'
    BY <1>7 DEF Rebump, PStep, ProducerTypes, TypeOK
  <2>3. SubscriberTypes'
    BY <1>7 DEF Rebump, PStep, SubscriberTypes, TypeOK
  <2>4. Numbered'
    <3>1. \A q \in Producers : ppc'[q] # "idle" => ppc[q] # "idle"
      BY <1>7 DEF Rebump, PStep, TypeOK, ProducerTypes
    <3> QED BY <3>1, <1>7 DEF Numbered, LastOf, Rebump
  <2> QED BY <2>1, <2>2, <2>3, <2>4 DEF TypeOK
<1>8. ASSUME NEW p \in Producers, Wake(p) PROVE TypeOK' /\ Numbered'
  <2>1. MemoryTypes'
    BY <1>8 DEF Wake, PStep, MemoryTypes, TypeOK
  <2>2. ProducerTypes'
    BY <1>8 DEF Wake, PStep, ProducerTypes, TypeOK
  <2>3. SubscriberTypes'
    BY <1>8 DEF Wake, PStep, SubscriberTypes, TypeOK
  <2>4. Numbered'
    <3>1. \A q \in Producers : ppc'[q] # "idle" => ppc[q] # "idle"
      BY <1>8 DEF Wake, PStep, TypeOK, ProducerTypes
    <3> QED BY <3>1, <1>8 DEF Numbered, LastOf, Wake
  <2> QED BY <2>1, <2>2, <2>3, <2>4 DEF TypeOK
<1>9. ASSUME NEW p \in Producers, Drain(p) PROVE TypeOK' /\ Numbered'
  <2>1. MemoryTypes'
    BY <1>9 DEF Drain, MemoryTypes, TypeOK, ProducerTypes
  <2>2. ProducerTypes'
    BY <1>9 DEF Drain, ProducerTypes, TypeOK
  <2>3. SubscriberTypes'
    BY <1>9 DEF Drain, SubscriberTypes, TypeOK
  <2>4. Numbered'
    BY <1>9 DEF Numbered, LastOf, Drain
  <2> QED BY <2>1, <2>2, <2>3, <2>4 DEF TypeOK
<1>10. ASSUME NEW p \in Producers, ProducerDies(p) PROVE TypeOK' /\ Numbered'
  <2>1. MemoryTypes'
    BY <1>10 DEF ProducerDies, MemoryTypes, TypeOK, ProducerTypes
  <2>2. ProducerTypes'
    BY <1>10 DEF ProducerDies, ProducerTypes, TypeOK
  <2>3. SubscriberTypes'
    BY <1>10 DEF ProducerDies, SubscriberTypes, TypeOK
  <2>4. Numbered'
    BY <1>10 DEF Numbered, LastOf, ProducerDies
  <2> QED BY <2>1, <2>2, <2>3, <2>4 DEF TypeOK
<1>11. ASSUME NEW s \in Subscribers, Recv(s) PROVE TypeOK' /\ Numbered'
  <2>1. MemoryTypes'
    BY <1>11 DEF Recv, SStep, MemoryTypes, TypeOK
  <2>2. ProducerTypes'
    BY <1>11 DEF Recv, SStep, ProducerTypes, TypeOK
  <2>3. SubscriberTypes'
    BY <1>11 DEF Recv, SStep, SubscriberTypes, TypeOK
  <2>4. Numbered'
    BY <1>11 DEF Numbered, LastOf, Recv, SStep
  <2> QED BY <2>1, <2>2, <2>3, <2>4 DEF TypeOK
<1>12. ASSUME NEW s \in Subscribers, Activate(s) PROVE TypeOK' /\ Numbered'
  <2>1. MemoryTypes'
    BY <1>12 DEF Activate, SStep, MemoryTypes, TypeOK
  <2>2. ProducerTypes'
    BY <1>12 DEF Activate, SStep, ProducerTypes, TypeOK
  <2>3. SubscriberTypes'
    BY <1>12 DEF Activate, SStep, SubscriberTypes, TypeOK
  <2>4. Numbered'
    BY <1>12 DEF Numbered, LastOf, Activate, SStep
  <2> QED BY <2>1, <2>2, <2>3, <2>4 DEF TypeOK
<1>13. ASSUME NEW s \in Subscribers, ActivateFails(s) PROVE TypeOK' /\ Numbered'
  <2>1. MemoryTypes'
    BY <1>13 DEF ActivateFails, SStep, MemoryTypes, TypeOK
  <2>2. ProducerTypes'
    BY <1>13 DEF ActivateFails, SStep, ProducerTypes, TypeOK
  <2>3. SubscriberTypes'
    BY <1>13 DEF ActivateFails, SStep, SubscriberTypes, TypeOK
  <2>4. Numbered'
    BY <1>13 DEF Numbered, LastOf, ActivateFails, SStep
  <2> QED BY <2>1, <2>2, <2>3, <2>4 DEF TypeOK
<1>14. ASSUME NEW s \in Subscribers, LoadActive(s) PROVE TypeOK' /\ Numbered'
  <2>1. MemoryTypes'
    BY <1>14 DEF LoadActive, SStep, MemoryTypes, TypeOK
  <2>2. ProducerTypes'
    BY <1>14 DEF LoadActive, SStep, ProducerTypes, TypeOK
  <2>3. SubscriberTypes'
    BY <1>14 DEF LoadActive, SStep, SubscriberTypes, TypeOK, MemoryTypes
  <2>4. Numbered'
    BY <1>14 DEF Numbered, LastOf, LoadActive, SStep
  <2> QED BY <2>1, <2>2, <2>3, <2>4 DEF TypeOK
<1>15. ASSUME NEW s \in Subscribers, ArmTicket(s) PROVE TypeOK' /\ Numbered'
  <2>1. MemoryTypes'
    BY <1>15 DEF ArmTicket, SStep, MemoryTypes, TypeOK
  <2>2. ProducerTypes'
    BY <1>15 DEF ArmTicket, SStep, ProducerTypes, TypeOK
  <2>3. SubscriberTypes'
    BY <1>15 DEF ArmTicket, SStep, SubscriberTypes, TypeOK
  <2>4. Numbered'
    BY <1>15 DEF Numbered, LastOf, ArmTicket, SStep
  <2> QED BY <2>1, <2>2, <2>3, <2>4 DEF TypeOK
<1>16. ASSUME NEW s \in Subscribers, Snapshot(s) PROVE TypeOK' /\ Numbered'
  <2>1. MemoryTypes'
    BY <1>16 DEF Snapshot, SStep, MemoryTypes, TypeOK
  <2>2. ProducerTypes'
    BY <1>16 DEF Snapshot, SStep, ProducerTypes, TypeOK
  <2>3. SubscriberTypes'
    BY <1>16 DEF Snapshot, SStep, SubscriberTypes, TypeOK, MemoryTypes
  <2>4. Numbered'
    BY <1>16 DEF Numbered, LastOf, Snapshot, SStep
  <2> QED BY <2>1, <2>2, <2>3, <2>4 DEF TypeOK
<1>17. ASSUME NEW s \in Subscribers, ScanHit(s) PROVE TypeOK' /\ Numbered'
  <2>1. MemoryTypes'
    BY <1>17 DEF ScanHit, SStep, MemoryTypes, TypeOK
  <2>2. ProducerTypes'
    BY <1>17 DEF ScanHit, SStep, ProducerTypes, TypeOK
  <2>3. SubscriberTypes'
    <3>1. next[s] \in 0 .. MaxMessages - 1
      BY <1>17 DEF ScanHit, TypeOK, MemoryTypes
    <3>2. next' \in [Subscribers -> 0 .. MaxMessages]
      BY <3>1, <1>17, WaitAssumption DEF ScanHit, SubscriberTypes, TypeOK
    <3> QED BY <3>2, <1>17 DEF ScanHit, SStep, SubscriberTypes, TypeOK
  <2>4. Numbered'
    BY <1>17 DEF Numbered, LastOf, ScanHit, SStep
  <2> QED BY <2>1, <2>2, <2>3, <2>4 DEF TypeOK
<1>18. ASSUME NEW s \in Subscribers, ScanMiss(s) PROVE TypeOK' /\ Numbered'
  <2>1. MemoryTypes'
    BY <1>18 DEF ScanMiss, SStep, MemoryTypes, TypeOK
  <2>2. ProducerTypes'
    BY <1>18 DEF ScanMiss, SStep, ProducerTypes, TypeOK
  <2>3. SubscriberTypes'
    BY <1>18, WaitAssumption DEF ScanMiss, SStep, SubscriberTypes, TypeOK
  <2>4. Numbered'
    BY <1>18 DEF Numbered, LastOf, ScanMiss, SStep
  <2> QED BY <2>1, <2>2, <2>3, <2>4 DEF TypeOK
<1>19. ASSUME NEW s \in Subscribers, WaitTicketState(s) PROVE TypeOK' /\ Numbered'
  <2>1. MemoryTypes'
    BY <1>19 DEF WaitTicketState, SStep, MemoryTypes, TypeOK
  <2>2. ProducerTypes'
    BY <1>19 DEF WaitTicketState, SStep, ProducerTypes, TypeOK
  <2>3. SubscriberTypes'
    BY <1>19 DEF WaitTicketState, SStep, SubscriberTypes, TypeOK
  <2>4. Numbered'
    BY <1>19 DEF Numbered, LastOf, WaitTicketState, SStep
  <2> QED BY <2>1, <2>2, <2>3, <2>4 DEF TypeOK
<1>20. ASSUME NEW s \in Subscribers, FutexWait(s) PROVE TypeOK' /\ Numbered'
  <2>1. MemoryTypes'
    BY <1>20 DEF FutexWait, SStep, MemoryTypes, TypeOK
  <2>2. ProducerTypes'
    BY <1>20 DEF FutexWait, SStep, ProducerTypes, TypeOK
  <2>3. SubscriberTypes'
    BY <1>20 DEF FutexWait, SStep, SubscriberTypes, TypeOK
  <2>4. Numbered'
    BY <1>20 DEF Numbered, LastOf, FutexWait, SStep
  <2> QED BY <2>1, <2>2, <2>3, <2>4 DEF TypeOK
<1>21. ASSUME NEW s \in Subscribers, Timeout(s) PROVE TypeOK' /\ Numbered'
  <2>1. MemoryTypes'
    BY <1>21 DEF Timeout, SStep, MemoryTypes, TypeOK
  <2>2. ProducerTypes'
    BY <1>21 DEF Timeout, SStep, ProducerTypes, TypeOK
  <2>3. SubscriberTypes'
    BY <1>21 DEF Timeout, SStep, SubscriberTypes, TypeOK
  <2>4. Numbered'
    BY <1>21 DEF Numbered, LastOf, Timeout, SStep
  <2> QED BY <2>1, <2>2, <2>3, <2>4 DEF TypeOK
<1>22. ASSUME NEW s \in Subscribers, ClearWaitNotification(s) PROVE TypeOK' /\ Numbered'
  <2>1. MemoryTypes'
    BY <1>22, WaitAssumption DEF ClearWaitNotification, SStep, MemoryTypes, TypeOK
  <2>2. ProducerTypes'
    BY <1>22 DEF ClearWaitNotification, SStep, ProducerTypes, TypeOK
  <2>3. SubscriberTypes'
    BY <1>22, WaitAssumption DEF ClearWaitNotification, SStep, SubscriberTypes, TypeOK
  <2>4. Numbered'
    BY <1>22 DEF Numbered, LastOf, ClearWaitNotification, SStep
  <2> QED BY <2>1, <2>2, <2>3, <2>4 DEF TypeOK
<1>23. ASSUME NEW s \in Subscribers, AcquireConsumer(s) PROVE TypeOK' /\ Numbered'
  <2>1. MemoryTypes'
    <3>1. token[s] + 1 \in 0 .. MaxGenerations
      BY <1>23, WaitAssumption DEF AcquireConsumer, MemoryTypes, TypeOK
    <3>2. alive' \in [Processes -> BOOLEAN]
      BY <1>23 DEF AcquireConsumer, MemoryTypes, TypeOK
    <3>3. /\ ticket' \in [Subscribers -> 0 .. MaxGenerations]
          /\ slot' \in [Subscribers -> 0 .. MaxGenerations]
          /\ token' \in [Subscribers -> 0 .. MaxGenerations]
      BY <3>1, <1>23, WaitAssumption DEF AcquireConsumer, MemoryTypes, TypeOK
    <3> QED BY <3>2, <3>3, <1>23 DEF AcquireConsumer, MemoryTypes, TypeOK
  <2>2. ProducerTypes'
    BY <1>23 DEF AcquireConsumer, ProducerTypes, TypeOK
  <2>3. SubscriberTypes'
    BY <1>23, WaitAssumption DEF AcquireConsumer, SubscriberTypes, TypeOK, MemoryTypes
  <2>4. Numbered'
    BY <1>23 DEF Numbered, LastOf, AcquireConsumer
  <2> QED BY <2>1, <2>2, <2>3, <2>4 DEF TypeOK
<1>24. ASSUME NEW s \in Subscribers, ReleaseConsumer(s) PROVE TypeOK' /\ Numbered'
  <2>1. MemoryTypes'
    BY <1>24, WaitAssumption DEF ReleaseConsumer, SStep, MemoryTypes, TypeOK
  <2>2. ProducerTypes'
    BY <1>24 DEF ReleaseConsumer, SStep, ProducerTypes, TypeOK
  <2>3. SubscriberTypes'
    BY <1>24 DEF ReleaseConsumer, SStep, SubscriberTypes, TypeOK
  <2>4. Numbered'
    BY <1>24 DEF Numbered, LastOf, ReleaseConsumer, SStep
  <2> QED BY <2>1, <2>2, <2>3, <2>4 DEF TypeOK
<1>25. ASSUME NEW s \in Subscribers, SubscriberDies(s) PROVE TypeOK' /\ Numbered'
  <2>1. MemoryTypes'
    BY <1>25 DEF SubscriberDies, MemoryTypes, TypeOK
  <2>2. ProducerTypes'
    BY <1>25 DEF SubscriberDies, ProducerTypes, TypeOK
  <2>3. SubscriberTypes'
    BY <1>25, WaitAssumption DEF SubscriberDies, SubscriberTypes, TypeOK
  <2>4. Numbered'
    BY <1>25 DEF Numbered, LastOf, SubscriberDies
  <2> QED BY <2>1, <2>2, <2>3, <2>4 DEF TypeOK
<1>26. ASSUME OtherActivates PROVE TypeOK' /\ Numbered'
  <2>1. MemoryTypes'
    BY <1>26 DEF OtherActivates, MemoryTypes, TypeOK
  <2>2. ProducerTypes'
    BY <1>26 DEF OtherActivates, ProducerTypes, TypeOK
  <2>3. SubscriberTypes'
    BY <1>26 DEF OtherActivates, SubscriberTypes, TypeOK
  <2>4. Numbered'
    BY <1>26 DEF Numbered, LastOf, OtherActivates
  <2> QED BY <2>1, <2>2, <2>3, <2>4 DEF TypeOK
<1>27. CASE UNCHANGED vars
  BY <1>27 DEF TypeOK, MemoryTypes, ProducerTypes, SubscriberTypes, Numbered, LastOf
<1> QED BY <1>1, <1>2, <1>3, <1>4, <1>5, <1>6, <1>7, <1>8, <1>9, <1>10, <1>11, <1>12, <1>13, <1>14, <1>15, <1>16, <1>17, <1>18, <1>19, <1>20, <1>21, <1>22, <1>23, <1>24, <1>25, <1>26, <1>27 DEF Next, Commit, Receive
-----------------------------------------------------------------------------
(* Slots, tickets and notification_enabled *)

\* Every step keeps a ticket and a slot with the generation that owns them.
LEMMA OwnedStep ==
  ASSUME TypeOK, Owned, [Next]_vars
  PROVE  Owned'
<1> USE DEF messageVars, wordVars, slotVars, producerVars, recvVars
<1>1. ASSUME UNCHANGED <<slotVars, rpc, alive>> PROVE Owned'
  BY <1>1 DEF Owned
<1>2. ASSUME NEW p \in Producers,
             Claim(p) \/ PublishContiguous(p) \/ NeedsWake(p) \/ BumpEpoch(p) \/
             LoadRegistration(p) \/ Rebump(p) \/ Drain(p)
      PROVE  Owned'
  BY <1>2, <1>1 DEF Claim, PStep, PublishContiguous, NeedsWake, BumpEpoch, LoadRegistration,
     Rebump, Drain
<1>3. ASSUME 
             OtherActivates
      PROVE  Owned'
  BY <1>3, <1>1 DEF OtherActivates
<1>4. ASSUME NEW p \in Producers, ConsumeTicket(p) PROVE Owned'
  BY <1>4 DEF ConsumeTicket, PStep, AfterSlot, NextSlot, TypeOK, MemoryTypes, SubscriberTypes,
     Owned, ProducerTypes
<1>5. ASSUME NEW p \in Producers, Wake(p) PROVE Owned'
  BY <1>5 DEF Wake, PStep, TypeOK, MemoryTypes, SubscriberTypes, Owned
<1>6. ASSUME NEW p \in Producers, ProducerDies(p) PROVE Owned'
  BY <1>6, Index DEF ProducerDies, TypeOK, MemoryTypes, SubscriberTypes, Owned
<1>7. ASSUME NEW s \in Subscribers, Recv(s) PROVE Owned'
  BY <1>7 DEF Recv, SStep, TypeOK, MemoryTypes, SubscriberTypes, Owned
<1>8. ASSUME NEW s \in Subscribers, Activate(s) PROVE Owned'
  BY <1>8 DEF Activate, SStep, TypeOK, MemoryTypes, SubscriberTypes, Owned
<1>9. ASSUME NEW s \in Subscribers, ActivateFails(s) PROVE Owned'
  BY <1>9 DEF ActivateFails, SStep, TypeOK, MemoryTypes, SubscriberTypes, Owned
<1>10. ASSUME NEW s \in Subscribers, LoadActive(s) PROVE Owned'
  BY <1>10 DEF LoadActive, SStep, TypeOK, MemoryTypes, SubscriberTypes, Owned
<1>11. ASSUME NEW s \in Subscribers, ArmTicket(s) PROVE Owned'
  BY <1>11 DEF ArmTicket, SStep, TypeOK, MemoryTypes, SubscriberTypes, Owned
<1>12. ASSUME NEW s \in Subscribers, Snapshot(s) PROVE Owned'
  BY <1>12 DEF Snapshot, SStep, TypeOK, MemoryTypes, SubscriberTypes, Owned
<1>13. ASSUME NEW s \in Subscribers, ScanHit(s) PROVE Owned'
  BY <1>13 DEF ScanHit, SStep, TypeOK, MemoryTypes, SubscriberTypes, Owned
<1>14. ASSUME NEW s \in Subscribers, ScanMiss(s) PROVE Owned'
  BY <1>14 DEF ScanMiss, SStep, TypeOK, MemoryTypes, SubscriberTypes, Owned
<1>15. ASSUME NEW s \in Subscribers, WaitTicketState(s) PROVE Owned'
  BY <1>15 DEF WaitTicketState, SStep, TypeOK, MemoryTypes, SubscriberTypes, Owned
<1>16. ASSUME NEW s \in Subscribers, FutexWait(s) PROVE Owned'
  BY <1>16 DEF FutexWait, SStep, TypeOK, MemoryTypes, SubscriberTypes, Owned
<1>17. ASSUME NEW s \in Subscribers, Timeout(s) PROVE Owned'
  BY <1>17 DEF Timeout, SStep, TypeOK, MemoryTypes, SubscriberTypes, Owned
<1>18. ASSUME NEW s \in Subscribers, ClearWaitNotification(s) PROVE Owned'
  BY <1>18 DEF ClearWaitNotification, SStep, TypeOK, MemoryTypes, SubscriberTypes, Owned
<1>19. ASSUME NEW s \in Subscribers, AcquireConsumer(s) PROVE Owned'
  <2> SUFFICES ASSUME NEW t \in Subscribers
               PROVE  /\ ticket'[t] \in {0, token'[t]} /\ slot'[t] \in {0, token'[t]}
                      /\ ~alive'[<<"s", t>>] => rpc'[t] = "out"
                      /\ rpc'[t] # "out" => slot'[t] = token'[t] /\ token'[t] # 0
    BY DEF Owned
  <2>1. CASE t # s
    <3>1. <<"s", t>> # <<"s", s>>
      BY <2>1
    <3>2. alive'[<<"s", t>>] = alive[<<"s", t>>]
      BY <3>1, <1>19 DEF AcquireConsumer, TypeOK, MemoryTypes
    <3> QED BY <2>1, <3>2, <1>19 DEF AcquireConsumer, TypeOK, MemoryTypes, SubscriberTypes, Owned
  <2>2. CASE t = s
    <3>1. token[s] \in Nat /\ token'[s] = token[s] + 1 /\ slot'[s] = token[s] + 1 /\ ticket'[s] = 0
      BY <1>19 DEF AcquireConsumer, TypeOK, MemoryTypes
    <3>2. alive'[<<"s", s>>]
      BY <1>19, Index DEF AcquireConsumer, TypeOK, MemoryTypes
    <3> QED BY <2>2, <3>1, <3>2
  <2> QED BY <2>1, <2>2
<1>20. ASSUME NEW s \in Subscribers, ReleaseConsumer(s) PROVE Owned'
  BY <1>20 DEF ReleaseConsumer, SStep, TypeOK, MemoryTypes, SubscriberTypes, Owned
<1>21. ASSUME NEW s \in Subscribers, SubscriberDies(s) PROVE Owned'
  BY <1>21, Index DEF SubscriberDies, TypeOK, MemoryTypes, SubscriberTypes, Owned
<1>22. CASE UNCHANGED vars
  BY <1>22, <1>1 DEF vars
<1> QED BY <1>2, <1>3, <1>4, <1>5, <1>6, <1>7, <1>8, <1>9, <1>10, <1>11, <1>12, <1>13, <1>14,
   <1>15, <1>16, <1>17, <1>18, <1>19, <1>20, <1>21, <1>22 DEF Next, Commit, Receive

\* Every step keeps notifications on while somebody is armed, and the epoch ahead
\* of every epoch taken.
LEMMA ArmedStep ==
  ASSUME TypeOK, Owned, Armed, [Next]_vars
  PROVE  Armed'
<1> USE DEF messageVars, wordVars, slotVars, producerVars, recvVars
<1>1. ASSUME UNCHANGED <<wordVars, rpc, spins, armed, active, expected>> PROVE Armed'
  BY <1>1 DEF Armed
<1>2. ASSUME NEW p \in Producers,
             Claim(p) \/ PublishContiguous(p) \/ NeedsWake(p) \/ LoadRegistration(p) \/
             ConsumeTicket(p) \/ Drain(p) \/ ProducerDies(p)
      PROVE  Armed'
  BY <1>2, <1>1 DEF Claim, PStep, PublishContiguous, NeedsWake, LoadRegistration,
     ConsumeTicket, Drain, ProducerDies
<1>3. ASSUME NEW p \in Producers, BumpEpoch(p) PROVE Armed'
  BY <1>3 DEF BumpEpoch, PStep, TypeOK, MemoryTypes, SubscriberTypes, Armed
<1>4. ASSUME NEW p \in Producers, Rebump(p) PROVE Armed'
  BY <1>4 DEF Rebump, PStep, TypeOK, MemoryTypes, SubscriberTypes, Armed
<1>5. ASSUME NEW p \in Producers, Wake(p) PROVE Armed'
  BY <1>5 DEF Wake, PStep, TypeOK, MemoryTypes, SubscriberTypes, Armed
<1>6. ASSUME NEW s \in Subscribers, Recv(s) PROVE Armed'
  BY <1>6 DEF Recv, SStep, TypeOK, MemoryTypes, SubscriberTypes, Armed
<1>7. ASSUME NEW s \in Subscribers, Activate(s) PROVE Armed'
  BY <1>7 DEF Activate, SStep, TypeOK, MemoryTypes, SubscriberTypes, Armed
<1>8. ASSUME NEW s \in Subscribers, ActivateFails(s) PROVE Armed'
  BY <1>8 DEF ActivateFails, SStep, TypeOK, MemoryTypes, SubscriberTypes, Armed
<1>9. ASSUME NEW s \in Subscribers, LoadActive(s) PROVE Armed'
  BY <1>9 DEF LoadActive, SStep, TypeOK, MemoryTypes, SubscriberTypes, Armed
<1>10. ASSUME NEW s \in Subscribers, ArmTicket(s) PROVE Armed'
  BY <1>10 DEF ArmTicket, SStep, TypeOK, MemoryTypes, SubscriberTypes, Armed
<1>11. ASSUME NEW s \in Subscribers, Snapshot(s) PROVE Armed'
  BY <1>11 DEF Snapshot, SStep, TypeOK, MemoryTypes, SubscriberTypes, Armed
<1>12. ASSUME NEW s \in Subscribers, ScanHit(s) PROVE Armed'
  BY <1>12 DEF ScanHit, SStep, TypeOK, MemoryTypes, SubscriberTypes, Armed
<1>13. ASSUME NEW s \in Subscribers, ScanMiss(s) PROVE Armed'
  <2>1. \/ rpc'[s] = "snapshot" /\ spins'[s] \in 0 .. SpinAttempts
        \/ rpc'[s] = "arm" /\ ~armed[s] /\ spins'[s] = SpinAttempts
        \/ rpc'[s] \in {"state", "wait"} /\ spins'[s] = SpinAttempts
    BY <1>13, WaitAssumption DEF ScanMiss, SStep, TypeOK, SubscriberTypes, Armed
  <2>2. armed[s] => spins'[s] = SpinAttempts
    BY <1>13, WaitAssumption DEF ScanMiss, SStep, TypeOK, SubscriberTypes, Armed
  <2>3. \A t \in Subscribers \ {s} : rpc'[t] = rpc[t] /\ spins'[t] = spins[t]
    BY <1>13 DEF ScanMiss, SStep, TypeOK, SubscriberTypes
  <2> QED BY <2>1, <2>2, <2>3, <1>13 DEF ScanMiss, Armed
<1>14. ASSUME NEW s \in Subscribers, WaitTicketState(s) PROVE Armed'
  BY <1>14 DEF WaitTicketState, SStep, TypeOK, MemoryTypes, SubscriberTypes, Armed
<1>15. ASSUME NEW s \in Subscribers, FutexWait(s) PROVE Armed'
  BY <1>15 DEF FutexWait, SStep, TypeOK, MemoryTypes, SubscriberTypes, Armed
<1>16. ASSUME NEW s \in Subscribers, Timeout(s) PROVE Armed'
  BY <1>16 DEF Timeout, SStep, TypeOK, MemoryTypes, SubscriberTypes, Armed
<1>17. ASSUME NEW s \in Subscribers, ClearWaitNotification(s) PROVE Armed'
  BY <1>17, SMTT(20)
     DEF ClearWaitNotification, SStep, TypeOK, MemoryTypes, SubscriberTypes, Armed
<1>18. ASSUME NEW s \in Subscribers, AcquireConsumer(s) PROVE Armed'
  <2>1. rpc[s] = "out"
    BY <1>18 DEF AcquireConsumer, Owned
  <2>2. rpc'[s] = "idle" /\ \A t \in Subscribers \ {s} : rpc'[t] = rpc[t]
    BY <1>18 DEF AcquireConsumer, TypeOK, SubscriberTypes
  <2>3. UNCHANGED <<armed, spins, active, expected, epoch, enabled>>
    BY <1>18 DEF AcquireConsumer, wordVars
  <2> QED BY <2>1, <2>2, <2>3 DEF Armed
<1>19. ASSUME NEW s \in Subscribers, ReleaseConsumer(s) PROVE Armed'
  BY <1>19 DEF ReleaseConsumer, SStep, TypeOK, MemoryTypes, SubscriberTypes, Armed
<1>20. ASSUME NEW s \in Subscribers, SubscriberDies(s) PROVE Armed'
  BY <1>20 DEF SubscriberDies, TypeOK, MemoryTypes, SubscriberTypes, Armed
<1>21. ASSUME OtherActivates PROVE Armed'
  BY <1>21 DEF OtherActivates, TypeOK, MemoryTypes, SubscriberTypes, Armed
<1>22. CASE UNCHANGED vars
  BY <1>22, <1>1 DEF vars
<1> QED BY <1>2, <1>3, <1>4, <1>5, <1>6, <1>7, <1>8, <1>9, <1>10, <1>11, <1>12, <1>13, <1>14,
   <1>15, <1>16, <1>17, <1>18, <1>19, <1>20, <1>21, <1>22 DEF Next, Commit, Receive

\* Every step keeps a ticket in hand with a publisher that will wake.
LEMMA LoopingStep ==
  ASSUME TypeOK, Looping, [Next]_vars
  PROVE  Looping'
<1> USE DEF messageVars, wordVars, slotVars, producerVars, recvVars
<1>1. ASSUME UNCHANGED <<ppc, at, consumed>> PROVE Looping'
  BY <1>1 DEF Looping
<1>2. ASSUME NEW p \in Producers,
             Drain(p) \/ ProducerDies(p)
      PROVE  Looping'
  BY <1>2, <1>1 DEF Drain, ProducerDies
<1>3. ASSUME NEW s \in Subscribers,
             Recv(s) \/ Activate(s) \/ ActivateFails(s) \/ LoadActive(s) \/ ArmTicket(s) \/
             Snapshot(s) \/ ScanHit(s) \/ ScanMiss(s) \/ WaitTicketState(s) \/ FutexWait(s) \/
             Timeout(s) \/ ClearWaitNotification(s) \/ AcquireConsumer(s) \/ ReleaseConsumer(s) \/
             SubscriberDies(s)
      PROVE  Looping'
  BY <1>3, <1>1 DEF Recv, SStep, Activate, ActivateFails, LoadActive, ArmTicket, Snapshot,
     ScanHit, ScanMiss, WaitTicketState, FutexWait, Timeout, ClearWaitNotification,
     AcquireConsumer, ReleaseConsumer, SubscriberDies
<1>4. ASSUME 
             OtherActivates
      PROVE  Looping'
  BY <1>4, <1>1 DEF OtherActivates
<1>5. ASSUME NEW p \in Producers, Claim(p) PROVE Looping'
  BY <1>5 DEF Claim, PStep, TypeOK, ProducerTypes, Looping
<1>6. ASSUME NEW p \in Producers, PublishContiguous(p) PROVE Looping'
  BY <1>6 DEF PublishContiguous, PStep, TypeOK, ProducerTypes, Looping
<1>7. ASSUME NEW p \in Producers, NeedsWake(p) PROVE Looping'
  BY <1>7 DEF NeedsWake, PStep, TypeOK, ProducerTypes, Looping
<1>8. ASSUME NEW p \in Producers, BumpEpoch(p) PROVE Looping'
  BY <1>8 DEF BumpEpoch, PStep, TypeOK, ProducerTypes, Looping
<1>9. ASSUME NEW p \in Producers, LoadRegistration(p) PROVE Looping'
  <2>1. \/ ppc'[p] \in {"scan", "ticket"}
        \/ at'[p] = 0 /\ ppc'[p] = "rebump" /\ consumed'[p]
        \/ at'[p] = 0 /\ ppc'[p] = "idle"
    <3>1. at[p] \in Subscribers
      BY DEF TypeOK, ProducerTypes
    <3>2. AfterSlot(p, consumed[p]) # "scan" => NextSlot(p) = 0
      <4>1. at[p] \in Nat /\ SubscriberCount \in Nat
        BY <3>1, Index, WaitAssumption
      <4>2. at[p] + 1 < SubscriberCount => AfterSlot(p, consumed[p]) = "scan"
        BY DEF AfterSlot
      <4>3. at[p] + 1 >= SubscriberCount => NextSlot(p) = 0
        BY <3>1, Index DEF NextSlot
      <4> QED BY <4>1, <4>2, <4>3
    <3> QED BY <3>1, <3>2, <1>9 DEF LoadRegistration, PStep, AfterSlot, TypeOK, ProducerTypes
  <2>2. \A q \in Producers \ {p} : ppc'[q] = ppc[q] /\ at'[q] = at[q] /\ consumed'[q] = consumed[q]
    BY <1>9 DEF LoadRegistration, PStep, TypeOK, ProducerTypes
  <2> QED BY <2>1, <2>2 DEF Looping
<1>10. ASSUME NEW p \in Producers, ConsumeTicket(p) PROVE Looping'
  <2>1. \/ ppc'[p] \in {"scan", "ticket"}
        \/ at'[p] = 0 /\ ppc'[p] = "rebump" /\ consumed'[p]
        \/ at'[p] = 0 /\ ppc'[p] = "idle"
    <3>1. at[p] \in Subscribers
      BY DEF TypeOK, ProducerTypes
    <3>2. AfterSlot(p, consumed[p] \/ ticket[at[p]] = registration[p]) # "scan" => NextSlot(p) = 0
      <4>1. at[p] \in Nat /\ SubscriberCount \in Nat
        BY <3>1, Index, WaitAssumption
      <4>2. at[p] + 1 < SubscriberCount => AfterSlot(p, consumed[p] \/ ticket[at[p]] = registration[p]) = "scan"
        BY DEF AfterSlot
      <4>3. at[p] + 1 >= SubscriberCount => NextSlot(p) = 0
        BY <3>1, Index DEF NextSlot
      <4> QED BY <4>1, <4>2, <4>3
    <3> QED BY <3>1, <3>2, <1>10 DEF ConsumeTicket, PStep, AfterSlot, TypeOK, ProducerTypes
  <2>2. \A q \in Producers \ {p} : ppc'[q] = ppc[q] /\ at'[q] = at[q] /\ consumed'[q] = consumed[q]
    BY <1>10 DEF ConsumeTicket, PStep, TypeOK, ProducerTypes
  <2> QED BY <2>1, <2>2 DEF Looping
<1>11. ASSUME NEW p \in Producers, Rebump(p) PROVE Looping'
  BY <1>11 DEF Rebump, PStep, TypeOK, ProducerTypes, Looping
<1>12. ASSUME NEW p \in Producers, Wake(p) PROVE Looping'
  BY <1>12 DEF Wake, PStep, TypeOK, ProducerTypes, Looping
<1>13. CASE UNCHANGED vars
  BY <1>13, <1>1 DEF vars
<1> QED BY <1>2, <1>3, <1>4, <1>5, <1>6, <1>7, <1>8, <1>9, <1>10, <1>11, <1>12, <1>13 DEF Next,
   Commit, Receive

\* Every step keeps what waits in a store buffer unannounced or about to be announced.
LEMMA AnnouncedStep ==
  ASSUME TypeOK, Numbered, Announced, [Next]_vars
  PROVE  Announced'
<1> USE DEF messageVars, wordVars, slotVars, producerVars, recvVars
<1>0. \A p \in Producers : ppc[p] # "idle" => LastOf(p, Mine(p))
  BY MineLast DEF TypeOK, MemoryTypes, Numbered
<1>1. ASSUME log' = log, unannounced \subseteq unannounced', NEW p \in Producers,
             \A q \in Producers \ {p} : buffer'[q] = buffer[q] /\ ppc'[q] = ppc[q],
             \A n \in buffer'[p] : \/ n \in unannounced'
                                   \/ ppc'[p] \in {"check", "bump"} /\ LastOf(p, n)
      PROVE  Announced'
  <2>1. \A q \in Producers : \A n : LastOf(q, n) => LastOf(q, n)'
    BY <1>1 DEF LastOf
  <2> QED BY <1>1, <2>1 DEF Announced
<1>2. ASSUME UNCHANGED <<log, unannounced, ppc, buffer>> PROVE Announced'
  BY <1>2 DEF Announced, LastOf
<1>3. ASSUME NEW p \in Producers, Claim(p) PROVE Announced'
  <2>1. \A q \in Producers \ {p} : \A n : LastOf(q, n) => LastOf(q, n)'
    BY <1>3, LastAppend DEF Claim, TypeOK, MemoryTypes
  <2> QED BY <1>3, <2>1 DEF Claim, PStep, Announced, TypeOK, ProducerTypes
<1>4. ASSUME NEW p \in Producers, PublishContiguous(p) PROVE Announced'
  <2>1. buffer'[p] = buffer[p] \cup {Mine(p)} /\ ppc[p] = "commit" /\ ppc'[p] = "check"
    BY <1>4 DEF PublishContiguous, PStep, TypeOK, ProducerTypes
  <2>2. \A n \in buffer'[p] : n \in unannounced \/ LastOf(p, n)
    BY <2>1, <1>0 DEF Announced
  <2> QED BY <1>4, <2>1, <2>2, <1>1 DEF PublishContiguous, PStep, TypeOK, ProducerTypes
<1>5. ASSUME NEW p \in Producers, NeedsWake(p) PROVE Announced'
  <2>1. \A n : LastOf(p, n) => n = Mine(p)
    BY MineLast DEF TypeOK, MemoryTypes
  <2>2. CASE enabled
    BY <2>2, <1>5, <1>1 DEF NeedsWake, PStep, TypeOK, ProducerTypes, Announced
  <2>3. CASE ~enabled
    <3>1. \A n \in buffer'[p] : n \in unannounced'
      BY <2>3, <2>1, <1>5 DEF NeedsWake, PStep, TypeOK, ProducerTypes, Announced
    <3> QED BY <2>3, <3>1, <1>5, <1>1 DEF NeedsWake, PStep, TypeOK, ProducerTypes
  <2> QED BY <2>2, <2>3
<1>6. ASSUME NEW p \in Producers, BumpEpoch(p) PROVE Announced'
  BY <1>6, <1>1 DEF BumpEpoch, PStep, TypeOK, ProducerTypes
<1>7. ASSUME NEW p \in Producers,
             LoadRegistration(p) \/ ConsumeTicket(p) \/ Rebump(p) \/ Wake(p)
      PROVE  Announced'
  <2>1. /\ log' = log /\ unannounced' = unannounced /\ buffer' = buffer
        /\ ppc[p] \in {"scan", "ticket", "rebump", "wake"}
        /\ \A q \in Producers \ {p} : ppc'[q] = ppc[q]
    BY <1>7 DEF LoadRegistration, ConsumeTicket, Rebump, Wake, PStep, TypeOK, ProducerTypes
  <2>2. \A n \in buffer[p] : n \in unannounced
    BY <2>1 DEF Announced
  <2> QED BY <2>1, <2>2, <1>1
<1>8. ASSUME NEW p \in Producers, Drain(p) PROVE Announced'
  BY <1>8, <1>1 DEF Drain, TypeOK, ProducerTypes
<1>9. ASSUME NEW p \in Producers, ProducerDies(p) PROVE Announced'
  BY <1>9, <1>1 DEF ProducerDies, TypeOK, ProducerTypes
<1>10. ASSUME NEW s \in Subscribers,
              Recv(s) \/ Receive(s) \/ Timeout(s) \/ AcquireConsumer(s) \/ ReleaseConsumer(s)
                \/ SubscriberDies(s)
       PROVE  Announced'
  BY <1>10, <1>2 DEF Recv, Receive, Timeout, AcquireConsumer, ReleaseConsumer, SubscriberDies,
     Activate, ActivateFails, LoadActive, ArmTicket, Snapshot, ScanHit, ScanMiss,
     WaitTicketState, FutexWait, ClearWaitNotification
<1>11. ASSUME OtherActivates PROVE Announced'
  BY <1>11, <1>2 DEF OtherActivates
<1>12. CASE UNCHANGED vars
  BY <1>12, <1>2 DEF vars
<1> QED BY <1>3, <1>4, <1>5, <1>6, <1>7, <1>8, <1>9, <1>10, <1>11, <1>12 DEF Next, Commit

-----------------------------------------------------------------------------
(* What a step leaves alone *)

\* What the subscriber of slot t does not touch.
Elsewhere(t) ==
  /\ UNCHANGED <<log, visible, unannounced, epoch, producerVars>>
  /\ \A p \in Producers : alive'[<<"p", p>>] = alive[<<"p", p>>]
  /\ \A s \in Subscribers \ {t} :
       /\ rpc'[s] = rpc[s] /\ armed'[s] = armed[s] /\ expected'[s] = expected[s]
       /\ next'[s] = next[s] /\ ticket'[s] = ticket[s] /\ token'[s] = token[s]
       /\ alive'[<<"s", s>>] = alive[<<"s", s>>]

\* What producer p does not touch.
Others(p) ==
  /\ UNCHANGED <<enabled, slot, token, spins, armed, active, expected, next>>
  /\ epoch' \in {epoch, epoch + 1} /\ unannounced \subseteq unannounced'
  /\ \A s \in Subscribers : alive'[<<"s", s>>] = alive[<<"s", s>>]
  /\ \A q \in Producers \ {p} :
       /\ ppc'[q] = ppc[q] /\ buffer'[q] = buffer[q] /\ at'[q] = at[q]
       /\ registration'[q] = registration[q] /\ consumed'[q] = consumed[q]
       /\ alive'[<<"p", q>>] = alive[<<"p", q>>]

\* The subscriber of one slot changes nothing of the others.
LEMMA SubscriberFrame ==
  ASSUME TypeOK, NEW t \in Subscribers,
         \/ Recv(t) \/ Receive(t) \/ Timeout(t)
         \/ AcquireConsumer(t) \/ ReleaseConsumer(t) \/ SubscriberDies(t)
  PROVE  Elsewhere(t)
<1> USE DEF messageVars, wordVars, slotVars, producerVars, recvVars
<1>1. \A s \in Subscribers \ {t} : <<"s", s>> # <<"s", t>>
  OBVIOUS
<1>2. CASE Recv(t) \/ Activate(t) \/ ActivateFails(t) \/ LoadActive(t) \/ Snapshot(t)
  BY <1>2 DEF Elsewhere, Recv, Activate, ActivateFails, LoadActive, Snapshot, SStep, TypeOK,
     SubscriberTypes
<1>3. CASE ScanHit(t) \/ ScanMiss(t) \/ WaitTicketState(t) \/ FutexWait(t) \/ Timeout(t)
  BY <1>3 DEF Elsewhere, ScanHit, ScanMiss, WaitTicketState, FutexWait, Timeout, SStep,
     TypeOK, SubscriberTypes
<1>4. CASE ArmTicket(t) \/ ClearWaitNotification(t) \/ ReleaseConsumer(t)
  BY <1>4, SMTT(20)
     DEF Elsewhere, ArmTicket, ClearWaitNotification, ReleaseConsumer, SStep, TypeOK,
     SubscriberTypes, MemoryTypes
<1>5. CASE AcquireConsumer(t)
  BY <1>5, <1>1, Index DEF Elsewhere, AcquireConsumer, TypeOK, SubscriberTypes, MemoryTypes
<1>6. CASE SubscriberDies(t)
  BY <1>6, <1>1, Index DEF Elsewhere, SubscriberDies, TypeOK, SubscriberTypes, MemoryTypes
<1> QED BY <1>2, <1>3, <1>4, <1>5, <1>6 DEF Receive

\* A producer changes nothing of the others, and of a subscriber only its ticket
\* and its sleep.
LEMMA ProducerFrame ==
  ASSUME TypeOK, NEW p \in Producers, Claim(p) \/ Commit(p) \/ Drain(p) \/ ProducerDies(p)
  PROVE  Others(p)
<1> USE DEF messageVars, wordVars, slotVars, producerVars, recvVars
<1>1. \A q \in Producers \ {p} : <<"p", q>> # <<"p", p>>
  OBVIOUS
<1>2. CASE Claim(p) \/ PublishContiguous(p) \/ NeedsWake(p)
  BY <1>2 DEF Others, Claim, PublishContiguous, NeedsWake, PStep, TypeOK, ProducerTypes
<1>3. CASE BumpEpoch(p) \/ Rebump(p) \/ Wake(p) \/ Drain(p)
  BY <1>3 DEF Others, BumpEpoch, Rebump, Wake, Drain, PStep, TypeOK, ProducerTypes
<1>4. CASE LoadRegistration(p) \/ ConsumeTicket(p)
  BY <1>4 DEF Others, LoadRegistration, ConsumeTicket, PStep, TypeOK, ProducerTypes
<1>5. CASE ProducerDies(p)
  BY <1>5, <1>1, Index DEF Others, ProducerDies, TypeOK, ProducerTypes, MemoryTypes
<1> QED BY <1>2, <1>3, <1>4, <1>5 DEF Commit

\* A publisher that died inside wake_consumer() stays where it died.
LEMMA InterruptedStays ==
  ASSUME TypeOK, Interrupted, [Next]_vars
  PROVE  Interrupted'
<1> USE DEF messageVars, wordVars, slotVars, producerVars, recvVars
<1>1. PICK q \in Producers : ~alive[<<"p", q>>] /\ ppc[q] \notin {"idle", "commit"}
  BY DEF Interrupted
<1> SUFFICES ~alive'[<<"p", q>>] /\ ppc'[q] = ppc[q]
  BY <1>1 DEF Interrupted
<1>2. ASSUME NEW p \in Producers, Claim(p) \/ Commit(p) \/ Drain(p) \/ ProducerDies(p)
      PROVE  ~alive'[<<"p", q>>] /\ ppc'[q] = ppc[q]
  <2>1. CASE p # q
    BY <2>1, <1>1, <1>2, ProducerFrame DEF Others
  <2>2. CASE p = q
    <3>1. Drain(p)
      BY <2>2, <1>1, <1>2 DEF Commit, Claim, PublishContiguous, NeedsWake, BumpEpoch,
         LoadRegistration, ConsumeTicket, Rebump, Wake, ProducerDies, MayDie, PStep
    <3> QED BY <3>1, <1>1 DEF Drain
  <2> QED BY <2>1, <2>2
<1>3. ASSUME NEW t \in Subscribers, \/ Recv(t) \/ Receive(t) \/ Timeout(t)
                                    \/ AcquireConsumer(t) \/ ReleaseConsumer(t)
                                    \/ SubscriberDies(t)
      PROVE  ~alive'[<<"p", q>>] /\ ppc'[q] = ppc[q]
  BY <1>1, <1>3, SubscriberFrame DEF Elsewhere
<1>4. CASE OtherActivates \/ UNCHANGED vars
  BY <1>1, <1>4 DEF OtherActivates, vars
<1> QED BY <1>2, <1>3, <1>4 DEF Next

\* Only publish_contiguous() makes a message published.
LEMMA PublishedBefore ==
  ASSUME TypeOK, NEW p \in Producers, Claim(p) \/ Commit(p) \/ Drain(p) \/ ProducerDies(p),
         NEW n, Published(n)'
  PROVE  Published(n) \/ (PublishContiguous(p) /\ n = Mine(p))
<1> USE DEF messageVars, wordVars, slotVars, producerVars, recvVars
<1>1. CASE PublishContiguous(p)
  BY <1>1 DEF Published, PublishContiguous, TypeOK, ProducerTypes
<1>2. CASE Drain(p) \/ ProducerDies(p) \/ BumpEpoch(p)
  BY <1>2 DEF Published, Drain, ProducerDies, BumpEpoch, TypeOK, ProducerTypes
<1>3. CASE Claim(p) \/ NeedsWake(p) \/ LoadRegistration(p) \/ ConsumeTicket(p) \/ Rebump(p)
             \/ Wake(p)
  BY <1>3 DEF Published, Claim, NeedsWake, LoadRegistration, ConsumeTicket, Rebump, Wake
<1> QED BY <1>1, <1>2, <1>3 DEF Commit

-----------------------------------------------------------------------------
(* The wake-up *)

\* A publisher's loop ends with a wake-up when it holds a ticket.
LEMMA HoldingStays ==
  ASSUME TypeOK, NEW p \in Producers, consumed[p],
         LoadRegistration(p) \/ ConsumeTicket(p)
  PROVE  consumed'[p] /\ ppc'[p] \in {"scan", "ticket", "rebump"} /\ alive'[<<"p", p>>]
<1> USE DEF messageVars, wordVars, slotVars, producerVars, recvVars
<1> QED BY DEF LoadRegistration, ConsumeTicket, PStep, AfterSlot, TypeOK, ProducerTypes

\* The publisher that takes a ticket out holds it.
LEMMA TakenIsHeld ==
  ASSUME TypeOK, NEW p \in Producers, NEW s \in Subscribers, ticket'[s] # ticket[s],
         Claim(p) \/ Commit(p) \/ Drain(p) \/ ProducerDies(p)
  PROVE  /\ consumed'[p] /\ ppc'[p] \in {"scan", "rebump"} /\ alive'[<<"p", p>>]
         /\ rpc'[s] = rpc[s]
<1> USE DEF messageVars, wordVars, slotVars, producerVars, recvVars
<1>1. ConsumeTicket(p)
  BY DEF Commit, Claim, PublishContiguous, NeedsWake, BumpEpoch, LoadRegistration, Rebump,
     Wake, Drain, ProducerDies
<1> QED BY <1>1 DEF ConsumeTicket, PStep, AfterSlot, TypeOK, ProducerTypes, MemoryTypes

\* A step of the producer that holds a ticket, while s is about to sleep.
LEMMA HolderWait ==
  ASSUME TypeOK, Armed, NEW p \in Producers, NEW s \in Subscribers, ~Interrupted',
         Holding(p, {"scan", "ticket", "rebump"}), 
         Claim(p) \/ Commit(p) \/ Drain(p) \/ ProducerDies(p)
  PROVE  \/ expected'[s] < epoch'
         \/ Holding(p, {"scan", "ticket", "rebump"})'
<1> USE DEF messageVars, wordVars, slotVars, producerVars, recvVars
<1>1. CASE LoadRegistration(p) \/ ConsumeTicket(p)
  BY <1>1, HoldingStays DEF Holding
<1>2. CASE Rebump(p)
  BY <1>2 DEF Rebump, Armed, TypeOK, MemoryTypes, SubscriberTypes
<1>3. CASE Drain(p)
  BY <1>3 DEF Drain, Holding
<1>4. CASE ProducerDies(p)
  BY <1>4, Index DEF ProducerDies, Holding, Interrupted, TypeOK, MemoryTypes
<1> QED BY <1>1, <1>2, <1>3, <1>4 DEF Commit, Claim, PublishContiguous, NeedsWake, BumpEpoch,
   Wake, PStep, Holding

\* A step of the producer that holds a ticket, while s sleeps on.
LEMMA HolderAsleep ==
  ASSUME TypeOK, NEW p \in Producers, NEW s \in Subscribers, ~Interrupted',
         rpc'[s] = "asleep", Holding(p, {"scan", "ticket", "rebump", "wake"}),
         Claim(p) \/ Commit(p) \/ Drain(p) \/ ProducerDies(p)
  PROVE  Holding(p, {"scan", "ticket", "rebump", "wake"})'
<1> USE DEF messageVars, wordVars, slotVars, producerVars, recvVars
<1>1. CASE LoadRegistration(p) \/ ConsumeTicket(p)
  BY <1>1, HoldingStays DEF Holding
<1>2. CASE Rebump(p)
  BY <1>2 DEF Rebump, PStep, Holding, TypeOK, ProducerTypes
<1>3. CASE Drain(p)
  BY <1>3 DEF Drain, Holding
<1>4. CASE ProducerDies(p)
  BY <1>4, Index DEF ProducerDies, Holding, Interrupted, TypeOK, MemoryTypes
<1>5. CASE Wake(p)
  BY <1>5 DEF Wake
<1> QED BY <1>1, <1>2, <1>3, <1>4, <1>5 DEF Commit, Claim, PublishContiguous, NeedsWake,
   BumpEpoch, PStep, Holding

\* Every step keeps a sleeper's ticket in place or a publisher that holds it.
LEMMA TicketOrWakerStep ==
  ASSUME TypeOK, Owned, Armed, TicketOrWaker, [Next]_vars
  PROVE  TicketOrWaker'
<1> USE DEF messageVars, wordVars, slotVars, producerVars, recvVars
<1> DEFINE W == {"scan", "ticket", "rebump"}  A == {"scan", "ticket", "rebump", "wake"}
<1> SUFFICES ASSUME NEW s \in Subscribers, armed'[s], ~Interrupted'
    PROVE  /\ rpc'[s] = "wait" => \/ ticket'[s] = token'[s]
                                  \/ expected'[s] < epoch'
                                  \/ \E p \in Producers : Holding(p, W)'
           /\ rpc'[s] = "asleep" => \/ ticket'[s] = token'[s]
                                    \/ \E p \in Producers : Holding(p, A)'
  BY DEF TicketOrWaker
<1> DEFINE G == /\ rpc'[s] = "wait" => \/ ticket'[s] = token'[s]
                                       \/ expected'[s] < epoch'
                                       \/ \E p \in Producers : Holding(p, W)'
                /\ rpc'[s] = "asleep" => \/ ticket'[s] = token'[s]
                                         \/ \E p \in Producers : Holding(p, A)'
<1>0. ~Interrupted
  BY InterruptedStays
<1>1. ASSUME NEW p \in Producers, Claim(p) \/ Commit(p) \/ Drain(p) \/ ProducerDies(p)
      PROVE  G
  <2>1. /\ armed'[s] = armed[s] /\ token'[s] = token[s] /\ expected'[s] = expected[s]
        /\ epoch' \in {epoch, epoch + 1} /\ rpc'[s] \in {rpc[s], "clear"}
        /\ \A q \in Producers \ {p} : /\ ppc'[q] = ppc[q] /\ consumed'[q] = consumed[q]
                                      /\ alive'[<<"p", q>>] = alive[<<"p", q>>]
    <3>1. rpc'[s] \in {rpc[s], "clear"}
      BY <1>1 DEF Commit, Claim, PublishContiguous, NeedsWake, BumpEpoch, LoadRegistration,
         ConsumeTicket, Rebump, Wake, Drain, ProducerDies
    <3> QED BY <3>1, <1>1, ProducerFrame DEF Others
  <2>2. CASE ticket'[s] # ticket[s]
    BY <2>2, <1>1, TakenIsHeld DEF Holding
  <2>3. CASE ticket'[s] = ticket[s]
    <3>1. ASSUME rpc'[s] = "wait" PROVE G
      <4>1. \/ ticket[s] = token[s] \/ expected[s] < epoch
            \/ \E q \in Producers : Holding(q, W)
        BY <1>0, <2>1, <3>1 DEF TicketOrWaker
      <4>2. CASE ticket[s] = token[s]
        BY <4>2, <2>1, <2>3, <3>1
      <4>3. CASE expected[s] < epoch
        BY <4>3, <2>1, <3>1 DEF TypeOK, MemoryTypes, SubscriberTypes
      <4>4. ASSUME NEW q \in Producers, Holding(q, W) PROVE G
        <5>1. CASE q = p
          BY <5>1, <4>4, <3>1, <1>1, HolderWait
        <5>2. CASE q # p
          BY <5>2, <4>4, <3>1, <2>1 DEF Holding
        <5> QED BY <5>1, <5>2
      <4> QED BY <4>1, <4>2, <4>3, <4>4
    <3>2. ASSUME rpc'[s] = "asleep" PROVE G
      <4>1. ticket[s] = token[s] \/ \E q \in Producers : Holding(q, A)
        BY <1>0, <2>1, <3>2 DEF TicketOrWaker
      <4>2. CASE ticket[s] = token[s]
        BY <4>2, <2>1, <2>3, <3>2
      <4>3. ASSUME NEW q \in Producers, Holding(q, A) PROVE G
        <5>1. CASE q = p
          BY <5>1, <4>3, <3>2, <1>1, HolderAsleep
        <5>2. CASE q # p
          BY <5>2, <4>3, <3>2, <2>1 DEF Holding
        <5> QED BY <5>1, <5>2
      <4> QED BY <4>1, <4>2, <4>3
    <3> QED BY <3>1, <3>2
  <2> QED BY <2>2, <2>3
<1>2. ASSUME NEW t \in Subscribers, \/ Recv(t) \/ Receive(t) \/ Timeout(t)
                                    \/ AcquireConsumer(t) \/ ReleaseConsumer(t)
                                    \/ SubscriberDies(t)
      PROVE  G
  <2>1. /\ UNCHANGED <<epoch, producerVars>>
        /\ \A q \in Producers : alive'[<<"p", q>>] = alive[<<"p", q>>]
    BY <1>2, SubscriberFrame DEF Elsewhere
  <2>2. CASE t # s
    <3>1. /\ rpc'[s] = rpc[s] /\ armed'[s] = armed[s] /\ expected'[s] = expected[s]
          /\ ticket'[s] = ticket[s] /\ token'[s] = token[s]
      BY <2>2, <1>2, SubscriberFrame DEF Elsewhere
    <3>2. \A q \in Producers : (Holding(q, W) => Holding(q, W)') /\ (Holding(q, A) => Holding(q, A)')
      BY <2>1 DEF Holding
    <3> QED BY <3>1, <3>2, <2>1, <1>0 DEF TicketOrWaker
  <2>3. CASE t = s
    <3>1. ASSUME rpc'[s] = "wait" PROVE G
      <4>1. WaitTicketState(s)
        BY <3>1, <2>3, <1>2, Index DEF Receive, Recv, Activate, ActivateFails, LoadActive,
           ArmTicket, Snapshot, ScanHit, ScanMiss, FutexWait, Timeout, ClearWaitNotification,
           AcquireConsumer, ReleaseConsumer, SubscriberDies, SStep, TypeOK, SubscriberTypes
      <4> QED BY <4>1, <3>1 DEF WaitTicketState, SStep, TypeOK, SubscriberTypes
    <3>2. ASSUME rpc'[s] = "asleep" PROVE G
      <4>1. FutexWait(s)
        BY <3>2, <2>3, <1>2, Index DEF Receive, Recv, Activate, ActivateFails, LoadActive,
           ArmTicket, Snapshot, ScanHit, ScanMiss, WaitTicketState, Timeout,
           ClearWaitNotification, AcquireConsumer, ReleaseConsumer, SubscriberDies, SStep,
           TypeOK, SubscriberTypes
      <4>2. /\ rpc[s] = "wait" /\ epoch = expected[s] /\ armed[s]
            /\ UNCHANGED <<slotVars, expected>>
        BY <4>1, <3>2 DEF FutexWait, SStep, TypeOK, SubscriberTypes
      <4>3. ticket[s] = token[s] \/ \E q \in Producers : Holding(q, W)
        <5>1. ~(expected[s] < epoch)
          BY <4>2 DEF TypeOK, MemoryTypes
        <5> QED BY <5>1, <4>2, <1>0 DEF TicketOrWaker
      <4> QED BY <4>2, <4>3, <3>2, <2>1 DEF Holding
    <3> QED BY <3>1, <3>2
  <2> QED BY <2>2, <2>3
<1>3. CASE OtherActivates \/ UNCHANGED vars
  BY <1>3, <1>0 DEF OtherActivates, vars, TicketOrWaker, Holding
<1> QED BY <1>1, <1>2, <1>3 DEF Next

\* Every step keeps a publisher of the next message on its way to move the epoch, or
\* the epoch moved.
LEMMA EpochMovesStep ==
  ASSUME TypeOK, Numbered, Armed, Announced, EpochMoves, [Next]_vars
  PROVE  EpochMoves'
<1> USE DEF messageVars, wordVars, slotVars, producerVars, recvVars
<1> SUFFICES ASSUME NEW s \in Subscribers, armed'[s], rpc'[s] \in {"state", "wait"},
                    ~Interrupted', Published(next[s])', next'[s] \notin unannounced'
    PROVE  \/ expected'[s] < epoch'
           \/ \E p \in Producers : /\ alive'[<<"p", p>>] /\ ppc'[p] \in {"check", "bump"}
                                   /\ LastOf(p, next[s])'
  BY DEF EpochMoves
<1> DEFINE G == \/ expected'[s] < epoch'
                \/ \E p \in Producers : /\ alive'[<<"p", p>>] /\ ppc'[p] \in {"check", "bump"}
                                        /\ LastOf(p, next[s])'
<1>0. ~Interrupted
  BY InterruptedStays
<1>1. ASSUME NEW p \in Producers, Claim(p) \/ Commit(p) \/ Drain(p) \/ ProducerDies(p)
      PROVE  G
  <2>1. /\ armed'[s] = armed[s] /\ next'[s] = next[s] /\ expected'[s] = expected[s]
        /\ epoch' \in {epoch, epoch + 1} /\ unannounced \subseteq unannounced'
        /\ \A q \in Producers \ {p} : /\ ppc'[q] = ppc[q]
                                      /\ alive'[<<"p", q>>] = alive[<<"p", q>>]
    BY <1>1, ProducerFrame DEF Others
  <2>2. rpc'[s] = rpc[s]
    BY <1>1 DEF Commit, Claim, PublishContiguous, NeedsWake, BumpEpoch, LoadRegistration,
       ConsumeTicket, Rebump, Wake, Drain, ProducerDies
  <2>3. CASE PublishContiguous(p) /\ next[s] = Mine(p)
    <3>1. LastOf(p, Mine(p)) /\ log' = log /\ ppc'[p] = "check" /\ alive'[<<"p", p>>]
      BY <2>3, MineLast DEF PublishContiguous, PStep, Numbered, TypeOK, ProducerTypes,
         MemoryTypes
    <3>2. LastOf(p, next[s])'
      BY <3>1, <2>3, <2>1 DEF LastOf
    <3> QED BY <3>1, <3>2
  <2>4. CASE Published(next[s])
    <3>1. \/ expected[s] < epoch
          \/ \E q \in Producers : /\ alive[<<"p", q>>] /\ ppc[q] \in {"check", "bump"}
                                  /\ LastOf(q, next[s])
      BY <1>0, <2>1, <2>2, <2>4 DEF EpochMoves
    <3>2. CASE expected[s] < epoch
      BY <3>2, <2>1 DEF TypeOK, MemoryTypes, SubscriberTypes
    <3>3. ASSUME NEW q \in Producers, alive[<<"p", q>>], ppc[q] \in {"check", "bump"},
                 LastOf(q, next[s])
          PROVE  G
      <4>1. CASE q # p
        <5>1. LastOf(q, next[s])'
          <6>1. CASE Claim(p)
            BY <6>1, <4>1, <3>3, <2>1, LastAppend DEF Claim, TypeOK, MemoryTypes
          <6>2. CASE log' = log
            BY <6>2, <3>3, <2>1 DEF LastOf
          <6> QED BY <6>1, <6>2, <1>1 DEF Commit, PublishContiguous, NeedsWake, BumpEpoch,
             LoadRegistration, ConsumeTicket, Rebump, Wake, Drain, ProducerDies
        <5> QED BY <5>1, <4>1, <3>3, <2>1
      <4>2. CASE q = p
        <5>1. CASE NeedsWake(p)
          <6>1. enabled
            BY <2>1 DEF Armed
          <6>2. ppc'[p] = "bump" /\ alive'[<<"p", p>>] /\ log' = log
            BY <6>1, <5>1 DEF NeedsWake, PStep, TypeOK, ProducerTypes
          <6>3. LastOf(p, next[s])'
            BY <6>2, <4>2, <3>3, <2>1 DEF LastOf
          <6> QED BY <6>2, <6>3
        <5>2. CASE BumpEpoch(p)
          BY <5>2, <2>1 DEF BumpEpoch, Armed, TypeOK, MemoryTypes, SubscriberTypes
        <5>3. CASE Drain(p)
          <6>1. LastOf(p, next[s])'
            BY <5>3, <4>2, <3>3, <2>1 DEF LastOf, Drain
          <6> QED BY <6>1, <5>3, <4>2, <3>3 DEF Drain
        <5>4. CASE ProducerDies(p)
          BY <5>4, <4>2, <3>3, Index DEF ProducerDies, Interrupted, TypeOK, MemoryTypes
        <5> QED BY <5>1, <5>2, <5>3, <5>4, <4>2, <3>3, <1>1 DEF Claim, Commit,
           PublishContiguous, LoadRegistration, ConsumeTicket, Rebump, Wake, PStep
      <4> QED BY <4>1, <4>2
    <3> QED BY <3>1, <3>2, <3>3
  <2> QED BY <2>1, <2>3, <2>4, <1>1, PublishedBefore
<1>2. ASSUME NEW t \in Subscribers, \/ Recv(t) \/ Receive(t) \/ Timeout(t)
                                    \/ AcquireConsumer(t) \/ ReleaseConsumer(t)
                                    \/ SubscriberDies(t)
      PROVE  G
  <2>1. /\ UNCHANGED <<log, visible, unannounced, epoch, producerVars>>
        /\ \A q \in Producers : alive'[<<"p", q>>] = alive[<<"p", q>>]
    BY <1>2, SubscriberFrame DEF Elsewhere
  <2>2. \A n : /\ Published(n)' => Published(n)
               /\ \A q \in Producers : LastOf(q, n) => LastOf(q, n)'
    BY <2>1 DEF Published, LastOf
  <2>3. ASSUME armed[s], rpc[s] \in {"state", "wait"}, next'[s] = next[s],
               expected'[s] = expected[s]
        PROVE  G
    <3>1. Published(next[s])
      BY <2>1, <2>3 DEF Published
    <3>2. \A q \in Producers : LastOf(q, next[s]) => LastOf(q, next[s])'
      BY <2>1, <2>3 DEF LastOf
    <3> QED BY <3>1, <3>2, <2>3, <2>1, <1>0 DEF EpochMoves
  <2>4. CASE t # s
    <3>1. /\ rpc'[s] = rpc[s] /\ armed'[s] = armed[s] /\ expected'[s] = expected[s]
          /\ next'[s] = next[s]
      BY <2>4, <1>2, SubscriberFrame DEF Elsewhere
    <3> QED BY <3>1, <2>3
  <2>5. CASE t = s
    <3>1. WaitTicketState(s) \/ ScanMiss(s)
      BY <2>5, <1>2, Index DEF Receive, Recv, Activate, ActivateFails, LoadActive, ArmTicket,
         Snapshot, ScanHit, FutexWait, Timeout, ClearWaitNotification, AcquireConsumer,
         ReleaseConsumer, SubscriberDies, SStep, TypeOK, SubscriberTypes
    <3>2. CASE WaitTicketState(s)
      BY <3>2, <2>3 DEF WaitTicketState, SStep
    <3>3. CASE ScanMiss(s)
      <4>1. next'[s] = next[s] /\ next[s] \notin visible /\ next[s] \notin unannounced
        BY <3>3, <2>1 DEF ScanMiss
      <4>2. PICK q \in Producers : next[s] \in buffer[q]
        BY <4>1, <2>1 DEF Published
      <4>3. ppc[q] \in {"check", "bump"} /\ LastOf(q, next[s])
        BY <4>1, <4>2 DEF Announced
      <4>4. alive[<<"p", q>>]
        BY <4>3, <1>0 DEF Interrupted
      <4>5. LastOf(q, next[s])'
        BY <4>3, <4>1, <2>1 DEF LastOf
      <4> QED BY <4>3, <4>4, <4>5, <2>1
    <3> QED BY <3>1, <3>2, <3>3
  <2> QED BY <2>4, <2>5
<1>3. CASE OtherActivates \/ UNCHANGED vars
  <2>1. UNCHANGED <<log, visible, unannounced, epoch, producerVars, recvVars, alive>>
    BY <1>3 DEF OtherActivates, vars
  <2>2. Published(next[s])
    BY <2>1 DEF Published
  <2>3. \A q \in Producers : LastOf(q, next[s]) => LastOf(q, next[s])'
    BY <2>1 DEF LastOf
  <2> QED BY <2>1, <2>2, <2>3, <1>0 DEF EpochMoves
<1> QED BY <1>1, <1>2, <1>3 DEF Next

\* The loop over the slots reaches the ticket of s from every slot up to s.
LEMMA LoopReaches ==
  ASSUME TypeOK, Owned, NEW p \in Producers, NEW s \in Subscribers, rpc[s] # "out",
         WillWake(p, s), ticket'[s] = token[s], token'[s] = token[s],
         LoadRegistration(p) \/ ConsumeTicket(p)
  PROVE  WillWake(p, s)'
<1> USE DEF messageVars, wordVars, slotVars, producerVars, recvVars
<1>1. alive'[<<"p", p>>]
  BY DEF LoadRegistration, ConsumeTicket, PStep
<1>2. CASE consumed[p]
  BY <1>2, <1>1, HoldingStays DEF WillWake
<1>3. CASE ~consumed[p]
  <2>1. at[p] \in Nat /\ s \in Nat /\ SubscriberCount \in Nat /\ s < SubscriberCount /\ at[p] <= s
    BY <1>3, Index, WaitAssumption DEF WillWake, LoadRegistration, ConsumeTicket, PStep, TypeOK,
       ProducerTypes
  <2>2. at[p] < s => NextSlot(p) = at[p] + 1 /\ \A got : AfterSlot(p, got) = "scan"
    BY <2>1, Index DEF NextSlot, AfterSlot, TypeOK, ProducerTypes
  <2>3. CASE LoadRegistration(p)
    <3>1. CASE at[p] = s
      <4>1. slot[s] = token[s] /\ slot[s] # 0
        BY DEF Owned
      <4>2. ppc'[p] = "ticket" /\ at'[p] = s /\ registration'[p] = token[s]
        BY <4>1, <3>1, <2>3 DEF LoadRegistration, PStep, TypeOK, ProducerTypes
      <4> QED BY <4>2, <1>1 DEF WillWake
    <3>2. CASE at[p] # s /\ slot[at[p]] # 0
      <4>1. ppc'[p] = "ticket" /\ at'[p] < s
        BY <3>2, <2>1, <2>3 DEF LoadRegistration, PStep, TypeOK, ProducerTypes
      <4> QED BY <4>1, <1>1 DEF WillWake
    <3>3. CASE at[p] # s /\ slot[at[p]] = 0
      <4>1. ppc'[p] = "scan" /\ at'[p] <= s
        BY <3>3, <2>1, <2>2, <2>3 DEF LoadRegistration, PStep, TypeOK, ProducerTypes
      <4> QED BY <4>1, <1>1 DEF WillWake
    <3> QED BY <3>1, <3>2, <3>3
  <2>4. CASE ConsumeTicket(p)
    <3>1. at[p] < s \/ (at[p] = s /\ registration[p] = token[s] /\ ticket[s] = token[s])
      BY <1>3, <2>1, <2>4 DEF WillWake, ConsumeTicket, PStep
    <3>2. CASE at[p] < s
      <4>1. ppc'[p] = "scan" /\ at'[p] <= s
        BY <3>2, <2>1, <2>2, <2>4 DEF ConsumeTicket, PStep, TypeOK, ProducerTypes
      <4> QED BY <4>1, <1>1 DEF WillWake
    <3>3. CASE at[p] = s /\ registration[p] = token[s] /\ ticket[s] = token[s]
      <4>1. ppc'[p] \in {"scan", "rebump"} /\ consumed'[p]
        BY <3>3, <2>4 DEF ConsumeTicket, PStep, AfterSlot, TypeOK, ProducerTypes
      <4> QED BY <4>1, <1>1 DEF WillWake
    <3> QED BY <3>1, <3>2, <3>3
  <2> QED BY <2>3, <2>4
<1> QED BY <1>2, <1>3

\* Every step keeps a publisher on its way to a sleeper whose next message is there.
LEMMA NoLostWakeupStep ==
  ASSUME TypeOK, Numbered, Owned, Armed, Looping, TicketOrWaker, EpochMoves, NoLostWakeup,
         [Next]_vars
  PROVE  NoLostWakeup'
<1> USE DEF messageVars, wordVars, slotVars, producerVars, recvVars
<1> SUFFICES ASSUME NEW s \in Subscribers, alive'[<<"s", s>>], rpc'[s] = "asleep", armed'[s],
                    ~Interrupted', Published(next[s])', next'[s] \notin unannounced'
    PROVE  \E p \in Producers : WillWake(p, s)'
  BY DEF NoLostWakeup
<1> DEFINE G == \E p \in Producers : WillWake(p, s)'
<1>0. ~Interrupted
  BY InterruptedStays
<1>1. ASSUME NEW p \in Producers, Claim(p) \/ Commit(p) \/ Drain(p) \/ ProducerDies(p)
      PROVE  G
  <2>1. /\ armed'[s] = armed[s] /\ next'[s] = next[s] /\ token'[s] = token[s]
        /\ alive[<<"s", s>>] /\ unannounced \subseteq unannounced'
        /\ \A q \in Producers \ {p} :
             /\ ppc'[q] = ppc[q] /\ alive'[<<"p", q>>] = alive[<<"p", q>>]
             /\ at'[q] = at[q] /\ registration'[q] = registration[q] /\ consumed'[q] = consumed[q]
    BY <1>1, ProducerFrame DEF Others
  <2>2. ~Wake(p) /\ rpc[s] = "asleep"
    <3>1. ~Wake(p)
      BY DEF Wake
    <3> QED BY <3>1, <1>1 DEF Commit, Claim, PublishContiguous, NeedsWake, BumpEpoch,
       LoadRegistration, ConsumeTicket, Rebump, Drain, ProducerDies
  <2>3. ASSUME NEW q \in Producers, Holding(q, {"scan", "ticket", "rebump", "wake"})' PROVE G
    BY <2>3 DEF Holding, WillWake
  <2>4. ticket'[s] = token'[s] \/ G
    BY TicketOrWakerStep, <2>3 DEF TicketOrWaker
  <2>5. ASSUME ticket'[s] = token'[s], PublishContiguous(p) PROVE G
    <3>1. ppc'[p] = "check" /\ alive'[<<"p", p>>]
      BY <2>5 DEF PublishContiguous, PStep, TypeOK, ProducerTypes
    <3> QED BY <3>1, <2>5 DEF WillWake
  <2>6. ASSUME ticket'[s] = token'[s], Published(next[s]) PROVE G
    <3>1. PICK q \in Producers : WillWake(q, s)
      BY <1>0, <2>1, <2>2, <2>6 DEF NoLostWakeup
    <3>2. CASE q # p
      BY <3>1, <3>2, <2>1, <2>6 DEF WillWake
    <3>3. CASE q = p
      <4>1. CASE NeedsWake(p)
        <5>1. enabled
          BY <2>1 DEF Armed
        <5>2. ppc'[p] = "bump" /\ alive'[<<"p", p>>]
          BY <5>1, <4>1 DEF NeedsWake, PStep, TypeOK, ProducerTypes
        <5> QED BY <5>2, <2>6 DEF WillWake
      <4>2. CASE BumpEpoch(p)
        <5>1. ppc'[p] = "scan" /\ alive'[<<"p", p>>] /\ at'[p] = 0 /\ 0 <= s
          BY <4>2, Index DEF BumpEpoch, PStep, Looping, TypeOK, ProducerTypes
        <5> QED BY <5>1, <2>6 DEF WillWake
      <4>3. CASE LoadRegistration(p) \/ ConsumeTicket(p)
        BY <4>3, <3>1, <3>3, <2>1, <2>2, <2>6, LoopReaches
      <4>4. CASE Rebump(p)
        <5>1. ppc'[p] = "wake" /\ alive'[<<"p", p>>]
          BY <4>4 DEF Rebump, PStep, TypeOK, ProducerTypes
        <5> QED BY <5>1 DEF WillWake
      <4>5. CASE Drain(p) \/ PublishContiguous(p)
        BY <4>5, <3>1, <3>3, <2>5, <2>6 DEF Drain, WillWake
      <4>6. CASE ProducerDies(p)
        BY <4>6, <3>1, <3>3, Index DEF WillWake, ProducerDies, Interrupted, TypeOK, MemoryTypes
      <4>7. ~Claim(p)
        BY <3>1, <3>3 DEF WillWake, Claim, PStep
      <4> QED BY <4>1, <4>2, <4>3, <4>4, <4>5, <4>6, <4>7, <2>2, <1>1 DEF Commit
    <3> QED BY <3>2, <3>3
  <2> QED BY <2>1, <2>4, <2>5, <2>6, <1>1, PublishedBefore
<1>2. ASSUME NEW t \in Subscribers, \/ Recv(t) \/ Receive(t) \/ Timeout(t)
                                    \/ AcquireConsumer(t) \/ ReleaseConsumer(t)
                                    \/ SubscriberDies(t)
      PROVE  G
  <2>1. /\ UNCHANGED <<log, visible, unannounced, epoch, producerVars>>
        /\ \A q \in Producers : alive'[<<"p", q>>] = alive[<<"p", q>>]
    BY <1>2, SubscriberFrame DEF Elsewhere
  <2>2. CASE t # s
    <3>1. /\ rpc'[s] = rpc[s] /\ armed'[s] = armed[s] /\ next'[s] = next[s]
          /\ ticket'[s] = ticket[s] /\ token'[s] = token[s]
          /\ alive'[<<"s", s>>] = alive[<<"s", s>>]
      BY <2>2, <1>2, SubscriberFrame DEF Elsewhere
    <3>2. Published(next[s])
      BY <3>1, <2>1 DEF Published
    <3>3. PICK q \in Producers : WillWake(q, s)
      BY <3>1, <3>2, <2>1, <1>0 DEF NoLostWakeup
    <3> QED BY <3>1, <3>3, <2>1 DEF WillWake
  <2>3. CASE t = s
    <3>1. FutexWait(s)
      BY <2>3, <1>2, Index DEF Receive, Recv, Activate, ActivateFails, LoadActive, ArmTicket,
         Snapshot, ScanHit, ScanMiss, WaitTicketState, Timeout, ClearWaitNotification,
         AcquireConsumer, ReleaseConsumer, SubscriberDies, SStep, TypeOK, SubscriberTypes
    <3>2. /\ rpc[s] = "wait" /\ epoch = expected[s] /\ armed[s] /\ next'[s] = next[s]
          /\ UNCHANGED <<ticket, token>>
      BY <3>1 DEF FutexWait, SStep, TypeOK, SubscriberTypes
    <3>3. ~(expected[s] < epoch)
      BY <3>2 DEF TypeOK, MemoryTypes
    <3>4. Published(next[s])
      BY <3>2, <2>1 DEF Published
    <3>5. PICK q \in Producers : alive[<<"p", q>>] /\ ppc[q] \in {"check", "bump"}
      BY <3>2, <3>3, <3>4, <2>1, <1>0 DEF EpochMoves
    <3>6. \/ ticket[s] = token[s]
          \/ \E r \in Producers : Holding(r, {"scan", "ticket", "rebump"})
      BY <3>2, <3>3, <1>0 DEF TicketOrWaker
    <3> QED BY <3>2, <3>5, <3>6, <2>1 DEF WillWake, Holding
  <2> QED BY <2>2, <2>3
<1>3. CASE OtherActivates \/ UNCHANGED vars
  <2>1. UNCHANGED <<log, visible, unannounced, slotVars, producerVars, recvVars, alive>>
    BY <1>3 DEF OtherActivates, vars
  <2>2. Published(next[s])
    BY <2>1 DEF Published
  <2>3. PICK q \in Producers : WillWake(q, s)
    BY <2>1, <2>2, <1>0 DEF NoLostWakeup
  <2> QED BY <2>1, <2>3 DEF WillWake
<1> QED BY <1>1, <1>2, <1>3 DEF Next

-----------------------------------------------------------------------------
(* The theorems *)

\* The wait protocol's inductive invariant: it holds of every state that recv(),
\* commit(), registration and the death of processes can reach.
THEOREM WaitInvariance == Spec => []IndInv
<1>1. Init => IndInv
  <2> SUFFICES ASSUME Init PROVE IndInv
    OBVIOUS
  <2>1. TypeOK /\ Numbered
    BY TypeInit
  <2>2. Owned /\ Armed
    BY Index DEF Init, Owned, Armed
  <2>3. Looping /\ Announced
    BY DEF Init, Looping, Announced
  <2>4. TicketOrWaker /\ EpochMoves /\ NoLostWakeup
    BY DEF Init, TicketOrWaker, EpochMoves, NoLostWakeup
  <2> QED BY <2>1, <2>2, <2>3, <2>4 DEF IndInv
<1>2. IndInv /\ [Next]_vars => IndInv'
  BY TypeStep, OwnedStep, ArmedStep, LoopingStep, AnnouncedStep, TicketOrWakerStep,
     EpochMovesStep, NoLostWakeupStep DEF IndInv
<1> QED BY <1>1, <1>2, PTL DEF Spec, SafeSpec

\* Every variable of the protocol keeps its type.
THEOREM WaitTypeCorrect == Spec => []TypeOK
<1>1. IndInv => TypeOK
  BY DEF IndInv
<1> QED BY <1>1, WaitInvariance, PTL

\* A sleeper with an armed ticket whose next message is published has a publisher
\* on its way to wake it, whatever the order of epoch, ticket and store buffer.
THEOREM WakeupsAreNotLost == Spec => []NoLostWakeup
<1>1. IndInv => NoLostWakeup
  BY DEF IndInv
<1> QED BY <1>1, WaitInvariance, PTL

\* The ticket of a registered subscriber is its own: what an earlier registration
\* left in the slot never ends its recv().
THEOREM TicketsAreOwned == Spec => []TicketOwned
<1>1. IndInv => TicketOwned
  BY DEF IndInv, Owned, TicketOwned
<1> QED BY <1>1, WaitInvariance, PTL
=============================================================================
