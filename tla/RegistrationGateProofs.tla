------------------------ MODULE RegistrationGateProofs ------------------------
(***************************************************************************)
(* Proofs about RegistrationGate for every number of producers, claims,    *)
(* gate operations and deaths, and for every size of the store buffers.    *)
(***************************************************************************)
EXTENDS RegistrationGate, TLAPS

\* At most two processes work on the gate.  A third one lets a start token be
\* taken for that of another owner, and the theorems fail.
TwoRegistrars == \A r, s, t \in Registrars : r = s \/ s = t \/ r = t

-----------------------------------------------------------------------------
(* The gate *)

\* Past its CAS, before the gate is given back.
Owning == {"storeStart", "storeActive"} \cup Holding

\* A dead registrar is out of the game; a producer has room while it is claiming,
\* and light claims exist on kMembarrier channels only.
Basics ==
  /\ \A r \in Registrars : ~alive[r] => rpc[r] = "idle"
  /\ \A p \in Producers : /\ ~alive[p] => ppc[p] = "idle" /\ buffer[p] = <<>>
                          /\ ppc[p] \in {"entering", "recheck", "claim"} => reserved[p] < MaxClaims
  /\ protocol = "kSeqCst" => asymmetric = {}

\* The gate word is the token of its live owner, who is past its CAS.
GateOwned ==
  /\ \A r \in Registrars :
       /\ rpc[r] \in {"storeStart", "storeActive"} => gate = Token(0, r, "Preparing")
       /\ rpc[r] \in Holding => /\ gate = held[r]
                                /\ held[r] \in {Token(0, r, "Active"),
                                                Token(Subscription, r, "Preparing")}
  /\ gate # Open /\ alive[gate.pid] => rpc[gate.pid] \in Owning

\* An Active owner has stored its start token.
StartStored ==
  \A r \in Registrars :
    \/ rpc[r] = "storeActive"
    \/ rpc[r] \in Holding /\ held[r].phase = "Active"
    => gate_start = r

\* A registrar that met another owner's token judges that owner by its own start
\* token, and clears the word of a dead one only.
Judged ==
  \A r \in Registrars :
    /\ rpc[r] \in {"loadStart", "judge", "clear"} => expected[r].pid \in Registrars \ {r}
    /\ rpc[r] = "loadStart" /\ alive[expected[r].pid] => gate_start = expected[r].pid
    /\ rpc[r] = "judge" /\ alive[expected[r].pid] => owner_start[r] \in {None, expected[r].pid}
    /\ rpc[r] = "clear" => ~alive[expected[r].pid]

\* Together they are inductive for two registrars.
GateInv == GateOwned /\ StartStored /\ Judged

-----------------------------------------------------------------------------
(* Store buffers *)

\* No store to a word waits in buffer b.
Clean(b, word) == \A i \in DOMAIN b : b[i].word # word

\* What memory will have for a word once buffer b has drained.
Settles(b, word, memory, v) ==
  \/ \E i \in DOMAIN b : /\ b[i].word = word /\ b[i].value = v
                         /\ \A j \in DOMAIN b : b[j].word = word => j <= i
  \/ Clean(b, word) /\ memory = v

\* A claim in progress has claim_active raised, in memory or in the buffer, and
\* the reservation published is producer_pos_; a producer with seq_cst stores
\* has at most its reservation buffered.
StoreInv ==
  \A p \in Producers :
    /\ alive[p] => Settles(buffer[p], "active", claim_active[p],
                           IF ppc[p] \in {"recheck", "claim", "leave"} THEN 1 ELSE 0)
    /\ Settles(buffer[p], "reservation", reservation[p], reserved[p])
    /\ p \notin asymmetric => /\ Clean(buffer[p], "active")
                              /\ buffer[p] # <<>> => ppc[p] = "leave"

-----------------------------------------------------------------------------
(* Behind the fence *)

\* r has fenced and holds the gate.
Fenced(r) == \/ rpc[r] \in Scanning \cup Quiet
             \/ rpc[r] = "release" /\ snapshot[r] # <<>>

\* r has found no claim of producer p.
Passed(r, p) == Fenced(r) /\ (rpc[r] \in Scanning => p < at[r])

\* A reservation in buffer b comes before every store to claim_active, which is 1.
Ordered(b, claiming) ==
  \A i \in DOMAIN b : b[i].word = "reservation" =>
    claiming = 1 /\ \A j \in DOMAIN b : j < i => b[j].word # "active"

\* Behind the fence a claim in progress shows in memory, a reservation that is
\* still buffered comes before the store that ends its claim, and a producer
\* that was passed has neither.
FenceInv ==
  \A r \in Registrars, p \in Producers :
    /\ Fenced(r) => /\ InClaim(p) => claim_active[p] = 1 /\ Clean(buffer[p], "active")
                    /\ Ordered(buffer[p], claim_active[p])
    /\ Passed(r, p) => ~InClaim(p) /\ Clean(buffer[p], "reservation")

\* The snapshot grows with the loop and is where the producers are.
SnapshotInv ==
  \A r \in Registrars :
    /\ rpc[r] \notin {"snapshot", "release"} => snapshot[r] = <<>>
    /\ rpc[r] = "snapshot" => Len(snapshot[r]) = at[r]
    /\ \A p \in Producers : p < Len(snapshot[r]) => snapshot[r][p + 1] = reserved[p]

\* The inductive invariant.
IndInv == TypeOK /\ Basics /\ GateInv /\ StoreInv /\ FenceInv /\ SnapshotInv

-----------------------------------------------------------------------------
(* Tokens and steps *)

\* A token is told by its three fields, and one that is not Open has an owner.
LEMMA TokenFacts ==
  /\ Open \in Tokens /\ Open.pid = None
  /\ \A r \in Registrars, ph \in {"Preparing", "Active"} : Token(0, r, ph) \in Tokens
  /\ \A r \in Registrars : Token(Subscription, r, "Preparing") \in Tokens
  /\ \A g, r, ph : Token(g, r, ph).pid = r /\ Token(g, r, ph).phase = ph
  /\ \A t \in Tokens : t # Open => t.pid \in Registrars
  /\ \A r \in Registrars : r # None /\ r \in Processes /\ r \notin Producers
  /\ \A p \in Producers : p # None /\ p \in Processes /\ p \notin Registrars
<1>1. \A g, r, ph : Token(g, r, ph).pid = r /\ Token(g, r, ph).phase = ph
  BY DEF Token
<1>2. Open \in Tokens /\ Open.pid = None
  BY <1>1 DEF Tokens, Open
<1>3. /\ \A r \in Registrars, ph \in {"Preparing", "Active"} : Token(0, r, ph) \in Tokens
      /\ \A r \in Registrars : Token(Subscription, r, "Preparing") \in Tokens
  BY DEF Tokens
<1>4. \A t \in Tokens : t # Open => t.pid \in Registrars
  BY <1>1 DEF Tokens
<1> QED BY <1>1, <1>2, <1>3, <1>4, GateAssumption DEF Processes

\* A step of a producer.
ProducerStep(p) == Enter(p) \/ ClaimStep(p) \/ Drain(p) \/ ProducerDies(p)

\* A step of a registrar.
RegistrarStep(r) == Start(r) \/ GateStep(r) \/ RegistrarDies(r)

\* A producer touches its own words only.
LEMMA ProducerFrame ==
  ASSUME TypeOK, NEW p \in Producers, ProducerStep(p)
  PROVE  /\ UNCHANGED <<fenceVars, gateVars, notification, registrarVars>>
         /\ \A q \in Producers \ {p} :
              /\ ppc'[q] = ppc[q] /\ reserved'[q] = reserved[q] /\ buffer'[q] = buffer[q]
              /\ claim_active'[q] = claim_active[q] /\ reservation'[q] = reservation[q]
         /\ \A q \in Processes \ {p} : alive'[q] = alive[q]
         /\ alive'[p] => alive[p]
<1> USE DEF TypeOK, ClaimTypes, fenceVars, gateVars, registrarVars, memoryVars, producerVars
<1>1. CASE Enter(p)
  BY <1>1 DEF Enter, CheckGate
<1>2. CASE ClaimStep(p)
  <2>1. CASE RaiseActive(p) \/ RecheckClosed(p) \/ LeaveClaim(p)
    BY <1>2, <2>1 DEF ClaimStep, RaiseActive, RecheckClosed, LeaveClaim, StoreActiveWord,
       StorePlain
  <2>2. CASE RecheckOpen(p) \/ PublishReservation(p)
    BY <1>2, <2>2 DEF ClaimStep, RecheckOpen, PublishReservation, StorePlain
  <2> QED BY <1>2, <2>1, <2>2 DEF ClaimStep
<1>3. CASE Drain(p)
  BY <1>3 DEF Drain
<1>4. CASE ProducerDies(p)
  BY <1>4, TokenFacts DEF ProducerDies, DrainAll, MayDie, SharedTypes
<1> QED BY <1>1, <1>2, <1>3, <1>4 DEF ProducerStep

\* A registrar leaves the other registrars and the producers' own variables alone.
LEMMA RegistrarFrame ==
  ASSUME TypeOK, NEW r \in Registrars, RegistrarStep(r)
  PROVE  /\ UNCHANGED <<fenceVars, ppc, reserved>>
         /\ \A s \in Registrars \ {r} :
              /\ rpc'[s] = rpc[s] /\ expected'[s] = expected[s]
              /\ owner_start'[s] = owner_start[s] /\ held'[s] = held[s]
              /\ at'[s] = at[s] /\ snapshot'[s] = snapshot[s]
         /\ \A q \in Processes \ {r} : alive'[q] = alive[q]
         /\ alive'[r] => alive[r]
         /\ ~Fence(r) => buffer' = buffer /\ reservation' = reservation
         /\ ~Fence(r) /\ ~ClearDeadClaim(r) => claim_active' = claim_active
<1> USE DEF TypeOK, RegistrarTypes, fenceVars, gateVars, registrarVars, memoryVars, producerVars
<1>1. CASE Start(r)
  BY <1>1 DEF Start, Begin, TryArm, Goto
<1>2. CASE GateStep(r)
  <2>1. CASE CasGate(r) \/ StoreStart(r) \/ StoreActive(r) \/ CasFails(r) \/ LoadStart(r)
    BY <1>2, <2>1 DEF GateStep, CasGate, StoreStart, StoreActive, CasFails, LoadStart, Goto
  <2>2. CASE JudgeAlive(r) \/ JudgeDead(r) \/ CasClear(r) \/ FenceFails(r) \/ ArmBusy(r)
    BY <1>2, <2>2 DEF GateStep, JudgeAlive, JudgeDead, CasClear, FenceFails, ArmBusy, Retry, Goto
  <2>3. CASE PassProducer(r) \/ Activate(r) \/ ReadReservation(r)
    BY <1>2, <2>3 DEF GateStep, PassProducer, Activate, ReadReservation, Advance, Goto
  <2>4. CASE ClearDeadClaim(r) \/ ReleaseGate(r) \/ Fence(r)
    BY <1>2, <2>4 DEF GateStep, ClearDeadClaim, ReleaseGate, Fence, DrainAll, Goto
  <2> QED BY <1>2, <2>1, <2>2, <2>3, <2>4 DEF GateStep
<1>3. CASE RegistrarDies(r)
  BY <1>3, TokenFacts DEF RegistrarDies, MayDie, SharedTypes
<1> QED BY <1>1, <1>2, <1>3 DEF RegistrarStep

-----------------------------------------------------------------------------
(* Store buffers: lemmas *)

\* A store at the end of a buffer decides its own word and no other.
LEMMA StoreAppend ==
  ASSUME NEW b \in Seq(Stores), NEW e \in Stores
  PROVE  /\ \A m : Settles(Append(b, e), e.word, m, e.value)
         /\ \A w, m, v : w # e.word /\ Settles(b, w, m, v) => Settles(Append(b, e), w, m, v)
         /\ \A w : w # e.word /\ Clean(b, w) => Clean(Append(b, e), w)
<1> DEFINE c == Append(b, e)
<1>1. /\ Len(b) \in Nat /\ DOMAIN b = 1 .. Len(b) /\ DOMAIN c = 1 .. Len(b) + 1
      /\ \A i \in 1 .. Len(b) : c[i] = b[i]
      /\ c[Len(b) + 1] = e
  OBVIOUS
<1> HIDE DEF c
<1>2. \A m : Settles(c, e.word, m, e.value)
  <2>1. Len(b) + 1 \in DOMAIN c /\ \A j \in DOMAIN c : j <= Len(b) + 1
    BY <1>1
  <2> QED BY <1>1, <2>1 DEF Settles
<1>3. ASSUME NEW w, NEW m, NEW v, w # e.word, Settles(b, w, m, v) PROVE Settles(c, w, m, v)
  <2>1. ASSUME NEW i \in DOMAIN b, b[i].word = w, b[i].value = v,
               \A j \in DOMAIN b : b[j].word = w => j <= i
        PROVE  Settles(c, w, m, v)
    <3>1. i \in DOMAIN c /\ c[i] = b[i]
      BY <1>1
    <3>2. ASSUME NEW j \in DOMAIN c, c[j].word = w PROVE j <= i
      <4>1. j # Len(b) + 1
        BY <1>1, <1>3, <3>2
      <4>2. j \in DOMAIN b /\ c[j] = b[j]
        BY <1>1, <4>1
      <4> QED BY <2>1, <3>2, <4>2
    <3> QED BY <2>1, <3>1, <3>2 DEF Settles
  <2>2. CASE Clean(b, w) /\ m = v
    BY <1>1, <1>3, <2>2 DEF Settles, Clean
  <2> QED BY <1>3, <2>1, <2>2 DEF Settles
<1>4. \A w : w # e.word /\ Clean(b, w) => Clean(c, w)
  BY <1>1 DEF Clean
<1> QED BY <1>2, <1>3, <1>4 DEF c

\* The oldest store reaches memory, and the rest settles as before.
LEMMA StoreTail ==
  ASSUME NEW b \in Seq(Stores), b # <<>>
  PROVE  /\ \A w, m, v : Settles(b, w, m, v) =>
              Settles(Tail(b), w, IF Head(b).word = w THEN Head(b).value ELSE m, v)
         /\ \A w : Clean(b, w) => Clean(Tail(b), w)
<1> DEFINE c == Tail(b)
<1>1. /\ Len(b) \in Nat /\ Len(b) > 0 /\ DOMAIN b = 1 .. Len(b) /\ DOMAIN c = 1 .. Len(b) - 1
      /\ \A i \in 1 .. Len(b) - 1 : c[i] = b[i + 1]
      /\ Head(b) = b[1] /\ 1 \in DOMAIN b
  OBVIOUS
<1> HIDE DEF c
<1>2. ASSUME NEW w, NEW m, NEW v, Settles(b, w, m, v)
      PROVE  Settles(c, w, IF Head(b).word = w THEN Head(b).value ELSE m, v)
  <2>1. ASSUME NEW i \in DOMAIN b, b[i].word = w, b[i].value = v,
               \A j \in DOMAIN b : b[j].word = w => j <= i
        PROVE  Settles(c, w, IF Head(b).word = w THEN Head(b).value ELSE m, v)
    <3>1. CASE i = 1
      <4>1. Clean(c, w)
        <5> SUFFICES ASSUME NEW k \in DOMAIN c, c[k].word = w PROVE FALSE
          BY DEF Clean
        <5>1. k + 1 \in DOMAIN b /\ b[k + 1].word = w /\ k + 1 > 1
          BY <1>1
        <5> QED BY <5>1, <2>1, <3>1
      <4> QED BY <4>1, <1>1, <2>1, <3>1 DEF Settles
    <3>2. CASE i # 1
      <4>1. i - 1 \in DOMAIN c /\ c[i - 1] = b[i]
        BY <1>1, <3>2
      <4>2. ASSUME NEW j \in DOMAIN c, c[j].word = w PROVE j <= i - 1
        <5>1. j + 1 \in DOMAIN b /\ b[j + 1].word = w
          BY <1>1, <4>2
        <5>2. j + 1 <= i
          BY <5>1, <2>1
        <5> QED BY <5>2, <1>1
      <4> QED BY <4>1, <4>2, <2>1 DEF Settles
    <3> QED BY <3>1, <3>2
  <2>2. CASE Clean(b, w) /\ m = v
    BY <1>1, <2>2 DEF Settles, Clean
  <2> QED BY <1>2, <2>1, <2>2 DEF Settles
<1>3. \A w : Clean(b, w) => Clean(c, w)
  BY <1>1 DEF Clean
<1> QED BY <1>2, <1>3 DEF c

\* A buffer that reaches memory as a whole leaves what it settles.
LEMMA StoreDrained ==
  ASSUME TypeOK, NEW p \in Producers, NEW w, NEW m, NEW v, Settles(buffer[p], w, m, v)
  PROVE  Drained(p, w, m) = v
<1> DEFINE b == buffer[p]  values == {i \in DOMAIN b : b[i].word = w}
<1>1. b \in Seq(Stores) /\ DOMAIN b = 1 .. Len(b)
  BY DEF TypeOK, ClaimTypes
<1>2. CASE Clean(b, w) /\ m = v
  BY <1>2 DEF Clean, Drained
<1>3. ASSUME NEW i \in DOMAIN b, b[i].word = w, b[i].value = v,
             \A j \in DOMAIN b : b[j].word = w => j <= i
      PROVE  Drained(p, w, m) = v
  <2>1. i \in values /\ \A j \in values : j <= i
    BY <1>3
  <2>2. \A k \in values : (\A j \in values : j <= k) => k = i
    BY <2>1, <1>1
  <2>3. (CHOOSE k \in values : \A j \in values : j <= k) = i
    BY <2>1, <2>2
  <2> QED BY <2>1, <2>3, <1>3 DEF Drained
<1> QED BY <1>2, <1>3 DEF Settles

\* What memory holds of a producer after its buffer drained.
LEMMA DrainAllFacts ==
  ASSUME TypeOK, Basics, StoreInv, NEW ps, DrainAll(ps)
  PROVE  /\ claim_active' \in [Producers -> {0, 1}]
         /\ reservation' \in [Producers -> 0 .. MaxClaims]
         /\ buffer' \in [Producers -> Seq(Stores)]
         /\ \A p \in Producers :
              /\ p \in ps =>
                   /\ reservation'[p] = reserved[p] /\ buffer'[p] = <<>>
                   /\ alive[p] => claim_active'[p] =
                                    IF ppc[p] \in {"recheck", "claim", "leave"} THEN 1 ELSE 0
              /\ p \notin ps => /\ reservation'[p] = reservation[p] /\ buffer'[p] = buffer[p]
                                /\ claim_active'[p] = claim_active[p]
<1>1. ASSUME NEW p \in Producers, p \in ps
      PROVE  /\ reservation'[p] = reserved[p] /\ buffer'[p] = <<>>
             /\ alive[p] => claim_active'[p] =
                              IF ppc[p] \in {"recheck", "claim", "leave"} THEN 1 ELSE 0
             /\ claim_active'[p] \in {0, 1}
  <2>1. reservation'[p] = reserved[p]
    <3>1. Settles(buffer[p], "reservation", reservation[p], reserved[p])
      BY DEF StoreInv
    <3> QED BY <3>1, <1>1, StoreDrained DEF DrainAll
  <2>2. buffer'[p] = <<>>
    BY <1>1 DEF DrainAll
  <2>3. alive[p] => claim_active'[p] = IF ppc[p] \in {"recheck", "claim", "leave"} THEN 1 ELSE 0
    <3> DEFINE v == IF ppc[p] \in {"recheck", "claim", "leave"} THEN 1 ELSE 0
    <3>1. alive[p] => Settles(buffer[p], "active", claim_active[p], v)
      BY DEF StoreInv
    <3> HIDE DEF v
    <3>2. alive[p] => Drained(p, "active", claim_active[p]) = v
      BY <3>1, StoreDrained
    <3> QED BY <3>2, <1>1 DEF DrainAll, v
  <2>4. ~alive[p] => claim_active'[p] = claim_active[p]
    <3>1. ~alive[p] => Settles(buffer[p], "active", claim_active[p], claim_active[p])
      BY DEF Basics, Settles, Clean
    <3>2. ~alive[p] => Drained(p, "active", claim_active[p]) = claim_active[p]
      BY <3>1, StoreDrained
    <3> QED BY <3>2, <1>1 DEF DrainAll
  <2>5. claim_active[p] \in {0, 1} /\ alive[p] \in BOOLEAN
    BY TokenFacts DEF TypeOK, ClaimTypes, SharedTypes
  <2> QED BY <2>1, <2>2, <2>3, <2>4, <2>5
<1>2. ASSUME NEW p \in Producers, p \notin ps
      PROVE  /\ reservation'[p] = reservation[p] /\ buffer'[p] = buffer[p]
             /\ claim_active'[p] = claim_active[p]
  BY <1>2 DEF DrainAll
<1>3. claim_active' \in [Producers -> {0, 1}]
  <2>1. \A p \in Producers : claim_active'[p] \in {0, 1}
    BY <1>1, <1>2 DEF TypeOK, ClaimTypes
  <2> QED BY <2>1 DEF DrainAll
<1>4. reservation' \in [Producers -> 0 .. MaxClaims]
  <2>1. \A p \in Producers : reservation'[p] \in 0 .. MaxClaims
    BY <1>1, <1>2 DEF TypeOK, ClaimTypes
  <2> QED BY <2>1 DEF DrainAll
<1>5. buffer' \in [Producers -> Seq(Stores)]
  <2>1. <<>> \in Seq(Stores)
    OBVIOUS
  <2>2. \A p \in Producers : buffer'[p] \in Seq(Stores)
    BY <1>1, <1>2, <2>1 DEF TypeOK, ClaimTypes
  <2> QED BY <2>2 DEF DrainAll
<1> QED BY <1>1, <1>2, <1>3, <1>4, <1>5

\* What a store to claim_active leaves, light or seq_cst.
LEMMA StoreActiveFacts ==
  ASSUME TypeOK, Basics, StoreInv, NEW p \in Producers, NEW v \in {0, 1}, StoreActiveWord(p, v)
  PROVE  /\ claim_active' \in [Producers -> {0, 1}]
         /\ reservation' \in [Producers -> 0 .. MaxClaims]
         /\ buffer' \in [Producers -> Seq(Stores)]
         /\ Settles(buffer'[p], "active", claim_active'[p], v)
         /\ Settles(buffer'[p], "reservation", reservation'[p], reserved[p])
         /\ p \notin asymmetric => buffer'[p] = <<>>
         /\ p \in asymmetric =>
              /\ buffer'[p] = Append(buffer[p], [word |-> "active", value |-> v])
              /\ UNCHANGED memoryVars
<1> DEFINE e == [word |-> "active", value |-> v]
<1>1. /\ claim_active \in [Producers -> {0, 1}] /\ reservation \in [Producers -> 0 .. MaxClaims]
      /\ buffer \in [Producers -> Seq(Stores)] /\ reserved[p] \in 0 .. MaxClaims
  BY DEF TypeOK, ClaimTypes
<1>2. e \in Stores /\ e.word = "active" /\ e.value = v
  BY DEF Stores
<1>3. Settles(buffer[p], "reservation", reservation[p], reserved[p])
  BY DEF StoreInv
<1>4. CASE p \in asymmetric
  <2>1. buffer' = [buffer EXCEPT ![p] = Append(@, e)] /\ UNCHANGED memoryVars
    BY <1>4 DEF StoreActiveWord, StorePlain
  <2>2. buffer'[p] = Append(buffer[p], e) /\ buffer[p] \in Seq(Stores)
    BY <1>1, <2>1
  <2>3. buffer' \in [Producers -> Seq(Stores)]
    BY <1>1, <1>2, <2>1
  <2>4. /\ Settles(Append(buffer[p], e), "active", claim_active[p], v)
        /\ Settles(Append(buffer[p], e), "reservation", reservation[p], reserved[p])
    <3> HIDE DEF e
    <3>1. Settles(Append(buffer[p], e), e.word, claim_active[p], e.value)
      BY <1>2, <2>2, StoreAppend
    <3>2. "reservation" # e.word
      BY <1>2
    <3>3. Settles(Append(buffer[p], e), "reservation", reservation[p], reserved[p])
      BY <1>2, <1>3, <2>2, <3>2, StoreAppend
    <3> QED BY <1>2, <3>1, <3>3
  <2> QED BY <1>1, <1>4, <2>1, <2>2, <2>3, <2>4 DEF memoryVars
<1>5. CASE p \notin asymmetric
  <2>1. /\ claim_active' = [claim_active EXCEPT ![p] = v]
        /\ reservation' = [reservation EXCEPT
                             ![p] = Drained(p, "reservation", reservation[p])]
        /\ buffer' = [buffer EXCEPT ![p] = <<>>]
    BY <1>5 DEF StoreActiveWord
  <2>2. Drained(p, "reservation", reservation[p]) = reserved[p]
    BY <1>3, StoreDrained
  <2>3. /\ claim_active'[p] = v /\ reservation'[p] = reserved[p] /\ buffer'[p] = <<>>
    BY <1>1, <2>1, <2>2
  <2>4. <<>> \in Seq(Stores)
    OBVIOUS
  <2>5. /\ claim_active' \in [Producers -> {0, 1}]
        /\ reservation' \in [Producers -> 0 .. MaxClaims]
        /\ buffer' \in [Producers -> Seq(Stores)]
    BY <1>1, <2>1, <2>2, <2>4
  <2> QED BY <1>5, <2>3, <2>5 DEF Settles, Clean
<1> QED BY <1>4, <1>5

\* What the store of a reservation leaves.
LEMMA PublishFacts ==
  ASSUME TypeOK, Basics, StoreInv, NEW p \in Producers, alive[p], PublishReservation(p)
  PROVE  /\ reserved' = [reserved EXCEPT ![p] = @ + 1] /\ reserved'[p] \in 0 .. MaxClaims
         /\ buffer' \in [Producers -> Seq(Stores)] /\ UNCHANGED memoryVars
         /\ buffer'[p] = Append(buffer[p], [word |-> "reservation", value |-> reserved'[p]])
         /\ Settles(buffer'[p], "active", claim_active'[p], 1)
         /\ Settles(buffer'[p], "reservation", reservation'[p], reserved'[p])
         /\ Clean(buffer[p], "active") => Clean(buffer'[p], "active")
<1> DEFINE e == [word |-> "reservation", value |-> reserved[p] + 1]
<1>1. /\ buffer \in [Producers -> Seq(Stores)] /\ reserved \in [Producers -> 0 .. MaxClaims]
      /\ ppc[p] = "claim" /\ reserved' = [reserved EXCEPT ![p] = @ + 1]
      /\ buffer' = [buffer EXCEPT ![p] = Append(@, e)] /\ UNCHANGED memoryVars
  BY DEF TypeOK, ClaimTypes, PublishReservation, StorePlain
<1>2. reserved[p] < MaxClaims
  BY <1>1 DEF Basics
<1>3. reserved[p] + 1 \in 0 .. MaxClaims /\ reserved'[p] = reserved[p] + 1
  BY <1>1, <1>2, GateAssumption
<1>4. e \in Stores /\ e.word = "reservation" /\ e.value = reserved'[p]
  BY <1>3 DEF Stores
<1>5. buffer'[p] = Append(buffer[p], e) /\ buffer[p] \in Seq(Stores)
  BY <1>1
<1>6. buffer' \in [Producers -> Seq(Stores)]
  BY <1>1, <1>4
<1>7. Settles(buffer[p], "active", claim_active[p], 1)
  <2>1. Settles(buffer[p], "active", claim_active[p],
                IF ppc[p] \in {"recheck", "claim", "leave"} THEN 1 ELSE 0)
    BY DEF StoreInv
  <2> QED BY <1>1, <2>1
<1>8. /\ Settles(Append(buffer[p], e), "active", claim_active[p], 1)
      /\ Settles(Append(buffer[p], e), "reservation", reservation[p], reserved'[p])
      /\ Clean(buffer[p], "active") => Clean(Append(buffer[p], e), "active")
  <2> HIDE DEF e
  <2>1. Settles(Append(buffer[p], e), e.word, reservation[p], e.value)
    BY <1>4, <1>5, StoreAppend
  <2>2. "active" # e.word
    BY <1>4
  <2>3. /\ Settles(Append(buffer[p], e), "active", claim_active[p], 1)
        /\ Clean(buffer[p], "active") => Clean(Append(buffer[p], e), "active")
    BY <1>4, <1>5, <1>7, <2>2, StoreAppend
  <2> QED BY <1>4, <2>1, <2>3
<1> QED BY <1>1, <1>3, <1>5, <1>6, <1>8 DEF memoryVars

\* What the drain of one store leaves.
LEMMA DrainFacts ==
  ASSUME TypeOK, Basics, StoreInv, NEW p \in Producers, Drain(p)
  PROVE  /\ claim_active' \in [Producers -> {0, 1}]
         /\ reservation' \in [Producers -> 0 .. MaxClaims]
         /\ buffer' \in [Producers -> Seq(Stores)]
         /\ buffer[p] # <<>> /\ buffer'[p] = Tail(buffer[p])
         /\ claim_active'[p] = IF Head(buffer[p]).word = "active" THEN Head(buffer[p]).value
                               ELSE claim_active[p]
         /\ \A v : Settles(buffer[p], "active", claim_active[p], v) =>
                   Settles(buffer'[p], "active", claim_active'[p], v)
         /\ Settles(buffer'[p], "reservation", reservation'[p], reserved[p])
         /\ \A w : Clean(buffer[p], w) => Clean(buffer'[p], w)
<1> DEFINE b == buffer[p]  h == Head(b)
<1>1. /\ claim_active \in [Producers -> {0, 1}] /\ reservation \in [Producers -> 0 .. MaxClaims]
      /\ buffer \in [Producers -> Seq(Stores)] /\ b \in Seq(Stores) /\ b # <<>>
      /\ claim_active' = [claim_active EXCEPT ![p] = IF h.word = "active" THEN h.value ELSE @]
      /\ reservation' = [reservation EXCEPT ![p] = IF h.word = "reservation" THEN h.value ELSE @]
      /\ buffer' = [buffer EXCEPT ![p] = Tail(@)]
  BY DEF TypeOK, ClaimTypes, Drain
<1>2. h \in Stores /\ Tail(b) \in Seq(Stores)
  BY <1>1
<1>3. /\ h.word = "active" => h.value \in {0, 1}
      /\ h.word = "reservation" => h.value \in 0 .. MaxClaims
  BY <1>2 DEF Stores
<1>4. /\ claim_active' \in [Producers -> {0, 1}]
      /\ reservation' \in [Producers -> 0 .. MaxClaims]
      /\ buffer' \in [Producers -> Seq(Stores)]
  BY <1>1, <1>2, <1>3
<1>5. /\ buffer'[p] = Tail(b)
      /\ claim_active'[p] = IF h.word = "active" THEN h.value ELSE claim_active[p]
      /\ reservation'[p] = IF h.word = "reservation" THEN h.value ELSE reservation[p]
  BY <1>1
<1>6. Settles(b, "reservation", reservation[p], reserved[p])
  BY DEF StoreInv
<1> HIDE DEF b, h
<1>7. /\ \A w, m, v : Settles(b, w, m, v) =>
              Settles(Tail(b), w, IF Head(b).word = w THEN Head(b).value ELSE m, v)
      /\ \A w : Clean(b, w) => Clean(Tail(b), w)
  BY <1>1, StoreTail
<1> QED BY <1>1, <1>4, <1>5, <1>6, <1>7 DEF b, h

-----------------------------------------------------------------------------
(* Types, and what a store buffer settles *)

\* create() and open_publisher() establish types and store buffers.
LEMMA BaseInit == Init => TypeOK /\ Basics /\ StoreInv
<1> SUFFICES ASSUME Init PROVE TypeOK /\ Basics /\ StoreInv
  OBVIOUS
<1>1. SharedTypes
  <2>1. alive \in [Processes -> BOOLEAN]
    BY Zenon DEF Init
  <2> QED BY <2>1, TokenFacts DEF Init, SharedTypes, Registrations
<1>2. ClaimTypes
  <2>1. <<>> \in Seq(Stores)
    OBVIOUS
  <2> QED BY <2>1, GateAssumption DEF Init, ClaimTypes
<1>3. RegistrarTypes
  <2>1. <<>> \in Seq(0 .. MaxClaims)
    OBVIOUS
  <2>2. 0 \in Producers
    BY GateAssumption DEF Producers
  <2> QED BY <2>1, <2>2, TokenFacts, GateAssumption DEF Init, RegistrarTypes
<1>4. Basics
  BY TokenFacts DEF Init, Basics, Registrations
<1>5. StoreInv
  BY DEF Init, StoreInv, Settles, Clean
<1> QED BY <1>1, <1>2, <1>3, <1>4, <1>5 DEF TypeOK

\* A producer's step keeps them.
LEMMA BaseProducer ==
  ASSUME TypeOK, Basics, StoreInv, NEW p \in Producers, ProducerStep(p)
  PROVE  ClaimTypes' /\ Basics' /\ StoreInv'
<1> USE DEF fenceVars, gateVars, registrarVars, memoryVars, producerVars
<1> DEFINE Same == /\ UNCHANGED <<fenceVars, gateVars, notification, registrarVars>>
                   /\ \A q \in Producers \ {p} :
                        /\ ppc'[q] = ppc[q] /\ reserved'[q] = reserved[q]
                        /\ buffer'[q] = buffer[q] /\ claim_active'[q] = claim_active[q]
                        /\ reservation'[q] = reservation[q]
                   /\ \A q \in Processes \ {p} : alive'[q] = alive[q]
                   /\ alive'[p] => alive[p]
<1>0. Same
  BY ProducerFrame
<1> HIDE DEF Same
<1>1. ASSUME ~alive'[p] => ppc'[p] = "idle" /\ buffer'[p] = <<>>,
             ppc'[p] \in {"entering", "recheck", "claim"} => reserved'[p] < MaxClaims
      PROVE  Basics'
  BY <1>0, <1>1, TokenFacts DEF Basics, Same
<1>2. ASSUME NEW v, alive'[p] => Settles(buffer'[p], "active", claim_active'[p], v),
             v = IF ppc'[p] \in {"recheck", "claim", "leave"} THEN 1 ELSE 0,
             Settles(buffer'[p], "reservation", reservation'[p], reserved'[p]),
             p \notin asymmetric => /\ Clean(buffer'[p], "active")
                                    /\ buffer'[p] # <<>> => ppc'[p] = "leave"
      PROVE  StoreInv'
  <2> SUFFICES ASSUME NEW q \in Producers
      PROVE  /\ alive'[q] => Settles(buffer'[q], "active", claim_active'[q],
                                     IF ppc'[q] \in {"recheck", "claim", "leave"} THEN 1 ELSE 0)
             /\ Settles(buffer'[q], "reservation", reservation'[q], reserved'[q])
             /\ q \notin asymmetric' => /\ Clean(buffer'[q], "active")
                                        /\ buffer'[q] # <<>> => ppc'[q] = "leave"
    BY DEF StoreInv
  <2>1. asymmetric' = asymmetric
    BY <1>0 DEF Same
  <2>2. CASE q = p
    BY <1>2, <2>1, <2>2
  <2>3. CASE q # p
    BY <1>0, <2>1, <2>3, TokenFacts DEF Same, StoreInv
  <2> QED BY <2>2, <2>3
<1>3. CASE Enter(p)
  <2>1. /\ ppc[p] = "idle" /\ ppc' = [ppc EXCEPT ![p] = "entering"] /\ reserved[p] < MaxClaims
        /\ UNCHANGED <<reserved, buffer, memoryVars, alive>> /\ alive[p]
    BY <1>3 DEF Enter, CheckGate
  <2>2. ClaimTypes'
    BY <2>1 DEF TypeOK, ClaimTypes
  <2>3. ppc'[p] = "entering"
    BY <2>1 DEF TypeOK, ClaimTypes
  <2>4. /\ Settles(buffer[p], "active", claim_active[p], 0)
        /\ Settles(buffer[p], "reservation", reservation[p], reserved[p])
        /\ p \notin asymmetric => Clean(buffer[p], "active") /\ buffer[p] = <<>>
    <3>1. Settles(buffer[p], "active", claim_active[p],
                  IF ppc[p] \in {"recheck", "claim", "leave"} THEN 1 ELSE 0)
      BY <2>1 DEF StoreInv
    <3> QED BY <2>1, <3>1 DEF StoreInv
  <2>5. StoreInv'
    BY <2>1, <2>3, <2>4, <1>2
  <2> QED BY <2>1, <2>2, <2>3, <2>5, <1>1
<1>4. CASE alive[p] /\ UNCHANGED fenceVars /\ (RaiseActive(p) \/ RecheckClosed(p) \/ LeaveClaim(p))
  <2> DEFINE v == IF RaiseActive(p) THEN 1 ELSE 0
  <2>1. /\ StoreActiveWord(p, v) /\ v \in {0, 1} /\ UNCHANGED reserved /\ alive' = alive
        /\ v = 1 => ppc' = [ppc EXCEPT ![p] = "recheck"] /\ ppc[p] = "entering"
        /\ v = 0 => ppc' = [ppc EXCEPT ![p] = "idle"]
    <3>1. CASE RaiseActive(p)
      BY <3>1 DEF RaiseActive
    <3>2. CASE ~RaiseActive(p) /\ (RecheckClosed(p) \/ LeaveClaim(p))
      BY <3>2 DEF RecheckClosed, LeaveClaim
    <3> QED BY <3>1, <3>2, <1>4
  <2> HIDE DEF v
  <2>2. /\ claim_active' \in [Producers -> {0, 1}]
        /\ reservation' \in [Producers -> 0 .. MaxClaims]
        /\ buffer' \in [Producers -> Seq(Stores)]
        /\ Settles(buffer'[p], "active", claim_active'[p], v)
        /\ Settles(buffer'[p], "reservation", reservation'[p], reserved[p])
        /\ p \notin asymmetric => buffer'[p] = <<>>
    BY <2>1, StoreActiveFacts
  <2>3. v = IF ppc'[p] \in {"recheck", "claim", "leave"} THEN 1 ELSE 0
    BY <2>1 DEF TypeOK, ClaimTypes
  <2>4. ClaimTypes'
    BY <2>1, <2>2 DEF TypeOK, ClaimTypes
  <2>5. StoreInv'
    <3>1. p \notin asymmetric => Clean(buffer'[p], "active")
      BY <2>2 DEF Clean
    <3> QED BY <2>1, <2>2, <2>3, <3>1, <1>2
  <2>6. ppc'[p] \in {"entering", "recheck", "claim"} => reserved'[p] < MaxClaims
    BY <2>1 DEF Basics, TypeOK, ClaimTypes
  <2> QED BY <2>1, <2>4, <2>5, <2>6, <1>1, <1>4
<1>5. CASE alive[p] /\ UNCHANGED fenceVars /\ RecheckOpen(p)
  <2>1. /\ ppc[p] = "recheck" /\ ppc' = [ppc EXCEPT ![p] = "claim"]
        /\ UNCHANGED <<reserved, buffer, memoryVars, alive>> /\ alive[p]
    BY <1>5 DEF RecheckOpen
  <2>2. ClaimTypes' /\ ppc'[p] = "claim"
    BY <2>1 DEF TypeOK, ClaimTypes
  <2>3. /\ Settles(buffer[p], "active", claim_active[p], 1)
        /\ Settles(buffer[p], "reservation", reservation[p], reserved[p])
        /\ p \notin asymmetric => Clean(buffer[p], "active") /\ buffer[p] = <<>>
    <3>1. Settles(buffer[p], "active", claim_active[p],
                  IF ppc[p] \in {"recheck", "claim", "leave"} THEN 1 ELSE 0)
      BY <2>1 DEF StoreInv
    <3> QED BY <2>1, <3>1 DEF StoreInv
  <2>4. StoreInv'
    BY <2>1, <2>2, <2>3, <1>2
  <2>5. reserved'[p] < MaxClaims
    BY <2>1 DEF Basics
  <2> QED BY <2>1, <2>2, <2>4, <2>5, <1>1
<1>6. CASE alive[p] /\ UNCHANGED fenceVars /\ PublishReservation(p)
  <2>1. /\ ppc' = [ppc EXCEPT ![p] = "leave"] /\ UNCHANGED <<alive, memoryVars>>
        /\ ppc[p] = "claim"
    BY <1>6 DEF PublishReservation, StorePlain
  <2>2. /\ reserved' = [reserved EXCEPT ![p] = @ + 1] /\ reserved'[p] \in 0 .. MaxClaims
        /\ buffer' \in [Producers -> Seq(Stores)]
        /\ Settles(buffer'[p], "active", claim_active'[p], 1)
        /\ Settles(buffer'[p], "reservation", reservation'[p], reserved'[p])
        /\ Clean(buffer[p], "active") => Clean(buffer'[p], "active")
    BY <1>6, PublishFacts
  <2>3. ClaimTypes' /\ ppc'[p] = "leave"
    BY <2>1, <2>2 DEF TypeOK, ClaimTypes
  <2>4. p \notin asymmetric => Clean(buffer[p], "active")
    BY DEF StoreInv
  <2>5. StoreInv'
    BY <2>2, <2>3, <2>4, <1>2
  <2> QED BY <2>1, <2>3, <2>5, <1>1, <1>6
<1>7. CASE Drain(p)
  <2>1. /\ claim_active' \in [Producers -> {0, 1}]
        /\ reservation' \in [Producers -> 0 .. MaxClaims]
        /\ buffer' \in [Producers -> Seq(Stores)] /\ buffer[p] # <<>>
        /\ \A v : Settles(buffer[p], "active", claim_active[p], v) =>
                  Settles(buffer'[p], "active", claim_active'[p], v)
        /\ Settles(buffer'[p], "reservation", reservation'[p], reserved[p])
        /\ \A w : Clean(buffer[p], w) => Clean(buffer'[p], w)
    BY <1>7, DrainFacts
  <2>2. UNCHANGED <<ppc, reserved, alive>>
    BY <1>7 DEF Drain
  <2>3. ClaimTypes'
    BY <2>1, <2>2 DEF TypeOK, ClaimTypes
  <2>4. alive[p]
    BY <2>1 DEF Basics
  <2>5. ppc'[p] \in {"entering", "recheck", "claim"} => reserved'[p] < MaxClaims
    BY <2>2 DEF Basics
  <2>6. StoreInv'
    <3> DEFINE v == IF ppc[p] \in {"recheck", "claim", "leave"} THEN 1 ELSE 0
    <3>1. /\ Settles(buffer[p], "active", claim_active[p], v)
          /\ p \notin asymmetric => Clean(buffer[p], "active") /\ ppc[p] = "leave"
      BY <2>1, <2>4 DEF StoreInv
    <3> HIDE DEF v
    <3>2. Settles(buffer'[p], "active", claim_active'[p], v)
      BY <2>1, <3>1
    <3>3. v = IF ppc'[p] \in {"recheck", "claim", "leave"} THEN 1 ELSE 0
      BY <2>2 DEF v
    <3> QED BY <2>1, <2>2, <3>1, <3>2, <3>3, <1>2
  <2> QED BY <2>2, <2>3, <2>4, <2>5, <2>6, <1>1
<1>8. CASE ProducerDies(p)
  <2>1. /\ DrainAll({p}) /\ ppc' = [ppc EXCEPT ![p] = "idle"] /\ UNCHANGED reserved
        /\ ~alive'[p]
    BY <1>8, TokenFacts DEF ProducerDies, TypeOK, SharedTypes
  <2>2. /\ claim_active' \in [Producers -> {0, 1}]
        /\ reservation' \in [Producers -> 0 .. MaxClaims]
        /\ buffer' \in [Producers -> Seq(Stores)]
        /\ reservation'[p] = reserved[p] /\ buffer'[p] = <<>>
    BY <2>1, DrainAllFacts
  <2>3. ClaimTypes' /\ ppc'[p] = "idle"
    BY <2>1, <2>2 DEF TypeOK, ClaimTypes
  <2>4. StoreInv'
    <3>1. Clean(buffer'[p], "active") /\ Clean(buffer'[p], "reservation")
      BY <2>2 DEF Clean
    <3>2. Settles(buffer'[p], "reservation", reservation'[p], reserved'[p])
      BY <2>1, <2>2, <3>1 DEF Settles
    <3> QED BY <2>1, <2>2, <2>3, <3>1, <3>2, <1>2
  <2> QED BY <2>2, <2>3, <2>4, <1>1
<1> QED BY <1>3, <1>4, <1>5, <1>6, <1>7, <1>8 DEF ProducerStep, ClaimStep

\* A registrar's step keeps them: a fence drains the buffers, and a claim that is
\* cleared is that of a dead producer.
LEMMA BaseRegistrar ==
  ASSUME TypeOK, Basics, StoreInv, NEW r \in Registrars, RegistrarStep(r)
  PROVE  ClaimTypes' /\ Basics' /\ StoreInv'
<1> USE DEF fenceVars, gateVars, registrarVars, memoryVars, producerVars
<1>1. /\ UNCHANGED <<fenceVars, ppc, reserved>> /\ r \in Processes
      /\ \A s \in Registrars \ {r} : rpc'[s] = rpc[s]
      /\ \A p \in Producers : alive'[p] = alive[p]
      /\ \A s \in Registrars \ {r} : alive'[s] = alive[s]
      /\ ~Fence(r) => buffer' = buffer /\ reservation' = reservation
      /\ ~Fence(r) /\ ~ClearDeadClaim(r) => claim_active' = claim_active
  BY RegistrarFrame, TokenFacts
<1>2. ~alive'[r] => rpc'[r] = "idle"
  <2>1. CASE RegistrarDies(r)
    BY <2>1 DEF RegistrarDies, TypeOK, RegistrarTypes
  <2>2. CASE Start(r) \/ GateStep(r)
    <3>1. alive[r] /\ alive' = alive
      BY <2>2 DEF Start, GateStep, Begin, TryArm, CasGate, StoreStart, StoreActive, CasFails,
         LoadStart, JudgeAlive, JudgeDead, CasClear, Fence, FenceFails, PassProducer,
         ClearDeadClaim, ArmBusy, Activate, ReadReservation, ReleaseGate
    <3> QED BY <3>1
  <2> QED BY <2>1, <2>2 DEF RegistrarStep
<1>3. CASE ~Fence(r) /\ ~ClearDeadClaim(r)
  BY <1>1, <1>2, <1>3 DEF TypeOK, ClaimTypes, Basics, StoreInv
<1>4. CASE ~Fence(r) /\ ClearDeadClaim(r)
  <2>1. /\ claim_active' = [claim_active EXCEPT ![at[r]] = 0] /\ at[r] \in Producers
        /\ ~IsRegisteredProcessAlive(at[r], at[r])
    BY <1>4 DEF ClearDeadClaim, TypeOK, RegistrarTypes
  <2>2. ~alive[at[r]]
    BY <2>1, TokenFacts DEF IsRegisteredProcessAlive
  <2>3. \A p \in Producers : alive[p] => claim_active'[p] = claim_active[p]
    BY <2>1, <2>2 DEF TypeOK, ClaimTypes
  <2>4. ClaimTypes'
    BY <1>1, <1>4, <2>1 DEF TypeOK, ClaimTypes
  <2> QED BY <1>1, <1>2, <1>4, <2>3, <2>4 DEF Basics, StoreInv
<1>5. CASE Fence(r)
  <2>1. PICK ps \in {asymmetric, {}} : DrainAll(ps)
    BY <1>5 DEF Fence
  <2>2. /\ claim_active' \in [Producers -> {0, 1}]
        /\ reservation' \in [Producers -> 0 .. MaxClaims]
        /\ buffer' \in [Producers -> Seq(Stores)]
        /\ \A p \in Producers :
              /\ p \in ps =>
                   /\ reservation'[p] = reserved[p] /\ buffer'[p] = <<>>
                   /\ alive[p] => claim_active'[p] =
                                    IF ppc[p] \in {"recheck", "claim", "leave"} THEN 1 ELSE 0
              /\ p \notin ps => /\ reservation'[p] = reservation[p] /\ buffer'[p] = buffer[p]
                                /\ claim_active'[p] = claim_active[p]
    BY <2>1, DrainAllFacts
  <2>3. ClaimTypes'
    BY <1>1, <2>2 DEF TypeOK, ClaimTypes
  <2>4. Basics'
    <3>1. \A p \in Producers : buffer[p] = <<>> => buffer'[p] = <<>>
      BY <2>2
    <3> QED BY <1>1, <1>2, <3>1 DEF Basics
  <2>5. StoreInv'
    <3>1. ASSUME NEW p \in Producers, p \in ps
          PROVE  /\ alive'[p] => Settles(buffer'[p], "active", claim_active'[p],
                                         IF ppc'[p] \in {"recheck", "claim", "leave"} THEN 1 ELSE 0)
                 /\ Settles(buffer'[p], "reservation", reservation'[p], reserved'[p])
                 /\ Clean(buffer'[p], "active") /\ buffer'[p] = <<>>
      <4>1. \A w : Clean(buffer'[p], w)
        BY <2>2, <3>1 DEF Clean
      <4> QED BY <4>1, <2>2, <3>1, <1>1 DEF Settles
    <3>2. ASSUME NEW p \in Producers, p \notin ps
          PROVE  /\ alive'[p] => Settles(buffer'[p], "active", claim_active'[p],
                                         IF ppc'[p] \in {"recheck", "claim", "leave"} THEN 1 ELSE 0)
                 /\ Settles(buffer'[p], "reservation", reservation'[p], reserved'[p])
                 /\ p \notin asymmetric' => /\ Clean(buffer'[p], "active")
                                            /\ buffer'[p] # <<>> => ppc'[p] = "leave"
      <4>1. /\ reservation'[p] = reservation[p] /\ buffer'[p] = buffer[p]
            /\ claim_active'[p] = claim_active[p] /\ ppc'[p] = ppc[p] /\ alive'[p] = alive[p]
            /\ reserved'[p] = reserved[p] /\ asymmetric' = asymmetric
        BY <2>2, <3>2, <1>1
      <4> QED BY <4>1 DEF StoreInv
    <3> QED BY <3>1, <3>2 DEF StoreInv
  <2> QED BY <2>3, <2>4, <2>5
<1> QED BY <1>3, <1>4, <1>5

\* Every step keeps the gate's and the registrars' types.
LEMMA RegistrarTypesStep ==
  ASSUME TypeOK, NEW r \in Registrars, RegistrarStep(r)
  PROVE  SharedTypes' /\ RegistrarTypes'
<1> USE DEF fenceVars, gateVars, registrarVars, memoryVars, producerVars
<1> DEFINE Labels == {"idle"} \cup Acquiring \cup Holding
<1>0. /\ {"idle", "cas", "storeStart", "storeActive", "fence", "loadStart", "judge", "clear",
         "armFence", "wait", "armScan", "release", "snapshot", "activate"} = Labels
      /\ rpc \in [Registrars -> Labels]
  BY DEF Acquiring, Holding, Scanning, Quiet, TypeOK, RegistrarTypes
<1>1. ASSUME rpc' \in [Registrars -> Labels]
      PROVE  rpc' \in [Registrars -> {"idle"} \cup Acquiring \cup Holding]
  BY <1>1
<1> HIDE DEF Labels
<1>2. <<>> \in Seq(0 .. MaxClaims) /\ 0 \in Producers /\ at[r] \in Producers
  BY GateAssumption DEF Producers, TypeOK, RegistrarTypes
<1>3. ~Last(r) => at[r] + 1 \in Producers
  BY <1>2, GateAssumption DEF Producers, Last
<1>4. /\ rpc' \in [Registrars -> Labels]
      /\ alive' \in [Processes -> BOOLEAN] /\ gate_start' \in Registrars \cup {None}
      /\ notification' \in BOOLEAN
  <2> USE <1>0 DEF TypeOK, SharedTypes
  <2>1. CASE Start(r)
    BY <2>1 DEF Start, Begin, TryArm, Goto
  <2>2. CASE RegistrarDies(r)
    BY <2>2 DEF RegistrarDies
  <2>3. CASE GateStep(r)
    <3>1. CASE CasGate(r) \/ StoreStart(r) \/ StoreActive(r) \/ CasFails(r) \/ LoadStart(r)
      BY <2>3, <3>1 DEF GateStep, CasGate, StoreStart, StoreActive, CasFails, LoadStart, Goto
    <3>2. CASE JudgeAlive(r) \/ JudgeDead(r) \/ CasClear(r) \/ FenceFails(r) \/ ArmBusy(r)
      BY <2>3, <3>2 DEF GateStep, JudgeAlive, JudgeDead, CasClear, FenceFails, ArmBusy, Retry,
         Goto
    <3>3. CASE PassProducer(r)
      BY <2>3, <3>3 DEF GateStep, PassProducer, Goto, Scanning
    <3>4. CASE Activate(r) \/ ReadReservation(r) \/ ClearDeadClaim(r) \/ ReleaseGate(r)
               \/ Fence(r)
      BY <2>3, <3>4 DEF GateStep, Activate, ReadReservation, ClearDeadClaim, ReleaseGate, Fence,
         Goto
    <3> QED BY <2>3, <3>1, <3>2, <3>3, <3>4 DEF GateStep
  <2> QED BY <2>1, <2>2, <2>3 DEF RegistrarStep
<1>5. gate' \in Tokens /\ expected' \in [Registrars -> Tokens] /\ held' \in [Registrars -> Tokens]
  <2>0. /\ Open \in Tokens /\ Token(0, r, "Preparing") \in Tokens
        /\ Token(0, r, "Active") \in Tokens /\ Token(Subscription, r, "Preparing") \in Tokens
        /\ gate \in Tokens /\ expected \in [Registrars -> Tokens] /\ held \in [Registrars -> Tokens]
    BY TokenFacts DEF TypeOK, SharedTypes, RegistrarTypes
  <2>1. CASE Start(r) \/ RegistrarDies(r)
    BY <2>0, <2>1 DEF Start, Begin, TryArm, RegistrarDies
  <2>2. CASE GateStep(r)
    <3>1. CASE CasGate(r) \/ StoreStart(r) \/ StoreActive(r) \/ CasFails(r) \/ LoadStart(r)
      BY <2>0, <2>2, <3>1 DEF GateStep, CasGate, StoreStart, StoreActive, CasFails, LoadStart
    <3>2. CASE JudgeAlive(r) \/ JudgeDead(r) \/ CasClear(r) \/ FenceFails(r) \/ ArmBusy(r)
      BY <2>0, <2>2, <3>2 DEF GateStep, JudgeAlive, JudgeDead, CasClear, FenceFails, ArmBusy, Retry
    <3>3. CASE PassProducer(r) \/ Activate(r) \/ ReadReservation(r) \/ ClearDeadClaim(r)
               \/ ReleaseGate(r) \/ Fence(r)
      BY <2>0, <2>2, <3>3 DEF GateStep, PassProducer, Activate, ReadReservation, ClearDeadClaim,
         ReleaseGate, Fence
    <3> QED BY <2>2, <3>1, <3>2, <3>3 DEF GateStep
  <2> QED BY <2>1, <2>2 DEF RegistrarStep
<1>6. /\ owner_start' \in [Registrars -> Registrars \cup {None}]
      /\ ops' \in [Registrars -> 0 .. MaxOps]
  <2> USE DEF TypeOK, SharedTypes, RegistrarTypes
  <2>1. CASE Start(r) \/ RegistrarDies(r)
    <3>1. ops[r] < MaxOps => ops[r] + 1 \in 0 .. MaxOps
      BY GateAssumption
    <3> QED BY <2>1, <3>1 DEF Start, Begin, TryArm, RegistrarDies
  <2>2. CASE GateStep(r)
    BY <2>2 DEF GateStep, CasGate, StoreStart, StoreActive, CasFails, LoadStart, JudgeAlive,
       JudgeDead, CasClear, FenceFails, ArmBusy, Retry, PassProducer, Activate,
       ReadReservation, ClearDeadClaim, ReleaseGate, Fence
  <2> QED BY <2>1, <2>2 DEF RegistrarStep
<1>7. at' \in [Registrars -> Producers] /\ snapshot' \in [Registrars -> Seq(0 .. MaxClaims)]
  <2>1. at \in [Registrars -> Producers] /\ snapshot \in [Registrars -> Seq(0 .. MaxClaims)]
    BY DEF TypeOK, RegistrarTypes
  <2>2. CASE Start(r) \/ RegistrarDies(r)
    BY <1>2, <2>1, <2>2 DEF Start, Begin, TryArm, RegistrarDies
  <2>3. CASE GateStep(r)
    <3>1. CASE PassProducer(r)
      BY <1>2, <1>3, <2>1, <3>1 DEF PassProducer, Advance
    <3>2. CASE ReadReservation(r)
      <4>1. reservation[at[r]] \in 0 .. MaxClaims
        BY <1>2 DEF TypeOK, ClaimTypes
      <4>2. snapshot' \in [Registrars -> Seq(0 .. MaxClaims)]
        BY <2>1, <4>1, <3>2 DEF ReadReservation
      <4> QED BY <1>2, <1>3, <2>1, <4>2, <3>2 DEF ReadReservation, Advance
    <3>3. CASE Fence(r) \/ ReleaseGate(r)
      BY <1>2, <2>1, <3>3 DEF Fence, ReleaseGate
    <3>4. CASE ~(PassProducer(r) \/ ReadReservation(r) \/ Fence(r) \/ ReleaseGate(r))
      BY <2>1, <2>3, <3>4 DEF GateStep, CasGate, StoreStart, StoreActive, CasFails, LoadStart,
         JudgeAlive, JudgeDead, CasClear, FenceFails, ArmBusy, Retry, Activate, ClearDeadClaim
    <3> QED BY <3>1, <3>2, <3>3, <3>4
  <2> QED BY <2>2, <2>3 DEF RegistrarStep
<1>8. protocol' = protocol /\ asymmetric' = asymmetric
  BY RegistrarFrame
<1> QED BY <1>1, <1>4, <1>5, <1>6, <1>7, <1>8 DEF TypeOK, SharedTypes, RegistrarTypes

\* Every step keeps types, deaths and what the store buffers settle.
LEMMA BaseStep ==
  ASSUME TypeOK, Basics, StoreInv, [Next]_vars
  PROVE  TypeOK' /\ Basics' /\ StoreInv'
<1>1. ASSUME NEW p \in Producers, ProducerStep(p) PROVE TypeOK' /\ Basics' /\ StoreInv'
  <2>1. SharedTypes'
    <3>1. alive' \in [Processes -> BOOLEAN]
      BY <1>1 DEF ProducerStep, Enter, CheckGate, ClaimStep, RaiseActive, RecheckOpen,
         RecheckClosed, PublishReservation, LeaveClaim, Drain, ProducerDies, TypeOK, SharedTypes
    <3> QED BY <1>1, <3>1, ProducerFrame DEF fenceVars, gateVars, TypeOK, SharedTypes
  <2>2. RegistrarTypes'
    BY <1>1, ProducerFrame DEF registrarVars, TypeOK, RegistrarTypes
  <2> QED BY <2>1, <2>2, <1>1, BaseProducer DEF TypeOK
<1>2. ASSUME NEW r \in Registrars, RegistrarStep(r) PROVE TypeOK' /\ Basics' /\ StoreInv'
  BY <1>2, BaseRegistrar, RegistrarTypesStep DEF TypeOK
<1>3. CASE UNCHANGED vars
  BY <1>3 DEF vars, fenceVars, gateVars, memoryVars, producerVars, registrarVars, TypeOK,
     SharedTypes, ClaimTypes, RegistrarTypes, Basics, StoreInv
<1> QED BY <1>1, <1>2, <1>3 DEF Next, ProducerStep, RegistrarStep

-----------------------------------------------------------------------------
(* The gate *)

\* Who is past its CAS owns the gate word, alone.
LEMMA Owner ==
  ASSUME TypeOK, GateOwned, NEW r \in Registrars, rpc[r] \in Owning
  PROVE  /\ gate.pid = r /\ gate # Open
         /\ \A s \in Registrars : rpc[s] \in Owning => s = r
<1>1. \A s \in Registrars : rpc[s] \in Owning => gate.pid = s
  BY TokenFacts DEF GateOwned, Owning
<1> QED BY <1>1, TokenFacts

\* A step of the owner, or of one who is not past the CAS, that leaves gate, start
\* token and held token alone.
LEMMA GateMoves ==
  ASSUME TypeOK, GateInv, NEW r \in Registrars, RegistrarStep(r),
         UNCHANGED <<gate, gate_start, alive>>, held'[r] = held[r],
         \/ rpc[r] \in Holding /\ rpc'[r] \in Holding
         \/ rpc[r] \notin Owning /\ rpc'[r] \notin Owning
  PROVE  /\ GateOwned' /\ StartStored'
         /\ rpc'[r] \notin {"loadStart", "judge", "clear"} => Judged'
<1>1. \A s \in Registrars \ {r} : /\ rpc'[s] = rpc[s] /\ held'[s] = held[s]
                                  /\ expected'[s] = expected[s] /\ owner_start'[s] = owner_start[s]
  BY RegistrarFrame
<1>0. /\ \A s \in Registrars : /\ held'[s] = held[s]
                               /\ rpc[s] \in Holding <=> rpc'[s] \in Holding
                               /\ rpc[s] \in Owning <=> rpc'[s] \in Owning
      /\ \A s \in Registrars : rpc'[s] \in {"storeStart", "storeActive"} => rpc[s] = rpc'[s]
  <2>1. {"storeStart", "storeActive"} \cap Holding = {} /\ Holding \subseteq Owning
        /\ {"storeStart", "storeActive"} \subseteq Owning
    BY DEF Owning, Holding, Scanning, Quiet
  <2> QED BY <1>1, <2>1 DEF Owning
<1>2. GateOwned'
  <2>1. gate # Open => gate.pid \in Registrars
    BY TokenFacts DEF TypeOK, SharedTypes
  <2>2. gate # Open /\ alive[gate.pid] => rpc'[gate.pid] \in Owning
    BY <1>0, <2>1 DEF GateInv, GateOwned
  <2>3. \A s \in Registrars :
          /\ rpc'[s] \in {"storeStart", "storeActive"} => gate = Token(0, s, "Preparing")
          /\ rpc'[s] \in Holding => /\ gate = held'[s]
                                    /\ held'[s] \in {Token(0, s, "Active"),
                                                     Token(Subscription, s, "Preparing")}
    BY <1>0 DEF GateInv, GateOwned
  <2> QED BY <2>2, <2>3 DEF GateOwned
<1>3. StartStored'
  BY <1>0 DEF GateInv, StartStored
<1>4. rpc'[r] \notin {"loadStart", "judge", "clear"} => Judged'
  BY <1>1 DEF GateInv, Judged
<1> QED BY <1>2, <1>3, <1>4

\* Every step of a registrar keeps the gate with its live owner.
LEMMA GateRegistrar ==
  ASSUME TwoRegistrars, TypeOK, Basics, GateInv, NEW r \in Registrars, RegistrarStep(r)
  PROVE  GateInv'
<1> USE DEF fenceVars, gateVars, registrarVars, memoryVars, producerVars
<1>1. \A s \in Registrars \ {r} : /\ rpc'[s] = rpc[s] /\ held'[s] = held[s]
                                  /\ expected'[s] = expected[s] /\ owner_start'[s] = owner_start[s]
                                  /\ alive'[s] = alive[s]
  BY RegistrarFrame, TokenFacts
<1>2. /\ rpc \in [Registrars -> {"idle"} \cup Acquiring \cup Holding]
      /\ held \in [Registrars -> Tokens] /\ expected \in [Registrars -> Tokens]
      /\ owner_start \in [Registrars -> Registrars \cup {None}]
      /\ gate \in Tokens /\ (gate # Open => gate.pid \in Registrars)
  BY TokenFacts DEF TypeOK, SharedTypes, RegistrarTypes
<1>3. /\ \A s \in Registrars : rpc[s] \in Owning =>
           /\ gate.pid = s /\ gate # Open /\ alive[s]
           /\ \A t \in Registrars : rpc[t] \in Owning => t = s
  <2>1. \A s \in Registrars : rpc[s] \in Owning => rpc[s] # "idle"
    BY DEF Owning, Holding, Scanning, Quiet
  <2> QED BY <2>1, Owner DEF GateInv, Basics
<1>4. ASSUME alive[r], Begin(r) PROVE GateInv'
  <2>1. UNCHANGED <<gate, gate_start, alive, held>> /\ rpc[r] = "idle" /\ rpc'[r] = "cas"
    BY <1>2, <1>4 DEF Begin, Goto
  <2> QED BY <2>1, GateMoves DEF GateInv, Owning, Holding, Scanning, Quiet, Acquiring
<1>5. ASSUME alive[r], CasFails(r) PROVE GateInv'
  <2>1. /\ UNCHANGED <<gate, gate_start, alive, held>> /\ rpc[r] = "cas" /\ gate # Open
        /\ rpc'[r] = (IF gate.phase = "Preparing" THEN "judge" ELSE "loadStart")
        /\ expected'[r] = gate /\ owner_start'[r] = None
    BY <1>2, <1>5 DEF CasFails, Goto
  <2>2. GateOwned' /\ StartStored'
    BY <2>1, GateMoves DEF Owning, Holding, Scanning, Quiet, Acquiring
  <2>3. gate.pid \in Registrars \ {r}
    <3>1. alive[gate.pid] => rpc[gate.pid] \in Owning
      BY <2>1 DEF GateInv, GateOwned
    <3>2. rpc[r] \notin Owning
      BY <2>1 DEF Owning, Holding, Scanning, Quiet
    <3> QED BY <1>2, <1>5, <2>1, <3>1, <3>2
  <2>4. gate.phase # "Preparing" /\ alive[gate.pid] => gate_start = gate.pid
    <3> SUFFICES ASSUME gate.phase # "Preparing", alive[gate.pid] PROVE gate_start = gate.pid
      OBVIOUS
    <3>1. rpc[gate.pid] \in Owning
      BY <2>1 DEF GateInv, GateOwned
    <3>2. rpc[gate.pid] \in Holding /\ held[gate.pid].phase = "Active"
      BY <2>3, <3>1, TokenFacts DEF GateInv, GateOwned, Owning
    <3> QED BY <2>3, <3>2 DEF GateInv, StartStored
  <2>5. Judged'
    BY <1>1, <2>1, <2>3, <2>4 DEF GateInv, Judged
  <2> QED BY <2>2, <2>5 DEF GateInv
<1>6. ASSUME alive[r], LoadStart(r) PROVE GateInv'
  <2>1. /\ UNCHANGED <<gate, gate_start, alive, held, expected>> /\ rpc[r] = "loadStart"
        /\ rpc'[r] = "judge" /\ owner_start'[r] = gate_start
    BY <1>2, <1>6 DEF LoadStart, Goto
  <2>2. GateOwned' /\ StartStored'
    BY <2>1, GateMoves DEF Owning, Holding, Scanning, Quiet, Acquiring
  <2>3. Judged'
    BY <1>1, <2>1 DEF GateInv, Judged
  <2> QED BY <2>2, <2>3 DEF GateInv
<1>7. ASSUME alive[r], JudgeAlive(r) PROVE GateInv'
  <2>1. UNCHANGED <<gate, gate_start, alive, held>> /\ rpc[r] = "judge" /\ rpc'[r] = "cas"
    BY <1>2, <1>7 DEF JudgeAlive, Retry, Goto
  <2> QED BY <2>1, GateMoves DEF GateInv, Owning, Holding, Scanning, Quiet, Acquiring
<1>8. ASSUME alive[r], JudgeDead(r) PROVE GateInv'
  <2>1. /\ UNCHANGED <<gate, gate_start, alive, held, expected, owner_start>>
        /\ rpc[r] = "judge" /\ rpc'[r] = "clear"
        /\ ~IsRegisteredProcessAlive(expected[r].pid, owner_start[r])
    BY <1>2, <1>8 DEF JudgeDead, Goto
  <2>2. GateOwned' /\ StartStored'
    BY <2>1, GateMoves DEF Owning, Holding, Scanning, Quiet, Acquiring
  <2>3. expected[r].pid \in Registrars \ {r} /\ ~alive[expected[r].pid]
    BY <2>1, TokenFacts DEF GateInv, Judged, IsRegisteredProcessAlive
  <2>4. Judged'
    BY <1>1, <2>1, <2>3 DEF GateInv, Judged
  <2> QED BY <2>2, <2>4 DEF GateInv
<1>9. ASSUME alive[r], CasClear(r) PROVE GateInv'
  <2>1. /\ UNCHANGED <<gate_start, alive, held>> /\ rpc[r] = "clear" /\ rpc'[r] = "cas"
        /\ gate' = IF gate = expected[r] THEN Open ELSE gate
    BY <1>2, <1>9 DEF CasClear, Retry, Goto
  <2>2. ~alive[expected[r].pid]
    BY <2>1 DEF GateInv, Judged
  <2>3. \A s \in Registrars : rpc[s] \in Owning => gate' = gate
    BY <1>3, <2>1, <2>2
  <2>4. \A s \in Registrars : rpc'[s] \in Owning => rpc[s] \in Owning /\ s # r
    BY <1>1, <2>1 DEF Owning, Holding, Scanning, Quiet
  <2>5. GateOwned'
    <3>1. \A s \in Registrars :
            /\ rpc'[s] \in {"storeStart", "storeActive"} => gate' = Token(0, s, "Preparing")
            /\ rpc'[s] \in Holding => /\ gate' = held'[s]
                                      /\ held'[s] \in {Token(0, s, "Active"),
                                                       Token(Subscription, s, "Preparing")}
      BY <1>1, <2>3, <2>4 DEF GateInv, GateOwned, Owning
    <3>2. gate' # Open /\ alive'[gate'.pid] => rpc'[gate'.pid] \in Owning
      <4>1. gate' # Open => gate' = gate /\ gate.pid \in Registrars
        BY <1>2, <2>1
      <4>2. rpc[r] \notin Owning
        BY <2>1 DEF Owning, Holding, Scanning, Quiet
      <4> QED BY <4>1, <4>2, <1>1, <2>1 DEF GateInv, GateOwned
    <3> QED BY <3>1, <3>2 DEF GateOwned
  <2>6. StartStored' /\ Judged'
    BY <1>1, <2>1 DEF GateInv, StartStored, Judged, Holding, Scanning, Quiet
  <2> QED BY <2>5, <2>6 DEF GateInv
<1>10. ASSUME gate = Open, alive' = alive, gate_start' = gate_start, rpc[r] \in {"cas", "idle"},
              \/ gate' = Token(0, r, "Preparing") /\ rpc'[r] = "storeStart"
              \/ /\ gate' = Token(Subscription, r, "Preparing") /\ rpc'[r] = "armFence"
                 /\ held'[r] = gate'
       PROVE  GateInv'
  <2>1. \A s \in Registrars : rpc[s] \notin Owning
    BY <1>3, <1>10
  <2>2. \A s \in Registrars \ {r} : rpc'[s] \notin Owning
    BY <1>1, <2>1
  <2>3. rpc'[r] \in Owning /\ gate'.pid = r /\ (rpc'[r] \in Holding => held'[r].phase = "Preparing")
    BY <1>10, TokenFacts DEF Owning, Holding, Scanning, Quiet
  <2>4. GateOwned'
    BY <1>10, <2>2, <2>3 DEF GateOwned, Owning, Holding, Scanning, Quiet
  <2>5. StartStored'
    BY <1>10, <2>2, <2>3 DEF StartStored, Owning
  <2>6. Judged'
    BY <1>1, <1>10 DEF GateInv, Judged
  <2> QED BY <2>4, <2>5, <2>6 DEF GateInv
<1>11. ASSUME alive[r], CasGate(r) PROVE GateInv'
  BY <1>2, <1>10, <1>11 DEF CasGate, Goto
<1>12. ASSUME alive[r], TryArm(r) PROVE GateInv'
  BY <1>2, <1>10, <1>12 DEF TryArm, Goto
<1>13. ASSUME alive[r], StoreStart(r) PROVE GateInv'
  <2>1. /\ UNCHANGED <<gate, alive, held, expected, owner_start>> /\ gate_start' = r
        /\ rpc[r] = "storeStart" /\ rpc'[r] = "storeActive"
    BY <1>2, <1>13 DEF StoreStart, Goto
  <2>2. \A s \in Registrars \ {r} : rpc'[s] = rpc[s] /\ rpc[s] \notin Owning
    BY <1>1, <1>3, <2>1 DEF Owning
  <2>3. gate.pid = r
    BY <1>3, <2>1 DEF Owning
  <2>4. GateOwned'
    BY <2>1, <2>2, <2>3 DEF GateInv, GateOwned, Owning, Holding, Scanning, Quiet
  <2>5. StartStored'
    BY <2>1, <2>2 DEF StartStored, Owning, Holding, Scanning, Quiet
  <2>6. Judged'
    BY <1>1, <2>1 DEF GateInv, Judged, TwoRegistrars
  <2> QED BY <2>4, <2>5, <2>6 DEF GateInv
<1>14. ASSUME alive[r], StoreActive(r) PROVE GateInv'
  <2>1. /\ UNCHANGED <<gate_start, alive, expected, owner_start>>
        /\ gate' = Token(0, r, "Active") /\ held'[r] = Token(0, r, "Active")
        /\ rpc[r] = "storeActive" /\ rpc'[r] = "fence"
    BY <1>2, <1>14 DEF StoreActive, Goto
  <2>2. \A s \in Registrars \ {r} : rpc'[s] = rpc[s] /\ rpc[s] \notin Owning
    BY <1>1, <1>3, <2>1 DEF Owning
  <2>3. gate'.pid = r /\ rpc'[r] \in Owning /\ rpc'[r] \in Holding
    BY <2>1, TokenFacts DEF Owning, Holding
  <2>4. GateOwned'
    BY <2>1, <2>2, <2>3 DEF GateOwned, Owning
  <2>5. StartStored'
    BY <2>1, <2>2 DEF GateInv, StartStored, Owning
  <2>6. Judged'
    BY <1>1, <2>1 DEF GateInv, Judged
  <2> QED BY <2>4, <2>5, <2>6 DEF GateInv
<1>15. ASSUME alive[r], Fence(r) \/ FenceFails(r) \/ PassProducer(r) \/ ClearDeadClaim(r)
                        \/ ArmBusy(r) \/ Activate(r) \/ ReadReservation(r)
       PROVE  GateInv'
  <2>1. /\ UNCHANGED <<gate, gate_start, alive, held>>
        /\ rpc[r] \in Holding /\ rpc'[r] \in Holding
    BY <1>2, <1>15 DEF Fence, FenceFails, PassProducer, ClearDeadClaim, ArmBusy, Activate,
       ReadReservation, Goto, Holding, Scanning, Quiet
  <2>2. rpc'[r] \notin {"loadStart", "judge", "clear"}
    BY <2>1 DEF Holding, Scanning, Quiet
  <2> QED BY <2>1, <2>2, GateMoves DEF GateInv
<1>16. ASSUME alive[r], ReleaseGate(r) PROVE GateInv'
  <2>1. /\ UNCHANGED <<gate_start, alive, expected, owner_start>>
        /\ rpc[r] = "release" /\ rpc'[r] = "idle"
        /\ gate' = IF gate = held[r] THEN Open ELSE gate
    BY <1>2, <1>16 DEF ReleaseGate, Goto
  <2>2. gate' = Open
    BY <2>1 DEF GateInv, GateOwned, Holding
  <2>3. \A s \in Registrars : rpc'[s] \notin Owning
    BY <1>1, <1>3, <2>1 DEF Owning, Holding, Scanning, Quiet
  <2>4. GateOwned' /\ StartStored'
    BY <2>2, <2>3 DEF GateOwned, StartStored, Owning
  <2>5. Judged'
    BY <1>1, <2>1 DEF GateInv, Judged
  <2> QED BY <2>4, <2>5 DEF GateInv
<1>17. CASE RegistrarDies(r)
  <2>1. UNCHANGED <<gate, gate_start>> /\ rpc'[r] = "idle" /\ ~alive'[r]
    BY <1>2, <1>17, TokenFacts DEF RegistrarDies, TypeOK, SharedTypes
  <2>2. \A s \in Registrars : alive'[s] => alive[s] /\ s # r
    BY <1>1, <2>1
  <2>3. GateOwned'
    BY <1>1, <1>2, <2>1, <2>2 DEF GateInv, GateOwned, Holding, Scanning, Quiet
  <2>4. StartStored'
    BY <1>1, <2>1 DEF GateInv, StartStored, Holding, Scanning, Quiet
  <2>5. Judged'
    BY <1>1, <2>1, <2>2 DEF GateInv, Judged
  <2> QED BY <2>3, <2>4, <2>5 DEF GateInv
<1> QED BY <1>4, <1>5, <1>6, <1>7, <1>8, <1>9, <1>11, <1>12, <1>13, <1>14, <1>15, <1>16, <1>17
   DEF RegistrarStep, Start, GateStep

\* Every step keeps the gate with its live owner.
LEMMA GateStepInd ==
  ASSUME TwoRegistrars, TypeOK, Basics, GateInv, [Next]_vars
  PROVE  GateInv'
<1>1. ASSUME UNCHANGED <<gateVars, registrarVars>>,
             \A r \in Registrars : alive'[r] = alive[r]
      PROVE  GateInv'
  <2>1. gate # Open => gate.pid \in Registrars
    BY TokenFacts DEF TypeOK, SharedTypes
  <2>2. \A r \in Registrars : rpc[r] \in {"loadStart", "judge", "clear"} => expected[r].pid \in Registrars
    BY DEF GateInv, Judged
  <2> QED BY <1>1, <2>1, <2>2 DEF gateVars, registrarVars, GateInv, GateOwned, StartStored, Judged
<1>2. ASSUME NEW p \in Producers, ProducerStep(p) PROVE GateInv'
  BY <1>1, <1>2, ProducerFrame, TokenFacts
<1>3. ASSUME NEW r \in Registrars, RegistrarStep(r) PROVE GateInv'
  BY <1>3, GateRegistrar
<1>4. CASE UNCHANGED vars
  BY <1>1, <1>4 DEF vars
<1> QED BY <1>2, <1>3, <1>4 DEF Next, ProducerStep, RegistrarStep

-----------------------------------------------------------------------------
(* Behind the fence *)

\* A store to claim_active at the end of a buffer, and the drain of the oldest
\* store, keep the reservations in front.
LEMMA OrderedKept ==
  ASSUME NEW b \in Seq(Stores), NEW a, Ordered(b, a)
  PROVE  /\ \A v : Ordered(Append(b, [word |-> "active", value |-> v]), a)
         /\ b # <<>> =>
              Ordered(Tail(b), IF Head(b).word = "active" THEN Head(b).value ELSE a)
<1>1. ASSUME NEW v PROVE Ordered(Append(b, [word |-> "active", value |-> v]), a)
  <2> DEFINE e == [word |-> "active", value |-> v]  c == Append(b, e)
  <2>1. /\ Len(b) \in Nat /\ DOMAIN b = 1 .. Len(b) /\ DOMAIN c = 1 .. Len(b) + 1
        /\ \A i \in 1 .. Len(b) : c[i] = b[i]
        /\ c[Len(b) + 1].word = "active"
    OBVIOUS
  <2> HIDE DEF c
  <2> SUFFICES ASSUME NEW i \in DOMAIN c, c[i].word = "reservation"
               PROVE  a = 1 /\ \A j \in DOMAIN c : j < i => c[j].word # "active"
    BY DEF Ordered, c
  <2>2. i \in DOMAIN b /\ c[i] = b[i] /\ \A j \in DOMAIN c : j < i => j \in DOMAIN b /\ c[j] = b[j]
    BY <2>1
  <2> QED BY <2>2 DEF Ordered
<1>2. ASSUME b # <<>>
      PROVE  Ordered(Tail(b), IF Head(b).word = "active" THEN Head(b).value ELSE a)
  <2> DEFINE c == Tail(b)
  <2>1. /\ Len(b) \in Nat /\ Len(b) > 0 /\ DOMAIN b = 1 .. Len(b) /\ DOMAIN c = 1 .. Len(b) - 1
        /\ \A i \in 1 .. Len(b) - 1 : c[i] = b[i + 1]
        /\ Head(b) = b[1] /\ 1 \in DOMAIN b
    BY <1>2
  <2> HIDE DEF c
  <2> SUFFICES ASSUME NEW i \in DOMAIN c, c[i].word = "reservation"
               PROVE  /\ (IF Head(b).word = "active" THEN Head(b).value ELSE a) = 1
                      /\ \A j \in DOMAIN c : j < i => c[j].word # "active"
    BY DEF Ordered, c
  <2>2. i + 1 \in DOMAIN b /\ b[i + 1].word = "reservation" /\ 1 < i + 1
    BY <2>1
  <2>3. a = 1 /\ \A j \in DOMAIN b : j < i + 1 => b[j].word # "active"
    BY <2>2 DEF Ordered
  <2>4. ASSUME NEW j \in DOMAIN c, j < i PROVE c[j].word # "active"
    <3>1. j + 1 \in DOMAIN b /\ c[j] = b[j + 1] /\ j + 1 < i + 1
      BY <2>1, <2>4
    <3> QED BY <2>3, <3>1
  <2> QED BY <2>1, <2>2, <2>3, <2>4
<1> QED BY <1>1, <1>2

\* A producer's step, once the gate is closed and fenced.
LEMMA FenceProducer ==
  ASSUME TypeOK, Basics, GateInv, StoreInv, FenceInv, NEW p \in Producers, ProducerStep(p)
  PROVE  FenceInv'
<1> USE DEF fenceVars, gateVars, registrarVars, memoryVars, producerVars
<1>1. /\ UNCHANGED <<rpc, at, snapshot, gate>>
      /\ \A q \in Producers \ {p} :
           /\ ppc'[q] = ppc[q] /\ buffer'[q] = buffer[q] /\ claim_active'[q] = claim_active[q]
           /\ alive'[q] = alive[q]
      /\ alive'[p] => alive[p]
  BY ProducerFrame, TokenFacts
<1> SUFFICES ASSUME NEW r \in Registrars, Fenced(r)
    PROVE  /\ InClaim(p)' => claim_active'[p] = 1 /\ Clean(buffer'[p], "active")
           /\ Ordered(buffer'[p], claim_active'[p])
           /\ Passed(r, p) => ~InClaim(p)' /\ Clean(buffer'[p], "reservation")
  <2>1. \A q \in Producers, r \in Registrars : /\ Fenced(r)' <=> Fenced(r)
                                               /\ Passed(r, q)' <=> Passed(r, q)
    BY <1>1 DEF Fenced, Passed
  <2>2. \A q \in Producers \ {p} : InClaim(q)' <=> InClaim(q)
    BY <1>1 DEF InClaim
  <2> QED BY <1>1, <2>1, <2>2 DEF FenceInv, Passed
<1>2. /\ InClaim(p) => claim_active[p] = 1 /\ Clean(buffer[p], "active")
      /\ Ordered(buffer[p], claim_active[p])
      /\ Passed(r, p) => ~InClaim(p) /\ Clean(buffer[p], "reservation")
      /\ buffer[p] \in Seq(Stores)
  BY DEF FenceInv, TypeOK, ClaimTypes
<1>3. gate # Open
  <2>1. rpc[r] \in Owning
    BY DEF Fenced, Owning, Holding
  <2> QED BY <2>1, Owner DEF GateInv
<1>4. ~Enter(p) /\ ~RecheckOpen(p)
  BY <1>3 DEF Enter, CheckGate, RecheckOpen
<1>5. ASSUME buffer'[p] = <<>>, ~InClaim(p)'
      PROVE  /\ InClaim(p)' => claim_active'[p] = 1 /\ Clean(buffer'[p], "active")
             /\ Ordered(buffer'[p], claim_active'[p])
             /\ Passed(r, p) => ~InClaim(p)' /\ Clean(buffer'[p], "reservation")
  BY <1>5 DEF Ordered, Clean
<1>6. CASE alive[p] /\ (RaiseActive(p) \/ RecheckClosed(p) \/ LeaveClaim(p))
  <2>1. PICK v \in {0, 1} : StoreActiveWord(p, v)
    BY <1>6 DEF RaiseActive, RecheckClosed, LeaveClaim
  <2>2. ~InClaim(p)'
    BY <1>6 DEF InClaim, RaiseActive, RecheckClosed, LeaveClaim, TypeOK, ClaimTypes
  <2>3. CASE p \notin asymmetric
    BY <2>1, <2>2, <2>3, <1>5, StoreActiveFacts
  <2>4. CASE p \in asymmetric
    <3>1. /\ buffer'[p] = Append(buffer[p], [word |-> "active", value |-> v])
          /\ claim_active' = claim_active
      BY <2>1, <2>4, StoreActiveFacts
    <3>2. Ordered(buffer'[p], claim_active'[p])
      BY <1>2, <3>1, OrderedKept
    <3>3. Clean(buffer[p], "reservation") => Clean(buffer'[p], "reservation")
      <4> DEFINE e == [word |-> "active", value |-> v]
      <4>1. e \in Stores /\ e.word # "reservation"
        BY DEF Stores
      <4> HIDE DEF e
      <4>2. Clean(buffer[p], "reservation") => Clean(Append(buffer[p], e), "reservation")
        BY <1>2, <4>1, StoreAppend
      <4> QED BY <3>1, <4>2 DEF e
    <3> QED BY <1>2, <2>2, <3>2, <3>3
  <2> QED BY <2>3, <2>4
<1>7. CASE alive[p] /\ PublishReservation(p)
  <2>1. InClaim(p) /\ claim_active' = claim_active
    BY <1>7 DEF InClaim, PublishReservation, StorePlain
  <2>2. Clean(buffer'[p], "active")
    BY <1>2, <1>7, <2>1, PublishFacts
  <2>3. Ordered(buffer'[p], claim_active'[p])
    BY <1>2, <2>1, <2>2 DEF Ordered, Clean
  <2> QED BY <1>2, <2>1, <2>2, <2>3
<1>8. CASE Drain(p)
  <2>1. /\ buffer[p] # <<>> /\ buffer'[p] = Tail(buffer[p])
        /\ claim_active'[p] = IF Head(buffer[p]).word = "active" THEN Head(buffer[p]).value
                              ELSE claim_active[p]
        /\ \A w : Clean(buffer[p], w) => Clean(buffer'[p], w)
    BY <1>8, DrainFacts
  <2>2. Ordered(buffer'[p], claim_active'[p])
    BY <1>2, <2>1, OrderedKept
  <2>3. InClaim(p)' <=> InClaim(p)
    BY <1>8 DEF InClaim, Drain
  <2>4. Clean(buffer[p], "active") => Head(buffer[p]).word # "active"
    BY <1>2, <2>1 DEF Clean
  <2> QED BY <1>2, <2>1, <2>2, <2>3, <2>4
<1>9. CASE ProducerDies(p)
  <2>1. DrainAll({p}) /\ ~alive'[p]
    BY <1>9, TokenFacts DEF ProducerDies, TypeOK, SharedTypes
  <2>2. buffer'[p] = <<>> /\ ~InClaim(p)'
    BY <2>1 DEF DrainAll, InClaim
  <2> QED BY <2>2, <1>5
<1> QED BY <1>4, <1>6, <1>7, <1>8, <1>9 DEF ProducerStep, ClaimStep

\* A registrar's step: the fence makes the claims in progress show, and
\* a producer is passed when none shows.
LEMMA FenceRegistrar ==
  ASSUME TypeOK, Basics, GateInv, StoreInv, FenceInv, SnapshotInv,
         NEW r \in Registrars, RegistrarStep(r)
  PROVE  FenceInv'
<1> USE DEF fenceVars, gateVars, registrarVars, memoryVars, producerVars
<1>1. /\ UNCHANGED <<protocol, asymmetric, ppc, reserved>>
      /\ \A s \in Registrars \ {r} : rpc'[s] = rpc[s] /\ at'[s] = at[s] /\ snapshot'[s] = snapshot[s]
      /\ \A p \in Producers : alive'[p] = alive[p]
      /\ ~Fence(r) => buffer' = buffer
      /\ ~Fence(r) /\ ~ClearDeadClaim(r) => claim_active' = claim_active
  BY RegistrarFrame, TokenFacts
<1>2. /\ rpc \in [Registrars -> {"idle"} \cup Acquiring \cup Holding]
      /\ at \in [Registrars -> Producers] /\ snapshot \in [Registrars -> Seq(0 .. MaxClaims)]
      /\ claim_active \in [Producers -> {0, 1}]
  BY DEF TypeOK, ClaimTypes, RegistrarTypes
<1>3. \A p \in Producers : InClaim(p)' <=> InClaim(p)
  BY <1>1 DEF InClaim
<1>4. \A s \in Registrars \ {r}, p \in Producers : /\ Fenced(s)' <=> Fenced(s)
                                                   /\ Passed(s, p)' <=> Passed(s, p)
  BY <1>1 DEF Fenced, Passed
<1>5. CASE Fence(r)
  <2>1. /\ rpc[r] \in {"fence", "armFence"} /\ rpc'[r] \in Scanning /\ at'[r] = 0
        /\ DrainAll(IF protocol = "kMembarrier" THEN asymmetric ELSE {})
    BY <1>2, <1>5 DEF Fence, Goto, Scanning
  <2>2. \A s \in Registrars \ {r} : ~Fenced(s)
    <3>1. \A s \in Registrars : Fenced(s) => rpc[s] \in Owning
      BY DEF Fenced, Owning, Holding
    <3>2. rpc[r] \in Owning
      BY <2>1 DEF Owning, Holding
    <3> QED BY <3>1, <3>2, Owner DEF GateInv
  <2>3. \A p \in Producers : ~Passed(r, p)'
    <3>1. \A p \in Producers : ~(p < 0)
      BY GateAssumption DEF Producers
    <3> QED BY <2>1, <3>1 DEF Passed
  <2>4. ASSUME NEW p \in Producers
        PROVE  /\ InClaim(p) => claim_active'[p] = 1 /\ Clean(buffer'[p], "active")
               /\ Ordered(buffer'[p], claim_active'[p])
    <3>1. CASE p \in (IF protocol = "kMembarrier" THEN asymmetric ELSE {})
      <4>1. /\ buffer'[p] = <<>>
            /\ alive[p] => claim_active'[p] =
                             IF ppc[p] \in {"recheck", "claim", "leave"} THEN 1 ELSE 0
        BY <2>1, <3>1, DrainAllFacts
      <4> QED BY <4>1 DEF Ordered, Clean, InClaim
    <3>2. CASE p \notin (IF protocol = "kMembarrier" THEN asymmetric ELSE {})
      <4>1. buffer'[p] = buffer[p] /\ claim_active'[p] = claim_active[p]
        BY <2>1, <3>2, DrainAllFacts
      <4>2. p \notin asymmetric
        BY <3>2 DEF Basics, TypeOK, SharedTypes, ClaimFenceProtocol
      <4>3. /\ alive[p] => Settles(buffer[p], "active", claim_active[p],
                                   IF ppc[p] \in {"recheck", "claim", "leave"} THEN 1 ELSE 0)
            /\ Clean(buffer[p], "active") /\ (buffer[p] # <<>> => ppc[p] = "leave")
        BY <4>2 DEF StoreInv
      <4>4. alive[p] /\ ppc[p] \in {"claim", "leave"} => claim_active[p] = 1
        BY <4>3 DEF Settles, Clean
      <4>5. buffer[p] # <<>> => alive[p] /\ ppc[p] = "leave"
        BY <4>3 DEF Basics
      <4>6. buffer[p] = <<>> => Ordered(buffer[p], claim_active[p])
        BY DEF Ordered
      <4> QED BY <4>1, <4>3, <4>4, <4>5, <4>6 DEF Ordered, Clean, InClaim
    <3> QED BY <3>1, <3>2
  <2> QED BY <1>3, <1>4, <2>2, <2>3, <2>4 DEF FenceInv, Passed
<1>6. ASSUME ~Fence(r)
      PROVE  /\ Fenced(r)' => Fenced(r)
             /\ \A p \in Producers : Passed(r, p)' =>
                  Passed(r, p) \/ (Fenced(r) /\ p = at[r] /\ claim_active[p] = 0)
  <2>0. \A l \in Scanning \cup Quiet : l \in {"wait", "armScan", "snapshot", "activate"}
    BY DEF Scanning, Quiet
  <2>1. CASE Start(r) \/ RegistrarDies(r)
    BY <1>2, <2>0, <2>1 DEF Start, Begin, TryArm, RegistrarDies, Goto, Fenced, Passed
  <2>2. CASE CasGate(r) \/ StoreStart(r) \/ StoreActive(r) \/ CasFails(r) \/ LoadStart(r)
             \/ JudgeAlive(r) \/ JudgeDead(r) \/ CasClear(r) \/ ReleaseGate(r)
    BY <1>2, <2>0, <2>2 DEF CasGate, StoreStart, StoreActive, CasFails, LoadStart, JudgeAlive,
       JudgeDead, CasClear, ReleaseGate, Retry, Goto, Fenced, Passed
  <2>3. CASE FenceFails(r) \/ ArmBusy(r)
    <3>1. snapshot[r] = <<>>
      BY <2>3 DEF SnapshotInv, FenceFails, ArmBusy, Scanning
    <3> QED BY <1>2, <2>0, <2>3, <3>1 DEF FenceFails, ArmBusy, Goto, Fenced, Passed
  <2>4. CASE ClearDeadClaim(r)
    BY <2>4 DEF ClearDeadClaim, Fenced, Passed
  <2>5. CASE Activate(r) \/ ReadReservation(r)
    <3>1. rpc[r] \in Quiet /\ rpc'[r] \notin Scanning
      BY <1>2, <2>5 DEF Activate, ReadReservation, Goto, Scanning, Quiet
    <3>2. Fenced(r) /\ rpc[r] \notin Scanning
      BY <3>1 DEF Fenced, Scanning, Quiet
    <3> QED BY <3>2 DEF Passed
  <2>6. CASE PassProducer(r)
    <3>1. /\ rpc[r] \in Scanning /\ Fenced(r) /\ claim_active[at[r]] = 0
          /\ ~Last(r) => at'[r] = at[r] + 1 /\ rpc'[r] \in Scanning
      BY <1>2, <2>6 DEF PassProducer, Advance, Goto, Fenced
    <3>2. \A p \in Producers : /\ p \in Nat /\ p < ProducerCount /\ at[r] \in Nat
                               /\ ProducerCount \in Nat
      BY <1>2, GateAssumption DEF Producers
    <3>3. CASE Last(r)
      BY <3>1, <3>2, <3>3 DEF Passed, Last
    <3>4. CASE ~Last(r)
      BY <3>1, <3>2, <3>4 DEF Passed
    <3> QED BY <3>3, <3>4
  <2> QED BY <1>6, <2>1, <2>2, <2>3, <2>4, <2>5, <2>6 DEF RegistrarStep, GateStep
<1>7. \A p \in Producers : Fenced(r) /\ claim_active[p] = 0 =>
        ~InClaim(p) /\ Clean(buffer[p], "reservation")
  BY DEF FenceInv, Ordered, Clean
<1>8. CASE ~Fence(r) /\ ~ClearDeadClaim(r)
  <2>1. buffer' = buffer /\ claim_active' = claim_active
    BY <1>1, <1>8
  <2>2. ASSUME NEW s \in Registrars, NEW p \in Producers
        PROVE  /\ Fenced(s)' => Fenced(s)
               /\ Passed(s, p)' => ~InClaim(p) /\ Clean(buffer[p], "reservation")
    <3>1. CASE s = r
      BY <1>6, <1>7, <1>8, <3>1 DEF FenceInv
    <3>2. CASE s # r
      BY <1>4, <3>2 DEF FenceInv
    <3> QED BY <3>1, <3>2
  <2> QED BY <1>3, <2>1, <2>2 DEF FenceInv
<1>9. CASE ~Fence(r) /\ ClearDeadClaim(r)
  <2>1. /\ claim_active' = [claim_active EXCEPT ![at[r]] = 0] /\ at[r] \in Producers
        /\ ~IsRegisteredProcessAlive(at[r], at[r]) /\ UNCHANGED <<rpc, at, snapshot>>
    BY <1>2, <1>9 DEF ClearDeadClaim
  <2>2. ~alive[at[r]]
    BY <2>1, TokenFacts DEF IsRegisteredProcessAlive
  <2>3. buffer' = buffer /\ buffer[at[r]] = <<>> /\ ~InClaim(at[r])
    BY <1>1, <1>9, <2>1, <2>2 DEF Basics, InClaim
  <2>4. \A p \in Producers : p # at[r] => claim_active'[p] = claim_active[p]
    BY <1>2, <2>1
  <2>5. Ordered(<<>>, claim_active'[at[r]])
    BY DEF Ordered
  <2>6. \A s \in Registrars, p \in Producers : /\ Fenced(s)' <=> Fenced(s)
                                               /\ Passed(s, p)' <=> Passed(s, p)
    BY <2>1 DEF Fenced, Passed
  <2> QED BY <1>3, <2>3, <2>4, <2>5, <2>6 DEF FenceInv
<1> QED BY <1>5, <1>8, <1>9

\* Every step keeps a snapshot with the producers' positions.
LEMMA SnapshotStep ==
  ASSUME TypeOK, Basics, GateInv, StoreInv, FenceInv, SnapshotInv, [Next]_vars
  PROVE  SnapshotInv'
<1> USE DEF fenceVars, gateVars, registrarVars, memoryVars, producerVars
<1>0. \A r \in Registrars, p \in Producers :
        p < Len(snapshot[r]) => ~InClaim(p)
  <2> SUFFICES ASSUME NEW r \in Registrars, NEW p \in Producers, p < Len(snapshot[r])
               PROVE  ~InClaim(p)
    OBVIOUS
  <2>1. snapshot[r] # <<>>
    <3>1. p \in Nat /\ Len(<<>>) = 0
      BY GateAssumption DEF Producers
    <3> QED BY <3>1
  <2>2. rpc[r] \in {"snapshot", "release"}
    BY <2>1 DEF SnapshotInv
  <2>3. Passed(r, p)
    BY <2>1, <2>2 DEF Passed, Fenced, Scanning, Quiet
  <2> QED BY <2>3 DEF FenceInv
<1>1. ASSUME NEW p \in Producers, ProducerStep(p) PROVE SnapshotInv'
  <2>1. UNCHANGED <<rpc, at, snapshot>> /\ \A q \in Producers \ {p} : reserved'[q] = reserved[q]
    BY <1>1, ProducerFrame
  <2>2. InClaim(p) \/ reserved'[p] = reserved[p]
    BY <1>1 DEF ProducerStep, Enter, CheckGate, ClaimStep, RaiseActive, RecheckOpen,
       RecheckClosed, PublishReservation, LeaveClaim, Drain, ProducerDies, InClaim
  <2>3. \A r \in Registrars, q \in Producers :
          q < Len(snapshot[r]) => reserved'[q] = reserved[q]
    BY <1>0, <2>1, <2>2
  <2> QED BY <2>1, <2>3 DEF SnapshotInv
<1>2. ASSUME NEW r \in Registrars, RegistrarStep(r) PROVE SnapshotInv'
  <2>1. /\ UNCHANGED reserved
        /\ \A s \in Registrars \ {r} : rpc'[s] = rpc[s] /\ at'[s] = at[s] /\ snapshot'[s] = snapshot[s]
    BY <1>2, RegistrarFrame
  <2>2. /\ rpc \in [Registrars -> {"idle"} \cup Acquiring \cup Holding]
        /\ at \in [Registrars -> Producers] /\ snapshot \in [Registrars -> Seq(0 .. MaxClaims)]
    BY DEF TypeOK, RegistrarTypes
  <2>3. SUFFICES /\ rpc'[r] \notin {"snapshot", "release"} => snapshot'[r] = <<>>
                 /\ rpc'[r] = "snapshot" => Len(snapshot'[r]) = at'[r]
                 /\ \A p \in Producers : p < Len(snapshot'[r]) => snapshot'[r][p + 1] = reserved[p]
    BY <2>1 DEF SnapshotInv
  <2>4. /\ rpc[r] \notin {"snapshot", "release"} => snapshot[r] = <<>>
        /\ rpc[r] = "snapshot" => Len(snapshot[r]) = at[r]
        /\ \A p \in Producers : p < Len(snapshot[r]) => snapshot[r][p + 1] = reserved[p]
    BY DEF SnapshotInv
  <2>5. Len(<<>>) = 0 /\ \A p \in Producers : p \in Nat /\ ~(p < 0)
    BY GateAssumption DEF Producers
  <2>6. CASE ReadReservation(r)
    <3> DEFINE p == at[r]  s == snapshot[r]
    <3>1. /\ rpc[r] = "snapshot" /\ snapshot'[r] = Append(s, reservation[p])
          /\ rpc'[r] = (IF Last(r) THEN "release" ELSE "snapshot")
          /\ ~Last(r) => at'[r] = p + 1
      BY <2>2, <2>6 DEF ReadReservation, Advance, Goto
    <3>2. p \in Producers /\ p \in Nat /\ s \in Seq(0 .. MaxClaims) /\ Len(s) = p
      BY <2>2, <2>4, <2>5, <3>1
    <3>3. reservation[p] = reserved[p]
      <4>1. Passed(r, p)
        BY <3>1 DEF Passed, Fenced, Scanning, Quiet
      <4>2. Clean(buffer[p], "reservation")
        BY <3>2, <4>1 DEF FenceInv
      <4>3. Settles(buffer[p], "reservation", reservation[p], reserved[p])
        BY <3>2 DEF StoreInv
      <4> QED BY <4>2, <4>3 DEF Settles, Clean
    <3>4. Len(snapshot'[r]) = p + 1
      BY <3>1, <3>2
    <3>5. ASSUME NEW q \in Producers, q < p + 1 PROVE snapshot'[r][q + 1] = reserved[q]
      <4>1. q \in Nat
        BY <2>5
      <4>2. CASE q = p
        BY <3>1, <3>2, <3>3, <4>2
      <4>3. CASE q < p
        <5>1. snapshot'[r][q + 1] = s[q + 1]
          BY <3>1, <3>2, <4>1, <4>3
        <5> QED BY <2>4, <3>2, <4>3, <5>1
      <4> QED BY <3>2, <3>5, <4>1, <4>2, <4>3
    <3> QED BY <3>1, <3>4, <3>5
  <2>7. CASE ReleaseGate(r) \/ RegistrarDies(r)
    <3>1. snapshot'[r] = <<>> /\ rpc'[r] = "idle"
      BY <2>2, <2>7 DEF ReleaseGate, RegistrarDies, Goto
    <3> QED BY <2>5, <3>1
  <2>8. CASE PassProducer(r)
    <3>1. /\ rpc[r] \in Scanning /\ snapshot' = snapshot
          /\ rpc'[r] = "snapshot" => at'[r] = 0
      BY <2>2, <2>8 DEF PassProducer, Advance, Goto, Scanning
    <3>2. snapshot[r] = <<>>
      BY <2>4, <3>1 DEF Scanning
    <3> QED BY <2>5, <3>1, <3>2
  <2>9. ASSUME snapshot' = snapshot, rpc[r] \notin {"snapshot", "release"}, rpc'[r] # "snapshot"
        PROVE  /\ rpc'[r] \notin {"snapshot", "release"} => snapshot'[r] = <<>>
               /\ rpc'[r] = "snapshot" => Len(snapshot'[r]) = at'[r]
               /\ \A p \in Producers : p < Len(snapshot'[r]) => snapshot'[r][p + 1] = reserved[p]
    BY <2>4, <2>9
  <2>10. CASE Start(r)
    BY <2>2, <2>9, <2>10 DEF Start, Begin, TryArm, Goto
  <2>11. CASE CasGate(r) \/ StoreStart(r) \/ StoreActive(r) \/ CasFails(r) \/ LoadStart(r)
             \/ JudgeAlive(r) \/ JudgeDead(r) \/ CasClear(r)
    BY <2>2, <2>9, <2>11 DEF CasGate, StoreStart, StoreActive, CasFails, LoadStart, JudgeAlive,
       JudgeDead, CasClear, Retry, Goto
  <2>12. CASE FenceFails(r) \/ ArmBusy(r) \/ Activate(r) \/ Fence(r) \/ ClearDeadClaim(r)
    BY <2>2, <2>9, <2>12 DEF FenceFails, ArmBusy, Activate, Fence, ClearDeadClaim, Goto, Scanning
  <2> QED BY <1>2, <2>6, <2>7, <2>8, <2>10, <2>11, <2>12 DEF RegistrarStep, GateStep
<1>3. CASE UNCHANGED vars
  BY <1>3 DEF vars, SnapshotInv
<1> QED BY <1>1, <1>2, <1>3 DEF Next, ProducerStep, RegistrarStep

-----------------------------------------------------------------------------
(* The theorems *)

\* The gate's inductive invariant: it holds of every state that two registrars and
\* any number of publishers reach, in every order of their loads and stores and
\* whoever dies.
THEOREM GateInvariance == ASSUME TwoRegistrars PROVE Spec => []IndInv
<1>1. Init => IndInv
  <2> SUFFICES ASSUME Init PROVE IndInv
    OBVIOUS
  <2>1. TypeOK /\ Basics /\ StoreInv
    BY BaseInit
  <2>2. GateInv
    BY DEF Init, GateInv, GateOwned, StartStored, Judged, Holding, Scanning, Quiet
  <2>3. FenceInv
    BY DEF Init, FenceInv, Fenced, Passed, Scanning, Quiet
  <2>4. SnapshotInv
    <3>1. Len(<<>>) = 0 /\ \A p \in Producers : ~(p < 0)
      BY GateAssumption DEF Producers
    <3> QED BY <3>1 DEF Init, SnapshotInv
  <2> QED BY <2>1, <2>2, <2>3, <2>4 DEF IndInv
<1>2. IndInv /\ [Next]_vars => IndInv'
  <2> SUFFICES ASSUME IndInv, [Next]_vars PROVE IndInv'
    OBVIOUS
  <2>1. TypeOK' /\ Basics' /\ StoreInv'
    BY BaseStep DEF IndInv
  <2>2. GateInv'
    BY GateStepInd DEF IndInv
  <2>3. SnapshotInv'
    BY SnapshotStep DEF IndInv
  <2>4. FenceInv'
    <3>1. CASE \E p \in Producers : ProducerStep(p)
      BY <3>1, FenceProducer DEF IndInv
    <3>2. CASE \E r \in Registrars : RegistrarStep(r)
      BY <3>2, FenceRegistrar DEF IndInv
    <3>3. CASE UNCHANGED vars
      BY <3>3 DEF vars, memoryVars, producerVars, registrarVars, IndInv, FenceInv, Fenced,
         Passed, InClaim
    <3> QED BY <3>1, <3>2, <3>3 DEF Next, ProducerStep, RegistrarStep
  <2> QED BY <2>1, <2>2, <2>3, <2>4 DEF IndInv
<1> QED BY <1>1, <1>2, PTL DEF Spec, SafeSpec

\* The gate excludes: two live processes are never both past their CAS.
THEOREM GateExcludes == ASSUME TwoRegistrars PROVE Spec => []GateExclusive
<1>1. IndInv => GateExclusive
  <2> SUFFICES ASSUME IndInv, NEW r \in Registrars, NEW s \in Registrars, Inside(r), Inside(s)
               PROVE  r = s
    BY DEF GateExclusive
  <2>1. rpc[r] \in Owning /\ rpc[s] \in Owning
    BY DEF Inside, Owning
  <2> QED BY <2>1, Owner DEF IndInv, GateInv
<1> QED BY <1>1, GateInvariance, PTL

\* While a registrar takes its snapshot, or a waiter switches notifications on, no
\* producer is inside claim(), on the light path or the seq_cst one.
THEOREM ClaimsAreExcluded == ASSUME TwoRegistrars PROVE Spec => []ClaimsExcluded
<1>1. IndInv => ClaimsExcluded
  <2> SUFFICES ASSUME IndInv, NEW r \in Registrars, NEW p \in Producers, rpc[r] \in Quiet
               PROVE  ~InClaim(p)
    BY DEF ClaimsExcluded
  <2>1. Passed(r, p)
    BY DEF Passed, Fenced, Quiet, Scanning
  <2> QED BY <2>1 DEF IndInv, FenceInv
<1> QED BY <1>1, GateInvariance, PTL

\* The reservations a registrar read are where the producers are, until it gives
\* the gate back.
THEOREM SnapshotsAreExact == ASSUME TwoRegistrars PROVE Spec => []SnapshotExact
<1>1. IndInv => SnapshotExact
  BY DEF IndInv, SnapshotInv, SnapshotExact
<1> QED BY <1>1, GateInvariance, PTL
=============================================================================
