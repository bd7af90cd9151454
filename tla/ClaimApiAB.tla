------------------------------ MODULE ClaimApiAB ------------------------------
(***************************************************************************)
(* The claim API v4 comparison: arms B (v3), S (v4, sequential fence) and  *)
(* A (v4, default fence).                                                  *)
(*                                                                         *)
(*   runner    src/doc/plans/runners/p3-claim-api-v4-ab.py                 *)
(*   analyzer  src/tools/aeron_compare/analyze_claim_v4_ab.py              *)
(*                                                                         *)
(* A block is a run of another runner: a throughput block is one chunk (one*)
(* group) of the experiment of module StabilityChunks in the directory of  *)
(* its payload and arm, a latency block is one run of module LatencyMatrix *)
(* over all three arms.  A block is one step here; the client S and A      *)
(* share, and with it B's, may be rebuilt between blocks.                  *)
(*                                                                         *)
(* A block's flaw: its runner exited with an error; a round's cgroup shows *)
(* memory pressure; a round's RESULT line has other counts than planned.   *)
(***************************************************************************)
EXTENDS Campaign

CONSTANT V4_GROUPS    \* GROUPS of this matrix

\* The rotation is only one when there are two groups.
ASSUME V4Assumption == V4_GROUPS \in Nat \ {0, 1}

V4_ARMS == <<"B", "S", "A">>
PAYLOADS == <<64, 256>>
LATENCY_ORIGINS == <<"attempt", "planned">>

\* block_sequence: the arms in turn, backwards in odd groups.
block_sequence ==
  FlattenSeq([g \in 1 .. V4_GROUPS |->
    LET order == IF g % 2 = 1 THEN V4_ARMS ELSE Reverse(V4_ARMS)
    IN [a \in DOMAIN order |-> [arm |-> order[a], group |-> g - 1]]])

\* run_throughput over the payloads given, then run_latency.
V4_Throughput(payloads) ==
  FlattenSeq([p \in DOMAIN payloads |->
    [b \in DOMAIN block_sequence |->
      [what |-> "throughput", payload |-> payloads[p],
       arm |-> block_sequence[b].arm, group |-> block_sequence[b].group]]])

V4_Latency(payloads) ==
  FlattenSeq([p \in DOMAIN payloads |->
    [o \in DOMAIN LATENCY_ORIGINS |->
      [what |-> "latency", payload |-> payloads[p],
       arm |-> LATENCY_ORIGINS[o], group |-> -1]]])

V4_Plan(m) ==
  (IF m.skip = "throughput" THEN <<>> ELSE V4_Throughput(m.payloads))
    \o (IF m.skip = "latency" THEN <<>> ELSE V4_Latency(m.payloads))

-----------------------------------------------------------------------------
\* parse_args and main up to the first block.  load_manifest compares the
\* client's digest with the build manifest's, which is that of build 0.
V4_Start ==
  /\ kind = "v4" /\ pc = "off"
  /\ \E mode \in {"formal", "smoke"}, skip \in {None, "throughput", "latency"},
        payloads \in {<<64, 256>>, <<256, 64>>, <<64>>} :
       IF build # 0
       THEN pc' = "exit1" /\ UNCHANGED <<mem, disk>>
       ELSE /\ mem' = [mode |-> mode, skip |-> skip, payloads |-> payloads,
                       client |-> build, sequence |-> block_sequence,
                       blocks |-> <<>>, finished |-> FALSE]
            /\ disk' = [disk EXCEPT !.experiment = mem']
            /\ pc' = "next"
  /\ UNCHANGED <<kind, next, ran, build, runs, verdict>>

\* run_throughput and run_latency around one block.  A chunk after the first
\* refuses a client that is not the one of its environment.json.
V4_BlockFails(block, flaw) ==
  \/ flaw = "exit"
  \/ /\ block.what = "throughput" /\ block.group > 0
     /\ disk.arms[<<block.payload, block.arm>>].client # build
  \/ block.what = "latency" /\ flaw = "counters"

\* What a block leaves in its directory: the client of its environment.json
\* (the chunk) or of every row (the latency case), and the flaw to be seen.
V4_Leaves(block, flaw) ==
  LET dir == disk.arms[<<block.payload, block.arm>>]
      first == block.what = "latency" \/ block.group = 0
  IN [client |-> IF first THEN build ELSE dir.client,
      done |-> IF V4_BlockFails(block, flaw) THEN dir.done ELSE dir.done + 1,
      flaws |-> dir.flaws \cup ({flaw} \ {None})]

V4_Block ==
  /\ kind = "v4" /\ pc = "next" /\ next <= Len(V4_Plan(mem))
  /\ \E flaw \in {None, "exit", "pressure", "counters"} :
       LET block == V4_Plan(mem)[next]
           fails == V4_BlockFails(block, flaw)
       IN /\ MayHave(flaw)
          /\ ran' = Append(ran, [round |-> block, flaw |-> flaw,
                                 build |-> build])
          /\ mem' = [mem EXCEPT !.blocks = Append(@,
                       [block |-> block, returncode |-> IF fails THEN 1 ELSE 0])]
          /\ disk' = [disk EXCEPT
               !.experiment = mem',
               !.arms[<<block.payload, block.arm>>] = V4_Leaves(block, flaw)]
          /\ pc' = IF fails THEN "exit1" ELSE "next"
  /\ next' = next + 1
  /\ UNCHANGED <<kind, build, runs, verdict>>

-----------------------------------------------------------------------------
\* The analyzer.

\* verify_blocks: a finished ledger of exactly the blocks of the full matrix,
\* none of them failed.
verify_blocks(e) ==
  LET seen(what) == {b.block : b \in {c \in ToSet(e.blocks) :
                       c.block.what = what}}
  IN /\ e.finished
     /\ \A b \in ToSet(e.blocks) : b.returncode = 0
     /\ seen("throughput") = ToSet(V4_Throughput(PAYLOADS))
     /\ Cardinality(seen("throughput")) =
          Len(e.blocks) - Len(V4_Latency(PAYLOADS))
     /\ seen("latency") = ToSet(V4_Latency(PAYLOADS))

\* load_experiment: the frozen shape.  Throughput payloads are compared as a
\* set, latency payloads as a list.
load_experiment(e) ==
  /\ e.mode = "formal"
  /\ ToSet(e.payloads) = ToSet(PAYLOADS) /\ Len(e.payloads) = Len(PAYLOADS)
  /\ e.sequence = block_sequence
  /\ e.payloads = PAYLOADS
  /\ verify_blocks(e)

\* load_throughput_arm with verify_arm_environment and verify_round: whole
\* groups, no memory pressure, planned counts, checked on raw output.
load_throughput_arm(dir) ==
  /\ dir.done = V4_GROUPS
  /\ dir.flaws \cap {"pressure", "counters"} = {}

\* load_latency_case and load_latency_arm: the same of every arm's rows.
load_latency_case(dir) ==
  /\ dir.done = 1
  /\ dir.flaws \cap {"pressure", "counters"} = {}

\* analyze, with main's comparison of the clients with the build manifest.
V4_analyze ==
  LET e == disk.experiment
  IN /\ e # None
     /\ load_experiment(e)
     /\ e.client = 0
     /\ \A p \in ToSet(PAYLOADS) :
          /\ \A arm \in ToSet(V4_ARMS) :
               /\ load_throughput_arm(disk.arms[<<p, arm>>])
               /\ disk.arms[<<p, arm>>].client = e.client
          /\ \A o \in ToSet(LATENCY_ORIGINS) :
               /\ load_latency_case(disk.arms[<<p, o>>])
               /\ disk.arms[<<p, o>>].client = e.client

\* The end of main: the ledger is closed, and a formal matrix analyzed.
V4_Finish ==
  /\ kind = "v4" /\ pc = "next" /\ next > Len(V4_Plan(mem))
  /\ mem' = [mem EXCEPT !.finished = TRUE]
  /\ disk' = [disk EXCEPT !.experiment = mem']
  /\ pc' = "ledger"
  /\ UNCHANGED <<kind, next, ran, build, runs, verdict>>

V4_Analyze ==
  /\ kind = "v4"
  /\ ~(pc = "ledger" /\ mem.mode = "smoke")
  /\ verdict' = [said |-> IF V4_analyze THEN "reported" ELSE "refused"]
  /\ pc' = IF pc # "ledger" THEN pc
           ELSE IF V4_analyze THEN "exit0" ELSE "exit1"
  /\ UNCHANGED <<kind, next, mem, disk, ran, build, runs>>

V4_SmokeEnds ==
  /\ kind = "v4" /\ pc = "ledger" /\ mem.mode = "smoke"
  /\ pc' = "exit0"
  /\ UNCHANGED <<kind, next, mem, disk, ran, build, runs, verdict>>

-----------------------------------------------------------------------------
V4_Init ==
  /\ kind = "v4" /\ pc = "off" /\ next = 1 /\ mem = None
  /\ disk = [experiment |-> None,
             arms |-> [d \in ToSet(PAYLOADS) \X
                         (ToSet(V4_ARMS) \cup ToSet(LATENCY_ORIGINS)) |->
                       [client |-> None, done |-> 0, flaws |-> {}]]]
  /\ ran = <<>> /\ build = 0 /\ runs = 1 /\ verdict = [said |-> None]

V4_Next ==
  \/ V4_Start \/ V4_Block \/ V4_Finish \/ V4_Analyze \/ V4_SmokeEnds
  \/ kind = "v4" /\ (Crash \/ Rebuild)

-----------------------------------------------------------------------------
\* Properties.

\* A report stands on the registered matrix: every throughput block of both
\* payloads and every latency case ran exactly once, the arms alternating
\* direction from group to group, every block on the client of the build
\* manifest, none with an error, memory pressure or wrong counts, whichever
\* flags the runner was given and wherever the client was rebuilt.
V4_ReportIsSound ==
  kind = "v4" /\ verdict.said = "reported" =>
    /\ [k \in DOMAIN ran |-> ran[k].round] =
         V4_Throughput(PAYLOADS) \o V4_Latency(PAYLOADS)
    /\ \A r \in ToSet(ran) : r.flaw = None /\ r.build = 0
    /\ \A p \in ToSet(PAYLOADS), g \in 1 .. V4_GROUPS - 1 :
         LET order(h) == [k \in 1 .. 3 |-> SelectSeq(V4_Throughput(PAYLOADS),
               LAMBDA b : b.payload = p /\ b.group = h)[k].arm]
         IN order(g) = Reverse(order(g - 1))

\* The runner and the analyzer agree on the full matrix: a formal run of all
\* blocks in the registered order, on one client and without a flaw, is
\* reported rather than refused after hours of measuring.
V4_CleanIsReported ==
  /\ kind = "v4" /\ pc \in {"exit0", "exit1"} /\ mem # None
  /\ mem.mode = "formal" /\ mem.skip = None /\ mem.payloads = PAYLOADS
  /\ build = 0 /\ \A r \in ToSet(ran) : r.flaw = None
  => pc = "exit0" /\ V4_analyze

=============================================================================
