----------------------------- MODULE BlockMatrix -----------------------------
(***************************************************************************)
(* The E1 and P3-1 throughput matrices: an orchestrator that runs a        *)
(* registered sequence of blocks, each one chunk (one group) of module     *)
(* StabilityChunks in the directory of its arm.                            *)
(*                                                                         *)
(*   E1    src/doc/plans/runners/p3-e1-throughput.py                       *)
(*         src/tools/aeron_compare/compare_throughput_ab.py                *)
(*   P3-1  src/doc/plans/runners/p3-p31-throughput.py                      *)
(*         src/tools/aeron_compare/compare_p31_throughput.py               *)
(*                                                                         *)
(* Arm B is the frozen baseline; the others run the candidate client, which*)
(* may be rebuilt.  A killed orchestrator leaves its chunk running.  What  *)
(* is computed from the rates is in module GroupStatistics.                *)
(***************************************************************************)
EXTENDS Campaign

CONSTANT BM_GROUPS    \* GROUPS of this matrix

\* The order turns round from group to group; nothing that a script writes is
\* taken for a value that is not there.
ASSUME BlockAssumption ==
  /\ BM_GROUPS \in Nat \ {0, 1}
  /\ None \notin Int /\ None \notin {"running", "exit", "counts", "reported"}

BM_Kinds == {"e1", "p31"}

BM_ARMS(k) == IF k = "e1" THEN <<"B", "C">> ELSE <<"B", "S", "A">>

\* ARM_SETENV: S and A are one binary, told apart by this alone.
ARM_SETENV(arm) == IF arm = "S" THEN "fence off" ELSE None

\* SEQUENCE of E1 and block_sequence of P3-1: the arms in turn, backwards in
\* odd groups.
SEQUENCE(k) ==
  FlattenSeq([g \in 1 .. BM_GROUPS |->
    LET order == IF g % 2 = 1 THEN BM_ARMS(k) ELSE Reverse(BM_ARMS(k))
    IN [a \in DOMAIN order |-> [arm |-> order[a], group |-> g - 1]]])

\* The client an arm would run now.  Build 0 of the candidate is registered.
Baseline == -1
ClientOf(arm) == IF arm = "B" THEN Baseline ELSE build
Registered(arm) == IF arm = "B" THEN Baseline ELSE 0

BM_NoArm == [client |-> None, setenv |-> None, payload |-> None,
             messages |-> None, done |-> 0, counts |-> TRUE, chunk |-> None]

-----------------------------------------------------------------------------
\* main up to the loop: the clients have the registered digests, the output
\* directory is empty.  --messages is free.
BM_Start ==
  /\ kind \in BM_Kinds /\ pc = "off" /\ build = 0
  /\ \E payload \in {64, 192}, messages \in {"registered", "other"} :
       /\ mem' = [payload |-> payload, messages |-> messages,
                  sequence |-> SEQUENCE(kind),
                  clients |-> [arm \in ToSet(BM_ARMS(kind)) |-> ClientOf(arm)],
                  blocks |-> <<>>, finished |-> FALSE]
       /\ disk' = [disk EXCEPT !.experiment = mem']
  /\ pc' = "next"
  /\ UNCHANGED <<kind, next, ran, build, runs, verdict>>

\* A block is launched as a child of its own.
BM_Launch ==
  /\ kind \in BM_Kinds /\ pc = "next" /\ next <= Len(mem.sequence)
  /\ LET block == mem.sequence[next]
     IN /\ disk' = [disk EXCEPT !.arms[block.arm].chunk =
             [group |-> block.group, payload |-> mem.payload,
              messages |-> mem.messages, code |-> None]]
        /\ ran' = Append(ran, [round |-> block, flaw |-> "running",
                               build |-> None])
  /\ pc' = "block"
  /\ UNCHANGED <<kind, next, mem, build, runs, verdict>>

\* Mutant: a chunk resumes with whatever client is there.
ChunkFailsOnExit(arm, flaw) == flaw = "exit"

\* A chunk refuses to resume with another client than its environment.json.
ChunkFails(arm, flaw) ==
  \/ flaw = "exit"
  \/ disk.arms[arm].chunk.group > 0 /\ disk.arms[arm].client # ClientOf(arm)

\* The chunk ends, whether or not its orchestrator still waits: a first chunk
\* writes environment.json, one that succeeds leaves a whole group and fitting
\* checksums.  The counts of a RESULT line are read by the analyzer only.
BM_ChunkEnds ==
  /\ kind \in BM_Kinds
  /\ \E arm \in ToSet(BM_ARMS(kind)), flaw \in {None, "exit", "counts"} :
       LET dir == disk.arms[arm]
           fails == ChunkFails(arm, flaw)
           entered == [dir EXCEPT !.client = ClientOf(arm),
                                  !.setenv = ARM_SETENV(arm),
                                  !.payload = dir.chunk.payload,
                                  !.messages = dir.chunk.messages]
           at == CHOOSE k \in DOMAIN ran : ran[k].flaw = "running"
       IN /\ dir.chunk # None /\ dir.chunk.code = None
          /\ flaw = None \/ \A k \in DOMAIN ran : ran[k].flaw \in {None, "running"}
          /\ disk' = [disk EXCEPT !.arms[arm] =
               [(IF dir.chunk.group = 0 THEN entered ELSE dir) EXCEPT
                  !.done = IF fails THEN @ ELSE @ + 1,
                  !.counts = @ /\ flaw # "counts",
                  !.chunk.code = IF fails THEN 1 ELSE 0]]
          /\ ran' = [ran EXCEPT ![at].flaw = IF fails THEN "exit" ELSE flaw,
                                ![at].build = ClientOf(arm)]
  /\ UNCHANGED <<kind, pc, next, mem, build, runs, verdict>>

\* The orchestrator has waited: the ledger gets the block, and a failed one
\* is the last.
BM_Collect ==
  /\ kind \in BM_Kinds /\ pc = "block"
  /\ LET block == mem.sequence[next]
         code == disk.arms[block.arm].chunk.code
     IN /\ code # None
        /\ mem' = [mem EXCEPT !.blocks =
                     Append(@, [block |-> block, returncode |-> code])]
        /\ disk' = [disk EXCEPT !.experiment = mem']
        /\ pc' = IF code = 0 THEN "next" ELSE "exit1"
  /\ next' = next + 1
  /\ UNCHANGED <<kind, ran, build, runs, verdict>>

BM_Finish ==
  /\ kind \in BM_Kinds /\ pc = "next" /\ next > Len(mem.sequence)
  /\ mem' = [mem EXCEPT !.finished = TRUE]
  /\ disk' = [disk EXCEPT !.experiment = mem']
  /\ pc' = "exit0"
  /\ UNCHANGED <<kind, next, ran, build, runs, verdict>>

-----------------------------------------------------------------------------
\* The analyzers.

\* read_environment and verify_checksums: the frozen parameters.  Checksums fit
\* at the end of a chunk.
read_environment(dir) == dir.client # None /\ dir.messages = "registered"

\* verify_round: the RESULT line of the raw output has the planned counts.
verify_round(dir) == dir.counts

\* load_arm: all groups whole.
load_arm(dir) ==
  read_environment(dir) /\ dir.done = BM_GROUPS /\ verify_round(dir)

\* compare of E1: the two directories alone.
compare ==
  /\ \A arm \in {"B", "C"} : load_arm(disk.arms[arm])
  /\ disk.arms["B"].payload = disk.arms["C"].payload
  /\ disk.arms["B"].client # disk.arms["C"].client

\* expected_sequence: the analyzer's own idea of the rotation.
expected_sequence ==
  FlattenSeq([g \in 1 .. BM_GROUPS |->
    [a \in 1 .. 3 |->
      [arm |-> IF g % 2 = 1 THEN <<"B", "S", "A">>[a] ELSE <<"A", "S", "B">>[a],
       group |-> g - 1]]])

\* load_manifest of P3-1: the registered blocks, all of them well, and clients
\* that are still the ones of the manifest.
load_manifest(e) ==
  /\ e.messages = "registered" /\ e.sequence = expected_sequence
  /\ [k \in DOMAIN e.blocks |-> e.blocks[k].block] = expected_sequence
  /\ \A b \in ToSet(e.blocks) : b.returncode = 0
  /\ \A arm \in ToSet(BM_ARMS("p31")) : e.clients[arm] = ClientOf(arm)
  /\ e.clients["B"] = Registered("B") /\ e.clients["S"] = e.clients["A"]

\* load_experiment_arm: an arm is what the manifest says it is.
load_experiment_arm(e, arm) ==
  LET dir == disk.arms[arm]
  IN /\ dir.setenv = ARM_SETENV(arm)
     /\ dir.client = e.clients[arm]
     /\ load_arm(dir) /\ dir.payload = e.payload

\* compare of P3-1.
P31_compare ==
  LET e == disk.experiment
  IN /\ e # None /\ load_manifest(e)
     /\ \A arm \in ToSet(BM_ARMS("p31")) : load_experiment_arm(e, arm)

BM_Compare == IF kind = "e1" THEN compare ELSE P31_compare

BM_Analyze ==
  /\ kind \in BM_Kinds
  /\ verdict' = [said |-> IF BM_Compare THEN "reported" ELSE "refused"]
  /\ UNCHANGED <<kind, pc, next, mem, disk, ran, build, runs>>

-----------------------------------------------------------------------------
BM_Init ==
  /\ kind \in BM_Kinds /\ pc = "off" /\ next = 1 /\ mem = None
  /\ disk = [experiment |-> None,
             arms |-> [arm \in ToSet(BM_ARMS(kind)) |-> BM_NoArm]]
  /\ ran = <<>> /\ build = 0 /\ runs = 1 /\ verdict = [said |-> None]

\* A chunk is one step: the client is not rebuilt in the middle of one.
BM_Idle == \A k \in DOMAIN ran : ran[k].flaw # "running"

BM_Next ==
  \/ BM_Start \/ BM_Launch \/ BM_ChunkEnds \/ BM_Collect \/ BM_Finish
  \/ BM_Analyze
  \/ kind \in BM_Kinds /\ Crash
  \/ kind \in BM_Kinds /\ BM_Idle /\ Rebuild

-----------------------------------------------------------------------------
\* Properties.

BM_Reported == kind \in BM_Kinds /\ verdict.said = "reported"

\* What is reported is the registered matrix: every block of the sequence ran
\* once, in the order that turns round from group to group, and ended well,
\* although the orchestrator may have been killed and its last chunk left to
\* itself.
BM_ReportIsWhole ==
  BM_Reported =>
    /\ [k \in DOMAIN ran |-> ran[k].round] = SEQUENCE(kind)
    /\ \A r \in ToSet(ran) : r.flaw = None

\* A client that was rebuilt between blocks, or before the first block of an
\* arm, is noticed: the blocks of one arm ran one build each, in E1 another
\* than the baseline, in P3-1 the registered one in both candidate arms.
BM_OneClientPerArm ==
  BM_Reported =>
    /\ \A j, k \in DOMAIN ran : ran[j].round.arm = ran[k].round.arm =>
         ran[j].build = ran[k].build
    /\ kind = "p31" => \A r \in ToSet(ran) : r.build = Registered(r.round.arm)

\* The orchestrators and the analyzers agree: a matrix with the registered
\* parameters that ended by itself without a flaw, on clients nobody rebuilt,
\* is reported.
BM_CleanIsReported ==
  /\ kind \in BM_Kinds /\ pc = "exit0" /\ build = 0
  /\ mem.messages = "registered" /\ \A r \in ToSet(ran) : r.flaw = None
  => BM_Compare

\* What compare_throughput_ab.py and compare_p31_throughput.py report is the
\* registered sequence of blocks, each run once and well, each arm on one
\* client, although orchestrators are killed and clients rebuilt.
BM_ReportIsSound == BM_ReportIsWhole /\ BM_OneClientPerArm

=============================================================================
