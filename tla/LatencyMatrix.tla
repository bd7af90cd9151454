---------------------------- MODULE LatencyMatrix ----------------------------
(***************************************************************************)
(* The latency comparison, and the P3-1 audit of its evidence.             *)
(*                                                                         *)
(*   runner    src/tools/aeron_compare/run_latency_compare.py              *)
(*   analyzer  src/tools/aeron_compare/compare_p31_latency.py              *)
(*                                                                         *)
(* main expands producers, payloads and rates (a latency configuration)    *)
(* into rounds, engines and arms, and runs every case with run_case        *)
(* (module CaseSupervisor).  An arm is a client and a setting of           *)
(* SALIAS_DISABLE_ASYMMETRIC_FENCE, which the script may also inherit.     *)
(***************************************************************************)
EXTENDS CaseSupervisor

CONSTANTS
  LC_Engines,   \* --engines, a sequence
  LC_ROUNDS,    \* --rounds: measured rounds after the warm-up
  LC_Inherited  \* settings of the switch the script may inherit

\* There is an engine, and a round.
ASSUME LatencyAssumption ==
  /\ Len(LC_Engines) > 0 /\ LC_ROUNDS \in Nat \ {0}
  /\ LC_Inherited \subseteq {"unset", "off"}

\* parse_arm_specs and the engines asked for: no arms, two that differ in the
\* switch, or the registered three of P3-1, which are of one engine.
LC_Setups ==
  {[engines |-> LC_Engines, arms |-> <<>>],
   [engines |-> LC_Engines, arms |-> <<[arm |-> "B", fence |-> "unset"],
                                       [arm |-> "C", fence |-> "off"]>>],
   [engines |-> <<"fifo">>, arms |-> <<[arm |-> "B", fence |-> "unset"],
                                       [arm |-> "S", fence |-> "off"],
                                       [arm |-> "A", fence |-> "unset"]>>]}

\* Mutant: an arm without the switch keeps the inherited one.
EnvironmentInherits(inherited, overrides) ==
  IF overrides # "off" THEN inherited ELSE overrides

\* The worker's switch: an explicit arm drops the inherited one first.
arm_process_environment(inherited, overrides) ==
  IF overrides = None THEN inherited ELSE overrides

\* s[k:] + s[:k] with k = n % len(s)
Rotated(s, n) ==
  [k \in DOMAIN s |-> s[1 + ((k - 1 + n) % Len(s))]]

\* The cases of one round of a cell: the engines rotated by the round, and
\* for an engine of the library the arms rotated by the round.  A line records
\* the arm's setting (arm_environment); what the worker had is env.
LC_Round(cell, r, setup, inherited) ==
  FlattenSeq([e \in DOMAIN setup.engines |->
    LET engine == Rotated(setup.engines, r)[e]
        order == IF engine = "aeron" \/ setup.arms = <<>>
                 THEN <<[arm |-> None, fence |-> None]>>
                 ELSE Rotated(setup.arms, r)
    IN [a \in DOMAIN order |->
         [cell |-> cell, engine |-> engine, round |-> r, arm |-> order[a].arm,
          arm_environment |-> order[a].fence,
          env |-> arm_process_environment(inherited, order[a].fence)]]])

LC_Cells == SelectSeq(Configurations, LAMBDA c : c \in LatencyOnes)

LC_Plan(setup, inherited) ==
  FlattenSeq([c \in DOMAIN LC_Cells |->
    FlattenSeq([r \in 1 .. LC_ROUNDS + 1 |->
      LC_Round(LC_Cells[c], r - 1, setup, inherited)])])

\* The script is not run under the limits it requires: nothing is touched.
check_resource_limits ==
  /\ kind = "latency" /\ pc \in Stopped /\ runs < MaxStarts
  /\ pc' = "exit1"
  /\ UNCHANGED <<kind, next, mem, disk, ran, build, runs, verdict, os>>

\* main up to the loops.  Only a results.jsonl forbids the directory: one that
\* an earlier run left without results is used again, and its arms.json stays
\* when this run has no arms.
LC_Start ==
  /\ kind = "latency" /\ pc \in Stopped /\ runs < MaxStarts
  /\ disk.results = None
  /\ \E setup \in LC_Setups, inherited \in LC_Inherited :
       /\ mem' = [plan |-> LC_Plan(setup, inherited), rows |-> <<>>,
                  worker |-> FALSE, driver |-> FALSE, error |-> None]
       /\ disk' = IF setup.arms = <<>> THEN disk
                  ELSE [disk EXCEPT !.arms = [entries |-> setup.arms,
                                              client_sha256 |-> build]]
  /\ next' = 1 /\ ran' = <<>> /\ runs' = runs + 1
  /\ os' = [SUP_Nothing EXCEPT !.signals = os.signals]
  /\ pc' = "next"
  /\ UNCHANGED <<kind, build, verdict>>

LC_Finish ==
  /\ kind = "latency" /\ pc = "next" /\ next > Len(mem.plan)
  /\ Go("exit0")
  /\ UNCHANGED <<mem, disk, ran, os>>

-----------------------------------------------------------------------------
\* The audit.

\* ARM_ENVIRONMENT: arm B is the frozen release, S and A are one client.
ARM_ENVIRONMENT == [arm \in {"B", "S", "A"} |->
                      IF arm = "S" THEN "off" ELSE "unset"]

\* load_arms: the three arms with their switches, and clients that are still
\* the files that were hashed.
load_arms(arms) ==
  /\ arms # None /\ Len(arms.entries) = 3
  /\ {[arm |-> a, fence |-> ARM_ENVIRONMENT[a]] : a \in DOMAIN ARM_ENVIRONMENT}
       = ToSet(arms.entries)
  /\ arms.client_sha256 = build

\* load_rows with verify_raw_row, for one row: its arm, client and recorded
\* switch, the settings and counts of the hashed output, and no memory event.
load_rows(row, arms) ==
  /\ row.case.engine = "fifo" /\ row.case.arm \in DOMAIN ARM_ENVIRONMENT
  /\ row.case.arm = "B" \/ row.client_sha256 = arms.client_sha256
  /\ row.case.arm_environment = ARM_ENVIRONMENT[row.case.arm]
  /\ row.shows \notin {"mode", "counts", "no_result", "oom"}

\* summarize: every arm of every cell has each measured round once, in order.
LC_summarize(rows) ==
  \A c \in ToSet(LC_Cells), arm \in DOMAIN ARM_ENVIRONMENT :
    LET measured == SelectSeq(rows, LAMBDA row :
          row.case.cell = c /\ row.case.arm = arm /\ row.case.round > 0)
    IN SortSeq([k \in DOMAIN measured |-> measured[k].case.round], <)
         = [r \in 1 .. LC_ROUNDS |-> r]

LC_compare ==
  /\ load_arms(disk.arms)
  /\ disk.results # None
  /\ \A row \in ToSet(disk.results) : load_rows(row, disk.arms)
  /\ LC_summarize(disk.results)

\* The audit of a directory whose runner has ended, one way or another.  One
\* that refuses leaves nothing.
LC_Analyze ==
  /\ kind = "latency" /\ pc \in Stopped
  /\ LC_compare
  /\ verdict' = [said |-> "reported"]
  /\ UNCHANGED <<kind, pc, next, mem, disk, ran, build, runs, os>>

-----------------------------------------------------------------------------
LC_Init ==
  /\ kind = "latency" /\ pc = "off" /\ next = 1 /\ mem = None
  /\ disk = [results |-> None, arms |-> None]
  /\ ran = <<>> /\ build = 0 /\ runs = 0 /\ verdict = [said |-> None]
  /\ os = SUP_Nothing

LC_Step == LC_Start \/ LC_Finish \/ check_resource_limits

-----------------------------------------------------------------------------
\* Properties.

\* "Keep an inherited fence switch from silently changing an explicit arm":
\* every line of results.jsonl that names an arm was measured with the switch
\* that arms.json gives that arm, whatever the script inherited and whatever
\* an earlier run left in the directory.
LC_ArmsAsDeclared ==
  kind = "latency" /\ disk.results # None =>
    \A line \in ToSet(SUP_Lines) :
      line.arm # None =>
        [arm |-> line.arm, fence |-> line.env] \in ToSet(disk.arms.entries)

\* Drift of the machine within a round falls on the arms alike: when a matrix
\* with as many measured rounds as a multiple of the arms has ended, every arm
\* was first, in every cell and for every engine, equally often; and every
\* engine likewise among the engines.
LC_Counterbalanced ==
  kind = "latency" /\ pc = "exit0" =>
    LET lines(c, r) == SelectSeq(SUP_Lines,
          LAMBDA l : l.cell = c /\ l.round = r)
        firstArm(c, e, r) == Head(SelectSeq(lines(c, r),
          LAMBDA l : l.engine = e)).arm
        engines == {l.engine : l \in ToSet(SUP_Lines)}
        arms == {l.arm : l \in ToSet(SUP_Lines)} \ {None}
        often(P(_)) == Cardinality({r \in 1 .. LC_ROUNDS : P(r)})
    IN \A c \in ToSet(LC_Cells) :
         /\ LC_ROUNDS % Cardinality(engines) = 0 =>
              \A e \in engines :
                often(LAMBDA r : Head(lines(c, r)).engine = e)
                  * Cardinality(engines) = LC_ROUNDS
         /\ arms # {} /\ LC_ROUNDS % Cardinality(arms) = 0 =>
              \A e \in engines \ {"aeron"}, a \in arms :
                often(LAMBDA r : firstArm(c, e, r) = a)
                  * Cardinality(arms) = LC_ROUNDS

\* What the audit of P3-1 reports stands on whole evidence: each arm of each
\* cell ran every measured round exactly once, without anything wrong, with
\* its own setting of the switch and, in both candidate arms, on the client
\* that was hashed before the first case, although the runner may have been
\* interrupted, started again in the directory, or had its client rebuilt
\* between a case and the hashing of it.
LC_ReportIsSound ==
  kind = "latency" /\ verdict.said = "reported" =>
    /\ \A c \in ToSet(LC_Cells), arm \in DOMAIN ARM_ENVIRONMENT,
          r \in 1 .. LC_ROUNDS :
         Cardinality({k \in DOMAIN ran :
           /\ ran[k].round.cell = c /\ ran[k].round.arm = arm
           /\ ran[k].round.round = r
           /\ ran[k].round.env = ARM_ENVIRONMENT[arm]}) = 1
    /\ \A r \in ToSet(ran) : r.flaw = None
    /\ \A r \in ToSet(ran) :
         r.round.arm # "B" => r.build = disk.arms.client_sha256

\* The latency matrix is the experiment it is reported to be: the lines name
\* the switch they were measured with, the rotation of run_latency_compare.py
\* is counterbalanced, and what compare_p31_latency.py reports ran once, whole
\* and on the client it names.
LC_MatrixIsSound == LC_ArmsAsDeclared /\ LC_Counterbalanced /\ LC_ReportIsSound

=============================================================================
