------------------------------- MODULE Campaign -------------------------------
(***************************************************************************)
(* What the measurement campaigns of the repository have in common.        *)
(*                                                                         *)
(* A campaign is one runner script: it expands a frozen plan into rounds,  *)
(* runs every round in a child process, writes evidence files, and stops.  *)
(* An analyzer later reads the files and reports.  The runner may be       *)
(* killed between any two steps, a round may go wrong in the ways the      *)
(* scripts look for, and the benchmarked client may be rebuilt meanwhile.  *)
(* What the analyzer concludes has to be true of the rounds that ran.      *)
(*                                                                         *)
(* Modules ThreadMatrix, ClaimMatrix, StabilityChunks and ClaimApiAB each  *)
(* model one runner with its analyzer.  They share these variables, and a  *)
(* behaviour is of one campaign only.                                      *)
(***************************************************************************)
EXTENDS Integers, SequencesExt, FiniteSetsExt

CONSTANTS
  None,            \* a file that is not there, a value not yet set
  Configurations,  \* configurations of the matrix, a sequence of names
  LatencyOnes,     \* those of kind "latency"
  GROUPS,          \* GROUPS: independent groups per configuration
  MaxFlaws,        \* bound: rounds that go wrong
  MaxBuilds,       \* bound: times the client is rebuilt
  MaxRuns          \* bound: times a runner is started on one directory

\* The configurations are in a sequence; those of kind "latency" are of them.
ASSUME CampaignAssumption ==
  /\ Configurations \in Seq(ToSet(Configurations))
  /\ LatencyOnes \subseteq ToSet(Configurations)
  /\ GROUPS \in Nat \ {0}
  /\ MaxFlaws \in Nat /\ MaxBuilds \in Nat /\ MaxRuns \in Nat \ {0}

VARIABLES
  kind,     \* which campaign this behaviour is of
  pc,       \* where its runner is
  next,     \* index in the plan of the next round
  mem,      \* what the runner holds in memory
  disk,     \* the files of the output directory
  ran,      \* the rounds that ran, in order, with what happened (history)
  build,    \* which build of the client is installed
  runs,     \* times the runner was started
  verdict   \* what the analyzer last said, with its report

vars == <<kind, pc, next, mem, disk, ran, build, runs, verdict>>

Stopped == {"off", "exit0", "exit1", "killed"}
Flaws == Cardinality({k \in DOMAIN ran : ran[k].flaw # None})

\* A round may go wrong while the budget lasts.
MayHave(flaw) == flaw = None \/ Flaws < MaxFlaws

\* The runs of an arm order over every configuration and group: three nested
\* loops, the configuration outermost.
Expand(order) ==
  FlattenSeq([c \in DOMAIN Configurations |->
    FlattenSeq([g \in 1 .. GROUPS |->
      [p \in DOMAIN order |->
        [cfg |-> Configurations[c], group |-> g - 1,
         pos |-> p - 1, arm |-> order[p]]]])])

\* One round per configuration and arm, outside the groups.
EachOnce(arms) ==
  FlattenSeq([c \in DOMAIN Configurations |->
    [a \in DOMAIN arms |->
      [cfg |-> Configurations[c], group |-> -1, pos |-> -1, arm |-> arms[a]]]])

\* The rounds of one phase, numbered from an offset.
Numbered(phase, offset, rounds) ==
  [k \in DOMAIN rounds |->
    [phase |-> phase, ordinal |-> offset + k - 1, cfg |-> rounds[k].cfg,
     group |-> rounds[k].group, pos |-> rounds[k].pos, arm |-> rounds[k].arm]]

\* The runner dies: a signal, KeyboardInterrupt, the machine.  Files stay.
Crash ==
  /\ pc \notin Stopped
  /\ pc' = "killed"
  /\ mem' = None
  /\ UNCHANGED <<kind, next, disk, ran, build, runs, verdict>>

\* Somebody rebuilds the client in place.  No two builds have one digest.
Rebuild ==
  /\ build < MaxBuilds
  /\ build' = build + 1
  /\ UNCHANGED <<kind, pc, next, mem, disk, ran, runs, verdict>>

=============================================================================
