---------------------------- MODULE TopologySuite ----------------------------
(***************************************************************************)
(* The four-topology suite and the gates on its summary.                   *)
(*                                                                         *)
(*   runner    src/tools/aeron_compare/run_topology_suite.py               *)
(*   gates     src/tools/aeron_compare/verify_fixed_ring_gates.py          *)
(*                                                                         *)
(* A cell (topology, kind, payload, origin) is a member of Configurations; *)
(* every round of a cell runs both engines, in an order that engine_order  *)
(* gives.  run_case is in module CaseSupervisor.  A behaviour of kind       *)
(* "layout" is one call of cpu_layout and expected_counts, which every     *)
(* case begins with.                                                       *)
(***************************************************************************)
EXTENDS CaseSupervisor

CONSTANT TS_Rounds   \* values of --rounds

\* Every run has a measured round.
ASSUME SuiteAssumption == TS_Rounds \subseteq Nat \ {0}

ABBA_ORDER == <<"salias", "aeron", "aeron", "salias">>

\* The paired engine order for one measured ABBA round; round 0 is warm-up.
engine_order(round_number, cell_index, group_index) ==
  LET first == IF round_number = 0
               THEN IF (cell_index + group_index) % 2 = 0 THEN "salias"
                    ELSE "aeron"
               ELSE ABBA_ORDER[1 + ((round_number - 1 + cell_index + group_index)
                                      % Len(ABBA_ORDER))]
  IN <<first, IF first = "salias" THEN "aeron" ELSE "salias">>

\* The cells a run asks for: latency first.
TS_Cells(kinds) ==
  LET ofKind(latency) == SelectSeq(Configurations,
                           LAMBDA c : (c \in LatencyOnes) = latency)
  IN (IF "latency" \in kinds THEN ofKind(TRUE) ELSE <<>>)
       \o (IF "throughput" \in kinds THEN ofKind(FALSE) ELSE <<>>)

\* The loops of main: groups, rounds with the warm-up, the cells rotated by
\* the round, and the two engines.  cell_index is the place in the rotation.
TS_Plan(kinds, rounds) ==
  LET cells == TS_Cells(kinds)
      rotated(r) == [k \in DOMAIN cells |->
                       cells[1 + ((k - 1 + r) % Len(cells))]]
  IN FlattenSeq([g \in 1 .. GROUPS |->
       FlattenSeq([r \in 1 .. rounds + 1 |->
         FlattenSeq([k \in DOMAIN cells |->
           LET engines == engine_order(r - 1, k - 1, g - 1)
           IN [o \in 1 .. 2 |->
                [cell |-> rotated(r - 1)[k], engine |-> engines[o],
                 group |-> g - 1, round |-> r - 1, order |-> o]]])])])

\* validate_args, verify_limits and write_environment: the directory is absent
\* or empty.
TS_Start ==
  /\ kind = "topology" /\ pc \in Stopped /\ runs < MaxStarts
  /\ disk.environment = None
  /\ \E kinds \in {{"latency", "throughput"}, {"latency"}},
        rounds \in TS_Rounds, verify \in {"none", "full"} :
       /\ mem' = [plan |-> TS_Plan(kinds, rounds), rows |-> <<>>,
                  worker |-> FALSE, driver |-> FALSE, error |-> None]
       /\ disk' = [disk EXCEPT !.environment =
                     [rounds |-> rounds, groups |-> GROUPS, verify |-> verify]]
  /\ runs' = runs + 1 /\ pc' = "next"
  /\ UNCHANGED <<kind, next, ran, build, verdict, os>>

\* summarize: per cell and engine, the measured rounds and their groups.
TS_summarize(rows) ==
  LET measured == SelectSeq(rows, LAMBDA row : row.round > 0)
      cell(c, e) == SelectSeq(measured,
                      LAMBDA row : row.cell = c /\ row.engine = e)
  IN [key \in {<<row.cell, row.engine>> : row \in ToSet(measured)} |->
       [rounds |-> Len(cell(key[1], key[2])),
        groups |-> Cardinality({row.group : row \in
                                  ToSet(cell(key[1], key[2]))})]]

\* The end of main: the summary, then the checksums over all files.
TS_Summary ==
  /\ kind = "topology" /\ pc = "next" /\ next > Len(mem.plan)
  /\ disk' = [disk EXCEPT !.summary = TS_summarize(mem.rows)]
  /\ Go("sums")
  /\ UNCHANGED <<mem, ran, os>>

TS_Finish ==
  /\ kind = "topology" /\ pc = "sums"
  /\ disk' = [disk EXCEPT !.sums = TRUE]
  /\ Go("exit0")
  /\ UNCHANGED <<mem, ran, os>>

-----------------------------------------------------------------------------
\* The gates.

\* protocol: what the summary says of how it was measured.
protocol == disk.environment

\* verify_gates: the protocol that was asked for, every cell of both engines
\* with enough measured rounds, and the limits on the medians, on the driver's
\* CPU and on a baseline suite, which other data decide.
verify_gates(minimum, full, limits) ==
  /\ limits
  /\ protocol.groups >= GROUPS
  /\ protocol.rounds >= minimum
  /\ full => protocol.verify = "full"
  /\ \A c \in ToSet(Configurations), e \in {"salias", "aeron"} :
       /\ <<c, e>> \in DOMAIN disk.summary
       /\ disk.summary[<<c, e>>].rounds >= minimum * GROUPS
       /\ disk.summary[<<c, e>>].groups >= GROUPS

TS_Gate ==
  /\ kind = "topology" /\ disk.summary # None
  /\ \E minimum \in TS_Rounds, full, limits \in BOOLEAN :
       verdict' = [said |-> IF verify_gates(minimum, full, limits)
                            THEN "passed" ELSE "failed",
                   minimum |-> minimum, full |-> full]
  /\ UNCHANGED <<kind, pc, next, mem, disk, ran, build, runs, os>>

-----------------------------------------------------------------------------
\* Where the processes of a case run, and what they must count.

\* Mutant: a hole among the allowed CPUs is not looked for.
LayoutWithHoles(producers, consumers, allowed, dedicated) ==
  LET cpus == SetToSortSeq(allowed, <)
      workers == producers + consumers
      reserve == Len(cpus) > workers
      first == IF reserve THEN 2 ELSE 1
  IN IF Len(cpus) < workers \/ (dedicated /\ ~reserve) THEN None
     ELSE [worker_cpus |-> SubSeq(cpus, first, first + workers - 1),
           driver_cpu |-> cpus[1]]

\* verify_limits and cpu_layout: the first CPU is the driver's; the workers
\* take the next ones, or share it when there is none to spare.
cpu_layout(producers, consumers, allowed, dedicated) ==
  LET cpus == SetToSortSeq(allowed, <)
      workers == producers + consumers
      reserve == Len(cpus) > workers
      first == IF reserve THEN 2 ELSE 1
      worker_cpus == SubSeq(cpus, first, first + workers - 1)
  IN IF \/ Len(cpus) < workers
        \/ dedicated /\ ~reserve
        \/ \E k \in 1 .. workers - 1 : worker_cpus[k + 1] # worker_cpus[k] + 1
     THEN None
     ELSE [worker_cpus |-> worker_cpus, driver_cpu |-> cpus[1]]

\* worker_roles: counted up from the first worker CPU, subscribers first.
worker_roles(producers, consumers, cpu_base) ==
  {[role |-> "subscriber", index |-> i, cpu |-> cpu_base + i] :
     i \in 0 .. consumers - 1}
  \cup
  {[role |-> "publisher", index |-> i, cpu |-> cpu_base + consumers + i] :
     i \in 0 .. producers - 1}

\* expected_counts of a latency case.
expected_counts(producers, consumers, messages, sample_rate) ==
  [published |-> producers * messages,
   delivered |-> producers * messages * consumers,
   samples |-> producers * ((messages + sample_rate - 1) \div sample_rate)
                 * consumers]

TS_LayoutInit ==
  /\ kind = "layout" /\ pc = "off" /\ next = 1
  /\ \E allowed \in SUBSET (0 .. 4), producers, consumers \in 1 .. 2,
        dedicated \in BOOLEAN, messages \in 1 .. 4, rate \in 1 .. 3 :
       mem = [allowed |-> allowed, producers |-> producers,
              consumers |-> consumers, dedicated |-> dedicated,
              messages |-> messages, rate |-> rate]
  /\ disk = None /\ ran = <<>> /\ build = 0 /\ runs = 0
  /\ verdict = [said |-> None] /\ os = SUP_Nothing

TS_Layout ==
  /\ kind = "layout" /\ pc = "off"
  /\ LET layout == cpu_layout(mem.producers, mem.consumers, mem.allowed,
                              mem.dedicated)
     IN verdict' = IF layout = None THEN [said |-> "refused"]
          ELSE [said |-> "laid out", layout |-> layout,
                roles |-> worker_roles(mem.producers, mem.consumers,
                                       layout.worker_cpus[1]),
                counts |-> expected_counts(mem.producers, mem.consumers,
                                           mem.messages, mem.rate)]
  /\ pc' = "exit0"
  /\ UNCHANGED <<kind, next, mem, disk, ran, build, runs, os>>

-----------------------------------------------------------------------------
TS_Init ==
  /\ kind = "topology" /\ pc = "off" /\ next = 1 /\ mem = None
  /\ disk = [results |-> None, environment |-> None, summary |-> None,
             sums |-> FALSE]
  /\ ran = <<>> /\ build = 0 /\ runs = 0 /\ verdict = [said |-> None]
  /\ os = SUP_Nothing

TS_Step == TS_Start \/ TS_Summary \/ TS_Finish

-----------------------------------------------------------------------------
\* Properties.

\* A gate is passed only on a whole suite that did what was required: every
\* cell and engine has at least the required measured rounds, warm-ups not
\* counted, each of which ran, ended well and is in results.jsonl; content was
\* verified if that was required.
TS_PassedIsMeasured ==
  kind = "topology" /\ verdict.said = "passed" =>
    /\ verdict.full => disk.environment.verify = "full"
    /\ \A c \in ToSet(Configurations), e \in {"salias", "aeron"} :
         Cardinality({k \in DOMAIN ran :
           /\ ran[k].round.cell = c /\ ran[k].round.engine = e
           /\ ran[k].round.round > 0 /\ ran[k].flaw \in {None, "driver"}
           /\ ran[k].round \in ToSet(SUP_Lines)})
           >= verdict.minimum * GROUPS

\* The processes run where the layout says: the roles, which are counted up
\* from the first worker CPU, fall one to one on the worker CPUs, all of them
\* allowed, and on a required dedicated driver CPU runs no worker.
TS_RolesArePinned ==
  kind = "layout" /\ verdict.said = "laid out" =>
    LET cpus == ToSet(verdict.layout.worker_cpus)
    IN /\ {r.cpu : r \in verdict.roles} = cpus
       /\ Cardinality(cpus) = mem.producers + mem.consumers
       /\ cpus \subseteq mem.allowed
       /\ mem.dedicated => verdict.layout.driver_cpu \notin cpus

\* A case is checked against the right number of samples: the messages whose
\* number is a multiple of the rate, of every producer at every consumer.
TS_CountsExact ==
  kind = "layout" /\ verdict.said = "laid out" =>
    verdict.counts.samples =
      Cardinality({m \in (1 .. mem.producers) \X (1 .. mem.consumers)
                     \X (0 .. mem.messages - 1) : m[3] % mem.rate = 0})

\* "Measured pair rounds follow ABBA engine order": over the four measured
\* rounds of a finished suite each engine goes first twice in every cell.
TS_OrderBalanced ==
  kind = "topology" /\ pc = "exit0" /\ disk.environment.rounds = 4 =>
    \A c \in {line.cell : line \in ToSet(SUP_Lines)} :
      Cardinality({line \in ToSet(SUP_Lines) :
        /\ line.cell = c /\ line.group = 0 /\ line.round > 0
        /\ line.order = 1 /\ line.engine = "salias"}) = 2

=============================================================================
