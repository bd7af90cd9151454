------------------------------ MODULE ClaimMatrix ------------------------------
(***************************************************************************)
(* The P3 E2 matrix: owning against borrowed claims, four arms in ABBA     *)
(* order.                                                                  *)
(*                                                                         *)
(*   runner    src/doc/plans/runners/p3-e2-claim.py                        *)
(*   analyzer  src/tools/aeron_compare/analyze_e2_claim.py                 *)
(*                                                                         *)
(* Smoke, warm-up and formal rounds are each numbered from 0 and share the *)
(* directories round_0000, round_0001, ...: a later stage overwrites the   *)
(* files of an earlier one.  A round writes command.json and empties its   *)
(* stdout, runs, and writes outcome.json.                                  *)
(***************************************************************************)
EXTENDS Campaign

E2_ARMS == <<"ST", "MT-O", "MT-X", "MT-B">>
E2_ARM_ORDER == E2_ARMS \o Reverse(E2_ARMS)

\* exit, timeout: the unit failed or hung.  The others are what the output
\* shows: another probe, the wrong mode, claim variant, thread count or libc
\* state, wrong counters or number of samples, a memory event in the cgroup.
E2_Flaws == {"exit", "timeout", "identity", "mode", "variant", "threads",
             "libc", "counters", "samples", "pressure"}

\* The table of configurations: only a latency round has samples to count.
E2_CONFIGURATIONS ==
  [c \in ToSet(Configurations) |->
    [kind |-> IF c \in LatencyOnes THEN "latency" ELSE "throughput",
     latency_sample_rate |-> IF c \in LatencyOnes THEN 16 ELSE 0]]

E2_formal_schedule == Numbered("formal", 0, Expand(E2_ARM_ORDER))
E2_warmup_schedule == Numbered("warmup", 0, EachOnce(E2_ARMS))

E2_smoke_schedule == Numbered("smoke", 0,
  [a \in DOMAIN E2_ARMS |->
    [cfg |-> "smoke", group |-> -1, pos |-> -1, arm |-> E2_ARMS[a]]])

\* The three loops of run_experiment.
E2_Plan == E2_smoke_schedule \o E2_warmup_schedule \o E2_formal_schedule

E2_NoRound == [spec |-> None, stdout |-> None, status |-> None]

-----------------------------------------------------------------------------
\* run_experiment up to the stages.
E2_Start ==
  /\ kind = "e2" /\ pc = "off"
  /\ disk' = [disk EXCEPT !.experiment = build]
  /\ mem' = <<>>
  /\ next' = 1
  /\ runs' = runs + 1
  /\ pc' = "next"
  /\ UNCHANGED <<kind, ran, build, verdict>>

\* systemd_run_command and run_round up to the call: command.json is replaced,
\* stdout emptied, an outcome.json of an earlier stage stays.
E2_Launch ==
  /\ kind = "e2" /\ pc = "next" /\ next <= Len(E2_Plan)
  /\ LET round == E2_Plan[next]
     IN /\ disk' = [disk EXCEPT
             !.dirs[round.ordinal].spec = round,
             !.dirs[round.ordinal].stdout = "empty"]
        /\ ran' = Append(ran, [round |-> round, flaw |-> None,
                               build |-> build])
  /\ pc' = "round"
  /\ UNCHANGED <<kind, next, mem, build, runs, verdict>>

E2_Status(flaw) ==
  CASE flaw = "exit" -> "failed"
    [] flaw = "timeout" -> "timeout"
    [] OTHER -> "ok"

\* Only a formal round that returned None ends the stages.
E2_Goes(round, status) == round.phase # "formal" \/ status = "ok"

\* The rest of run_round and of the loop around it.  Outcomes of smoke and
\* warm-up rounds are kept apart; mem is the list of formal ones.
E2_Collect ==
  /\ kind = "e2" /\ pc = "round"
  /\ \E flaw \in E2_Flaws \cup {None} :
       LET round == E2_Plan[next]
           status == E2_Status(flaw)
       IN /\ MayHave(flaw)
          /\ ran' = [ran EXCEPT ![Len(ran)].flaw = flaw]
          /\ disk' = [disk EXCEPT
               !.dirs[round.ordinal].stdout = flaw,
               !.dirs[round.ordinal].status = status]
          /\ mem' = IF status = "ok" /\ round.phase = "formal"
                    THEN Append(mem, round.ordinal) ELSE mem
          /\ pc' = IF E2_Goes(round, status) THEN "next" ELSE "save"
          /\ next' = next + 1
  /\ UNCHANGED <<kind, build, runs, verdict>>

\* results.json.
E2_Results(formal) ==
  [formal |-> formal, complete |-> Len(formal) = Len(E2_formal_schedule)]

E2_Save ==
  /\ kind = "e2"
  /\ pc = "save" \/ (pc = "next" /\ next > Len(E2_Plan))
  /\ disk' = [disk EXCEPT !.results = E2_Results(mem)]
  /\ pc' = IF E2_Results(mem).complete THEN "exit0" ELSE "exit1"
  /\ UNCHANGED <<kind, next, mem, ran, build, runs, verdict>>

-----------------------------------------------------------------------------
\* parse_stdout and validate_round: what is wrong with the round in a
\* directory, judged by the command.json found there.
E2_parse_stdout(dir) ==
  IF dir.stdout = "empty" THEN {"identity", "mode", "variant", "threads"}
  ELSE {dir.stdout} \ {None, "pressure"}

E2_validate_round(dir) ==
  LET sampled == /\ dir.spec.cfg \in DOMAIN E2_CONFIGURATIONS
                 /\ E2_CONFIGURATIONS[dir.spec.cfg].latency_sample_rate > 0
  IN /\ dir.status = "ok"
     /\ E2_parse_stdout(dir) \ (IF sampled THEN {} ELSE {"samples"}) = {}

\* analyze: the rounds results.json lists, less those that do not validate.
E2_Rows ==
  LET at(ordinal) == disk.dirs[ordinal]
      valid == SelectSeq(disk.results.formal,
                         LAMBDA o : at(o).spec # None /\ E2_validate_round(at(o)))
  IN [k \in DOMAIN valid |-> at(valid[k])]

\* analyze_throughput: the groups with a median for all four arms.
E2_Groups(c) ==
  {g \in 0 .. GROUPS - 1 :
     \A arm \in ToSet(E2_ARMS) :
       \E r \in ToSet(E2_Rows) :
         r.spec.cfg = c /\ r.spec.group = g /\ r.spec.arm = arm}

\* analyze_latency and compute_summary_statistics: what a configuration is
\* reported with needs some round of the arms ST, MT-O and MT-B.
E2_Summary ==
  {c \in ToSet(Configurations) :
     \A arm \in {"ST", "MT-O", "MT-B"} :
       \E r \in ToSet(E2_Rows) : r.spec.cfg = c /\ r.spec.arm = arm}

E2_Analyze ==
  /\ kind = "e2"
  /\ verdict' = IF disk.experiment = None \/ disk.results = None
                THEN [said |-> "missing"]
                ELSE [said |-> "reported", rows |-> E2_Rows,
                      summary |-> E2_Summary,
                      groups |-> [c \in ToSet(Configurations) |-> E2_Groups(c)]]
  /\ UNCHANGED <<kind, pc, next, mem, disk, ran, build, runs>>

-----------------------------------------------------------------------------
E2_Init ==
  /\ kind = "e2" /\ pc = "off" /\ next = 1 /\ mem = None
  /\ disk = [experiment |-> None, results |-> None,
             dirs |-> [o \in 0 .. Len(E2_formal_schedule) - 1 |-> E2_NoRound]]
  /\ ran = <<>> /\ build = 0 /\ runs = 0 /\ verdict = [said |-> None]

E2_Next ==
  \/ E2_Start \/ E2_Launch \/ E2_Collect \/ E2_Save \/ E2_Analyze
  \/ kind = "e2" /\ Crash

-----------------------------------------------------------------------------
\* Properties.

\* Nothing is wrong with a round that the analyzer looks for.  The cgroup's
\* memory events are retained and read by nobody; samples are counted in
\* latency rounds only.
E2_Clean(r) ==
  \/ r.flaw \in {None, "pressure"}
  \/ r.flaw = "samples" /\ r.round.cfg \notin LatencyOnes

E2_Reported == kind = "e2" /\ verdict.said = "reported"

\* Warm-up and smoke rounds stay out of the statistics although they share
\* their directories with the formal ones, and so does every round whose
\* output does not show the arm it was run for: a reported row is a formal
\* round that ran, counted once and in the planned order.
E2_RowsAreFormal ==
  E2_Reported =>
    /\ \A k \in DOMAIN verdict.rows :
         /\ verdict.rows[k].spec.phase = "formal"
         /\ \E r \in ToSet(ran) :
              /\ r.round = verdict.rows[k].spec
              /\ E2_Clean(r)
    /\ \A j, k \in DOMAIN verdict.rows :
         j < k => verdict.rows[j].spec.ordinal < verdict.rows[k].spec.ordinal

\* A configuration is summarised only from groups it can pair: if every formal
\* round ran and validated, all groups have all four arms, and a group that
\* counts toward the direction rule has a round of each arm that ran clean.
E2_GroupsArePaired ==
  E2_Reported =>
    /\ disk.results.complete /\ Len(verdict.rows) = Len(E2_formal_schedule)
         => \A c \in ToSet(Configurations) :
              verdict.groups[c] = 0 .. GROUPS - 1 /\ c \in verdict.summary
    /\ \A c \in ToSet(Configurations), g \in 0 .. GROUPS - 1 :
         g \in verdict.groups[c] =>
           \A arm \in ToSet(E2_ARMS) :
             \E r \in ToSet(ran) :
               /\ r.round.phase = "formal" /\ E2_Clean(r)
               /\ r.round.cfg = c /\ r.round.group = g /\ r.round.arm = arm

\* A report of analyze_e2_claim.py is true of what ran: its rows are formal
\* rounds that ran clean, though files of smoke and warm-up rounds lie in the
\* same directories, and the groups it counts are paired.
E2_ReportIsSound == E2_RowsAreFormal /\ E2_GroupsArePaired

=============================================================================
