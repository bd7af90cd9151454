----------------------------- MODULE ThreadMatrix -----------------------------
(***************************************************************************)
(* The P3-2 matrix: a single-threaded publisher (ST) against the same      *)
(* binary with a sleeping helper thread (MT).                              *)
(*                                                                         *)
(*   runner    src/doc/plans/runners/p3-p32-multithread.py                 *)
(*   analyzer  src/tools/aeron_compare/analyze_p32_multithread.py          *)
(*                                                                         *)
(* A round takes two steps (the unit is started, its output is collected)  *)
(* and a failure two more (failure.json, then experiment.json).  A round's *)
(* own files are written once, in a directory of its own; what they say is *)
(* ran[k].flaw.  A flaw is one thing that is wrong with a round:           *)
(*                                                                         *)
(*   exit timeout launch    the unit failed, hung, or never started        *)
(*   no_cgroup limits pressure   no evidence block; wrong limits; a memory *)
(*                          event or swap in use                           *)
(*   cpus                   effective CPUs outside 0-3                     *)
(*   identity mode threads libc  the probe is another one or ran the other *)
(*                          arm                                            *)
(*   no_result counters     no single RESULT; published or delivered wrong *)
(*   rate quantiles samples non-positive rate; unordered quantiles; the    *)
(*                          number of latency samples is wrong             *)
(***************************************************************************)
EXTENDS Campaign

ARM_ORDER == <<"ST", "MT", "MT", "ST">>
ARMS == <<"ST", "MT">>

P32_Flaws ==
  {"exit", "timeout", "launch", "no_cgroup", "limits", "pressure", "cpus",
   "identity", "mode", "threads", "libc", "no_result", "counters",
   "rate", "quantiles", "samples"}

-----------------------------------------------------------------------------
\* The plan.

\* The frozen table: what the rounds of a configuration measure.  Sizes, rates
\* and limits are the same for every round of a configuration.
CONFIGURATIONS ==
  [k \in DOMAIN Configurations |->
    [id |-> Configurations[k],
     kind |-> IF Configurations[k] \in LatencyOnes THEN "latency"
              ELSE "throughput"]]

formal_schedule == Expand(ARM_ORDER)
warmup_schedule == EachOnce(ARMS)

smoke == Numbered("smoke", 0,
  [a \in DOMAIN ARMS |->
    [cfg |-> "smoke-64b", group |-> -1, pos |-> -1, arm |-> ARMS[a]]])

\* Mutant: the smoke rounds are not counted in the offset of the matrix.
PlanOffsetShort(mode) ==
  IF mode = "smoke" THEN smoke
  ELSE LET warm == Numbered("warmup", Len(smoke), warmup_schedule)
       IN smoke \o warm \o Numbered("measured", Len(warm), formal_schedule)

\* run_formal: smoke rounds, warm-ups and the matrix, numbered through;
\* run_smoke: the smoke rounds alone.
P32_Plan(mode) ==
  IF mode = "smoke" THEN smoke
  ELSE LET warm == Numbered("warmup", Len(smoke), warmup_schedule)
       IN smoke \o warm
            \o Numbered("measured", Len(smoke) + Len(warm), formal_schedule)

\* The table and the order have not been changed by accident.
validate_matrix ==
  /\ ARM_ORDER = <<"ST", "MT", "MT", "ST">>
  /\ \A c \in ToSet(CONFIGURATIONS) : c.kind \in {"throughput", "latency"}
  /\ Len(formal_schedule) = Len(CONFIGURATIONS) * GROUPS * Len(ARM_ORDER)

-----------------------------------------------------------------------------
\* What the runner looks at.

\* values only ever holds the required files, and the CPU set is not one of
\* them: the comparison with 0-3 is never reached.
validate_cgroup_evidence(flaw) == flaw \notin {"limits", "pressure"}

extract_cgroup_evidence(flaw) ==
  flaw # "no_cgroup" /\ validate_cgroup_evidence(flaw)

parse_probe_output(flaw) ==
  flaw \notin {"identity", "mode", "threads", "libc", "no_result", "counters"}

\* The round's record: "ok" when nothing was found wrong.  The client is
\* hashed after the round.
P32_Record(round, flaw) ==
  [round |-> round, sha |-> build,
   status |-> IF /\ flaw \notin {"exit", "timeout", "launch"}
                 /\ extract_cgroup_evidence(flaw)
                 /\ parse_probe_output(flaw)
              THEN "ok" ELSE "failed"]

-----------------------------------------------------------------------------
\* The runner.

\* make_manifest: the whole protocol, before any workload.
P32_Manifest(mode) ==
  [status |-> "running", mode |-> mode, measured |-> 0,
   planned |-> formal_schedule, records |-> <<>>]

\* parse_args, verify_v3_source and the head of run_formal or run_smoke.  An
\* empty directory passes parse_args and is refused by mkdir.
P32_Start ==
  /\ kind = "p32" /\ pc = "off" /\ validate_matrix
  /\ \E mode \in {"formal", "smoke"} :
       \/ /\ disk.output = "absent"
          /\ mem' = P32_Manifest(mode)
          /\ disk' = [disk EXCEPT !.output = "used", !.experiment = mem',
                                  !.environment = build]
          /\ pc' = "next"
       \/ /\ disk.output = "empty"
          /\ pc' = "exit1"
          /\ UNCHANGED <<mem, disk>>
  /\ UNCHANGED <<kind, next, ran, build, runs, verdict>>

\* execute_round up to the call of systemd-run.
P32_Launch ==
  /\ kind = "p32" /\ pc = "next"
  /\ next <= Len(P32_Plan(mem.mode))
  /\ ran' = Append(ran, [round |-> P32_Plan(mem.mode)[next],
                         flaw |-> None, build |-> build])
  /\ pc' = "round"
  /\ UNCHANGED <<kind, next, mem, disk, build, runs, verdict>>

\* Mutant: only a measured round that failed ends the run.
AfterMeasured(record) ==
  IF record.status = "ok" \/ record.round.phase # "measured" THEN "next"
  ELSE "failing"

\* run_records looks at the status and goes on or stops.
P32_After(record) == IF record.status = "ok" THEN "next" ELSE "failing"

\* The rest of execute_round, and run_records: the round is recorded whatever
\* came of it, counted, and saved before its status is looked at.
P32_Collect ==
  /\ kind = "p32" /\ pc = "round"
  /\ \E flaw \in P32_Flaws \cup {None} :
       LET record == P32_Record(Last(ran).round, flaw)
       IN /\ MayHave(flaw)
          /\ ran' = [ran EXCEPT ![Len(ran)].flaw = flaw]
          /\ mem' = [mem EXCEPT
               !.records = Append(@, record),
               !.measured = @ + IF record.round.phase = "measured"
                                THEN 1 ELSE 0]
          /\ pc' = P32_After(record)
  /\ disk' = [disk EXCEPT !.experiment = mem']
  /\ next' = next + 1
  /\ UNCHANGED <<kind, build, runs, verdict>>

\* record_failure: failure.json first ...
P32_WriteFailure ==
  /\ kind = "p32" /\ pc = "failing"
  /\ disk' = [disk EXCEPT !.failure = Last(mem.records)]
  /\ mem' = [mem EXCEPT !.status = "failed"]
  /\ pc' = "failed"
  /\ UNCHANGED <<kind, next, ran, build, runs, verdict>>

\* ... then the manifest; the RuntimeError ends the script.
P32_RecordFailure ==
  /\ kind = "p32" /\ pc = "failed"
  /\ disk' = [disk EXCEPT !.experiment = mem]
  /\ pc' = "exit1"
  /\ UNCHANGED <<kind, next, mem, ran, build, runs, verdict>>

P32_Finish ==
  /\ kind = "p32" /\ pc = "next"
  /\ next > Len(P32_Plan(mem.mode))
  /\ mem' = [mem EXCEPT !.status = "complete"]
  /\ disk' = [disk EXCEPT !.experiment = mem']
  /\ pc' = "exit0"
  /\ UNCHANGED <<kind, next, ran, build, runs, verdict>>

-----------------------------------------------------------------------------
\* The analyzer.

validate_cgroup(flaw) == flaw \notin {"no_cgroup", "limits", "pressure"}

parse_probe(flaw) ==
  flaw \notin {"identity", "mode", "threads", "libc", "no_result",
               "rate", "quantiles"}

\* The counters and the number of samples are compared with the plan's own
\* configuration, not with what the record says.
P32_CountsAsPlanned(flaw) == flaw \notin {"counters", "samples"}

\* The evidence of the k-th round, as the artifacts of its directory show it.
P32_Evidence(k) == ran[k].flaw

\* The planned order is as long as the matrix, and its rounds are possible ones.
P32_PlannedAudit(planned) ==
  /\ Len(planned) = Len(formal_schedule)
  /\ \A slot \in ToSet(planned) :
       /\ slot.cfg \in ToSet(Configurations) /\ slot.group \in 0 .. GROUPS - 1
       /\ slot.arm \in ToSet(ARMS) /\ slot.pos \in 0 .. Len(ARM_ORDER) - 1

\* Mutant: the client is not compared with the one hashed at the start.
ManifestAuditNoClient(m) ==
  /\ m.mode = "formal" /\ m.status = "complete"
  /\ m.measured = Len(formal_schedule)
  /\ P32_PlannedAudit(m.planned)

\* analyze: the manifest's claims about itself ...
P32_ManifestAudit(m) ==
  /\ m.mode = "formal" /\ m.status = "complete"
  /\ m.measured = Len(formal_schedule)
  /\ build = disk.environment
  /\ P32_PlannedAudit(m.planned)

\* ... the ledger against the plan and every measured round's artifacts ...
P32_LedgerAudit(m) ==
  LET measured == SelectSeq(m.records, LAMBDA r : r.round.phase = "measured")
      offset == Len(smoke) + Len(warmup_schedule)
  IN /\ Len(measured) = Len(m.planned)
     /\ \A r \in ToSet(m.records) :
          r.round.phase # "measured" => r.status = "ok"
     /\ SelectInSeq(m.records,
          LAMBDA r : r.round.phase = "measured") = offset + 1
     /\ \A k \in DOMAIN measured :
          LET r == measured[k]
          IN /\ r.round = Numbered("measured", offset, m.planned)[k]
             /\ r.status = "ok"
             /\ r.sha = build
             /\ LET flaw == P32_Evidence(offset + k)
                IN parse_probe(flaw) /\ validate_cgroup(flaw)
                     /\ P32_CountsAsPlanned(flaw)

\* ... and the order of the arms within each group.
P32_AbbaAudit(m) ==
  \A c \in ToSet(Configurations), g \in 0 .. GROUPS - 1 :
    LET rows == SelectSeq(m.records, LAMBDA r : r.round.phase = "measured"
                            /\ r.round.cfg = c /\ r.round.group = g)
    IN [k \in DOMAIN rows |-> rows[k].round.arm] = ARM_ORDER

P32_analyze ==
  /\ disk.experiment # None
  /\ P32_ManifestAudit(disk.experiment)
  /\ P32_LedgerAudit(disk.experiment)
  /\ P32_AbbaAudit(disk.experiment)

\* The analyzer may be run at any time, on whatever the files say.
P32_Analyze ==
  /\ kind = "p32"
  /\ verdict' = [said |-> IF P32_analyze THEN "accepted" ELSE "refused"]
  /\ UNCHANGED <<kind, pc, next, mem, disk, ran, build, runs>>

-----------------------------------------------------------------------------
P32_Init ==
  /\ kind = "p32" /\ pc = "off" /\ next = 1 /\ mem = None
  /\ disk \in {[output |-> o, experiment |-> None, environment |-> None,
                failure |-> None] : o \in {"absent", "empty"}}
  /\ ran = <<>> /\ build = 0 /\ runs = 1 /\ verdict = [said |-> None]

P32_Step ==
  \/ P32_Start \/ P32_Launch \/ P32_Collect \/ P32_Finish
  \/ P32_WriteFailure \/ P32_RecordFailure

P32_Next ==
  \/ P32_Step \/ P32_Analyze
  \/ kind = "p32" /\ (Crash \/ Rebuild)

-----------------------------------------------------------------------------
\* Properties.

P32_Measured == SelectSeq(ran, LAMBDA r : r.round.phase = "measured")

\* An accepted matrix is the registered one: every measured round of the plan
\* ran exactly once and in order, on the client that was hashed before the
\* first round, with nothing wrong that either script looks for (CPU placement
\* is compared by neither), and linear drift of the machine cancels out, since
\* in every group the two arms' positions have the same sum.  Crashes, rounds
\* with bad output, rebuilds and an analyzer run too early must all be caught
\* by what p3-p32-multithread.py wrote and analyze() checks.
P32_AcceptedIsSound ==
  kind = "p32" /\ verdict.said = "accepted" =>
    LET positions(c, g, arm) ==
          {r.round.pos : r \in {q \in ToSet(P32_Measured) :
             q.round.cfg = c /\ q.round.group = g /\ q.round.arm = arm}}
        SumOf(S) == FoldSet(LAMBDA x, y : x + y, 0, S)
    IN /\ [k \in DOMAIN P32_Measured |->
             [cfg |-> P32_Measured[k].round.cfg,
              group |-> P32_Measured[k].round.group,
              pos |-> P32_Measured[k].round.pos,
              arm |-> P32_Measured[k].round.arm]] = formal_schedule
       /\ \A r \in ToSet(P32_Measured) :
            r.flaw \in {None, "cpus"} /\ r.build = disk.environment
       /\ \A c \in ToSet(Configurations), g \in 0 .. GROUPS - 1 :
            SumOf(positions(c, g, "ST")) = SumOf(positions(c, g, "MT"))

\* The two scripts agree: a formal run that ended by itself, on one build and
\* with nothing wrong in any round, is accepted.  The runner numbers rounds
\* through smoke, warm-up and matrix and the analyzer re-derives the numbers.
P32_CleanIsAccepted ==
  /\ kind = "p32" /\ pc = "exit0" /\ mem.mode = "formal"
  /\ build = 0 /\ \A r \in ToSet(ran) : r.flaw = None
  => P32_analyze

\* "A failed round is recorded and terminates the run.  It never retries a
\* round": whatever the runner can detect is wrong only with the last round,
\* no round runs twice, and a failure.json names the last round of a manifest
\* that never says complete.
P32_StopsAtFailure ==
  kind = "p32" =>
    /\ \A k \in 1 .. Len(ran) - 1 :
         P32_Record(ran[k].round, ran[k].flaw).status = "ok"
    /\ \A j, k \in DOMAIN ran : ran[j].round = ran[k].round => j = k
    /\ disk.failure # None =>
         /\ disk.failure = Last(disk.experiment.records)
         /\ disk.experiment.status # "complete"

=============================================================================
