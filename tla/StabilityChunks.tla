---------------------------- MODULE StabilityChunks ----------------------------
(***************************************************************************)
(* The high-frequency stability experiment, run in chunks of groups that   *)
(* may be resumed in the same directory.                                   *)
(*                                                                         *)
(*   runner    src/doc/plans/runners/high-frequency-stability-runner.py    *)
(*   analyzer  src/tools/aeron_compare/analyze_high_frequency_stability.py *)
(*                                                                         *)
(* A round's throughput is one of two modes, "H" or "L".  A group's        *)
(* directory holds results.jsonl (lines) and throughputs.json (summary).   *)
(* args stands for every parameter verify_environment compares.            *)
(***************************************************************************)
EXTENDS Campaign

CONSTANTS
  HF_GROUPS,           \* args.groups
  HF_ROUNDS,           \* args.rounds
  MaxConsecutiveLow    \* --max-consecutive-low; 0 turns the admission off

\* A matrix has a group, a group has a round.
ASSUME StabilityAssumption ==
  HF_GROUPS \in Nat \ {0} /\ HF_ROUNDS \in Nat \ {0} /\ MaxConsecutiveLow \in Nat

HF_Groups == 0 .. HF_GROUPS - 1
HF_NoGroup == [dir |-> FALSE, lines |-> <<>>, summary |-> None]

\* group_throughputs and write_combined_summary: groups in order up to the
\* first directory that is missing, without those that have no results.
write_combined_summary(groups) ==
  LET before == {g \in HF_Groups : \A h \in 0 .. g : groups[h].dir}
      listed == SetToSortSeq({g \in before : groups[g].lines # <<>>},
                             LAMBDA a, b : a < b)
  IN [k \in DOMAIN listed |->
       [group |-> listed[k],
        modes |-> [j \in DOMAIN groups[listed[k]].lines |->
                     groups[listed[k]].lines[j].mode]]]

\* SHA256SUMS covers every file of the directory but itself and the analysis.
write_checksums(d) ==
  [d EXCEPT !.sums = <<d.env, d.groups, d.summary, d.failure>>]

-----------------------------------------------------------------------------
\* The runner.

\* Mutant: a chunk may start in a group that was begun.
ParseArgsMayRepeat(start) ==
  IF start = 0 THEN disk.env = None /\ \A g \in HF_Groups : ~disk.groups[g].dir
  ELSE \A g \in 0 .. start - 1 : Len(disk.groups[g].lines) = HF_ROUNDS

\* parse_args: a first chunk wants an empty directory, a later one every
\* earlier group complete and its own first group not begun.
parse_args(start) ==
  IF start = 0 THEN disk.env = None /\ \A g \in HF_Groups : ~disk.groups[g].dir
  ELSE /\ \A g \in 0 .. start - 1 : Len(disk.groups[g].lines) = HF_ROUNDS
       /\ ~disk.groups[start].dir

\* Mutant: the client's digest is left out of the comparison.
VerifyArgsOnly(args) == disk.env.args = args

\* verify_environment: parameters and client as when the experiment began.
verify_environment(args) == disk.env = [args |-> args, build |-> build]

HF_Start ==
  /\ kind = "hf" /\ pc \in Stopped /\ runs < MaxRuns
  /\ \E start \in HF_Groups, args \in {"as planned", "changed"} :
       \E end \in start + 1 .. HF_GROUPS :
         /\ parse_args(start)
         /\ start > 0 => verify_environment(args)
         /\ disk' = IF start = 0
                    THEN [disk EXCEPT !.env = [args |-> args, build |-> build]]
                    ELSE disk
         /\ mem' = [args |-> args, end |-> end, records |-> <<>>,
                    consecutive_low |-> 0, admission_highs |-> 0]
         /\ next' = start
  /\ runs' = runs + 1
  /\ pc' = "group"
  /\ UNCHANGED <<kind, ran, build, verdict>>

\* main enters the next group of the chunk.
HF_EnterGroup ==
  /\ kind = "hf" /\ pc = "group" /\ next < mem.end
  /\ disk' = [disk EXCEPT !.groups[next].dir = TRUE]
  /\ mem' = [mem EXCEPT !.records = <<>>]
  /\ pc' = "round"
  /\ UNCHANGED <<kind, next, ran, build, runs, verdict>>

\* admit_round: the counters after a round, and whether it ends the run.
admit_round(m, mode) ==
  IF mode = "L" THEN [m EXCEPT !.consecutive_low = @ + 1]
  ELSE [m EXCEPT !.consecutive_low = 0, !.admission_highs = @ + 1]

HF_AdmissionFails(m) ==
  /\ MaxConsecutiveLow > 0
  /\ m.consecutive_low >= MaxConsecutiveLow
  /\ m.admission_highs = 0

\* run_round with a result: the line is in results.jsonl before the admission
\* is decided, and in records only if it is passed.
HF_Round ==
  /\ kind = "hf" /\ pc = "round" /\ Len(mem.records) < HF_ROUNDS
  /\ \E mode \in {"H", "L"} :
       LET line == [round |-> Len(mem.records), mode |-> mode]
           m == admit_round(mem, mode)
       IN /\ disk' = [disk EXCEPT !.groups[next].lines = Append(@, line)]
          /\ ran' = Append(ran, [round |-> <<next, line.round>>, flaw |-> None,
                                 mode |-> mode, build |-> build,
                                 args |-> mem.args])
          /\ IF HF_AdmissionFails(m)
             THEN mem' = m /\ pc' = "admission"
             ELSE mem' = [m EXCEPT !.records = Append(@, mode)] /\ pc' = pc
  /\ UNCHANGED <<kind, next, build, runs, verdict>>

\* run_round without one: a time-out, an exit code, no single RESULT line.
HF_RoundFails ==
  /\ kind = "hf" /\ pc = "round" /\ Len(mem.records) < HF_ROUNDS
  /\ MayHave("failed")
  /\ ran' = Append(ran, [round |-> <<next, Len(mem.records)>>,
                         flaw |-> "failed", mode |-> None, build |-> build,
                         args |-> mem.args])
  /\ pc' = "failed"
  /\ UNCHANGED <<kind, next, mem, disk, build, runs, verdict>>

\* write_group_summary and the checkpoint that follows it.
HF_Checkpoint ==
  LET groups == [disk.groups EXCEPT ![next].summary = mem.records]
  IN disk' = [disk EXCEPT !.groups = groups,
                          !.summary = write_combined_summary(groups)]

HF_EndGroup ==
  /\ kind = "hf" /\ pc = "round" /\ Len(mem.records) = HF_ROUNDS
  /\ HF_Checkpoint
  /\ next' = next + 1
  /\ pc' = "group"
  /\ UNCHANGED <<kind, mem, ran, build, runs, verdict>>

\* The RuntimeError of a round: a checkpoint if the group has records ...
HF_AbortGroup ==
  /\ kind = "hf" /\ pc \in {"admission", "failed"}
  /\ IF mem.records = <<>> THEN UNCHANGED disk ELSE HF_Checkpoint
  /\ mem' = [mem EXCEPT !.end = pc]
  /\ pc' = "aborting"
  /\ UNCHANGED <<kind, next, ran, build, runs, verdict>>

\* ... then failure.json, the checksums, and the end of the script.
write_failure ==
  /\ kind = "hf" /\ pc = "aborting"
  /\ disk' = write_checksums([disk EXCEPT !.failure = mem.end])
  /\ pc' = "exit1"
  /\ UNCHANGED <<kind, next, mem, ran, build, runs, verdict>>

-----------------------------------------------------------------------------
\* The analyzer.

HF_Modes(summary) == FlattenSeq([k \in DOMAIN summary |-> summary[k].modes])

\* analyze_transitions: the modes as runs of equal ones.
analyze_transitions(modes) ==
  FoldSeq(LAMBDA mode, acc :
            IF acc # <<>> /\ Last(acc).mode = mode
            THEN [acc EXCEPT ![Len(acc)].length = @ + 1]
            ELSE Append(acc, [mode |-> mode, length |-> 1]),
          <<>>, modes)

Highs(modes) == Len(SelectSeq(modes, LAMBDA mode : mode = "H"))

\* INTERVALS: the groups in bands of equal pause, here bands of two.
analyze_by_interval(summary) ==
  [i \in 0 .. (HF_GROUPS - 1) \div 2 |->
    Highs(HF_Modes(SubSeq(summary, 2 * i + 1, Min({2 * i + 2, Len(summary)}))))]

\* analyze_group_starts: first rounds and later ones; a listed group has one.
analyze_group_starts(summary) ==
  [first |-> Highs([k \in DOMAIN summary |-> summary[k].modes[1]]),
   later |-> Highs(FlattenSeq([k \in DOMAIN summary |->
                                 Tail(summary[k].modes)]))]

\* analyze_round_positions: the groups that got as far as a round.
analyze_round_positions(summary) ==
  [r \in 1 .. HF_ROUNDS |->
    Cardinality({k \in DOMAIN summary : r <= Len(summary[k].modes)
                                        /\ summary[k].modes[r] = "H"})]

\* load_summary refuses groups that are not numbered from 0 without a gap;
\* summarize refuses an empty summary, and calls the matrix complete by the
\* number of its groups.
HF_Analysis(summary) ==
  [said |-> IF \/ summary = <<>>
               \/ \E k \in DOMAIN summary : summary[k].group # k - 1
            THEN "refused"
            ELSE IF Len(summary) = HF_GROUPS THEN "complete" ELSE "incomplete",
   runs |-> analyze_transitions(HF_Modes(summary)),
   highs |-> Highs(HF_Modes(summary)),
   by_interval |-> analyze_by_interval(summary),
   group_starts |-> analyze_group_starts(summary),
   round_positions |-> analyze_round_positions(summary),
   by |-> None]

\* The end of main: a checkpoint, and after the last chunk the analysis.
HF_EndChunk ==
  /\ kind = "hf" /\ pc = "group" /\ next = mem.end
  /\ LET summary == write_combined_summary(disk.groups)
     IN /\ disk' = IF mem.end = HF_GROUPS /\ Len(summary) # HF_GROUPS
                   THEN [disk EXCEPT !.summary = summary]
                   ELSE write_checksums([disk EXCEPT !.summary = summary])
        /\ IF mem.end # HF_GROUPS
           THEN pc' = "exit0" /\ UNCHANGED verdict
           ELSE IF Len(summary) # HF_GROUPS
           THEN pc' = "exit1" /\ UNCHANGED verdict
           ELSE /\ verdict' = [HF_Analysis(summary) EXCEPT !.by = "runner"]
                /\ pc' = IF verdict'.said = "refused" THEN "exit1" ELSE "exit0"
  /\ UNCHANGED <<kind, next, mem, ran, build, runs>>

\* Somebody analyzes the directory by hand.
HF_Analyze ==
  /\ kind = "hf" /\ disk.summary # None
  /\ verdict' = HF_Analysis(disk.summary)
  /\ UNCHANGED <<kind, pc, next, mem, disk, ran, build, runs>>

-----------------------------------------------------------------------------
HF_Init ==
  /\ kind = "hf" /\ pc = "off" /\ next = 0 /\ mem = None
  /\ disk = [env |-> None, groups |-> [g \in HF_Groups |-> HF_NoGroup],
             summary |-> None, failure |-> None, sums |-> None]
  /\ ran = <<>> /\ build = 0 /\ runs = 0
  /\ verdict = [said |-> None, runs |-> <<>>, by |-> None]

HF_Next ==
  \/ HF_Start \/ HF_EnterGroup \/ HF_Round \/ HF_RoundFails \/ HF_EndGroup
  \/ HF_AbortGroup \/ write_failure \/ HF_EndChunk \/ HF_Analyze
  \/ kind = "hf" /\ Crash
  \/ kind = "hf" /\ pc \in Stopped /\ Rebuild

-----------------------------------------------------------------------------
\* Properties.

\* What the runner reports at the end of its last chunk is the whole matrix:
\* every group has each of its rounds once and in order, all of them ran with
\* the parameters and the client of environment.json, and the modes reported
\* are the modes measured, although chunks, crashes, aborts and rebuilds
\* between chunks came before.
HF_FinishedIsWhole ==
  kind = "hf" /\ verdict.by = "runner" =>
    LET good == SelectSeq(ran, LAMBDA r : r.mode # None)
    IN /\ verdict.said = "complete"
       /\ [k \in DOMAIN good |-> good[k].round] =
            [k \in 1 .. HF_GROUPS * HF_ROUNDS |->
               <<(k - 1) \div HF_ROUNDS, (k - 1) % HF_ROUNDS>>]
       /\ HF_Modes(disk.summary) = [k \in DOMAIN good |-> good[k].mode]
       /\ \A r \in ToSet(good) :
            disk.env = [args |-> r.args, build |-> r.build]

\* The run lengths are those of the measured sequence: neighbours differ, the
\* lengths add up to the rounds, and there are as many transitions as there
\* are pairs of consecutive rounds in different modes.
HF_TransitionsExact ==
  kind = "hf" /\ verdict.by = "runner" =>
    LET modes == HF_Modes(disk.summary)
        lengths == [k \in DOMAIN verdict.runs |-> verdict.runs[k].length]
    IN /\ SumFunction(lengths) = Len(modes)
       /\ Len(verdict.runs) - 1 =
            Cardinality({k \in 1 .. Len(modes) - 1 : modes[k] # modes[k + 1]})
       /\ \A k \in 1 .. Len(verdict.runs) - 1 :
            verdict.runs[k].mode # verdict.runs[k + 1].mode

\* The views of one report count the same rounds: the high rounds by band of
\* groups, by place in the group and by first or later add up to the total,
\* whether the matrix is whole or was cut off within a group.
HF_ViewsAgree ==
  kind = "hf" /\ verdict.said \in {"complete", "incomplete"} =>
    /\ SumFunction(verdict.by_interval) = verdict.highs
    /\ SumFunction(verdict.round_positions) = verdict.highs
    /\ verdict.group_starts.first + verdict.group_starts.later = verdict.highs
    /\ SumFunction([k \in DOMAIN verdict.runs |->
         IF verdict.runs[k].mode = "H" THEN verdict.runs[k].length ELSE 0]) =
         verdict.highs

\* Evidence is only ever added: no step of a resumed chunk, of an abort or of
\* a crash takes a line out of a results.jsonl or changes one, and no group
\* has a line for one round twice.
HF_EvidenceKept ==
  [][kind = "hf" =>
       \A g \in HF_Groups :
         /\ IsPrefix(disk.groups[g].lines, disk'.groups[g].lines)
         /\ \A k \in DOMAIN disk'.groups[g].lines :
              disk'.groups[g].lines[k].round = k - 1]_vars

\* A chunk that ended by itself, well or not, leaves checksums that fit: no
\* file of the directory was written after SHA256SUMS, so whoever verifies it
\* later (load_throughput_arm does) finds what the chunk left.
HF_ChecksumsFit ==
  kind = "hf" /\ pc \in {"exit0", "exit1"} =>
    disk.sums = <<disk.env, disk.groups, disk.summary, disk.failure>>

\* What analyze_high_frequency_stability.py reports at the end of the last
\* chunk is the whole matrix as measured, after whatever crashes, aborts and
\* rebuilds there were between chunks, and its four views describe one
\* sequence of rounds, also when that was cut off within a group.
HF_ReportIsSound == HF_FinishedIsWhole /\ HF_TransitionsExact /\ HF_ViewsAgree

=============================================================================
