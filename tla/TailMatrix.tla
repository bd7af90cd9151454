------------------------------ MODULE TailMatrix ------------------------------
(***************************************************************************)
(* The P3-1 tail experiment: gate G4 on the worst subscriber's latency.    *)
(*                                                                         *)
(*   runner    src/doc/plans/runners/p3-p31-tail.py                        *)
(*   analyzer  src/tools/hft_acceptance/compare_p31_tail.py, with          *)
(*             aggregate of summarize_tail_ab.py and load_phase, merge and *)
(*             percentile of summarize.py                                  *)
(*                                                                         *)
(* Arms S and A are one binary with and without a switch.  A round leaves  *)
(* a raw file with a histogram per subscriber; the auditor merges the two  *)
(* rounds of an arm and compares quantiles.  Latencies are a few values at *)
(* the limit of 105 %, and a histogram counts them.                        *)
(***************************************************************************)
EXTENDS Campaign

CONSTANTS
  TM_GROUPS,    \* groups after the warm-up
  TM_METRICS    \* the two quantiles, pairs of numerator and denominator

\* Quantiles are positive fractions up to one.
ASSUME TailAssumption ==
  /\ TM_GROUPS \in Nat \ {0}
  /\ \A q \in TM_METRICS : q[2] \in Nat \ {0} /\ q[1] \in 1 .. q[2]

TM_ORDER == <<"S", "A", "A", "S">>
TM_CONFIGURATIONS == SelectSeq(Configurations, LAMBDA c : c \in LatencyOnes)
TM_Subscribers == {0, 1}
TM_Latencies == {100, 105, 106}

\* How a round can go wrong: the client exits nonzero, does not end, reports
\* other settings, or does not get all its input sent; or the second
\* subscriber sees late messages.
TM_Flaws == {None, "exit", "expired", "settings", "unsent",
             "at limit", "late once", "late"}

\* What a subscriber measured in a round.
TM_Samples(flaw, subscriber) ==
  IF subscriber = 0 THEN <<100, 100>>
  ELSE CASE flaw = "at limit" -> <<105, 105>>
         [] flaw = "late once" -> <<100, 106>>
         [] flaw = "late" -> <<106, 106>>
         [] OTHER -> <<100, 100>>

\* One group: configurations, in each the arms.  Group 0 is the warm-up.
TM_Group(g) ==
  FlattenSeq([c \in DOMAIN TM_CONFIGURATIONS |->
    LET order == IF g = 0 THEN <<"S", "A">> ELSE TM_ORDER
    IN [p \in DOMAIN order |->
         [group |-> g, cfg |-> TM_CONFIGURATIONS[c], pos |-> p - 1,
          arm |-> order[p]]]])

TM_Formal == FlattenSeq([g \in 1 .. TM_GROUPS |-> TM_Group(g)])
TM_Plan == TM_Group(0) \o TM_Formal

-----------------------------------------------------------------------------
\* The runner.

\* The directory is new: an experiment is never taken up again.
TM_Mkdir ==
  /\ kind = "tail" /\ pc = "off"
  /\ pc' = "made"
  /\ UNCHANGED <<kind, next, mem, disk, ran, build, runs, verdict>>

\* The manifest, before the first round, then the capture of the environment,
\* which may fail.
TM_Manifest ==
  /\ kind = "tail" /\ pc = "made"
  /\ mem' = [client_sha256 |-> build, inputs |-> disk.inputs,
             warmup |-> <<>>, runs |-> <<>>, completed |-> FALSE]
  /\ disk' = [disk EXCEPT !.experiment = mem']
  /\ pc' \in {"next", "exit1"}
  /\ UNCHANGED <<kind, next, ran, build, runs, verdict>>

\* The raw file is there before the client runs.
TM_Launch ==
  /\ kind = "tail" /\ pc = "next" /\ next <= Len(TM_Plan)
  /\ disk' = [disk EXCEPT !.raw = @ \union {TM_Plan[next]}]
  /\ pc' = "round"
  /\ UNCHANGED <<kind, next, mem, ran, build, runs, verdict>>

\* The client ends.  A failed round is recorded, and is the last; one that
\* does not end has no record.  The digest of the client is the manifest's.
TM_Collect ==
  /\ kind = "tail" /\ pc = "round"
  /\ \E flaw \in TM_Flaws :
       LET round == TM_Plan[next]
           record == [round |-> round, raw |-> flaw,
                      client_sha256 |-> mem.client_sha256,
                      returncode |-> IF flaw = "exit" THEN 2 ELSE 0]
       IN /\ MayHave(flaw)
          /\ mem' = IF flaw = "expired" THEN mem
                    ELSE IF round.group = 0
                    THEN [mem EXCEPT !.warmup = Append(@, record)]
                    ELSE [mem EXCEPT !.runs = Append(@, record)]
          /\ ran' = Append(ran, [round |-> round, flaw |-> flaw,
                                 build |-> build, inputs |-> disk.inputs])
          /\ pc' = IF flaw \in {"exit", "expired"} THEN "exit1" ELSE "next"
  /\ disk' = [disk EXCEPT !.experiment = mem']
  /\ next' = next + 1
  /\ UNCHANGED <<kind, build, runs, verdict>>

-----------------------------------------------------------------------------
\* The auditor.

\* load_phase and check_formal_start: one start and one result with the
\* formal settings, and histograms that fit their counts.
load_phase(raw) == raw # "settings"

\* acceptance of load_phase: all input sent, every delivery whole.
valid_and_complete(raw) == raw # "unsent"

Counted(samples) ==
  [v \in TM_Latencies |-> Cardinality({k \in DOMAIN samples : samples[k] = v})]

merge(histograms) ==
  [v \in TM_Latencies |->
    SumFunction([k \in DOMAIN histograms |-> histograms[k][v]])]

\* The least latency that the nearest rank, rounded up, is not above.
percentile(histogram, q) ==
  LET rank == (SumFunction(histogram) * q[1] + q[2] - 1) \div q[2]
      upTo(v) == SumFunction([w \in {u \in TM_Latencies : u <= v} |->
                                histogram[w]])
  IN Min({v \in TM_Latencies : upTo(v) >= rank})

\* Mutant: the subscribers are pooled.
AggregatePooled(raws) ==
  [valid_and_complete |-> \A k \in DOMAIN raws : valid_and_complete(raws[k]),
   worst |-> [q \in TM_METRICS |->
     percentile(merge([k \in DOMAIN raws |->
       merge([s \in TM_Subscribers |-> Counted(TM_Samples(raws[k], s))])]), q)]]

\* Merge by subscriber; the slowest subscriber counts.
aggregate(raws) ==
  [valid_and_complete |-> \A k \in DOMAIN raws : valid_and_complete(raws[k]),
   worst |-> [q \in TM_METRICS |->
     Max({percentile(merge([k \in DOMAIN raws |->
                       Counted(TM_Samples(raws[k], s))]), q) :
           s \in TM_Subscribers})]]

assess_pair(seq, asym) ==
  /\ seq.valid_and_complete /\ asym.valid_and_complete
  /\ \A q \in TM_METRICS :
       /\ seq.worst[q] > 0
       /\ asym.worst[q] * 100 <= seq.worst[q] * 105

\* What audit reports, or that it raises: the manifest's client and inputs are
\* still there, and the records are the registered rounds, in order, without a
\* failure, with their raw files and no others.
Auditable(e) ==
  /\ e # None
  /\ e.client_sha256 = build /\ e.inputs = disk.inputs
  /\ [k \in DOMAIN e.runs |-> e.runs[k].round] = TM_Formal
  /\ \A r \in ToSet(e.runs) :
       /\ r.client_sha256 = e.client_sha256
       /\ r.returncode = 0
       /\ load_phase(r.raw)
  /\ {r \in disk.raw : r.group > 0} = {r.round : r \in ToSet(e.runs)}

TM_Pairs == (1 .. TM_GROUPS) \X ToSet(TM_CONFIGURATIONS)

Version(e, pair, arm) ==
  LET own == SelectSeq(e.runs, LAMBDA r :
        <<r.round.group, r.round.cfg>> = pair /\ r.round.arm = arm)
  IN aggregate([k \in DOMAIN own |-> own[k].raw])

audit(e) ==
  [said |-> "reported", client_sha256 |-> e.client_sha256,
   passed |-> \A pair \in TM_Pairs :
     assess_pair(Version(e, pair, "S"), Version(e, pair, "A"))]

\* Somebody audits a directory, at any time.  A refusal leaves no report, and
\* takes none away.
TM_Audit ==
  /\ kind = "tail" /\ Auditable(disk.experiment)
  /\ verdict' = audit(disk.experiment)
  /\ UNCHANGED <<kind, pc, next, mem, disk, ran, build, runs>>

\* The end of run: the frozen inputs once more, completed_at, the audit as a
\* child.
TM_Finish ==
  /\ kind = "tail" /\ pc = "next" /\ next > Len(TM_Plan)
  /\ IF mem.inputs # disk.inputs
     THEN pc' = "exit1" /\ UNCHANGED <<mem, disk, verdict>>
     ELSE /\ mem' = [mem EXCEPT !.completed = TRUE]
          /\ disk' = [disk EXCEPT !.experiment = mem']
          /\ IF Auditable(mem')
             THEN pc' = "exit0" /\ verdict' = audit(mem')
             ELSE pc' = "exit1" /\ UNCHANGED verdict
  /\ UNCHANGED <<kind, next, ran, build, runs>>

-----------------------------------------------------------------------------
\* disk.inputs is the version of the frozen sources and libraries.
TM_Init ==
  /\ kind = "tail" /\ pc = "off" /\ next = 1 /\ mem = None
  /\ disk = [experiment |-> None, raw |-> {}, inputs |-> 0]
  /\ ran = <<>> /\ build = 0 /\ runs = 1 /\ verdict = [said |-> None]

\* Somebody edits a frozen input.  The client is not one of them.
TM_Edit ==
  /\ kind = "tail" /\ disk.inputs + build < MaxBuilds
  /\ disk' = [disk EXCEPT !.inputs = @ + 1]
  /\ UNCHANGED <<kind, pc, next, mem, ran, build, runs, verdict>>

\* A round is one step: nothing changes in the middle of one.
TM_Next ==
  \/ TM_Mkdir \/ TM_Manifest \/ TM_Launch \/ TM_Collect \/ TM_Finish
  \/ TM_Audit
  \/ kind = "tail" /\ Crash
  \/ pc # "round" /\ TM_Edit
  \/ kind = "tail" /\ pc # "round" /\ disk.inputs = 0 /\ Rebuild

-----------------------------------------------------------------------------
\* Properties.

\* The nearest rank among the sorted samples of one subscriber in the rounds
\* of an arm: what a quantile is, without histograms.
TM_Quantile(pair, arm, s, q) ==
  LET own == SelectSeq(ran, LAMBDA r :
        <<r.round.group, r.round.cfg>> = pair /\ r.round.arm = arm)
      pool == SortSeq(FlattenSeq([k \in DOMAIN own |->
                TM_Samples(own[k].flaw, s)]), <)
  IN pool[(Len(pool) * q[1] + q[2] - 1) \div q[2]]

\* Non-inferiority, of the rounds that ran: no subscriber of A has a quantile
\* more than 5 % above that of the slowest subscriber of S, in any group.
TM_NonInferior ==
  \A pair \in TM_Pairs, q \in TM_METRICS, a \in TM_Subscribers :
    \E s \in TM_Subscribers :
      TM_Quantile(pair, "A", a, q) * 100 <= TM_Quantile(pair, "S", s, q) * 105

\* What compare_p31_tail.py reports stands on the registered rounds, each run
\* once, in order, with the formal settings, on the client and the inputs of
\* the manifest, although the client is not among the inputs the runner looks
\* at again; and G4 passes exactly if the samples say so and all input was
\* sent, so that a fast subscriber, a later group or a merged histogram hides
\* no slow subscriber.
TM_ReportIsSound ==
  kind = "tail" /\ verdict.said = "reported" =>
    LET formal == SelectSeq(ran, LAMBDA r : r.round.group > 0)
    IN /\ [k \in DOMAIN formal |-> formal[k].round] = TM_Formal
       /\ \A r \in ToSet(formal) :
            /\ r.flaw \notin {"exit", "expired", "settings"}
            /\ r.build = verdict.client_sha256
            /\ r.inputs = disk.experiment.inputs
       /\ verdict.passed <=>
            /\ \A r \in ToSet(formal) : r.flaw # "unsent"
            /\ TM_NonInferior

\* p3-p31-tail.py and compare_p31_tail.py agree: an experiment that reached
\* its last round without a flaw, on files nobody touched, has its report, and
\* passes since both arms were alike.
TM_CleanIsReported ==
  /\ kind = "tail" /\ pc \in {"exit0", "exit1"} /\ next > Len(TM_Plan)
  /\ build = 0 /\ disk.inputs = 0 /\ Flaws = 0
  => verdict.said = "reported" /\ verdict.passed

=============================================================================
