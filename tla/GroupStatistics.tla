--------------------------- MODULE GroupStatistics ---------------------------
(***************************************************************************)
(* What the scripts compute from the group medians of two arms: the exact  *)
(* permutation test, the paired directions and the registered decisions.   *)
(*                                                                         *)
(*   E1        src/tools/aeron_compare/compare_throughput_ab.py            *)
(*   P3-1      src/tools/aeron_compare/compare_p31_throughput.py           *)
(*   claim v4  src/tools/aeron_compare/analyze_claim_v4_ab.py              *)
(*                                                                         *)
(* The same rule is written down three times.  Rates are small integers, a *)
(* group is its median, ratios and p-values are compared as fractions; the *)
(* p-value limits are constants, since fewer groups have fewer partitions. *)
(* A behaviour takes two arms and compares them.                           *)
(***************************************************************************)
EXTENDS Campaign

CONSTANTS
  ST_GROUPS,      \* GROUPS of these matrices
  Rates,          \* possible medians of a group
  GO_P_VALUE,     \* limits of the p-value, in partitions out of all
  NO_GO_P_VALUE,
  GO_DIRECTIONS   \* groups that must agree

\* Rates are positive, and the limits leave something between GO and NO-GO.
ASSUME StatisticsAssumption ==
  /\ ST_GROUPS \in Nat \ {0} /\ Rates \subseteq Nat \ {0}
  /\ GO_P_VALUE \in Nat /\ NO_GO_P_VALUE \in Nat
  /\ GO_P_VALUE <= NO_GO_P_VALUE
  /\ GO_DIRECTIONS \in 1 .. ST_GROUPS

\* A ratio of medians against a limit in hundredths.
AtLeast(numerator, denominator, hundredths) ==
  100 * numerator >= hundredths * denominator

\* statistics.median, doubled so that it is an integer.
DoubledMedian(rates) ==
  LET sorted == SortSeq(rates, <)
      n == Len(rates)
  IN sorted[(n + 1) \div 2] + sorted[n \div 2 + 1]

\* The difference of the means, times the number of groups, when the groups
\* of candidates are the ones in a set of indices.
Difference(values, candidates) ==
  LET total(s) == SumFunction([i \in s |-> values[i]])
  IN total(candidates) - total(DOMAIN values \ candidates)

Abs(n) == IF n < 0 THEN -n ELSE n

\* Mutant: the test is one-sided.
OneSidedTest(baseline, candidate) ==
  LET values == baseline \o candidate
      partitions == kSubset(ST_GROUPS, DOMAIN values)
      observed == Difference(values, ST_GROUPS + 1 .. 2 * ST_GROUPS)
  IN [partitions |-> Cardinality(partitions),
      extreme |-> Cardinality({s \in partitions :
                    Difference(values, s) >= observed})]

\* permutation_test: of all ways to call half of the groups candidates, those
\* with a difference at least as large as the observed one, either way.
permutation_test(baseline, candidate) ==
  LET values == baseline \o candidate
      partitions == kSubset(ST_GROUPS, DOMAIN values)
      observed == Difference(values, ST_GROUPS + 1 .. 2 * ST_GROUPS)
  IN [partitions |-> Cardinality(partitions),
      extreme |-> Cardinality({s \in partitions :
                    Abs(Difference(values, s)) >= Abs(observed)})]

\* direction_count: groups in which the candidate is ahead.
direction_count(candidate, baseline) ==
  Cardinality({g \in DOMAIN baseline : candidate[g] > baseline[g]})

\* The part of compare, compare_throughput and gate_g1 that they share.
Comparison(baseline, candidate) ==
  [candidate |-> DoubledMedian(candidate), baseline |-> DoubledMedian(baseline),
   p |-> permutation_test(baseline, candidate).extreme,
   directions |-> direction_count(candidate, baseline)]

\* decide, E1: the first rule that applies.
decide(c) ==
  IF /\ AtLeast(c.candidate, c.baseline, 125)
     /\ c.p < GO_P_VALUE
     /\ c.directions >= GO_DIRECTIONS
  THEN "GO"
  ELSE IF ~AtLeast(c.candidate, c.baseline, 110) \/ c.p >= NO_GO_P_VALUE
  THEN "NO-GO" ELSE "INCONCLUSIVE"

\* compare, E1: the gate is about 64 bytes.
E1_compare(payload, baseline, candidate) ==
  IF payload = 64 THEN decide(Comparison(baseline, candidate))
  ELSE "DESCRIPTIVE"

\* throughput_decision, claim v4.
throughput_decision(payload, c) ==
  IF payload # 64 THEN "DESCRIPTIVE"
  ELSE IF /\ AtLeast(c.candidate, c.baseline, 125)
          /\ c.p < GO_P_VALUE /\ c.directions >= GO_DIRECTIONS
  THEN "GO"
  ELSE IF ~AtLeast(c.candidate, c.baseline, 110) \/ c.p >= NO_GO_P_VALUE
  THEN "NO-GO" ELSE "INCONCLUSIVE"

\* gate_g1, P3-1: the fence alone, on one binary.
gate_g1(payload, seq, asym) ==
  LET c == Comparison(seq, asym)
  IN IF payload # 64 THEN "DESCRIPTIVE"
     ELSE IF /\ AtLeast(c.candidate, c.baseline, 125)
             /\ c.p < GO_P_VALUE /\ c.directions >= GO_DIRECTIONS
     THEN "PASS" ELSE "FAIL"

\* g2_product_ratio, P3-1: against the frozen release.
gate_g2(baseline, asym) ==
  AtLeast(DoubledMedian(asym), DoubledMedian(baseline), 120)

high_mode_count(rates, threshold) ==
  Len(SelectSeq(rates, LAMBDA rate : rate >= threshold))

\* gate_g3, P3-1: at 192 bytes the fence costs no more than 3 % of the median
\* and a tenth of the rounds in high mode.
gate_g3(seq, asym, threshold) ==
  /\ AtLeast(DoubledMedian(asym), DoubledMedian(seq), 97)
  /\ 10 * (high_mode_count(seq, threshold) - high_mode_count(asym, threshold))
       <= Len(seq)

-----------------------------------------------------------------------------
Arms == [1 .. ST_GROUPS -> Rates]

ST_Init ==
  /\ kind = "statistics" /\ pc = "off" /\ next = 1
  /\ \E baseline, candidate \in Arms :
       mem = [baseline |-> baseline, candidate |-> candidate]
  /\ disk = None /\ ran = <<>> /\ build = 0 /\ runs = 0
  /\ verdict = [said |-> None]

\* The three scripts on the same two arms.
ST_Compare ==
  /\ kind = "statistics" /\ pc = "off"
  /\ verdict' =
       LET b == mem.baseline
           c == mem.candidate
       IN [said |-> "compared",
           test |-> permutation_test(b, c),
           e1 |-> E1_compare(64, b, c),
           v4 |-> throughput_decision(64, Comparison(b, c)),
           g1 |-> gate_g1(64, b, c), g2 |-> gate_g2(b, c),
           g3 |-> [t \in Rates |-> gate_g3(b, c, t)]]
  /\ pc' = "exit0"
  /\ UNCHANGED <<kind, next, mem, disk, ran, build, runs>>

-----------------------------------------------------------------------------
\* Properties.

Compared == kind = "statistics" /\ verdict.said = "compared"

\* permutation_test is two-sided and exact: all partitions are looked at, the
\* observed one and its mirror image count, and it does not matter which arm
\* is called the candidate nor in which order the groups are listed.
ST_TestIsTwoSided ==
  Compared =>
    /\ verdict.test.extreme >= 2 /\ verdict.test.extreme % 2 = 0
    /\ verdict.test.extreme <= verdict.test.partitions
    /\ verdict.test = permutation_test(mem.candidate, mem.baseline)
    /\ verdict.test = permutation_test(Reverse(mem.baseline), mem.candidate)

\* The three scripts decide alike: E1 says GO where claim v4 does and where
\* gate G1 of P3-1 passes, and the weaker gate G2 passes then on the same
\* numbers.
ST_OneRule ==
  Compared =>
    /\ verdict.e1 = verdict.v4
    /\ verdict.e1 = "GO" <=> verdict.g1 = "PASS"
    /\ verdict.e1 = "GO" => verdict.g2

\* A better candidate is never decided against: GO stays GO when any group of
\* the candidate gets faster, and with the arms exchanged GO becomes NO-GO.
ST_GoIsMonotone ==
  Compared /\ verdict.e1 = "GO" =>
    /\ E1_compare(64, mem.candidate, mem.baseline) = "NO-GO"
    /\ \A g \in 1 .. ST_GROUPS :
         E1_compare(64, mem.baseline, [mem.candidate EXCEPT ![g] = @ + 1]) = "GO"

\* An arm that is nowhere slower than the other is non-inferior: G3 passes for
\* every threshold of the high mode.
ST_NotSlowerPasses ==
  Compared /\ (\A g \in 1 .. ST_GROUPS : mem.candidate[g] >= mem.baseline[g]) =>
    \A t \in Rates : verdict.g3[t]

\* The decision rule is sound wherever it is written down: the test of E1 and
\* claim v4 is exact and two-sided, E1, claim v4 and gate G1 of P3-1 decide
\* alike, a faster candidate is never decided against, and an arm that is
\* nowhere slower passes G3.
ST_DecisionIsSound ==
  ST_TestIsTwoSided /\ ST_OneRule /\ ST_GoIsMonotone /\ ST_NotSlowerPasses

=============================================================================
