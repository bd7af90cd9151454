------------------------------ MODULE MCCampaign ------------------------------
\* Every campaign on a small matrix: one throughput and one latency
\* configuration.  A behaviour starts with the choice of the campaign.
EXTENDS ThreadMatrix, ClaimMatrix, StabilityChunks, ClaimApiAB,
        LatencyMatrix, TopologySuite, BlockMatrix, TailMatrix, GroupStatistics

MC_Configurations == <<"throughput-64b", "latency-64b">>
MC_FourCells == <<"latency-64b", "latency-256b", "throughput-64b",
                  "throughput-256b">>
MC_Engines == <<"fifo", "aeron">>
MC_Quantiles == {<<1, 2>>, <<3, 4>>}

allVars == <<vars, os>>

Init ==
  \/ /\ \/ P32_Init \/ E2_Init \/ HF_Init \/ V4_Init
        \/ BM_Init \/ TM_Init \/ ST_Init
     /\ os = SUP_Nothing
  \/ LC_Init \/ TS_Init \/ TS_LayoutInit

\* What a script that supervises its cases does of itself.
SupervisorStep == SUP_RunCase \/ LC_Step \/ TS_Step

Next ==
  \/ /\ \/ P32_Next \/ E2_Next \/ HF_Next \/ V4_Next
        \/ BM_Next \/ TM_Next \/ ST_Compare
     /\ UNCHANGED os
  \/ SupervisorStep \/ SUP_Around \/ LC_Analyze \/ TS_Gate \/ TS_Layout

\* A supervising script goes on as long as it can: each of its waits has a
\* deadline, and the poll loops look at the clock.
Spec == Init /\ [][Next]_allVars /\ WF_allVars(SupervisorStep)

-----------------------------------------------------------------------------
\* Runner and analyzer agree, in P3-2, claim v4, E1 and P3-1: a formal run
\* with the registered parameters that ended by itself, without a flaw and on
\* one build, is accepted rather than refused after hours of measuring.
CleanIsAccepted ==
  /\ P32_CleanIsAccepted /\ V4_CleanIsReported
  /\ BM_CleanIsReported /\ TM_CleanIsReported

\* What analyze_e2_claim.py, analyze_claim_v4_ab.py and compare_p31_tail.py
\* report, and what verify_fixed_ring_gates.py lets pass, stands on the rounds
\* that were measured.
ReportsAreSound ==
  /\ E2_ReportIsSound /\ V4_ReportIsSound
  /\ TM_ReportIsSound /\ TS_PassedIsMeasured

\* What the scripts compute is right where it is easily off by one: roles fall on
\* the CPUs cpu_layout lays out, a case is held against the number of samples it
\* takes, and the comparisons decide alike on the same numbers, in both
\* directions, at their exact limits and with ties.
ComputedIsSound == TS_RolesArePinned /\ TS_CountsExact /\ ST_DecisionIsSound

\* What a runner's files say at rest is so: the checksums of a stability chunk
\* fit the files it left, and results.jsonl holds the cases that ended well, in
\* order.
LedgersAreTrue == HF_ChecksumsFit /\ SUP_LedgerExact

=============================================================================
