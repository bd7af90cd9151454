---------------------------- MODULE CampaignProofs ----------------------------
(***************************************************************************)
(* Proofs about the campaigns, for every plan, every number of groups and  *)
(* rounds, and every budget of flaws, signals and starts.                  *)
(*                                                                         *)
(* A behaviour is of one campaign (Campaigns, KindKept), so an invariant   *)
(* of one script is about the steps of that script only.                   *)
(***************************************************************************)
EXTENDS MCCampaign, FiniteSetTheorems, WellFoundedInduction, TLAPS

-----------------------------------------------------------------------------
(* run_case *)

\* Where SIGTERM finds a process that no name is bound to, or cuts the finally
\* clause short; and SIGKILL.
Unguarded == SUP_Finally \cup {"driver born", "worker born", "kill"}

\* Not a process any more.
Over(who) == os[who] \in {"none", "gone"}

\* What a case can have in memory and in the system.
CaseTypes ==
  /\ DOMAIN os = {"worker", "driver", "dir", "segments", "hits", "signals"}
  /\ {os.worker, os.driver} \subseteq {"none", "up", "hung", "gone"}
  /\ pc \in Stopped \cup SUP_Try \cup SUP_Finally \cup {"next", "sums", "cooldown"}
  /\ pc \notin Stopped =>
       DOMAIN mem = {"plan", "rows", "worker", "driver", "error"}

\* What the finally clause has done by the time it is at a statement, and that
\* a process which runs is one stop() is called with: the name is bound to it,
\* unless it has just been started.
CaseHandled ==
  /\ pc \notin Stopped \cup {"worker born"} => Over("worker") \/ mem.worker
  /\ pc \notin Stopped \cup {"driver born"} => Over("driver") \/ mem.driver
  /\ pc \in Stopped \cup {"next", "sums", "term driver", "wait driver", "rmtree",
                          "unlink", "cooldown"} => Over("worker")
  /\ pc \in Stopped \cup {"next", "sums", "rmtree", "unlink", "cooldown"} =>
       Over("driver")
  /\ pc \in Stopped \cup {"next", "sums", "unlink", "cooldown"} => ~os.dir
  /\ pc \in Stopped \cup {"next", "sums", "cooldown"} => ~os.segments

\* What is inductive of run_case.
CaseInv ==
  kind \in SUP_Kinds =>
    CaseTypes /\ (os.hits \cap Unguarded = {} => CaseHandled)

-----------------------------------------------------------------------------
(* The chunks of the stability experiment *)

\* What the files and the memory of a chunk hold.
Modes == {"H", "L"}
Args == {"as planned", "changed"}
Lines == Seq([round : Nat, mode : Modes])
Summaries == {None} \cup Seq(Modes)
Group == [dir : BOOLEAN, lines : Lines, summary : Summaries]

\* Of an aborting chunk, end says why.
Ends == 0 .. HF_GROUPS \cup {"admission", "failed"}
Memory ==
  [args : Args, end : Ends, records : Seq(Modes),
   consecutive_low : Nat, admission_highs : Nat]

\* run_group has created the directory of the group.
Begun(g) == disk.groups[g].dir

\* Types of the group directories and of a chunk's memory.
ChunkTypes ==
  /\ DOMAIN disk = {"env", "groups", "summary", "failure", "sums"}
  /\ disk.groups \in [HF_Groups -> Group]
  /\ pc \notin Stopped => mem \in Memory

\* Lines are numbered from 0, and only a group that was begun has any.
LinesNumbered ==
  \A g \in HF_Groups :
    /\ \A k \in DOMAIN disk.groups[g].lines : disk.groups[g].lines[k].round = k - 1
    /\ ~Begun(g) => disk.groups[g].lines = <<>>

\* Chunks begin groups in order, so that a chunk which starts in a group that
\* was not begun finds none of the later ones begun either; and what a chunk
\* has in memory of its group is as long as the group's results.jsonl.
ChunkPlaces ==
  /\ \A g, h \in HF_Groups : h <= g /\ Begun(g) => Begun(h)
  /\ pc = "group" =>
       /\ next \in 0 .. HF_GROUPS /\ mem.end \in next .. HF_GROUPS
       /\ \A g \in HF_Groups : Begun(g) <=> g < next
  /\ pc = "round" =>
       /\ next \in HF_Groups /\ mem.end \in next + 1 .. HF_GROUPS
       /\ \A g \in HF_Groups : Begun(g) <=> g <= next
       /\ Len(disk.groups[next].lines) = Len(mem.records)
  /\ pc \in {"admission", "failed"} => next \in HF_Groups

\* What is inductive of the chunks.
ChunkInv == kind = "hf" => ChunkTypes /\ LinesNumbered /\ ChunkPlaces

-----------------------------------------------------------------------------
(* Whose step it is *)

\* The script of a campaign that supervises no cases moves in a behaviour of
\* that campaign, and touches no child.
LEMMA Others ==
  ASSUME \/ P32_Next \/ E2_Next \/ HF_Next \/ V4_Next
         \/ BM_Next \/ TM_Next \/ ST_Compare
  PROVE  /\ kind' = kind /\ kind \notin SUP_Kinds
         /\ HF_Next \/ kind # "hf"
         /\ P32_Next \/ kind # "p32"
         /\ BM_Next \/ kind \notin BM_Kinds
<1> USE DEF BM_Kinds
<1>1. CASE P32_Next
  BY <1>1 DEF P32_Next, P32_Step, P32_Start, P32_Launch, P32_Collect,
     P32_WriteFailure, P32_RecordFailure, P32_Finish, P32_Analyze, Crash,
     Rebuild, SUP_Kinds
<1>2. CASE E2_Next
  BY <1>2 DEF E2_Next, E2_Start, E2_Launch, E2_Collect, E2_Save, E2_Analyze,
     Crash, SUP_Kinds
<1>3. CASE HF_Next
  BY <1>3 DEF HF_Next, HF_Start, HF_EnterGroup, HF_Round, HF_RoundFails,
     HF_EndGroup, HF_AbortGroup, write_failure, HF_EndChunk, HF_Analyze,
     Crash, Rebuild, SUP_Kinds
<1>4. CASE V4_Next
  BY <1>4 DEF V4_Next, V4_Start, V4_Block, V4_Finish, V4_Analyze,
     V4_SmokeEnds, Crash, Rebuild, SUP_Kinds
<1>5. CASE BM_Next
  BY <1>5 DEF BM_Next, BM_Start, BM_Launch, BM_ChunkEnds, BM_Collect,
     BM_Finish, BM_Analyze, Crash, Rebuild, SUP_Kinds
<1>6. CASE TM_Next
  BY <1>6 DEF TM_Next, TM_Mkdir, TM_Manifest, TM_Launch, TM_Collect, TM_Finish,
     TM_Audit, TM_Edit, Crash, Rebuild, SUP_Kinds
<1>7. CASE ST_Compare
  BY <1>7 DEF ST_Compare, SUP_Kinds
<1> QED BY <1>1, <1>2, <1>3, <1>4, <1>5, <1>6, <1>7

\* Each statement of run_case keeps what the statements before it have undone
\* undone, and each of the script around it starts from nothing.
LEMMA CaseStep ==
  ASSUME kind \in SUP_Kinds, CaseTypes,
         os.hits \cap Unguarded = {} => CaseHandled,
         Next, kind' = kind
  PROVE  CaseTypes' /\ (os.hits' \cap Unguarded = {} => CaseHandled')
<1> USE DEF CaseTypes, CaseHandled, Over, Unguarded, SUP_Finally, SUP_Try,
            SUP_Kinds, Stopped, At
<1>1. CASE SUP_Refuse
  BY <1>1 DEF SUP_Refuse, Go
<1>2. CASE SUP_Begin
  BY <1>2 DEF SUP_Begin, Go
<1>3. CASE SUP_SpawnDriver
  BY <1>3 DEF SUP_SpawnDriver, Go
<1>4. CASE SUP_BindDriver
  BY <1>4 DEF SUP_BindDriver, Go
<1>5. CASE SUP_DriverUp
  BY <1>5 DEF SUP_DriverUp, Go
<1>6. CASE SUP_DriverBreaks
  BY <1>6 DEF SUP_DriverBreaks, Mark
<1>7. CASE SUP_DriverFails
  BY <1>7 DEF SUP_DriverFails, SUP_CncFails, Fail, Mark, Go
<1>8. CASE SUP_SpawnWorker
  BY <1>8 DEF SUP_SpawnWorker, Go
<1>9. CASE SUP_BindWorker
  BY <1>9 DEF SUP_BindWorker, Go
<1>10. CASE SUP_WorkerEnds
  <2>1. PICK flaw \in {None, "exit", "no_result", "counts", "mode", "oom"},
             leaves \in BOOLEAN :
          /\ os' = [os EXCEPT !.worker = "gone", !.segments = @ /\ leaves]
          /\ IF flaw = "exit" THEN Fail("exit")
             ELSE /\ Go(IF kind = "topology" THEN "early term" ELSE "check")
                  /\ UNCHANGED mem
    BY <1>10 DEF SUP_WorkerEnds
  <2>2. pc' \in {"term worker", "early term", "check"} /\ pc = "poll"
    BY <1>10, <2>1 DEF SUP_WorkerEnds, Fail, Go
  <2>3. DOMAIN mem' = DOMAIN mem /\ mem'.driver = mem.driver
    BY <1>10, <2>1 DEF SUP_WorkerEnds, Fail
  <2>4. /\ DOMAIN os' = DOMAIN os /\ os'.worker = "gone"
        /\ os'.driver = os.driver /\ os'.hits = os.hits
    BY <2>1
  <2> QED BY <2>2, <2>3, <2>4
<1>11. CASE SUP_WorkerHangs
  BY <1>11 DEF SUP_WorkerHangs, Mark
<1>12. CASE SUP_PollFails
  BY <1>12 DEF SUP_PollFails, Fail, Mark, Go
<1>13. CASE SUP_StopDriverEarly
  BY <1>13 DEF SUP_StopDriverEarly, Term, Wait, Stopped_by, Go
<1>14. CASE SUP_Check
  BY <1>14 DEF SUP_Check, Fail, Go
<1>15. CASE SUP_Append
  BY <1>15 DEF SUP_Append, Go
<1>16. CASE SUP_StopAll
  BY <1>16 DEF SUP_StopAll, Term, Wait, Stopped_by, Go
<1>17. CASE SUP_Remove
  BY <1>17 DEF SUP_Remove, Go
<1>18. CASE SUP_End
  BY <1>18 DEF SUP_End
<1>19. CASE SUP_Signal
  <2>1. /\ DOMAIN os' = DOMAIN os /\ os'.hits = os.hits \cup {pc}
        /\ os'.worker = os.worker /\ os'.driver = os.driver
        /\ os'.dir = os.dir /\ os'.segments = os.segments
    BY <1>19 DEF SUP_Signal
  <2>2. CASE pc \in SUP_Try
    <3>1. pc' = "term worker" /\ mem' = [mem EXCEPT !.error = "signal"]
      BY <1>19, <2>2 DEF SUP_Signal, Fail, Go
    <3>2. /\ DOMAIN mem' = DOMAIN mem /\ mem'.worker = mem.worker
          /\ mem'.driver = mem.driver
      BY <1>19, <3>1 DEF SUP_Signal
    <3> QED BY <2>1, <2>2, <3>1, <3>2
  <2>3. CASE pc \notin SUP_Try
    <3>1. pc' = "killed" /\ pc \notin Stopped
      BY <1>19, <2>3 DEF SUP_Signal, Go
    <3> QED BY <2>1, <2>3, <3>1
  <2> QED BY <2>2, <2>3
<1>20. CASE SUP_Rebuild
  BY <1>20 DEF SUP_Rebuild, Rebuild
<1>21. CASE SUP_Crash
  BY <1>21 DEF SUP_Crash, Crash
<1>22. CASE LC_Start
  BY <1>22 DEF LC_Start, SUP_Nothing
<1>23. CASE LC_Finish
  BY <1>23 DEF LC_Finish, Go
<1>24. CASE check_resource_limits
  BY <1>24 DEF check_resource_limits
<1>25. CASE LC_Analyze
  BY <1>25 DEF LC_Analyze
<1>26. CASE TS_Start
  BY <1>26 DEF TS_Start
<1>27. CASE TS_Summary
  BY <1>27 DEF TS_Summary, Go
<1>28. CASE TS_Finish
  BY <1>28 DEF TS_Finish, Go
<1>29. CASE TS_Gate
  BY <1>29 DEF TS_Gate
<1> QED
  BY Others, <1>1, <1>2, <1>3, <1>4, <1>5, <1>6, <1>7, <1>8, <1>9, <1>10, <1>11, <1>12, <1>13, <1>14, <1>15, <1>16, <1>17, <1>18, <1>19, <1>20, <1>21, <1>22, <1>23, <1>24, <1>25, <1>26, <1>27, <1>28, <1>29
     DEF Next, SupervisorStep, SUP_RunCase, SUP_Around, LC_Step, TS_Step, TS_Layout

-----------------------------------------------------------------------------
(* Chunks add lines *)

\* A sequence is a prefix of itself and of itself with one more element.
LEMMA PrefixOfLonger ==
  ASSUME NEW S, NEW s \in Seq(S), NEW e \in S
  PROVE  IsPrefix(s, s) /\ IsPrefix(s, Append(s, e))
<1>1. PICK t : t = Append(s, e)
  OBVIOUS
<1>2. Len(s) \in Nat /\ t \in Seq(S) /\ Len(t) = Len(s) + 1
  BY <1>1
<1>3. \A k \in 1 .. Len(s) : t[k] = s[k]
  BY <1>1
<1>4. SubSeq(s, 1, Len(s)) = SubSeq(t, 1, Len(s))
  BY <1>2, <1>3
<1>5. IsPrefix(s, s) /\ IsPrefix(s, t)
  BY <1>2, <1>4 DEF IsPrefix
<1> QED BY <1>1, <1>5

\* A chunk of groups that starts where parse_args lets it begins none twice:
\* the earlier groups were begun, this one and the later ones were not.
LEMMA StartKeeps ==
  ASSUME ChunkTypes, LinesNumbered, ChunkPlaces, HF_Start
  PROVE  /\ ChunkTypes' /\ LinesNumbered' /\ ChunkPlaces'
         /\ disk'.groups = disk.groups
<1> USE StabilityAssumption DEF HF_Groups
<1>1. PICK start \in HF_Groups, args \in Args :
        \E end \in start + 1 .. HF_GROUPS :
          /\ parse_args(start)
          /\ disk' = IF start = 0
                     THEN [disk EXCEPT !.env = [args |-> args, build |-> build]]
                     ELSE disk
          /\ mem' = [args |-> args, end |-> end, records |-> <<>>,
                     consecutive_low |-> 0, admission_highs |-> 0]
          /\ next' = start
  BY DEF HF_Start, Args
<1>2. PICK end \in start + 1 .. HF_GROUPS :
        mem' = [args |-> args, end |-> end, records |-> <<>>,
                consecutive_low |-> 0, admission_highs |-> 0]
  BY <1>1
<1>0. /\ start \in Nat /\ end \in Nat /\ end >= start + 1 /\ end <= HF_GROUPS
      /\ HF_GROUPS \in Nat /\ HF_ROUNDS \in Nat /\ HF_ROUNDS # 0
      /\ \A g \in HF_Groups : g \in Nat /\ g < HF_GROUPS
  OBVIOUS
<1>3. pc' = "group"
  BY DEF HF_Start
<1>4. DOMAIN disk' = DOMAIN disk /\ disk'.groups = disk.groups
  BY <1>1 DEF ChunkTypes
<1>5. ChunkTypes'
  <2>1. end \in Ends
    BY <1>0 DEF Ends
  <2>2. <<>> \in Seq(Modes)
    OBVIOUS
  <2>3. mem' \in Memory
    BY <1>2, <2>1, <2>2 DEF Memory
  <2> QED BY <1>4, <2>3 DEF ChunkTypes
<1>6. LinesNumbered'
  BY <1>4 DEF LinesNumbered, Begun
<1>7. \A g \in HF_Groups : Begun(g) <=> g < start
  <2>1. CASE start = 0
    <3>1. \A g \in HF_Groups : ~Begun(g) /\ g >= 0
      <4>1. parse_args(0)
        BY <1>1, <2>1
      <4> QED BY <1>0, <4>1 DEF parse_args, Begun
    <3> QED BY <1>0, <2>1, <3>1
  <2>2. CASE start # 0
    <3>1. /\ \A g \in 0 .. start - 1 : Len(disk.groups[g].lines) = HF_ROUNDS
          /\ ~Begun(start)
      BY <1>1, <2>2 DEF parse_args, Begun
    <3>2. ASSUME NEW g \in HF_Groups, g < start PROVE Begun(g)
      <4>1. Len(disk.groups[g].lines) = HF_ROUNDS /\ HF_ROUNDS # 0
        BY <1>0, <3>1, <3>2
      <4>2. disk.groups[g].lines # <<>>
        <5>1. Len(<<>>) = 0
          OBVIOUS
        <5> QED BY <4>1, <5>1
      <4> QED BY <4>2 DEF LinesNumbered
    <3>3. ASSUME NEW g \in HF_Groups, start <= g PROVE ~Begun(g)
      BY <3>1, <3>3 DEF ChunkPlaces
    <3> QED BY <1>0, <3>2, <3>3
  <2> QED BY <2>1, <2>2
<1>8. ChunkPlaces'
  <2>1. \A g, h \in HF_Groups : h <= g /\ Begun(g)' => Begun(h)'
    BY <1>4 DEF ChunkPlaces, Begun
  <2>2. next' = start /\ mem'.end = end
    BY <1>1, <1>2
  <2>3. \A g \in HF_Groups : Begun(g)' <=> g < next'
    BY <1>4, <1>7, <2>2 DEF Begun
  <2>4. next' \in 0 .. HF_GROUPS /\ mem'.end \in next' .. HF_GROUPS
    BY <1>0, <2>2
  <2> QED BY <1>3, <2>1, <2>3, <2>4 DEF ChunkPlaces
<1> QED BY <1>4, <1>5, <1>6, <1>8

\* Entering a group makes its directory, next after those that are there.
LEMMA EnterKeeps ==
  ASSUME ChunkTypes, LinesNumbered, ChunkPlaces, HF_EnterGroup
  PROVE  /\ ChunkTypes' /\ LinesNumbered' /\ ChunkPlaces'
         /\ \A g \in HF_Groups : disk'.groups[g].lines = disk.groups[g].lines
<1>1. /\ pc = "group" /\ pc' = "round" /\ next < mem.end /\ next' = next
      /\ disk' = [disk EXCEPT !.groups[next].dir = TRUE]
      /\ mem' = [mem EXCEPT !.records = <<>>]
  BY DEF HF_EnterGroup
<1>2. /\ HF_GROUPS \in Nat /\ next \in Nat /\ mem.end \in Nat
      /\ mem.end <= HF_GROUPS /\ next \in HF_Groups
      /\ \A g \in HF_Groups : Begun(g) <=> g < next
  BY <1>1, StabilityAssumption DEF ChunkPlaces, HF_Groups
<1>3. mem \in Memory
  BY <1>1 DEF ChunkTypes, Stopped
<1>4. /\ mem' \in Memory
      /\ mem'.records = <<>> /\ mem'.end = mem.end
  <2>1. <<>> \in Seq(Modes)
    OBVIOUS
  <2> QED BY <1>1, <1>3, <2>1 DEF Memory
<1>5. /\ DOMAIN disk' = DOMAIN disk
      /\ disk'.groups = [disk.groups EXCEPT ![next].dir = TRUE]
  BY <1>1 DEF ChunkTypes
<1>6. /\ disk.groups \in [HF_Groups -> Group]
      /\ DOMAIN disk = {"env", "groups", "summary", "failure", "sums"}
  BY DEF ChunkTypes
<1>7. /\ disk'.groups \in [HF_Groups -> Group]
      /\ \A g \in HF_Groups : disk'.groups[g].lines = disk.groups[g].lines
      /\ \A g \in HF_Groups : Begun(g)' <=> Begun(g) \/ g = next
  <2>1. PICK group : group = [disk.groups[next] EXCEPT !.dir = TRUE]
    OBVIOUS
  <2>2. disk.groups[next] \in Group
    BY <1>2, <1>6
  <2>3. /\ group \in Group /\ group.dir
        /\ group.lines = disk.groups[next].lines
    BY <2>1, <2>2 DEF Group
  <2>4. disk'.groups = [disk.groups EXCEPT ![next] = group]
    BY <1>5, <2>1
  <2> QED BY <1>2, <1>6, <2>3, <2>4 DEF Begun
<1>8. ChunkTypes'
  BY <1>4, <1>5, <1>6, <1>7 DEF ChunkTypes
<1>9. LinesNumbered'
  BY <1>7 DEF LinesNumbered
<1>10. ChunkPlaces'
  <2>1. \A g \in HF_Groups : g \in Nat
    BY <1>2 DEF HF_Groups
  <2>2. \A g \in HF_Groups : Begun(g)' <=> g <= next'
    BY <1>1, <1>2, <1>7, <2>1
  <2>3. next' \in HF_Groups /\ mem'.end \in next' + 1 .. HF_GROUPS
    BY <1>1, <1>2, <1>4
  <2>4. disk'.groups[next'].lines = <<>>
    BY <1>1, <1>2, <1>7 DEF LinesNumbered
  <2>5. Len(disk'.groups[next'].lines) = Len(mem'.records)
    BY <1>4, <2>4
  <2>6. \A g, h \in HF_Groups : h <= g /\ Begun(g)' => Begun(h)'
    BY <1>1, <1>2, <2>1, <2>2
  <2> QED BY <1>1, <2>2, <2>3, <2>5, <2>6 DEF ChunkPlaces
<1> QED BY <1>7, <1>8, <1>9, <1>10

\* A round appends the line that is next in its group, before the admission is
\* decided and also when it is refused.
LEMMA RoundKeeps ==
  ASSUME ChunkTypes, LinesNumbered, ChunkPlaces, HF_Round
  PROVE  /\ ChunkTypes' /\ LinesNumbered' /\ ChunkPlaces'
         /\ \A g \in HF_Groups :
              IsPrefix(disk.groups[g].lines, disk'.groups[g].lines)
<1>1. PICK mode \in {"H", "L"} :
        LET line == [round |-> Len(mem.records), mode |-> mode]
            m == admit_round(mem, mode)
        IN /\ disk' = [disk EXCEPT !.groups[next].lines = Append(@, line)]
           /\ IF HF_AdmissionFails(m)
              THEN mem' = m /\ pc' = "admission"
              ELSE mem' = [m EXCEPT !.records = Append(@, mode)] /\ pc' = pc
  BY DEF HF_Round
<1>2. PICK line : line = [round |-> Len(mem.records), mode |-> mode]
  OBVIOUS
<1>3. PICK m : m = admit_round(mem, mode)
  OBVIOUS
<1>4. /\ disk' = [disk EXCEPT !.groups[next].lines = Append(@, line)]
      /\ \/ mem' = m /\ pc' = "admission"
         \/ mem' = [m EXCEPT !.records = Append(@, mode)] /\ pc' = "round"
      /\ pc = "round" /\ next' = next
  BY <1>1, <1>2, <1>3 DEF HF_Round
<1>5. /\ HF_GROUPS \in Nat /\ next \in HF_Groups
      /\ mem.end \in next + 1 .. HF_GROUPS
      /\ Len(disk.groups[next].lines) = Len(mem.records)
      /\ \A g \in HF_Groups : Begun(g) <=> g <= next
      /\ \A g, h \in HF_Groups : h <= g /\ Begun(g) => Begun(h)
  BY <1>4, StabilityAssumption DEF ChunkPlaces
<1>6. /\ mem \in Memory
      /\ mode \in Modes
  BY <1>4 DEF ChunkTypes, Stopped, Modes
<1>7. /\ m \in Memory
      /\ m.end = mem.end /\ m.records = mem.records
  <2>1. CASE mode = "L"
    <3>1. m = [mem EXCEPT !.consecutive_low = @ + 1]
      BY <1>3, <2>1 DEF admit_round
    <3> QED BY <1>6, <3>1 DEF Memory
  <2>2. CASE mode # "L"
    <3>1. PICK low : low = [mem EXCEPT !.consecutive_low = 0]
      OBVIOUS
    <3>2. /\ low \in Memory /\ low.end = mem.end
          /\ low.records = mem.records
      BY <1>6, <3>1 DEF Memory
    <3>3. m = [mem EXCEPT !.consecutive_low = 0, !.admission_highs = @ + 1]
      BY <1>3, <2>2 DEF admit_round
    <3>4. m = [low EXCEPT !.admission_highs = @ + 1]
      BY <1>6, <3>1, <3>3 DEF Memory
    <3> QED BY <3>2, <3>4 DEF Memory
  <2> QED BY <2>1, <2>2
<1>8. /\ mem' \in Memory
      /\ mem'.end = mem.end
      /\ pc' = "round" => mem'.records = Append(mem.records, mode)
      /\ pc' \in {"round", "admission"}
  <2>1. CASE mem' = m /\ pc' = "admission"
    BY <1>7, <2>1
  <2>2. CASE mem' = [m EXCEPT !.records = Append(@, mode)] /\ pc' = "round"
    <3>1. Append(m.records, mode) \in Seq(Modes)
      BY <1>6, <1>7 DEF Memory
    <3> QED BY <1>7, <2>2, <3>1 DEF Memory
  <2> QED BY <1>4, <2>1, <2>2
<1>9. /\ disk.groups \in [HF_Groups -> Group]
      /\ DOMAIN disk = {"env", "groups", "summary", "failure", "sums"}
  BY DEF ChunkTypes
<1>10. PICK old : old = disk.groups[next].lines
  OBVIOUS
<1>11. /\ DOMAIN disk' = DOMAIN disk
       /\ disk'.groups = [disk.groups EXCEPT ![next].lines = Append(old, line)]
  BY <1>4, <1>9, <1>10
<1>12. /\ old \in Lines /\ line \in [round : Nat, mode : Modes]
       /\ line.round = Len(old)
  BY <1>2, <1>5, <1>6, <1>9, <1>10 DEF Group, Memory
<1>13. PICK new : new = Append(old, line)
  OBVIOUS
<1>14. /\ new \in Lines /\ Len(new) = Len(old) + 1 /\ IsPrefix(old, new)
       /\ DOMAIN new = 1 .. Len(old) + 1 /\ DOMAIN old = 1 .. Len(old)
       /\ new[Len(old) + 1] = line /\ Len(old) \in Nat
       /\ \A k \in 1 .. Len(old) : new[k] = old[k]
  <2>1. IsPrefix(old, new)
    BY <1>12, <1>13, PrefixOfLonger DEF Lines
  <2>2. /\ new \in Lines /\ Len(new) = Len(old) + 1 /\ Len(old) \in Nat
        /\ DOMAIN new = 1 .. Len(new) /\ DOMAIN old = 1 .. Len(old)
        /\ new[Len(old) + 1] = line
    BY <1>12, <1>13 DEF Lines
  <2>3. \A k \in 1 .. Len(old) : new[k] = old[k]
    BY <1>12, <1>13 DEF Lines
  <2> QED BY <2>1, <2>2, <2>3
<1>15. /\ disk'.groups \in [HF_Groups -> Group]
       /\ disk'.groups[next].lines = new
       /\ \A g \in HF_Groups :
            g # next => disk'.groups[g].lines = disk.groups[g].lines
       /\ \A g \in HF_Groups : disk'.groups[g].dir = disk.groups[g].dir
  <2>1. PICK group : group = [disk.groups[next] EXCEPT !.lines = new]
    OBVIOUS
  <2>2. disk.groups[next] \in Group
    BY <1>5, <1>9
  <2>3. /\ group \in Group /\ group.lines = new
        /\ group.dir = disk.groups[next].dir
    BY <1>14, <2>1, <2>2 DEF Group
  <2>4. disk'.groups = [disk.groups EXCEPT ![next] = group]
    BY <1>11, <1>13, <2>1
  <2> QED BY <1>5, <1>9, <2>3, <2>4
<1>16. ChunkTypes'
  BY <1>8, <1>9, <1>11, <1>15 DEF ChunkTypes
<1>17. LinesNumbered'
  <2>1. ASSUME NEW k \in DOMAIN new PROVE new[k].round = k - 1
    <3>1. k \in 1 .. Len(old) => new[k] = old[k] /\ old[k].round = k - 1
      BY <1>5, <1>10, <1>14 DEF LinesNumbered
    <3> QED BY <1>12, <1>14, <3>1
  <2>2. Begun(next)'
    BY <1>4, <1>5, <1>15 DEF Begun, HF_Groups
  <2> QED BY <1>4, <1>15, <2>1, <2>2 DEF LinesNumbered, Begun
<1>18. ChunkPlaces'
  <2>1. \A g \in HF_Groups : Begun(g)' <=> Begun(g)
    BY <1>15 DEF Begun
  <2>2. pc' = "round" => Len(disk'.groups[next'].lines) = Len(mem'.records)
    <3>1. Len(Append(mem.records, mode)) = Len(mem.records) + 1
      BY <1>6 DEF Memory
    <3> QED BY <1>4, <1>5, <1>8, <1>10, <1>14, <1>15, <3>1
  <2> QED BY <1>4, <1>5, <1>8, <2>1, <2>2 DEF ChunkPlaces
<1>19. ASSUME NEW g \in HF_Groups
       PROVE  IsPrefix(disk.groups[g].lines, disk'.groups[g].lines)
  <2>1. CASE g = next
    BY <1>10, <1>14, <1>15, <2>1
  <2>2. CASE g # next
    <3>1. disk.groups[g].lines \in Lines
      BY <1>9 DEF Group
    <3> QED BY <1>12, <1>15, <2>2, <3>1, PrefixOfLonger DEF Lines
  <2> QED BY <2>1, <2>2
<1> QED BY <1>16, <1>17, <1>18, <1>19

\* A checkpoint writes the summary of one group and the combined one.
LEMMA CheckpointKeeps ==
  ASSUME ChunkTypes, LinesNumbered, next \in HF_Groups,
         mem.records \in Seq(Modes), HF_Checkpoint
  PROVE  /\ DOMAIN disk' = DOMAIN disk /\ disk'.groups \in [HF_Groups -> Group]
         /\ LinesNumbered'
         /\ \A g \in HF_Groups : /\ disk'.groups[g].lines = disk.groups[g].lines
                                 /\ Begun(g)' <=> Begun(g)
<1>1. PICK groups : groups = [disk.groups EXCEPT ![next].summary = mem.records]
  OBVIOUS
<1>2. PICK listed : listed = write_combined_summary(groups)
  OBVIOUS
<1>3. disk' = [disk EXCEPT !.groups = groups, !.summary = listed]
  BY <1>1, <1>2 DEF HF_Checkpoint
<1>4. /\ disk.groups \in [HF_Groups -> Group]
      /\ DOMAIN disk = {"env", "groups", "summary", "failure", "sums"}
  BY DEF ChunkTypes
<1>5. DOMAIN disk' = DOMAIN disk /\ disk'.groups = groups
  BY <1>3, <1>4
<1>6. PICK group : group = [disk.groups[next] EXCEPT !.summary = mem.records]
  OBVIOUS
<1>7. disk.groups[next] \in Group
  BY <1>4
<1>8. /\ group \in Group /\ group.lines = disk.groups[next].lines
      /\ group.dir = disk.groups[next].dir
  BY <1>6, <1>7 DEF Group, Summaries
<1>9. groups = [disk.groups EXCEPT ![next] = group]
  BY <1>1, <1>6
<1>10. /\ groups \in [HF_Groups -> Group]
       /\ \A g \in HF_Groups : /\ groups[g].lines = disk.groups[g].lines
                               /\ groups[g].dir = disk.groups[g].dir
  BY <1>4, <1>8, <1>9
<1>11. \A g \in HF_Groups : /\ disk'.groups[g].lines = disk.groups[g].lines
                            /\ Begun(g)' <=> Begun(g)
  BY <1>5, <1>10 DEF Begun
<1> QED BY <1>5, <1>10, <1>11 DEF LinesNumbered

\* A group that ended leaves the next one to be begun.
LEMMA EndGroupKeeps ==
  ASSUME ChunkTypes, LinesNumbered, ChunkPlaces, HF_EndGroup
  PROVE  /\ ChunkTypes' /\ LinesNumbered' /\ ChunkPlaces'
         /\ \A g \in HF_Groups : disk'.groups[g].lines = disk.groups[g].lines
<1>1. /\ pc = "round" /\ pc' = "group" /\ next' = next + 1 /\ mem' = mem
      /\ HF_Checkpoint
  BY DEF HF_EndGroup
<1>2. /\ HF_GROUPS \in Nat /\ next \in HF_Groups
      /\ mem.end \in next + 1 .. HF_GROUPS
      /\ \A g \in HF_Groups : Begun(g) <=> g <= next
      /\ \A g, h \in HF_Groups : h <= g /\ Begun(g) => Begun(h)
  BY <1>1, StabilityAssumption DEF ChunkPlaces
<1>3. mem \in Memory /\ mem.records \in Seq(Modes)
  BY <1>1 DEF ChunkTypes, Memory, Stopped
<1>4. /\ DOMAIN disk' = DOMAIN disk /\ disk'.groups \in [HF_Groups -> Group]
      /\ LinesNumbered'
      /\ \A g \in HF_Groups : /\ disk'.groups[g].lines = disk.groups[g].lines
                              /\ Begun(g)' <=> Begun(g)
  BY <1>1, <1>2, <1>3, CheckpointKeeps
<1>5. ChunkTypes'
  BY <1>1, <1>3, <1>4 DEF ChunkTypes
<1>6. ChunkPlaces'
  <2>1. next' \in 0 .. HF_GROUPS /\ mem'.end \in next' .. HF_GROUPS
    BY <1>1, <1>2 DEF HF_Groups
  <2>2. ASSUME NEW g \in HF_Groups PROVE Begun(g)' <=> g < next'
    <3>1. g \in Nat /\ next \in Nat
      BY <1>2 DEF HF_Groups
    <3>2. g <= next <=> g < next + 1
      BY <3>1
    <3> QED BY <1>1, <1>2, <1>4, <3>2
  <2>3. \A g, h \in HF_Groups : h <= g /\ Begun(g)' => Begun(h)'
    BY <1>2, <1>4
  <2> QED BY <1>1, <2>1, <2>2, <2>3 DEF ChunkPlaces
<1> QED BY <1>4, <1>5, <1>6

\* An aborting chunk checkpoints what its group has.
LEMMA AbortKeeps ==
  ASSUME ChunkTypes, LinesNumbered, ChunkPlaces, HF_AbortGroup
  PROVE  /\ ChunkTypes' /\ LinesNumbered' /\ ChunkPlaces'
         /\ \A g \in HF_Groups : disk'.groups[g].lines = disk.groups[g].lines
<1>1. /\ pc \in {"admission", "failed"} /\ pc' = "aborting" /\ next' = next
      /\ mem' = [mem EXCEPT !.end = pc]
      /\ HF_Checkpoint \/ disk' = disk
  BY DEF HF_AbortGroup
<1>2. /\ next \in HF_Groups
      /\ \A g, h \in HF_Groups : h <= g /\ Begun(g) => Begun(h)
  BY <1>1 DEF ChunkPlaces
<1>3. mem \in Memory /\ mem.records \in Seq(Modes)
  BY <1>1 DEF ChunkTypes, Memory, Stopped
<1>4. mem' \in Memory
  <2>1. pc \in Ends
    BY <1>1 DEF Ends
  <2> QED BY <1>1, <1>3, <2>1 DEF Memory
<1>5. /\ DOMAIN disk' = DOMAIN disk /\ disk'.groups \in [HF_Groups -> Group]
      /\ LinesNumbered'
      /\ \A g \in HF_Groups : /\ disk'.groups[g].lines = disk.groups[g].lines
                              /\ Begun(g)' <=> Begun(g)
  <2>1. CASE HF_Checkpoint
    BY <1>2, <1>3, <2>1, CheckpointKeeps
  <2>2. CASE disk' = disk
    BY <2>2 DEF ChunkTypes, LinesNumbered, Begun
  <2> QED BY <1>1, <2>1, <2>2
<1>6. ChunkTypes'
  BY <1>4, <1>5 DEF ChunkTypes
<1>7. ChunkPlaces'
  BY <1>1, <1>2, <1>5 DEF ChunkPlaces
<1> QED BY <1>5, <1>6, <1>7

\* What writes no group's directory: a failing round, failure.json and the
\* checksums, the end of a chunk, an analysis, a crash and a rebuild.
LEMMA ElsewhereKeeps ==
  ASSUME ChunkTypes, LinesNumbered, ChunkPlaces,
         \/ HF_RoundFails \/ write_failure \/ HF_EndChunk \/ HF_Analyze
         \/ Crash \/ (pc \in Stopped /\ Rebuild)
  PROVE  /\ ChunkTypes' /\ LinesNumbered' /\ ChunkPlaces'
         /\ \A g \in HF_Groups : disk'.groups[g].lines = disk.groups[g].lines
<1>1. DOMAIN disk = {"env", "groups", "summary", "failure", "sums"}
  BY DEF ChunkTypes
<1>2. DOMAIN disk' = DOMAIN disk /\ disk'.groups = disk.groups
  <2>1. CASE write_failure
    <3>1. PICK d : d = [disk EXCEPT !.failure = mem.end]
      OBVIOUS
    <3>2. DOMAIN d = DOMAIN disk /\ d.groups = disk.groups
      BY <1>1, <3>1
    <3>3. disk' = [d EXCEPT !.sums = <<d.env, d.groups, d.summary, d.failure>>]
      BY <2>1, <3>1 DEF write_failure, write_checksums
    <3> QED BY <1>1, <3>2, <3>3
  <2>2. CASE HF_EndChunk
    <3>1. PICK d : d = [disk EXCEPT !.summary = write_combined_summary(disk.groups)]
      OBVIOUS
    <3>2. DOMAIN d = DOMAIN disk /\ d.groups = disk.groups
      BY <1>1, <3>1
    <3>3. \/ disk' = d
          \/ disk' = [d EXCEPT !.sums = <<d.env, d.groups, d.summary, d.failure>>]
      BY <2>2, <3>1 DEF HF_EndChunk, write_checksums
    <3> QED BY <1>1, <3>2, <3>3
  <2>3. CASE HF_RoundFails \/ HF_Analyze \/ Crash \/ Rebuild
    BY <2>3 DEF HF_RoundFails, HF_Analyze, Crash, Rebuild
  <2> QED BY <2>1, <2>2, <2>3
<1>3. \/ pc' \in Stopped
      \/ pc' \notin {"group", "round", "admission"} /\ pc = "round"
           /\ mem' = mem /\ next' = next
      \/ pc' = pc /\ mem' = mem /\ next' = next
  BY DEF HF_RoundFails, write_failure, HF_EndChunk, HF_Analyze, Crash, Rebuild,
         Stopped
<1>4. LinesNumbered'
  BY <1>2 DEF LinesNumbered, Begun
<1>5. ChunkTypes'
  BY <1>2, <1>3 DEF ChunkTypes, Stopped
<1>6. \A g, h \in HF_Groups : h <= g /\ Begun(g)' => Begun(h)'
  BY <1>2 DEF ChunkPlaces, Begun
<1>7. ChunkPlaces'
  <2>1. CASE pc' \in Stopped
    BY <1>6, <2>1 DEF ChunkPlaces, Stopped
  <2>2. CASE pc' \notin {"group", "round", "admission"} /\ pc = "round" /\ next' = next
    BY <1>6, <2>2 DEF ChunkPlaces
  <2>3. CASE pc' = pc /\ mem' = mem /\ next' = next
    BY <1>2, <2>3 DEF ChunkPlaces, Begun
  <2> QED BY <1>3, <2>1, <2>2, <2>3
<1> QED BY <1>2, <1>4, <1>5, <1>7

-----------------------------------------------------------------------------
(* Plans *)

\* A set of naturals has a least element.  (Of the initial segments up to its
\* elements one is contained in no other: set inclusion is well-founded.)
LEMMA LeastNatural ==
  ASSUME NEW S, S \subseteq Nat, S # {}
  PROVE  \E x \in S : \A y \in S : x <= y
<1> DEFINE T == {0 .. n : n \in S}  R == StrictSubsetOrdering(Nat)
<1>1. T \subseteq FiniteSubsetsOf(Nat) /\ T # {}
  <2>1. ASSUME NEW n \in S PROVE 0 .. n \in FiniteSubsetsOf(Nat)
    <3>1. n \in Int /\ 0 .. n \subseteq Nat
      OBVIOUS
    <3>2. IsFiniteSet(0 .. n)
      BY <3>1, FS_Interval
    <3> QED BY <3>1, <3>2 DEF FiniteSubsetsOf
  <2> QED BY <2>1
<1>2. PICK I \in T : \A J \in T : <<J, I>> \notin R
  BY <1>1, WFMin, FS_StrictSubsetOrderingWellFounded
<1>3. PICK x \in S : I = 0 .. x
  BY <1>2
<1>4. ASSUME NEW y \in S, y < x PROVE FALSE
  <2>1. (0 .. y) \subseteq (0 .. x) /\ x \in 0 .. x /\ x \notin 0 .. y
    BY <1>4
  <2>2. <<0 .. y, I>> \in R
    BY <2>1, <1>3, <1>1 DEF StrictSubsetOrdering
  <2> QED BY <2>2, <1>2
<1> QED BY <1>4

\* What FlattenSeq computes on the way: the first i sequences put together.
Joined(f, seqs, n) ==
  f = [i \in 1 .. n |-> IF i = 1 THEN seqs[i] ELSE f[i - 1] \o seqs[i]]

\* There is such a function, for any number of sequences.
LEMMA JoinedExists == ASSUME NEW seqs, NEW n \in Nat PROVE \E f : Joined(f, seqs, n)
<1> DEFINE T == {m \in Nat : ~\E f : Joined(f, seqs, m)}
<1>1. SUFFICES ASSUME T # {} PROVE FALSE
  OBVIOUS
<1>2. PICK m \in T : \A k \in T : m <= k
  BY <1>1, LeastNatural
<1>3. m \in Nat /\ ~\E f : Joined(f, seqs, m)
  OBVIOUS
<1>4. m # 0
  <2>1. Joined([i \in 1 .. 0 |-> 0], seqs, 0)
    BY DEF Joined
  <2> QED BY <1>3, <2>1
<1>5. PICK f : Joined(f, seqs, m - 1)
  BY <1>2, <1>3, <1>4
<1>6. PICK last : last = IF m = 1 THEN seqs[m] ELSE f[m - 1] \o seqs[m]
  OBVIOUS
<1>7. PICK g : g = [i \in 1 .. m |-> IF i = m THEN last ELSE f[i]]
  OBVIOUS
<1>8. /\ DOMAIN f = 1 .. m - 1
      /\ \A i \in 1 .. m - 1 : f[i] = IF i = 1 THEN seqs[i] ELSE f[i - 1] \o seqs[i]
  BY <1>5 DEF Joined
<1>9. \A i \in 1 .. m : g[i] = IF i = 1 THEN seqs[i] ELSE g[i - 1] \o seqs[i]
  <2> SUFFICES ASSUME NEW i \in 1 .. m
               PROVE  g[i] = IF i = 1 THEN seqs[i] ELSE g[i - 1] \o seqs[i]
    OBVIOUS
  <2>1. CASE i = m
    <3>1. m # 1 => g[m - 1] = f[m - 1]
      BY <1>3, <1>4, <1>7
    <3> QED BY <1>3, <1>4, <1>6, <1>7, <2>1, <3>1
  <2>2. CASE i # m
    <3>1. i \in 1 .. m - 1 /\ g[i] = f[i]
      BY <1>3, <1>7, <2>2
    <3>2. i # 1 => g[i - 1] = f[i - 1]
      BY <1>3, <1>7, <2>2
    <3> QED BY <1>8, <3>1, <3>2
  <2> QED BY <2>1, <2>2
<1>10. Joined(g, seqs, m)
  <2>1. g = [i \in 1 .. m |-> g[i]]
    BY <1>7
  <2> QED BY <1>9, <2>1 DEF Joined
<1> QED BY <1>3, <1>10

\* FlattenSeq is the last of them.
LEMMA FlattenIsJoined ==
  ASSUME NEW seqs, Len(seqs) \in Nat, Len(seqs) # 0
  PROVE  \E f : Joined(f, seqs, Len(seqs)) /\ FlattenSeq(seqs) = f[Len(seqs)]
<1> DEFINE g == CHOOSE g : g = [i \in 1 .. Len(seqs) |->
                  IF i = 1 THEN seqs[i] ELSE g[i - 1] \o seqs[i]]
<1>1. PICK f : f = [i \in 1 .. Len(seqs) |->
                     IF i = 1 THEN seqs[i] ELSE f[i - 1] \o seqs[i]]
  BY JoinedExists DEF Joined
<1>2. g = [i \in 1 .. Len(seqs) |->
            IF i = 1 THEN seqs[i] ELSE g[i - 1] \o seqs[i]]
  BY <1>1, Zenon
<1>3. FlattenSeq(seqs) = g[Len(seqs)]
  BY Zenon DEF FlattenSeq
<1> HIDE DEF g
<1> QED BY <1>2, <1>3 DEF Joined

\* Sequences put together have the elements of their parts.
LEMMA FlattenType ==
  ASSUME NEW S, NEW seqs \in Seq(Seq(S))
  PROVE  FlattenSeq(seqs) \in Seq(S)
<1>1. CASE Len(seqs) = 0
  BY <1>1 DEF FlattenSeq
<1>2. CASE Len(seqs) # 0
  <2>1. PICK f : /\ Joined(f, seqs, Len(seqs))
                 /\ FlattenSeq(seqs) = f[Len(seqs)]
    BY <1>2, FlattenIsJoined
  <2>2. \A i \in 1 .. Len(seqs) :
          f[i] = IF i = 1 THEN seqs[i] ELSE f[i - 1] \o seqs[i]
    BY <2>1 DEF Joined
  <2> DEFINE T == {i \in 1 .. Len(seqs) : f[i] \notin Seq(S)}
  <2>3. SUFFICES T = {}
    BY <1>2, <2>1
  <2>4. SUFFICES ASSUME T # {} PROVE FALSE
    OBVIOUS
  <2>5. PICK i \in T : \A j \in T : i <= j
    <3>1. T \subseteq Nat
      OBVIOUS
    <3> QED BY <2>4, <3>1, LeastNatural
  <2>6. i \in 1 .. Len(seqs) /\ f[i] \notin Seq(S)
    OBVIOUS
  <2>7. seqs[i] \in Seq(S)
    BY <2>6
  <2>8. CASE i = 1
    BY <2>2, <2>6, <2>7, <2>8
  <2>9. CASE i # 1
    <3>1. i - 1 \in 1 .. Len(seqs) /\ i - 1 \notin T
      BY <2>5, <2>6, <2>9
    <3>2. f[i - 1] \in Seq(S)
      BY <3>1
    <3>3. f[i] = f[i - 1] \o seqs[i]
      BY <2>2, <2>6, <2>9
    <3>4. f[i - 1] \o seqs[i] \in Seq(S)
      BY <2>7, <3>2
    <3> QED BY <2>6, <3>3, <3>4
  <2> QED BY <2>8, <2>9
<1> QED BY <1>1, <1>2

\* The rounds of a plan before and after they are numbered.
Cells == ToSet(Configurations) \cup {"smoke-64b"}
ArmNames == {"ST", "MT"}
Phases == {"smoke", "warmup", "measured"}
Slot == [cfg : Cells, group : Int, pos : Int, arm : ArmNames]
Round == [phase : Phases, ordinal : Int, cfg : Cells, group : Int, pos : Int,
          arm : ArmNames]

\* Numbering rounds from offset on.
LEMMA NumberedRounds ==
  ASSUME NEW phase \in Phases, NEW offset \in Int, NEW rounds \in Seq(Slot)
  PROVE  /\ Numbered(phase, offset, rounds) \in Seq(Round)
         /\ Len(Numbered(phase, offset, rounds)) = Len(rounds)
         /\ \A k \in 1 .. Len(rounds) :
              Numbered(phase, offset, rounds)[k].ordinal = offset + k - 1
<1>1. DOMAIN rounds = 1 .. Len(rounds) /\ Len(rounds) \in Nat
  OBVIOUS
<1>2. \A k \in 1 .. Len(rounds) : rounds[k] \in Slot
  OBVIOUS
<1>3. \A k \in 1 .. Len(rounds) :
        [phase |-> phase, ordinal |-> offset + k - 1, cfg |-> rounds[k].cfg,
         group |-> rounds[k].group, pos |-> rounds[k].pos, arm |-> rounds[k].arm]
        \in Round
  BY <1>2 DEF Slot, Round
<1> QED BY <1>1, <1>3 DEF Numbered

\* The warmups, the formal rounds and the smoke rounds are rounds.
LEMMA WarmupRounds == warmup_schedule \in Seq(Slot)
<1> DEFINE row(c) == [a \in DOMAIN ARMS |->
                       [cfg |-> Configurations[c], group |-> -1, pos |-> -1,
                        arm |-> ARMS[a]]]
<1>1. Configurations \in Seq(ToSet(Configurations))
  BY CampaignAssumption
<1>2. DOMAIN Configurations = 1 .. Len(Configurations) /\ Len(Configurations) \in Nat
  BY <1>1
<1>3. ASSUME NEW c \in DOMAIN Configurations PROVE row(c) \in Seq(Slot)
  <2>1. Configurations[c] \in Cells
    BY DEF Cells, ToSet
  <2>2. ARMS \in [1 .. 2 -> ArmNames]
    BY DEF ARMS, ArmNames
  <2>3. \A a \in 1 .. 2 : ARMS[a] \in ArmNames
    BY <2>2
  <2>4. \A a \in 1 .. 2 :
          [cfg |-> Configurations[c], group |-> -1, pos |-> -1, arm |-> ARMS[a]]
            \in Slot
    BY <2>1, <2>3 DEF Slot
  <2> QED BY <2>2, <2>4
<1>4. [c \in DOMAIN Configurations |-> row(c)] \in Seq(Seq(Slot))
  BY <1>2, <1>3
<1>5. warmup_schedule = FlattenSeq([c \in DOMAIN Configurations |-> row(c)])
  BY DEF warmup_schedule, EachOnce
<1> QED BY <1>4, <1>5, FlattenType

\* The formal rounds: configuration by configuration, group by group.
LEMMA FormalRounds == formal_schedule \in Seq(Slot)
<1> DEFINE cell(c, g) == [p \in DOMAIN ARM_ORDER |->
                           [cfg |-> Configurations[c], group |-> g - 1,
                            pos |-> p - 1, arm |-> ARM_ORDER[p]]]
           rows(c) == [g \in 1 .. GROUPS |-> cell(c, g)]
<1>1. Configurations \in Seq(ToSet(Configurations)) /\ GROUPS \in Nat
  BY CampaignAssumption
<1>2. DOMAIN Configurations = 1 .. Len(Configurations) /\ Len(Configurations) \in Nat
  BY <1>1
<1>3. ASSUME NEW c \in DOMAIN Configurations, NEW g \in 1 .. GROUPS
      PROVE  cell(c, g) \in Seq(Slot)
  <2>1. Configurations[c] \in Cells
    BY DEF Cells, ToSet
  <2>2. ARM_ORDER \in [1 .. 4 -> ArmNames]
    BY DEF ARM_ORDER, ArmNames
  <2>3. \A p \in 1 .. 4 : ARM_ORDER[p] \in ArmNames
    BY <2>2
  <2>4. \A p \in 1 .. 4 : cell(c, g)[p] \in Slot
    BY <1>1, <2>1, <2>2, <2>3 DEF Slot
  <2> QED BY <2>2, <2>4
<1> HIDE DEF cell
<1>4. ASSUME NEW c \in DOMAIN Configurations
      PROVE  rows(c) \in Seq(Seq(Slot))
  BY <1>1, <1>3
<1> HIDE DEF rows
<1>5. [c \in DOMAIN Configurations |-> FlattenSeq(rows(c))] \in Seq(Seq(Slot))
  <2>1. \A c \in DOMAIN Configurations : FlattenSeq(rows(c)) \in Seq(Slot)
    BY <1>4, FlattenType
  <2> QED BY <1>2, <2>1
<1>6. formal_schedule
        = FlattenSeq([c \in DOMAIN Configurations |-> FlattenSeq(rows(c))])
  BY DEF formal_schedule, Expand, rows, cell
<1> QED BY <1>5, <1>6, FlattenType

\* The smoke rounds have the ordinals 0 and 1.
LEMMA SmokeRounds ==
  /\ smoke \in Seq(Round) /\ Len(smoke) = 2
  /\ \A k \in 1 .. 2 : smoke[k].ordinal = k - 1
<1> DEFINE row == [a \in DOMAIN ARMS |->
                    [cfg |-> "smoke-64b", group |-> -1, pos |-> -1,
                     arm |-> ARMS[a]]]
<1>1. ARMS \in Seq(ArmNames) /\ DOMAIN ARMS = 1 .. 2
  BY DEF ARMS, ArmNames
<1>2. \A a \in 1 .. 2 :
        [cfg |-> "smoke-64b", group |-> -1, pos |-> -1, arm |-> ARMS[a]] \in Slot
  <2>1. "smoke-64b" \in Cells
    BY DEF Cells
  <2>2. \A a \in 1 .. 2 : ARMS[a] \in ArmNames
    BY <1>1
  <2> QED BY <2>1, <2>2 DEF Slot
<1>3. row \in Seq(Slot) /\ Len(row) = 2
  BY <1>1, <1>2
<1> HIDE DEF row
<1>4. smoke = Numbered("smoke", 0, row)
  BY DEF smoke, row
<1>5. "smoke" \in Phases
  BY DEF Phases
<1> QED BY <1>3, <1>4, <1>5, NumberedRounds

\* Two lists of rounds, the second numbered where the first ends.
LEMMA NumberedThrough ==
  ASSUME NEW front \in Seq(Round), NEW back \in Seq(Round),
         \A k \in 1 .. Len(front) : front[k].ordinal = k - 1,
         \A k \in 1 .. Len(back) : back[k].ordinal = Len(front) + k - 1
  PROVE  /\ front \o back \in Seq(Round)
         /\ Len(front \o back) = Len(front) + Len(back)
         /\ \A k \in 1 .. Len(front \o back) : (front \o back)[k].ordinal = k - 1
<1> SUFFICES ASSUME NEW k \in 1 .. Len(front) + Len(back)
             PROVE  (front \o back)[k].ordinal = k - 1
  OBVIOUS
<1>1. CASE k <= Len(front)
  BY <1>1
<1>2. CASE k > Len(front)
  <2>1. k - Len(front) \in 1 .. Len(back) /\ (front \o back)[k] = back[k - Len(front)]
    BY <1>2
  <2> QED BY <2>1
<1> QED BY <1>1, <1>2

\* In every mode the k-th round of the plan has the ordinal k - 1.
LEMMA PlanNumbered ==
  ASSUME NEW mode
  PROVE  /\ P32_Plan(mode) \in Seq(Round)
         /\ \A k \in 1 .. Len(P32_Plan(mode)) : P32_Plan(mode)[k].ordinal = k - 1
<1>1. CASE mode = "smoke"
  BY <1>1, SmokeRounds DEF P32_Plan
<1>2. CASE mode # "smoke"
  <2>1. PICK warm : warm = Numbered("warmup", Len(smoke), warmup_schedule)
    OBVIOUS
  <2>2. /\ warm \in Seq(Round)
        /\ \A k \in 1 .. Len(warm) : warm[k].ordinal = Len(smoke) + k - 1
    BY <2>1, SmokeRounds, WarmupRounds, NumberedRounds DEF Phases
  <2>3. PICK main :
          main = Numbered("measured", Len(smoke) + Len(warm), formal_schedule)
    OBVIOUS
  <2>4. /\ main \in Seq(Round)
        /\ \A k \in 1 .. Len(main) :
             main[k].ordinal = Len(smoke) + Len(warm) + k - 1
    <3>1. PICK offset \in Int : offset = Len(smoke) + Len(warm)
      BY <2>2, SmokeRounds
    <3>2. "measured" \in Phases /\ formal_schedule \in Seq(Slot)
      BY FormalRounds DEF Phases
    <3>3. /\ main \in Seq(Round) /\ Len(main) = Len(formal_schedule)
          /\ \A k \in 1 .. Len(formal_schedule) : main[k].ordinal = offset + k - 1
      BY <2>3, <3>1, <3>2, NumberedRounds
    <3> QED BY <3>1, <3>3
  <2>5. PICK front : front = smoke \o warm
    OBVIOUS
  <2>6. /\ front \in Seq(Round) /\ Len(front) = Len(smoke) + Len(warm)
        /\ \A k \in 1 .. Len(front) : front[k].ordinal = k - 1
    <3>1. \A k \in 1 .. Len(smoke) : smoke[k].ordinal = k - 1
      BY SmokeRounds
    <3> QED BY <2>2, <2>5, <3>1, SmokeRounds, NumberedThrough
  <2>7. P32_Plan(mode) = front \o main
    BY <1>2, <2>1, <2>3, <2>5, Zenon DEF P32_Plan
  <2> QED BY <2>4, <2>6, <2>7, NumberedThrough
<1> QED BY <1>1, <1>2

-----------------------------------------------------------------------------
(* The P3-2 matrix *)

\* What the files and the memory of the runner hold.
RanRound == [round : Round, flaw : P32_Flaws \cup {None}, build : Nat]
Record == [round : Round, sha : Nat, status : {"ok", "failed"}]
Manifest == [status : {"running", "failed", "complete"},
             mode : {"formal", "smoke"}, measured : Nat,
             planned : {formal_schedule}, records : Seq(Record)]

MatrixTypes ==
  /\ build \in Nat /\ next \in Nat \ {0}
  /\ ran \in Seq(RanRound)
  /\ DOMAIN disk = {"output", "experiment", "environment", "failure"}
  /\ pc \in Stopped \cup {"next", "round", "failing", "failed"}
  /\ pc \notin Stopped => mem \in Manifest

\* Nothing the runner can find was wrong with the round.
Passed(k) == P32_Record(ran[k].round, ran[k].flaw).status = "ok"

\* The k-th round that ran is the k-th of the plan, and the runner goes on
\* only after rounds that passed.
RoundsInOrder ==
  /\ \A k \in 1 .. Len(ran) : ran[k].round.ordinal = k - 1
  /\ \A k \in 1 .. Len(ran) : k < Len(ran) \/ pc = "next" => Passed(k)
  /\ pc = "off" => next = 1
  /\ pc \in {"off", "next"} => Len(ran) = next - 1
  /\ pc = "round" => Len(ran) = next

\* failure.json is written once, between the two states of experiment.json
\* that hold the round it names, and a run that failed ends there.
FailureNamed ==
  /\ pc \in {"off", "next", "round", "failing"} => disk.failure = None
  /\ pc \in {"next", "round", "failing"} => mem.status = "running"
  /\ pc = "failing" => disk.experiment = mem
  /\ pc = "failed" => /\ mem.status = "failed"
                      /\ disk.failure = Last(mem.records)
  /\ disk.failure # None => /\ disk.failure = Last(disk.experiment.records)
                            /\ disk.experiment.status # "complete"

\* What is inductive of the P3-2 matrix.
MatrixInv == kind = "p32" => MatrixTypes /\ RoundsInOrder /\ FailureNamed

\* A step that starts nothing and collects nothing.
LEMMA SameRounds ==
  ASSUME RoundsInOrder, ran' = ran, next' = next,
         pc' \in {"off", "next", "round"} => pc' = pc
  PROVE  RoundsInOrder'
  BY DEF RoundsInOrder, Passed, P32_Record, extract_cgroup_evidence,
         validate_cgroup_evidence, parse_probe_output

\* main of p3-p32-multithread.py.
LEMMA MatrixStarts ==
  ASSUME MatrixTypes, RoundsInOrder, FailureNamed, P32_Start
  PROVE  MatrixTypes' /\ RoundsInOrder' /\ FailureNamed'
<1>1. PICK mode \in {"formal", "smoke"} :
       \/ /\ disk.output = "absent"
          /\ mem' = P32_Manifest(mode)
          /\ disk' = [disk EXCEPT !.output = "used", !.experiment = mem',
                                  !.environment = build]
          /\ pc' = "next"
       \/ /\ disk.output = "empty"
          /\ pc' = "exit1"
          /\ UNCHANGED <<mem, disk>>
  BY DEF P32_Start
<1>2. pc = "off" /\ ran' = ran /\ next' = next /\ build' = build
  BY DEF P32_Start
<1>3. mem' = P32_Manifest(mode) => mem' \in Manifest /\ mem'.status = "running"
  BY DEF P32_Manifest, Manifest
<1>4. disk'.failure = disk.failure /\ DOMAIN disk' = DOMAIN disk
  BY <1>1 DEF MatrixTypes
<1>5. MatrixTypes'
  BY <1>1, <1>2, <1>3, <1>4 DEF MatrixTypes, Stopped
<1>6. RoundsInOrder'
  BY <1>1, <1>2 DEF RoundsInOrder, MatrixTypes
<1>7. FailureNamed'
  BY <1>1, <1>2, <1>3, <1>4 DEF FailureNamed
<1> QED BY <1>5, <1>6, <1>7

\* The next round of the plan starts, after rounds that passed.
LEMMA RoundLaunched ==
  ASSUME MatrixTypes, RoundsInOrder, FailureNamed, P32_Launch
  PROVE  MatrixTypes' /\ RoundsInOrder' /\ FailureNamed'
<1>1. PICK plan : plan = P32_Plan(mem.mode)
  OBVIOUS
<1>2. plan \in Seq(Round) /\ \A k \in 1 .. Len(plan) : plan[k].ordinal = k - 1
  BY <1>1, PlanNumbered
<1>3. /\ pc = "next" /\ pc' = "round" /\ next \in Nat /\ next <= Len(plan)
      /\ next' = next /\ mem' = mem /\ disk' = disk /\ build' = build
      /\ Len(ran) = next - 1 /\ build \in Nat /\ ran \in Seq(RanRound)
  BY <1>1 DEF P32_Launch, MatrixTypes, RoundsInOrder
<1>4. PICK new : new = [round |-> plan[next], flaw |-> None, build |-> build]
  OBVIOUS
<1>5. next \in 1 .. Len(plan)
  BY <1>2, <1>3
<1>6. new \in RanRound /\ new.round.ordinal = next - 1
  BY <1>2, <1>3, <1>4, <1>5 DEF RanRound
<1>7. ran' = Append(ran, new)
  BY <1>1, <1>4 DEF P32_Launch
<1>8. /\ ran' \in Seq(RanRound) /\ Len(ran') = next
      /\ \A k \in 1 .. Len(ran) : ran'[k] = ran[k]
      /\ ran'[next] = new
  BY <1>3, <1>6, <1>7
<1>9. MatrixTypes'
  BY <1>3, <1>8 DEF MatrixTypes, Stopped
<1>10. RoundsInOrder'
  <2>1. ASSUME NEW k \in 1 .. Len(ran')
        PROVE  ran'[k].round.ordinal = k - 1 /\ (k < Len(ran') => Passed(k)')
    <3>1. CASE k = next
      BY <1>6, <1>8, <3>1
    <3>2. CASE k # next
      <4>1. k \in 1 .. Len(ran) /\ ran'[k] = ran[k]
        BY <1>3, <1>8, <3>2
      <4>2. Passed(k)
        BY <1>3, <4>1 DEF RoundsInOrder
      <4> QED
        BY <4>1, <4>2 DEF RoundsInOrder, Passed, P32_Record,
           extract_cgroup_evidence, validate_cgroup_evidence, parse_probe_output
    <3> QED BY <3>1, <3>2
  <2> QED BY <1>3, <1>8, <2>1 DEF RoundsInOrder
<1>11. FailureNamed'
  BY <1>3 DEF FailureNamed
<1> QED BY <1>9, <1>10, <1>11

\* What the round shows is recorded, and decides whether there is a next.
LEMMA RoundCollected ==
  ASSUME MatrixTypes, RoundsInOrder, FailureNamed, P32_Collect
  PROVE  MatrixTypes' /\ RoundsInOrder' /\ FailureNamed'
<1>1. PICK flaw \in P32_Flaws \cup {None} :
        LET record == P32_Record(Last(ran).round, flaw)
        IN /\ ran' = [ran EXCEPT ![Len(ran)].flaw = flaw]
           /\ mem' = [mem EXCEPT
                !.records = Append(@, record),
                !.measured = @ + IF record.round.phase = "measured"
                                 THEN 1 ELSE 0]
           /\ pc' = P32_After(record)
  BY DEF P32_Collect
<1>2. PICK record : record = P32_Record(Last(ran).round, flaw)
  OBVIOUS
<1>3. /\ pc = "round" /\ next' = next + 1 /\ build' = build
      /\ disk' = [disk EXCEPT !.experiment = mem']
      /\ ran \in Seq(RanRound) /\ Len(ran) = next /\ next \in Nat
      /\ mem \in Manifest /\ build \in Nat
  BY DEF P32_Collect, MatrixTypes, RoundsInOrder, Stopped
<1>4. next \in 1 .. Len(ran)
  BY <1>3 DEF MatrixTypes
<1>5. PICK last \in RanRound : last = ran[next]
  BY <1>3, <1>4
<1>6. PICK new : new = [last EXCEPT !.flaw = flaw]
  OBVIOUS
<1>7. new \in RanRound /\ new.round = last.round /\ new.flaw = flaw
  BY <1>5, <1>6 DEF RanRound
<1>8. ran' = [ran EXCEPT ![next] = new]
  BY <1>1, <1>3, <1>5, <1>6
<1>9. /\ ran' \in Seq(RanRound) /\ Len(ran') = next
      /\ \A k \in 1 .. next : ran'[k] = IF k = next THEN new ELSE ran[k]
  BY <1>3, <1>4, <1>7, <1>8
<1>10. record = P32_Record(last.round, flaw)
  BY <1>2, <1>3, <1>5 DEF Last
<1>11. record \in Record
  BY <1>3, <1>5, <1>10 DEF P32_Record, Record, RanRound
<1>12. PICK one \in {0, 1} :
         /\ mem' = [mem EXCEPT !.records = Append(@, record),
                      !.measured = @ + one]
         /\ pc' = P32_After(record)
  BY <1>1, <1>2
<1>13. /\ Append(mem.records, record) \in Seq(Record)
       /\ mem.measured + one \in Nat
  BY <1>3, <1>11 DEF Manifest
<1>14. mem' \in Manifest /\ mem'.status = mem.status
  BY <1>3, <1>12, <1>13 DEF Manifest
<1>15. /\ pc' \in {"next", "failing"}
       /\ pc' = "next" => record.status = "ok"
  BY <1>12 DEF P32_After
<1>16. /\ DOMAIN disk' = DOMAIN disk /\ disk'.failure = disk.failure
       /\ disk'.experiment = mem'
  BY <1>3 DEF MatrixTypes
<1>17. MatrixTypes'
  BY <1>3, <1>9, <1>14, <1>15, <1>16 DEF MatrixTypes, Stopped
<1>18. RoundsInOrder'
  <2>1. ASSUME NEW k \in 1 .. Len(ran')
        PROVE  /\ ran'[k].round.ordinal = k - 1
               /\ k < Len(ran') \/ pc' = "next" => Passed(k)'
    <3>1. CASE k = next
      <4>1. record.status = "ok" => Passed(k)'
        BY <1>7, <1>9, <1>10, <3>1 DEF Passed, P32_Record,
           extract_cgroup_evidence, validate_cgroup_evidence, parse_probe_output
      <4>2. ran'[k].round.ordinal = k - 1
        BY <1>3, <1>4, <1>5, <1>7, <1>9, <3>1 DEF RoundsInOrder
      <4> QED BY <1>9, <1>15, <3>1, <4>1, <4>2
    <3>2. CASE k # next
      <4>1. k \in 1 .. Len(ran) /\ k < Len(ran) /\ ran'[k] = ran[k]
        BY <1>3, <1>9, <3>2
      <4>2. Passed(k)
        BY <4>1 DEF RoundsInOrder
      <4> QED
        BY <4>1, <4>2 DEF RoundsInOrder, Passed, P32_Record,
           extract_cgroup_evidence, validate_cgroup_evidence, parse_probe_output
    <3> QED BY <3>1, <3>2
  <2> QED BY <1>3, <1>9, <1>15, <2>1 DEF RoundsInOrder, MatrixTypes
<1>19. FailureNamed'
  BY <1>3, <1>14, <1>15, <1>16 DEF FailureNamed
<1> QED BY <1>17, <1>18, <1>19

\* The end, the two halves of a failure, the analyzer, a kill and a rebuild.
LEMMA MatrixElsewhere ==
  ASSUME MatrixTypes, RoundsInOrder, FailureNamed,
         \/ P32_Finish \/ P32_WriteFailure \/ P32_RecordFailure
         \/ P32_Analyze \/ Crash \/ Rebuild
  PROVE  MatrixTypes' /\ RoundsInOrder' /\ FailureNamed'
<1>1. CASE P32_Finish
  <2>1. /\ pc = "next" /\ pc' = "exit0" /\ ran' = ran /\ next' = next
        /\ build' = build
    BY <1>1 DEF P32_Finish
  <2>2. disk' = [disk EXCEPT !.experiment = mem']
    BY <1>1 DEF P32_Finish
  <2>3. DOMAIN disk' = DOMAIN disk /\ disk'.failure = disk.failure
    BY <2>2 DEF MatrixTypes
  <2>4. MatrixTypes' /\ FailureNamed'
    BY <2>1, <2>3 DEF MatrixTypes, FailureNamed, Stopped
  <2> QED BY <2>1, <2>4, SameRounds
<1>2. CASE P32_WriteFailure
  <2>1. /\ pc = "failing" /\ pc' = "failed" /\ ran' = ran /\ next' = next
        /\ build' = build /\ mem \in Manifest
        /\ disk' = [disk EXCEPT !.failure = Last(mem.records)]
        /\ mem' = [mem EXCEPT !.status = "failed"]
    BY <1>2 DEF P32_WriteFailure, MatrixTypes, Stopped
  <2>2. /\ mem' \in Manifest /\ mem'.status = "failed"
        /\ mem'.records = mem.records
    BY <2>1 DEF Manifest
  <2>3. /\ DOMAIN disk' = DOMAIN disk /\ disk'.failure = Last(mem.records)
        /\ disk'.experiment = disk.experiment
    BY <2>1 DEF MatrixTypes
  <2>4. disk.experiment = mem /\ mem.status = "running"
    BY <2>1 DEF FailureNamed
  <2>5. MatrixTypes'
    BY <2>1, <2>2, <2>3 DEF MatrixTypes
  <2>6. FailureNamed'
    BY <2>1, <2>2, <2>3, <2>4 DEF FailureNamed
  <2> QED BY <2>1, <2>5, <2>6, SameRounds
<1>3. CASE P32_RecordFailure
  <2>1. /\ pc = "failed" /\ pc' = "exit1" /\ ran' = ran /\ next' = next
        /\ build' = build /\ mem' = mem
        /\ disk' = [disk EXCEPT !.experiment = mem]
    BY <1>3 DEF P32_RecordFailure
  <2>2. /\ DOMAIN disk' = DOMAIN disk /\ disk'.failure = disk.failure
        /\ disk'.experiment = mem
    BY <2>1 DEF MatrixTypes
  <2>3. MatrixTypes' /\ FailureNamed'
    BY <2>1, <2>2 DEF MatrixTypes, FailureNamed, Stopped
  <2> QED BY <2>1, <2>3, SameRounds
<1>4. CASE P32_Analyze
  <2>1. /\ pc' = pc /\ ran' = ran /\ next' = next /\ build' = build
        /\ mem' = mem /\ disk' = disk
    BY <1>4 DEF P32_Analyze
  <2>2. MatrixTypes' /\ FailureNamed'
    BY <2>1 DEF MatrixTypes, FailureNamed
  <2> QED BY <2>1, <2>2, SameRounds
<1>5. CASE Crash
  <2>1. /\ pc' = "killed" /\ ran' = ran /\ next' = next /\ build' = build
        /\ disk' = disk
    BY <1>5 DEF Crash
  <2>2. MatrixTypes' /\ FailureNamed'
    BY <2>1 DEF MatrixTypes, FailureNamed, Stopped
  <2> QED BY <2>1, <2>2, SameRounds
<1>6. CASE Rebuild
  <2>1. /\ pc' = pc /\ ran' = ran /\ next' = next /\ build' = build + 1
        /\ mem' = mem /\ disk' = disk
    BY <1>6 DEF Rebuild
  <2>2. MatrixTypes' /\ FailureNamed'
    BY <2>1 DEF MatrixTypes, FailureNamed
  <2> QED BY <2>1, <2>2, SameRounds
<1> QED BY <1>1, <1>2, <1>3, <1>4, <1>5, <1>6

-----------------------------------------------------------------------------
(* Sequences of one length, and the sequence of a block matrix *)

\* The second half of two sequences put together.
LEMMA SecondHalf ==
  ASSUME NEW S, NEW p \in Seq(S), NEW q \in Seq(S),
         NEW x \in Len(p) + 1 .. Len(p) + Len(q)
  PROVE  (p \o q)[x] = q[x - Len(p)]
  OBVIOUS

\* Where the a-th of the g-th n elements is.
Place(n, g, a) == n * (g - 1) + a

\* out has the rows of seqs, of length n each, one after the other.
RowByRow(out, seqs, n) ==
  /\ Len(out) = n * Len(seqs)
  /\ \A i \in 1 .. Len(seqs), a \in 1 .. n : out[Place(n, i, a)] = seqs[i][a]

\* Sequences of one length, put together.
LEMMA FlattenRows ==
  ASSUME NEW S, NEW n \in {2, 3}, NEW seqs \in Seq(Seq(S)), Len(seqs) # 0,
         \A i \in 1 .. Len(seqs) : Len(seqs[i]) = n
  PROVE  FlattenSeq(seqs) \in Seq(S) /\ RowByRow(FlattenSeq(seqs), seqs, n)
<1>1. PICK f : /\ Joined(f, seqs, Len(seqs))
               /\ FlattenSeq(seqs) = f[Len(seqs)]
  BY FlattenIsJoined
<1>2. \A i \in 1 .. Len(seqs) :
        f[i] = IF i = 1 THEN seqs[i] ELSE f[i - 1] \o seqs[i]
  BY <1>1 DEF Joined
<1> DEFINE Good(m) == /\ f[m] \in Seq(S) /\ Len(f[m]) = n * m
                      /\ \A i \in 1 .. m, a \in 1 .. n :
                           f[m][Place(n, i, a)] = seqs[i][a]
           T == {m \in 1 .. Len(seqs) : ~Good(m)}
<1>3. SUFFICES T = {}
  <2>1. ASSUME T = {} PROVE Good(Len(seqs))
    <3>1. Len(seqs) \in 1 .. Len(seqs) /\ Len(seqs) \notin T
      BY <2>1
    <3> QED BY <3>1
  <2> HIDE DEF T
  <2> QED BY <1>1, <2>1 DEF RowByRow
<1>4. SUFFICES ASSUME T # {} PROVE FALSE
  OBVIOUS
<1>5. PICK m \in T : \A j \in T : m <= j
  <2>1. T \subseteq Nat
    OBVIOUS
  <2> QED BY <1>4, <2>1, LeastNatural
<1>6. m \in 1 .. Len(seqs) /\ ~Good(m)
  OBVIOUS
<1>7. seqs[m] \in Seq(S) /\ Len(seqs[m]) = n
  BY <1>6
<1>8. CASE m = 1
  <2>1. f[m] = seqs[m]
    BY <1>2, <1>6, <1>8
  <2>2. \A i \in 1 .. m, a \in 1 .. n : i = m /\ Place(n, i, a) = a
    BY <1>8 DEF Place
  <2> QED BY <1>6, <1>7, <1>8, <2>1, <2>2
<1>9. CASE m # 1
  <2>1. m - 1 \in 1 .. Len(seqs) /\ m - 1 \notin T
    BY <1>5, <1>6, <1>9
  <2>2. Good(m - 1)
    BY <2>1
  <2>3. PICK p : p = f[m - 1]
    OBVIOUS
  <2>4. /\ p \in Seq(S) /\ Len(p) = n * (m - 1)
        /\ \A i \in 1 .. m - 1, a \in 1 .. n : p[Place(n, i, a)] = seqs[i][a]
    BY <2>2, <2>3
  <2>5. f[m] = p \o seqs[m]
    BY <1>2, <1>6, <1>9, <2>3
  <2>6. f[m] \in Seq(S) /\ Len(f[m]) = n * m
    BY <1>6, <1>7, <2>4, <2>5
  <2>7. ASSUME NEW i \in 1 .. m, NEW a \in 1 .. n
        PROVE  f[m][Place(n, i, a)] = seqs[i][a]
    <3>1. CASE i = m
      <4>1. Place(n, i, a) \in Len(p) + 1 .. Len(p) + Len(seqs[m])
        BY <1>6, <1>7, <2>4, <3>1 DEF Place
      <4>2. f[m][Place(n, i, a)] = seqs[m][Place(n, i, a) - Len(p)]
        <5>1. PICK q, x : q \in Seq(S) /\ q = seqs[m] /\ x = Place(n, i, a)
          BY <1>7
        <5>2. x \in Len(p) + 1 .. Len(p) + Len(q)
          BY <4>1, <5>1
        <5>3. (p \o q)[x] = q[x - Len(p)]
          BY <2>4, <5>1, <5>2, SecondHalf
        <5>4. f[m] = p \o q
          BY <2>5, <5>1
        <5> QED BY <5>1, <5>3, <5>4, Zenon
      <4>3. Place(n, i, a) - Len(p) = a
        BY <1>6, <2>4, <3>1 DEF Place
      <4> QED BY <3>1, <4>2, <4>3
    <3>2. CASE i # m
      <4>1. i \in 1 .. m - 1 /\ Place(n, i, a) \in 1 .. Len(p)
        <5>1. i \in 1 .. m - 1 /\ a \in 1 .. n /\ m \in Nat
          BY <1>6, <3>2
        <5>2. CASE n = 2
          BY <2>4, <5>1, <5>2 DEF Place
        <5>3. CASE n = 3
          BY <2>4, <5>1, <5>3 DEF Place
        <5> QED BY <5>1, <5>2, <5>3
      <4>2. f[m][Place(n, i, a)] = p[Place(n, i, a)]
        BY <1>7, <2>4, <2>5, <4>1
      <4> QED BY <2>4, <4>1, <4>2
    <3> QED BY <3>1, <3>2
  <2> QED BY <1>6, <2>6, <2>7
<1> QED BY <1>8, <1>9

-----------------------------------------------------------------------------
(* The block matrices *)

\* The arms of a matrix, and the arms of a group, forwards or backwards.
ArmsOf(k) == ToSet(BM_ARMS(k))
Order(k, g) == IF g % 2 = 1 THEN BM_ARMS(k) ELSE Reverse(BM_ARMS(k))
Blocks(k) == [arm : ArmsOf(k), group : 0 .. BM_GROUPS - 1]

\* Forwards or backwards, a group has every arm once.
LEMMA OneTurn ==
  ASSUME NEW k \in BM_Kinds, NEW g \in 1 .. BM_GROUPS
  PROVE  /\ Len(BM_ARMS(k)) \in {2, 3}
         /\ Order(k, g) \in Seq(ArmsOf(k))
         /\ Len(Order(k, g)) = Len(BM_ARMS(k))
         /\ \A a, b \in 1 .. Len(BM_ARMS(k)) :
              Order(k, g)[a] = Order(k, g)[b] => a = b
         /\ \A arm \in ArmsOf(k) :
              \E a \in 1 .. Len(BM_ARMS(k)) : Order(k, g)[a] = arm
<1>1. CASE k = "e1"
  <2>1. PICK arms : arms = <<"B", "C">>
    OBVIOUS
  <2>2. Len(arms) = 2 /\ arms[1] = "B" /\ arms[2] = "C" /\ ToSet(arms) = {"B", "C"}
    BY <2>1 DEF ToSet
  <2>3. BM_ARMS(k) = arms
    BY <1>1, <2>1 DEF BM_ARMS
  <2>4. CASE g % 2 = 1
    BY <2>1, <2>2, <2>3, <2>4 DEF Order, ArmsOf
  <2>5. CASE g % 2 # 1
    <3>1. PICK back : back = Reverse(arms)
      OBVIOUS
    <3>2. /\ back \in Seq({"B", "C"}) /\ Len(back) = 2
          /\ back[1] = "C" /\ back[2] = "B"
      BY <2>1, <2>2, <3>1 DEF Reverse
    <3>3. Order(k, g) = back
      BY <2>3, <2>5, <3>1 DEF Order
    <3>4. /\ \A a, b \in 1 .. 2 : back[a] = back[b] => a = b
          /\ \A arm \in {"B", "C"} : \E a \in 1 .. 2 : back[a] = arm
      BY <3>2
    <3> QED BY <2>2, <2>3, <3>2, <3>3, <3>4 DEF ArmsOf
  <2> QED BY <2>4, <2>5
<1>2. CASE k # "e1"
  <2>1. PICK arms : arms = <<"B", "S", "A">>
    OBVIOUS
  <2>2. /\ Len(arms) = 3 /\ arms[1] = "B" /\ arms[2] = "S" /\ arms[3] = "A"
        /\ ToSet(arms) = {"B", "S", "A"}
    BY <2>1 DEF ToSet
  <2>3. BM_ARMS(k) = arms
    BY <1>2, <2>1 DEF BM_ARMS
  <2>4. CASE g % 2 = 1
    BY <2>1, <2>2, <2>3, <2>4 DEF Order, ArmsOf
  <2>5. CASE g % 2 # 1
    <3>1. PICK back : back = Reverse(arms)
      OBVIOUS
    <3>2. /\ back \in Seq({"B", "S", "A"}) /\ Len(back) = 3
          /\ back[1] = "A" /\ back[2] = "S" /\ back[3] = "B"
      BY <2>1, <2>2, <3>1 DEF Reverse
    <3>3. Order(k, g) = back
      BY <2>3, <2>5, <3>1 DEF Order
    <3>4. /\ \A a, b \in 1 .. 3 : back[a] = back[b] => a = b
          /\ \A arm \in {"B", "S", "A"} : \E a \in 1 .. 3 : back[a] = arm
      BY <3>2
    <3>5. ArmsOf(k) = {"B", "S", "A"} /\ Len(BM_ARMS(k)) = 3
      BY <2>2, <2>3 DEF ArmsOf
    <3> QED BY <3>2, <3>3, <3>4, <3>5
  <2> QED BY <2>4, <2>5
<1> QED BY <1>1, <1>2

\* The sequence by group and place: g counts from 1.
LEMMA BlockAt ==
  ASSUME NEW k \in BM_Kinds, NEW n, n = Len(BM_ARMS(k))
  PROVE  /\ SEQUENCE(k) \in Seq(Blocks(k))
         /\ Len(SEQUENCE(k)) = n * BM_GROUPS
         /\ \A g \in 1 .. BM_GROUPS, a \in 1 .. n :
              SEQUENCE(k)[Place(n, g, a)] = [arm |-> Order(k, g)[a], group |-> g - 1]
<1> DEFINE row(g) == [a \in DOMAIN Order(k, g) |->
                       [arm |-> Order(k, g)[a], group |-> g - 1]]
           rows == [g \in 1 .. BM_GROUPS |-> row(g)]
<1>1. BM_GROUPS \in Nat /\ BM_GROUPS # 0
  BY BlockAssumption
<1>2. ASSUME NEW g \in 1 .. BM_GROUPS
      PROVE  /\ row(g) \in Seq(Blocks(k)) /\ Len(row(g)) = n
             /\ \A a \in 1 .. n : row(g)[a] = [arm |-> Order(k, g)[a], group |-> g - 1]
  <2>1. /\ Order(k, g) \in Seq(ArmsOf(k)) /\ DOMAIN Order(k, g) = 1 .. n
        /\ n \in Nat
    BY OneTurn
  <2>2. \A a \in 1 .. n :
          [arm |-> Order(k, g)[a], group |-> g - 1] \in Blocks(k)
    BY <1>1, <2>1 DEF Blocks
  <2> QED BY <2>1, <2>2
<1>3. SEQUENCE(k) = FlattenSeq(rows)
  BY Zenon DEF SEQUENCE, Order
<1> HIDE DEF row
<1>4. /\ rows \in Seq(Seq(Blocks(k))) /\ Len(rows) = BM_GROUPS
      /\ \A g \in 1 .. BM_GROUPS : rows[g] = row(g) /\ Len(rows[g]) = n
  BY <1>1, <1>2
<1>5. n \in {2, 3}
  <2>1. 1 \in 1 .. BM_GROUPS
    BY <1>1
  <2> QED BY <2>1, OneTurn
<1> HIDE DEF rows
<1>6. /\ FlattenSeq(rows) \in Seq(Blocks(k))
      /\ Len(FlattenSeq(rows)) = n * BM_GROUPS
      /\ \A g \in 1 .. BM_GROUPS, a \in 1 .. n :
           FlattenSeq(rows)[Place(n, g, a)] = rows[g][a]
  <2>1. Len(rows) # 0 /\ \A i \in 1 .. Len(rows) : Len(rows[i]) = n
    BY <1>1, <1>4
  <2>2. FlattenSeq(rows) \in Seq(Blocks(k)) /\ RowByRow(FlattenSeq(rows), rows, n)
    BY <1>4, <1>5, <2>1, FlattenRows, Zenon
  <2> QED BY <1>4, <2>2 DEF RowByRow
<1>7. ASSUME NEW g \in 1 .. BM_GROUPS, NEW a \in 1 .. n
      PROVE  rows[g][a] = [arm |-> Order(k, g)[a], group |-> g - 1]
  BY <1>2, <1>4
<1> QED BY <1>3, <1>6, <1>7

\* Group by group, each arm once: an arm's blocks have the groups in order,
\* every arm has every group, and the last block is of the last group.
LEMMA TurnByTurn ==
  ASSUME NEW k \in BM_Kinds, NEW seq, seq = SEQUENCE(k)
  PROVE  /\ seq \in Seq(Blocks(k)) /\ Len(seq) # 0
         /\ \A i, j \in 1 .. Len(seq) : i < j =>
              /\ seq[i].group <= seq[j].group
              /\ seq[i].arm = seq[j].arm => seq[i].group < seq[j].group
         /\ \A arm \in ArmsOf(k), g \in 0 .. BM_GROUPS - 1 :
              \E i \in 1 .. Len(seq) : seq[i] = [arm |-> arm, group |-> g]
         /\ seq[Len(seq)].group = BM_GROUPS - 1
<1>1. BM_GROUPS \in Nat /\ BM_GROUPS >= 2
  BY BlockAssumption
<1>2. PICK n : n = Len(BM_ARMS(k))
  OBVIOUS
<1>3. n \in {2, 3}
  <2>1. 1 \in 1 .. BM_GROUPS
    BY <1>1
  <2> QED BY <1>2, <2>1, OneTurn
<1>4. /\ seq \in Seq(Blocks(k)) /\ Len(seq) = n * BM_GROUPS
      /\ \A g \in 1 .. BM_GROUPS, a \in 1 .. n :
           seq[Place(n, g, a)] = [arm |-> Order(k, g)[a], group |-> g - 1]
  BY <1>2, BlockAt
<1>5. ASSUME NEW g \in 1 .. BM_GROUPS, NEW a \in 1 .. n
      PROVE  Place(n, g, a) \in 1 .. Len(seq)
  <2>1. CASE n = 2
    BY <1>1, <1>4, <2>1 DEF Place
  <2>2. CASE n = 3
    BY <1>1, <1>4, <2>2 DEF Place
  <2> QED BY <1>3, <2>1, <2>2
<1>6. ASSUME NEW i \in 1 .. Len(seq)
      PROVE  \E g \in 1 .. BM_GROUPS, a \in 1 .. n : i = Place(n, g, a)
  <2>1. CASE n = 2
    <3>1. PICK g, a : g = ((i - 1) \div 2) + 1 /\ a = ((i - 1) % 2) + 1
      OBVIOUS
    <3>2. g \in 1 .. BM_GROUPS /\ a \in 1 .. n /\ i = 2 * (g - 1) + a
      BY <1>1, <1>4, <2>1, <3>1
    <3> QED BY <2>1, <3>2 DEF Place
  <2>2. CASE n = 3
    <3>1. PICK g, a : g = ((i - 1) \div 3) + 1 /\ a = ((i - 1) % 3) + 1
      OBVIOUS
    <3>2. g \in 1 .. BM_GROUPS /\ a \in 1 .. n /\ i = 3 * (g - 1) + a
      BY <1>1, <1>4, <2>2, <3>1
    <3> QED BY <2>2, <3>2 DEF Place
  <2> QED BY <1>3, <2>1, <2>2
<1>7. ASSUME NEW i \in 1 .. Len(seq), NEW j \in 1 .. Len(seq), i < j
      PROVE  /\ seq[i].group <= seq[j].group
             /\ seq[i].arm = seq[j].arm => seq[i].group < seq[j].group
  <2>1. PICK g \in 1 .. BM_GROUPS, a \in 1 .. n : i = Place(n, g, a)
    BY <1>6
  <2>2. PICK h \in 1 .. BM_GROUPS, b \in 1 .. n : j = Place(n, h, b)
    BY <1>6
  <2>3. g <= h /\ (g = h => a # b)
    <3>1. CASE n = 2
      BY <1>1, <1>7, <2>1, <2>2, <3>1 DEF Place
    <3>2. CASE n = 3
      BY <1>1, <1>7, <2>1, <2>2, <3>2 DEF Place
    <3> QED BY <1>3, <3>1, <3>2
  <2>4. /\ seq[i] = [arm |-> Order(k, g)[a], group |-> g - 1]
        /\ seq[j] = [arm |-> Order(k, h)[b], group |-> h - 1]
    BY <1>4, <2>1, <2>2
  <2>5. g = h => seq[i].arm # seq[j].arm
    BY <1>2, <2>3, <2>4, OneTurn
  <2> QED BY <1>1, <2>3, <2>4, <2>5
<1>8. ASSUME NEW arm \in ArmsOf(k), NEW g \in 0 .. BM_GROUPS - 1
      PROVE  \E i \in 1 .. Len(seq) : seq[i] = [arm |-> arm, group |-> g]
  <2>1. PICK h \in 1 .. BM_GROUPS : g = h - 1
    BY <1>1
  <2>2. PICK a \in 1 .. n : Order(k, h)[a] = arm
    BY <1>2, OneTurn
  <2>3. Place(n, h, a) \in 1 .. Len(seq)
    BY <1>5
  <2> QED BY <1>4, <2>1, <2>2, <2>3
<1>9. Len(seq) # 0 /\ seq[Len(seq)].group = BM_GROUPS - 1
  <2>1. n \in 1 .. n /\ BM_GROUPS \in 1 .. BM_GROUPS
    BY <1>1, <1>3
  <2>2. Len(seq) = Place(n, BM_GROUPS, n)
    <3>1. CASE n = 2
      BY <1>1, <1>4, <3>1 DEF Place
    <3>2. CASE n = 3
      BY <1>1, <1>4, <3>2 DEF Place
    <3> QED BY <1>3, <3>1, <3>2
  <2>3. Len(seq) # 0
    BY <1>5, <2>1, <2>2
  <2>4. seq[Place(n, BM_GROUPS, n)]
          = [arm |-> Order(k, BM_GROUPS)[n], group |-> BM_GROUPS - 1]
    BY <1>4, <2>1
  <2> QED BY <2>2, <2>3, <2>4
<1> QED BY <1>4, <1>7, <1>8, <1>9

\* What the files and the memory of a matrix hold.
Chunk == [group : 0 .. BM_GROUPS - 1, payload : {64, 192},
          messages : {"registered", "other"}, code : {None, 0, 1}]
BlockRan == [round : Blocks(kind), flaw : {None, "running", "exit", "counts"},
             build : {None} \cup Int]

BlockTypes ==
  /\ build \in Nat /\ next \in Nat
  /\ pc \in Stopped \cup {"next", "block"}
  /\ ran \in Seq(BlockRan)
  /\ DOMAIN disk = {"experiment", "arms"} /\ DOMAIN disk.arms = ArmsOf(kind)
  /\ \A arm \in ArmsOf(kind) :
       /\ DOMAIN disk.arms[arm] = {"client", "setenv", "payload", "messages",
                                   "done", "counts", "chunk"}
       /\ disk.arms[arm].done \in 0 .. BM_GROUPS
       /\ disk.arms[arm].counts \in BOOLEAN
       /\ disk.arms[arm].chunk \in {None} \cup Chunk

\* The registered clients and sequence are in memory and in the manifest.
AsRegistered ==
  /\ pc \in {"next", "block"} =>
       /\ DOMAIN mem = {"payload", "messages", "sequence", "clients", "blocks",
                        "finished"}
       /\ mem.payload \in {64, 192} /\ mem.messages \in {"registered", "other"}
       /\ mem.sequence = SEQUENCE(kind)
       /\ mem.clients = [arm \in ArmsOf(kind) |-> Registered(arm)]
  /\ disk.experiment # None =>
       disk.experiment.clients = [arm \in ArmsOf(kind) |-> Registered(arm)]

\* The blocks that ran are a prefix of the sequence, and only the last can
\* still run or have failed.
BlocksInOrder ==
  /\ Len(ran) <= Len(SEQUENCE(kind))
  /\ \A k \in 1 .. Len(ran) : ran[k].round = SEQUENCE(kind)[k]
  /\ \A k \in 1 .. Len(ran) - 1 : ran[k].flaw \in {None, "counts"}
  /\ pc = "off" => Len(ran) = 0 /\ next = 1
  /\ pc = "next" => Len(ran) = next - 1
  /\ pc = "block" => Len(ran) = next

Latest(k) == \A j \in 1 .. Len(ran) : ran[j].round.arm = ran[k].round.arm => j <= k

\* What a directory shows of the latest block of its arm.
Tells(dir, block) ==
  /\ dir.chunk.group = block.round.group
  /\ dir.chunk.code = IF block.flaw = "running" THEN None
                      ELSE IF block.flaw = "exit" THEN 1 ELSE 0
  /\ dir.done = block.round.group
                 + IF block.flaw \in {None, "counts"} THEN 1 ELSE 0

\* An arm's directory tells how its latest block went, how many went well
\* before it, and that all of those ran its client.
ArmsTell ==
  /\ \A arm \in ArmsOf(kind) :
       (\A k \in 1 .. Len(ran) : ran[k].round.arm # arm) =>
         disk.arms[arm].chunk = None /\ disk.arms[arm].done = 0
  /\ \A k \in 1 .. Len(ran) :
       Latest(k) => Tells(disk.arms[ran[k].round.arm], ran[k])
  /\ pc = "next" => \A k \in 1 .. Len(ran) : ran[k].flaw \in {None, "counts"}
  /\ \A k \in 1 .. Len(ran) :
       LET dir == disk.arms[ran[k].round.arm]
       IN /\ ran[k].flaw = "counts" => ~dir.counts
          /\ ran[k].flaw \in {None, "counts"} => ran[k].build = dir.client

\* What is inductive of the block matrices.
BlockInv ==
  kind \in BM_Kinds =>
    /\ BlockTypes /\ AsRegistered /\ BlocksInOrder /\ ArmsTell
    /\ BM_ReportIsSound

\* An arm that ran has a latest block.
LEMMA LatestExists ==
  ASSUME ran \in Seq(BlockRan), NEW k \in 1 .. Len(ran)
  PROVE  \E l \in 1 .. Len(ran) :
           Latest(l) /\ ran[l].round.arm = ran[k].round.arm
<1> DEFINE own == {j \in 1 .. Len(ran) : ran[j].round.arm = ran[k].round.arm}
           after == {Len(ran) - j : j \in own}
<1>1. Len(ran) \in Nat
  OBVIOUS
<1>2. after \subseteq Nat /\ after # {}
  <2>1. k \in own
    OBVIOUS
  <2> QED BY <1>1, <2>1
<1>3. PICK x \in after : \A y \in after : x <= y
  BY <1>2, LeastNatural
<1>4. PICK l \in own : x = Len(ran) - l
  OBVIOUS
<1>5. ASSUME NEW j \in 1 .. Len(ran), ran[j].round.arm = ran[l].round.arm
      PROVE  j <= l
  <2>1. j \in own
    BY <1>5
  <2>2. x <= Len(ran) - j
    BY <1>3, <2>1
  <2> QED BY <1>1, <1>4, <2>2
<1> QED BY <1>5 DEF Latest

\* A step that changes no directory and no block.
LEMMA SameBlocks ==
  ASSUME kind \in BM_Kinds, BlockTypes, BlocksInOrder, ArmsTell,
         kind' = kind, ran' = ran, disk'.arms = disk.arms,
         \/ pc' = pc /\ next' = next
         \/ pc' \in Stopped \ {"off"}
  PROVE  BlocksInOrder' /\ ArmsTell'
<1>1. BlocksInOrder'
  BY DEF BlocksInOrder, Stopped
<1>2. ArmsTell'
  BY DEF ArmsTell, Latest, Stopped
<1> QED BY <1>1, <1>2

\* A report stays true while nothing runs.
LEMMA SameReport ==
  ASSUME BM_ReportIsSound, kind' = kind, ran' = ran, verdict' = verdict
  PROVE  BM_ReportIsSound'
  BY DEF BM_ReportIsSound, BM_ReportIsWhole, BM_OneClientPerArm, BM_Reported,
         Registered

\* The manifest of a block matrix registers the sequence and the clients.
LEMMA MatrixBegins ==
  ASSUME kind \in BM_Kinds, BlockTypes, AsRegistered, BlocksInOrder, ArmsTell,
         BM_ReportIsSound, BM_Start
  PROVE  /\ BlockTypes' /\ AsRegistered' /\ BlocksInOrder' /\ ArmsTell'
         /\ BM_ReportIsSound'
<1>1. PICK payload \in {64, 192}, messages \in {"registered", "other"} :
        /\ mem' = [payload |-> payload, messages |-> messages,
                   sequence |-> SEQUENCE(kind),
                   clients |-> [arm \in ArmsOf(kind) |-> ClientOf(arm)],
                   blocks |-> <<>>, finished |-> FALSE]
        /\ disk' = [disk EXCEPT !.experiment = mem']
  BY DEF BM_Start, ArmsOf
<1>2. /\ pc = "off" /\ build = 0 /\ pc' = "next" /\ kind' = kind
      /\ next' = next /\ ran' = ran /\ build' = build /\ verdict' = verdict
  BY DEF BM_Start
<1>3. /\ DOMAIN disk' = DOMAIN disk /\ disk'.arms = disk.arms
      /\ disk'.experiment = mem'
  BY <1>1 DEF BlockTypes
<1>4. BlockTypes'
  BY <1>2, <1>3 DEF BlockTypes, BlockRan, Stopped
<1>5. mem'.clients = [arm \in ArmsOf(kind) |-> Registered(arm)]
  BY <1>1, <1>2 DEF ClientOf, Registered
<1>6. AsRegistered'
  BY <1>1, <1>2, <1>3, <1>5 DEF AsRegistered, Registered
<1>7. BlocksInOrder'
  BY <1>2 DEF BlocksInOrder, BlockTypes
<1>8. ArmsTell'
  BY <1>2, <1>3 DEF ArmsTell, BlocksInOrder, Latest
<1> QED BY <1>2, <1>4, <1>6, <1>7, <1>8, SameReport

\* What a launch finds in the directory of its arm: the groups before its own,
\* all of them well.
LEMMA GroupsBefore ==
  ASSUME kind \in BM_Kinds, BlockTypes, BlocksInOrder, ArmsTell,
         NEW seq, seq = SEQUENCE(kind), pc = "next", next <= Len(seq)
  PROVE  /\ disk.arms[seq[next].arm].done = seq[next].group
         /\ \A k \in 1 .. Len(ran) : ran[k].round.arm = seq[next].arm =>
              ran[k].round.group < seq[next].group
<1>1. /\ seq \in Seq(Blocks(kind))
      /\ \A i, j \in 1 .. Len(seq) : i < j =>
           /\ seq[i].group <= seq[j].group
           /\ seq[i].arm = seq[j].arm => seq[i].group < seq[j].group
      /\ \A arm \in ArmsOf(kind), g \in 0 .. BM_GROUPS - 1 :
           \E i \in 1 .. Len(seq) : seq[i] = [arm |-> arm, group |-> g]
  BY TurnByTurn
<1>2. /\ ran \in Seq(BlockRan) /\ Len(ran) = next - 1 /\ next \in 1 .. Len(seq)
      /\ \A k \in 1 .. Len(ran) : ran[k].round = seq[k]
      /\ \A k \in 1 .. Len(ran) : ran[k].flaw \in {None, "counts"}
  BY DEF BlockTypes, BlocksInOrder, ArmsTell
<1>3. PICK arm, g : arm = seq[next].arm /\ g = seq[next].group
  OBVIOUS
<1>4. arm \in ArmsOf(kind) /\ g \in 0 .. BM_GROUPS - 1 /\ BM_GROUPS \in Nat
  <2>1. seq[next] \in Blocks(kind)
    BY <1>1, <1>2
  <2> QED BY <1>3, <2>1, BlockAssumption DEF Blocks
<1>5. ASSUME NEW k \in 1 .. Len(ran), ran[k].round.arm = arm
      PROVE  ran[k].round.group < g
  <2>1. k \in 1 .. Len(seq) /\ k < next /\ seq[k].arm = seq[next].arm
    BY <1>2, <1>3, <1>5
  <2> QED BY <1>1, <1>2, <1>3, <2>1
<1>6. disk.arms[arm].done = g
  <2>1. CASE g = 0
    <3>1. ASSUME NEW k \in 1 .. Len(ran), ran[k].round.arm = arm PROVE FALSE
      <4>1. seq[k] \in Blocks(kind) /\ ran[k].round = seq[k]
        BY <1>1, <1>2
      <4>2. ran[k].round.group \in 0 .. BM_GROUPS - 1
        BY <4>1 DEF Blocks
      <4> QED BY <1>4, <1>5, <2>1, <3>1, <4>2
    <3> QED BY <1>4, <2>1, <3>1 DEF ArmsTell
  <2>2. CASE g # 0
    <3>1. g - 1 \in 0 .. BM_GROUPS - 1
      BY <1>4, <2>2
    <3>2. PICK i \in 1 .. Len(seq) : seq[i] = [arm |-> arm, group |-> g - 1]
      BY <1>1, <1>4, <3>1
    <3>3. i < next
      <4>1. seq[i].group < seq[next].group /\ seq[i].arm = seq[next].arm
        BY <1>3, <1>4, <3>2
      <4>2. CASE next < i
        <5>1. seq[next].group < seq[i].group
          BY <1>1, <1>2, <4>1, <4>2
        <5> QED BY <1>3, <1>4, <3>2, <5>1
      <4>3. CASE next = i
        BY <1>3, <1>4, <3>2, <4>1, <4>3
      <4> QED BY <1>2, <4>2, <4>3
    <3>4. i \in 1 .. Len(ran) /\ ran[i].round = [arm |-> arm, group |-> g - 1]
      BY <1>2, <3>2, <3>3
    <3>5. Latest(i)
      <4> SUFFICES ASSUME NEW j \in 1 .. Len(ran),
                          ran[j].round.arm = ran[i].round.arm, i < j
                   PROVE  FALSE
        BY <3>4 DEF Latest
      <4>1. seq[j].arm = arm /\ seq[i].arm = arm /\ j \in 1 .. Len(seq)
        BY <1>2, <3>2, <3>4
      <4>2. seq[i].group < seq[j].group
        BY <1>1, <3>2, <4>1
      <4>3. ran[j].round.group < g
        BY <1>5, <3>4
      <4>4. seq[j].group \in Int
        <5>1. seq[j] \in Blocks(kind)
          BY <1>1, <4>1
        <5> QED BY <1>4, <5>1 DEF Blocks
      <4> QED BY <1>2, <1>4, <3>2, <4>2, <4>3, <4>4
    <3>6. disk.arms[arm].done = g - 1 + 1
      <4>1. ran[i].flaw \in {None, "counts"}
        BY <1>2, <3>4
      <4> QED BY <3>4, <3>5, <4>1 DEF ArmsTell, Tells
    <3> QED BY <1>4, <3>6
  <2> QED BY <2>1, <2>2
<1> QED BY <1>3, <1>5, <1>6

\* The next chunk of an arm: no earlier block of the arm is left running.
LEMMA BlockLaunched ==
  ASSUME kind \in BM_Kinds, BlockTypes, AsRegistered, BlocksInOrder, ArmsTell,
         BM_ReportIsSound, BM_Launch
  PROVE  /\ BlockTypes' /\ AsRegistered' /\ BlocksInOrder' /\ ArmsTell'
         /\ BM_ReportIsSound'
<1>1. PICK seq : seq = SEQUENCE(kind)
  OBVIOUS
<1>2. /\ pc = "next" /\ pc' = "block" /\ mem.sequence = seq /\ next <= Len(seq)
      /\ kind' = kind /\ next' = next /\ mem' = mem /\ build' = build
      /\ verdict' = verdict
  BY <1>1 DEF BM_Launch, AsRegistered
<1>3. /\ ran \in Seq(BlockRan) /\ Len(ran) = next - 1 /\ next \in 1 .. Len(seq)
      /\ \A k \in 1 .. Len(ran) : ran[k].round = seq[k]
      /\ \A k \in 1 .. Len(ran) : ran[k].flaw \in {None, "counts"}
  BY <1>1, <1>2 DEF BlockTypes, BlocksInOrder, ArmsTell
<1>4. PICK block : block = seq[next]
  OBVIOUS
<1>5. PICK arm, group : arm = block.arm /\ group = block.group
  OBVIOUS
<1>6. /\ block \in Blocks(kind) /\ arm \in ArmsOf(kind)
      /\ group \in 0 .. BM_GROUPS - 1
  <2>1. seq \in Seq(Blocks(kind))
    BY <1>1, TurnByTurn
  <2>2. block \in Blocks(kind)
    BY <1>3, <1>4, <2>1
  <2> QED BY <1>5, <2>2 DEF Blocks
<1>7. PICK chunk : chunk = [group |-> group, payload |-> mem.payload,
                            messages |-> mem.messages, code |-> None]
  OBVIOUS
<1>8. PICK new : new = [round |-> block, flaw |-> "running", build |-> None]
  OBVIOUS
<1>9. /\ disk' = [disk EXCEPT !.arms[arm].chunk = chunk]
      /\ ran' = Append(ran, new)
  BY <1>2, <1>4, <1>5, <1>7, <1>8 DEF BM_Launch
<1>10. chunk \in Chunk /\ new \in BlockRan
  BY <1>2, <1>6, <1>7, <1>8 DEF Chunk, BlockRan, AsRegistered
<1>11. PICK dir : dir = disk.arms[arm]
  OBVIOUS
<1>12. PICK new_dir : new_dir = [dir EXCEPT !.chunk = chunk]
  OBVIOUS
<1>13. /\ DOMAIN new_dir = DOMAIN dir /\ new_dir.chunk = chunk
       /\ new_dir.done = dir.done /\ new_dir.counts = dir.counts
       /\ new_dir.client = dir.client
  BY <1>6, <1>11, <1>12 DEF BlockTypes
<1>14. disk' = [disk EXCEPT !.arms = [disk.arms EXCEPT ![arm] = new_dir]]
  BY <1>9, <1>11, <1>12
<1>15. /\ DOMAIN disk' = DOMAIN disk /\ DOMAIN disk'.arms = DOMAIN disk.arms
       /\ disk'.experiment = disk.experiment
       /\ \A a \in ArmsOf(kind) :
            disk'.arms[a] = IF a = arm THEN new_dir ELSE disk.arms[a]
  BY <1>6, <1>14 DEF BlockTypes
<1>16. /\ ran' \in Seq(BlockRan) /\ Len(ran') = next /\ ran'[next] = new
       /\ \A k \in 1 .. Len(ran) : ran'[k] = ran[k]
  BY <1>3, <1>9, <1>10
<1>17. dir.done = group
       /\ \A k \in 1 .. Len(ran) : ran[k].round.arm = arm =>
            ran[k].round.group < group
  BY <1>1, <1>2, <1>4, <1>5, <1>11, GroupsBefore
<1>18. BlockTypes'
  <2>1. \A a \in ArmsOf(kind) :
          /\ DOMAIN disk'.arms[a] = {"client", "setenv", "payload", "messages",
                                     "done", "counts", "chunk"}
          /\ disk'.arms[a].done \in 0 .. BM_GROUPS
          /\ disk'.arms[a].counts \in BOOLEAN
          /\ disk'.arms[a].chunk \in {None} \cup Chunk
    BY <1>6, <1>10, <1>11, <1>13, <1>15 DEF BlockTypes
  <2>2. BlockRan' = BlockRan
    BY <1>2 DEF BlockRan
  <2> QED BY <1>2, <1>15, <1>16, <2>1, <2>2 DEF BlockTypes
<1>19. AsRegistered'
  BY <1>2, <1>15 DEF AsRegistered, Registered
<1>20. BlocksInOrder'
  BY <1>1, <1>2, <1>3, <1>4, <1>8, <1>16 DEF BlocksInOrder, BlockTypes
<1>21. ArmsTell'
  <2>1. ASSUME NEW a \in ArmsOf(kind),
               \A k \in 1 .. Len(ran') : ran'[k].round.arm # a
        PROVE  disk'.arms[a].chunk = None /\ disk'.arms[a].done = 0
    <3>1. a # arm
      BY <1>3, <1>5, <1>8, <1>16, <2>1
    <3>2. \A k \in 1 .. Len(ran) : ran[k].round.arm # a
      BY <1>3, <1>16, <2>1
    <3> QED BY <1>15, <3>1, <3>2 DEF ArmsTell
  <2>2. ASSUME NEW k \in 1 .. Len(ran), Latest(k)'
        PROVE  Latest(k) /\ ran[k].round.arm # arm
    <3>1. ran'[next].round.arm = arm /\ next \in 1 .. Len(ran') /\ k < next
      BY <1>3, <1>5, <1>8, <1>16
    <3>2. ran[k].round.arm # arm
      BY <1>3, <1>16, <2>2, <3>1 DEF Latest
    <3>3. Latest(k)
      BY <1>3, <1>16, <2>2 DEF Latest
    <3> QED BY <3>2, <3>3
  <2>3. \A k \in 1 .. Len(ran) : ran[k].round.arm \in ArmsOf(kind)
    <3> SUFFICES ASSUME NEW k \in 1 .. Len(ran)
                 PROVE  ran[k].round.arm \in ArmsOf(kind)
      OBVIOUS
    <3>1. ran[k] \in BlockRan
      BY <1>3
    <3> QED BY <3>1 DEF BlockRan, Blocks
  <2>4. ASSUME NEW k \in 1 .. Len(ran'), Latest(k)'
        PROVE  Tells(disk'.arms[ran'[k].round.arm], ran'[k])
    <3>1. CASE k = next
      <4>1. disk'.arms[ran'[k].round.arm] = new_dir
        BY <1>5, <1>6, <1>8, <1>15, <1>16, <3>1
      <4>2. ran'[k].flaw = "running" /\ ran'[k].round.group = group
        BY <1>5, <1>8, <1>16, <3>1
      <4>3. new_dir.chunk.group = group /\ new_dir.chunk.code = None
        BY <1>7, <1>13
      <4>4. "running" \notin {None, "counts"}
        BY BlockAssumption
      <4>5. new_dir.done = group + 0
        BY <1>6, <1>13, <1>17
      <4> QED BY <4>1, <4>2, <4>3, <4>4, <4>5 DEF Tells
    <3>2. CASE k # next
      <4>1. k \in 1 .. Len(ran) /\ ran'[k] = ran[k]
        BY <1>3, <1>16, <3>2
      <4>2. disk'.arms[ran[k].round.arm] = disk.arms[ran[k].round.arm]
        BY <1>15, <2>2, <2>3, <2>4, <4>1
      <4>3. Latest(k)
        BY <2>2, <2>4, <4>1
      <4> QED BY <4>1, <4>2, <4>3 DEF ArmsTell
    <3> QED BY <3>1, <3>2
  <2>5. ASSUME NEW k \in 1 .. Len(ran')
        PROVE  /\ ran'[k].flaw = "counts" => ~disk'.arms[ran'[k].round.arm].counts
               /\ ran'[k].flaw \in {None, "counts"} =>
                    ran'[k].build = disk'.arms[ran'[k].round.arm].client
    <3>1. CASE k = next
      <4>1. ran'[k].flaw = "running" /\ "running" \notin {None, "counts"}
        BY <1>8, <1>16, <3>1, BlockAssumption
      <4> QED BY <4>1
    <3>2. CASE k # next
      <4>1. k \in 1 .. Len(ran) /\ ran'[k] = ran[k]
        BY <1>3, <1>16, <3>2
      <4>2. /\ disk'.arms[ran[k].round.arm].counts = disk.arms[ran[k].round.arm].counts
            /\ disk'.arms[ran[k].round.arm].client = disk.arms[ran[k].round.arm].client
        BY <1>11, <1>13, <1>15, <2>3, <4>1
      <4> QED BY <4>1, <4>2 DEF ArmsTell
    <3> QED BY <3>1, <3>2
  <2> QED BY <1>2, <2>1, <2>4, <2>5 DEF ArmsTell
<1>22. BM_ReportIsSound'
  <2>1. ~BM_Reported
    <3> SUFFICES ASSUME [k \in DOMAIN ran |-> ran[k].round] = seq PROVE FALSE
      BY <1>1 DEF BM_ReportIsSound, BM_ReportIsWhole
    <3>1. DOMAIN ran = DOMAIN seq
      OBVIOUS
    <3>2. DOMAIN ran = 1 .. next - 1 /\ DOMAIN seq = 1 .. Len(seq) /\ Len(seq) \in Nat
      BY <1>1, <1>3, TurnByTurn
    <3> QED BY <1>3, <3>1, <3>2
  <2> QED
    BY <1>2, <2>1 DEF BM_ReportIsSound, BM_ReportIsWhole, BM_OneClientPerArm,
       BM_Reported
<1> QED BY <1>18, <1>19, <1>20, <1>21, <1>22

\* A chunk that has not ended is the last block's.
LEMMA RunningIsLast ==
  ASSUME kind \in BM_Kinds, BlockTypes, BlocksInOrder, ArmsTell,
         NEW arm \in ArmsOf(kind),
         disk.arms[arm].chunk # None, disk.arms[arm].chunk.code = None
  PROVE  /\ Len(ran) \in 1 .. Len(ran) /\ Latest(Len(ran))
         /\ ran[Len(ran)].round.arm = arm /\ ran[Len(ran)].flaw = "running"
<1>1. ran \in Seq(BlockRan) /\ Len(ran) \in Nat
  BY DEF BlockTypes
<1>2. PICK k \in 1 .. Len(ran) : ran[k].round.arm = arm
  BY DEF ArmsTell
<1>3. PICK l \in 1 .. Len(ran) : Latest(l) /\ ran[l].round.arm = arm
  BY <1>1, <1>2, LatestExists
<1>4. Tells(disk.arms[arm], ran[l])
  BY <1>3 DEF ArmsTell
<1>5. ran[l].flaw = "running"
  BY <1>4, BlockAssumption DEF Tells
<1>6. l = Len(ran)
  <2>1. "running" \notin {None, "counts"}
    BY BlockAssumption
  <2> QED BY <1>1, <1>3, <1>5, <2>1 DEF BlocksInOrder
<1> QED BY <1>3, <1>5, <1>6

\* A chunk ends, under its orchestrator or after it.
LEMMA ChunkEnded ==
  ASSUME kind \in BM_Kinds, BlockTypes, AsRegistered, BlocksInOrder, ArmsTell,
         BM_ReportIsSound, BM_ChunkEnds
  PROVE  /\ BlockTypes' /\ AsRegistered' /\ BlocksInOrder' /\ ArmsTell'
         /\ BM_ReportIsSound'
<1>1. PICK arm \in ArmsOf(kind), flaw \in {None, "exit", "counts"} :
       LET dir == disk.arms[arm]
           fails == ChunkFails(arm, flaw)
           entered == [dir EXCEPT !.client = ClientOf(arm),
                                  !.setenv = ARM_SETENV(arm),
                                  !.payload = dir.chunk.payload,
                                  !.messages = dir.chunk.messages]
           at == CHOOSE k \in DOMAIN ran : ran[k].flaw = "running"
       IN /\ dir.chunk # None /\ dir.chunk.code = None
          /\ disk' = [disk EXCEPT !.arms[arm] =
               [(IF dir.chunk.group = 0 THEN entered ELSE dir) EXCEPT
                  !.done = IF fails THEN @ ELSE @ + 1,
                  !.counts = @ /\ flaw # "counts",
                  !.chunk.code = IF fails THEN 1 ELSE 0]]
          /\ ran' = [ran EXCEPT ![at].flaw = IF fails THEN "exit" ELSE flaw,
                                ![at].build = ClientOf(arm)]
  BY DEF BM_ChunkEnds, ArmsOf
<1>2. /\ kind' = kind /\ pc' = pc /\ next' = next /\ mem' = mem
      /\ build' = build /\ verdict' = verdict
  BY DEF BM_ChunkEnds
<1> DEFINE dir == disk.arms[arm]
           fails == ChunkFails(arm, flaw)
           entered == IF dir.chunk.group = 0
                      THEN [dir EXCEPT !.client = ClientOf(arm),
                                       !.setenv = ARM_SETENV(arm),
                                       !.payload = dir.chunk.payload,
                                       !.messages = dir.chunk.messages]
                      ELSE dir
           at == CHOOSE k \in DOMAIN ran : ran[k].flaw = "running"
           new_dir == [entered EXCEPT
                         !.done = IF fails THEN @ ELSE @ + 1,
                         !.counts = @ /\ flaw # "counts",
                         !.chunk.code = IF fails THEN 1 ELSE 0]
           shown == IF fails THEN "exit" ELSE flaw
<1>4. /\ dir.chunk # None /\ dir.chunk.code = None
      /\ disk' = [disk EXCEPT !.arms[arm] = new_dir]
      /\ ran' = [ran EXCEPT ![at].flaw = shown, ![at].build = ClientOf(arm)]
  BY <1>1, Zenon
<1>5. PICK last : last = Len(ran)
  OBVIOUS
<1>6. /\ last \in 1 .. last /\ Latest(last)
      /\ ran[last].round.arm = arm /\ ran[last].flaw = "running"
  BY <1>4, <1>5, RunningIsLast
<1>7. /\ ran \in Seq(BlockRan) /\ last \in Nat /\ DOMAIN ran = 1 .. last
      /\ \A k \in 1 .. last - 1 : ran[k].flaw \in {None, "counts"}
  BY <1>5 DEF BlockTypes, BlocksInOrder
<1>8. at = last
  <2>1. \A k \in DOMAIN ran : ran[k].flaw = "running" <=> k = last
    <3>1. "running" \notin {None, "counts"}
      BY BlockAssumption
    <3> QED BY <1>6, <1>7, <3>1
  <2> QED BY <1>6, <1>7, <2>1
<1>9. /\ fails \in BOOLEAN /\ shown \in {None, "exit", "counts"}
      /\ flaw = "exit" => fails
  BY DEF ChunkFails
<1>10. /\ ~fails => shown \in {None, "counts"} /\ shown = flaw
       /\ fails => shown = "exit" /\ shown \notin {None, "counts"}
  BY <1>1, <1>9, BlockAssumption
<1>11. dir.chunk.group > 0 /\ ~fails => dir.client = ClientOf(arm)
  BY DEF ChunkFails
<1>12. /\ DOMAIN dir = {"client", "setenv", "payload", "messages", "done",
                        "counts", "chunk"}
       /\ dir.done \in 0 .. BM_GROUPS /\ dir.counts \in BOOLEAN
       /\ dir.chunk \in Chunk
  BY <1>4 DEF BlockTypes
<1>13. /\ DOMAIN entered = DOMAIN dir /\ entered.done = dir.done
       /\ entered.counts = dir.counts /\ entered.chunk = dir.chunk
       /\ entered.client = IF dir.chunk.group = 0 THEN ClientOf(arm)
                           ELSE dir.client
  BY <1>12
<1>14. Tells(dir, ran[last])
  BY <1>5, <1>6 DEF ArmsTell
<1>15. PICK group : group = ran[last].round.group
  OBVIOUS
<1>16. group \in 0 .. BM_GROUPS - 1 /\ dir.chunk.group = group /\ dir.done = group
  <2>1. ran[last] \in BlockRan
    BY <1>6, <1>7
  <2>2. group \in 0 .. BM_GROUPS - 1
    BY <1>15, <2>1 DEF BlockRan, Blocks
  <2>3. "running" \notin {None, "counts"}
    BY BlockAssumption
  <2> QED BY <1>6, <1>14, <1>15, <2>2, <2>3, BlockAssumption DEF Tells
<1> HIDE DEF dir, fails, entered, at, shown
<1>17. /\ DOMAIN new_dir = DOMAIN dir
       /\ new_dir.done = group + IF fails THEN 0 ELSE 1
       /\ new_dir.counts = (dir.counts /\ flaw # "counts")
       /\ new_dir.chunk = [dir.chunk EXCEPT !.code = IF fails THEN 1 ELSE 0]
       /\ new_dir.client = entered.client
  BY <1>12, <1>13, <1>16
<1>18. /\ new_dir.chunk \in Chunk /\ new_dir.chunk.group = group
       /\ new_dir.chunk.code = IF fails THEN 1 ELSE 0
  BY <1>9, <1>12, <1>16, <1>17 DEF Chunk
<1> HIDE DEF new_dir
<1>19. /\ DOMAIN disk' = DOMAIN disk /\ DOMAIN disk'.arms = DOMAIN disk.arms
       /\ disk'.experiment = disk.experiment
       /\ \A a \in ArmsOf(kind) :
            disk'.arms[a] = IF a = arm THEN new_dir ELSE disk.arms[a]
  BY <1>4 DEF BlockTypes
<1>20. PICK block \in BlockRan : block = ran[last]
  BY <1>6, <1>7
<1>21. PICK new : new = [block EXCEPT !.flaw = shown, !.build = ClientOf(arm)]
  OBVIOUS
<1>22. /\ new \in BlockRan /\ new.round = block.round /\ new.flaw = shown
       /\ new.build = ClientOf(arm)
  <2>1. ClientOf(arm) \in Int
    BY DEF ClientOf, Baseline, BlockTypes
  <2> QED BY <1>9, <1>20, <1>21, <2>1 DEF BlockRan
<1>23. ran' = [ran EXCEPT ![last] = new]
  BY <1>4, <1>8, <1>20, <1>21
<1>24. /\ ran' \in Seq(BlockRan) /\ Len(ran') = last
       /\ \A k \in 1 .. last : ran'[k] = IF k = last THEN new ELSE ran[k]
  BY <1>5, <1>6, <1>7, <1>22, <1>23
<1>25. \A k \in 1 .. last : ran'[k].round = ran[k].round
  BY <1>20, <1>22, <1>24
<1>26. BlockTypes'
  <2>1. \A a \in ArmsOf(kind) :
          /\ DOMAIN disk'.arms[a] = {"client", "setenv", "payload", "messages",
                                     "done", "counts", "chunk"}
          /\ disk'.arms[a].done \in 0 .. BM_GROUPS
          /\ disk'.arms[a].counts \in BOOLEAN
          /\ disk'.arms[a].chunk \in {None} \cup Chunk
    <3> SUFFICES ASSUME NEW a \in ArmsOf(kind)
                 PROVE  /\ DOMAIN disk'.arms[a] = {"client", "setenv", "payload",
                             "messages", "done", "counts", "chunk"}
                        /\ disk'.arms[a].done \in 0 .. BM_GROUPS
                        /\ disk'.arms[a].counts \in BOOLEAN
                        /\ disk'.arms[a].chunk \in {None} \cup Chunk
      OBVIOUS
    <3>1. CASE a = arm
      <4>1. disk'.arms[a] = new_dir
        BY <1>19, <3>1
      <4>2. new_dir.done \in 0 .. BM_GROUPS
        BY <1>9, <1>16, <1>17, BlockAssumption
      <4>3. new_dir.counts \in BOOLEAN
        BY <1>17
      <4> QED BY <1>12, <1>17, <1>18, <4>1, <4>2, <4>3
    <3>2. CASE a # arm
      BY <1>19, <3>2 DEF BlockTypes
    <3> QED BY <3>1, <3>2
  <2>2. BlockRan' = BlockRan
    BY <1>2 DEF BlockRan
  <2> QED BY <1>2, <1>19, <1>24, <2>1, <2>2 DEF BlockTypes
<1>27. AsRegistered'
  BY <1>2, <1>19 DEF AsRegistered, Registered
<1>28. pc # "next"
  <2>1. "running" \notin {None, "counts"}
    BY BlockAssumption
  <2> QED BY <1>5, <1>6, <2>1 DEF ArmsTell
<1>29. BlocksInOrder'
  BY <1>2, <1>5, <1>7, <1>24, <1>25 DEF BlocksInOrder
<1>30. ArmsTell'
  <2>1. ASSUME NEW a \in ArmsOf(kind),
               \A k \in 1 .. last : ran'[k].round.arm # a
        PROVE  disk'.arms[a].chunk = None /\ disk'.arms[a].done = 0
    <3>1. a # arm /\ \A k \in 1 .. Len(ran) : ran[k].round.arm # a
      BY <1>5, <1>6, <1>25, <2>1
    <3> QED BY <1>19, <3>1 DEF ArmsTell
  <2>2. ASSUME NEW k \in 1 .. last
        PROVE  ran[k].round.arm \in ArmsOf(kind) /\ (Latest(k)' => Latest(k))
    <3>1. ran[k] \in BlockRan
      BY <1>7
    <3> QED BY <1>5, <1>24, <1>25, <3>1 DEF BlockRan, Blocks, Latest
  <2>3. ASSUME NEW k \in 1 .. last, Latest(k)'
        PROVE  Tells(disk'.arms[ran'[k].round.arm], ran'[k])
    <3>1. CASE k = last
      <4>1. disk'.arms[ran'[k].round.arm] = new_dir /\ ran'[k].flaw = shown
            /\ ran'[k].round.group = group
        BY <1>6, <1>15, <1>19, <1>22, <1>24, <1>25, <3>1
      <4>2. shown # "running"
        BY <1>9, BlockAssumption
      <4>3. CASE fails
        BY <1>10, <1>16, <1>17, <1>18, <4>1, <4>3 DEF Tells
      <4>4. CASE ~fails
        <5>1. shown # "exit" /\ shown \in {None, "counts"}
          BY <1>10, <4>4, BlockAssumption
        <5> QED BY <1>17, <1>18, <4>1, <4>2, <4>4, <5>1 DEF Tells
      <4> QED BY <4>3, <4>4
    <3>2. CASE k # last
      <4>1. ran'[k] = ran[k] /\ Latest(k)
        BY <1>24, <2>2, <2>3, <3>2
      <4>2. ran[k].round.arm # arm
        BY <1>5, <1>6, <1>7, <3>2, <4>1 DEF Latest
      <4> QED BY <1>5, <1>19, <2>2, <4>1, <4>2 DEF ArmsTell
    <3> QED BY <3>1, <3>2
  <2>4. ASSUME NEW k \in 1 .. last
        PROVE  /\ ran'[k].flaw = "counts" => ~disk'.arms[ran'[k].round.arm].counts
               /\ ran'[k].flaw \in {None, "counts"} =>
                    ran'[k].build = disk'.arms[ran'[k].round.arm].client
    <3>1. CASE k = last
      <4>1. /\ disk'.arms[ran'[k].round.arm] = new_dir
            /\ ran'[k].flaw = shown /\ ran'[k].build = ClientOf(arm)
        BY <1>6, <1>19, <1>22, <1>24, <1>25, <3>1
      <4>2. shown = "counts" => flaw = "counts"
        BY <1>10
      <4>3. ~fails => new_dir.client = ClientOf(arm)
        BY <1>11, <1>13, <1>16, <1>17
      <4> QED BY <1>10, <1>17, <4>1, <4>2, <4>3
    <3>2. CASE k # last /\ ran[k].round.arm = arm
      <4>1. ran'[k] = ran[k] /\ disk'.arms[ran'[k].round.arm] = new_dir
        BY <1>6, <1>19, <1>24, <3>2
      <4>2. group > 0
        <5>1. PICK seq : seq = SEQUENCE(kind)
          OBVIOUS
        <5>2. /\ k < last /\ k \in 1 .. Len(seq) /\ last \in 1 .. Len(seq)
              /\ ran[k].round = seq[k] /\ ran[last].round = seq[last]
              /\ seq \in Seq(Blocks(kind))
          BY <1>5, <1>6, <1>7, <3>2, <5>1, TurnByTurn DEF BlocksInOrder
        <5>3. seq[k].group < seq[last].group
          BY <1>6, <3>2, <5>1, <5>2, TurnByTurn
        <5>4. seq[k] \in Blocks(kind)
          BY <5>2
        <5> QED BY <1>15, <1>16, <5>2, <5>3, <5>4, BlockAssumption DEF Blocks
      <4>3. new_dir.client = dir.client
        BY <1>13, <1>16, <1>17, <4>2
      <4>4. /\ ran[k].flaw = "counts" => ~dir.counts
            /\ ran[k].flaw \in {None, "counts"} => ran[k].build = dir.client
        BY <1>5, <3>2 DEF ArmsTell, dir
      <4> QED BY <1>17, <4>1, <4>3, <4>4
    <3>3. CASE k # last /\ ran[k].round.arm # arm
      <4>1. ran'[k] = ran[k]
            /\ disk'.arms[ran'[k].round.arm] = disk.arms[ran[k].round.arm]
        BY <1>19, <1>24, <2>2, <3>3
      <4> QED BY <1>5, <4>1 DEF ArmsTell
    <3> QED BY <3>1, <3>2, <3>3
  <2> QED BY <1>2, <1>24, <1>28, <2>1, <2>3, <2>4 DEF ArmsTell
<1>31. BM_ReportIsSound'
  <2>1. ~BM_Reported
    <3>1. ran[last] \in ToSet(ran)
      BY <1>6, <1>7 DEF ToSet
    <3>2. None # "running"
      BY BlockAssumption
    <3> QED BY <1>6, <3>1, <3>2 DEF BM_ReportIsSound, BM_ReportIsWhole
  <2> QED
    BY <1>2, <2>1 DEF BM_ReportIsSound, BM_ReportIsWhole, BM_OneClientPerArm,
       BM_Reported
<1> QED BY <1>26, <1>27, <1>29, <1>30, <1>31

\* The orchestrator sees the exit code and goes on or stops.
LEMMA BlockCollected ==
  ASSUME kind \in BM_Kinds, BlockTypes, AsRegistered, BlocksInOrder, ArmsTell,
         BM_ReportIsSound, BM_Collect
  PROVE  /\ BlockTypes' /\ AsRegistered' /\ BlocksInOrder' /\ ArmsTell'
         /\ BM_ReportIsSound'
<1>1. PICK block, code :
        block = mem.sequence[next] /\ code = disk.arms[block.arm].chunk.code
  OBVIOUS
<1>2. PICK blocks : blocks = Append(mem.blocks, [block |-> block, returncode |-> code])
  OBVIOUS
<1>3. /\ pc = "block" /\ code # None /\ mem' = [mem EXCEPT !.blocks = blocks]
      /\ disk' = [disk EXCEPT !.experiment = mem']
      /\ pc' = (IF code = 0 THEN "next" ELSE "exit1") /\ next' = next + 1
      /\ kind' = kind /\ ran' = ran /\ build' = build /\ verdict' = verdict
  BY <1>1, <1>2 DEF BM_Collect
<1>4. /\ DOMAIN disk' = DOMAIN disk /\ disk'.arms = disk.arms
      /\ disk'.experiment = mem'
  BY <1>3 DEF BlockTypes
<1>5. /\ ran \in Seq(BlockRan) /\ next \in Nat /\ Len(ran) = next
      /\ mem.sequence = SEQUENCE(kind)
  BY <1>3 DEF BlockTypes, BlocksInOrder, AsRegistered
<1>6. /\ DOMAIN mem' = DOMAIN mem /\ mem'.payload = mem.payload
      /\ mem'.messages = mem.messages /\ mem'.sequence = mem.sequence
      /\ mem'.clients = mem.clients
  BY <1>3 DEF AsRegistered
<1>7. BlockTypes'
  BY <1>3, <1>4 DEF BlockTypes, BlockRan, Stopped
<1>8. AsRegistered'
  BY <1>3, <1>4, <1>6 DEF AsRegistered, Registered
<1>9. BlocksInOrder'
  BY <1>3, <1>5 DEF BlocksInOrder
<1>10. pc' = "next" => \A k \in 1 .. Len(ran) : ran[k].flaw \in {None, "counts"}
  <2> SUFFICES ASSUME code = 0, NEW k \in 1 .. Len(ran)
               PROVE  ran[k].flaw \in {None, "counts"}
    BY <1>3
  <2>1. CASE k # Len(ran)
    BY <1>5, <2>1 DEF BlocksInOrder
  <2>2. CASE k = Len(ran)
    <3>1. ran[k].round = block
      BY <1>1, <1>5, <2>2 DEF BlocksInOrder
    <3>2. Latest(k)
      BY <1>5, <2>2 DEF Latest
    <3>3. Tells(disk.arms[block.arm], ran[k])
      BY <3>1, <3>2 DEF ArmsTell
    <3>4. ran[k].flaw # "running" /\ ran[k].flaw # "exit"
      BY <1>1, <1>3, <3>3, BlockAssumption DEF Tells
    <3>5. ran[k] \in BlockRan
      BY <1>5
    <3> QED BY <3>4, <3>5 DEF BlockRan
  <2> QED BY <2>1, <2>2
<1>11. ArmsTell'
  BY <1>3, <1>4, <1>10 DEF ArmsTell, Latest
<1> QED BY <1>3, <1>7, <1>8, <1>9, <1>11, SameReport

\* The arms by name.
LEMMA ArmsAre ==
  ArmsOf("e1") = {"B", "C"} /\ ArmsOf("p31") = {"B", "S", "A"}
<1>1. PICK two, three : two = <<"B", "C">> /\ three = <<"B", "S", "A">>
  OBVIOUS
<1>2. ToSet(two) = {"B", "C"} /\ ToSet(three) = {"B", "S", "A"}
  BY <1>1 DEF ToSet
<1> QED BY <1>1, <1>2 DEF ArmsOf, BM_ARMS

\* Whole directories are those of a whole matrix.
LEMMA WholeMatrix ==
  ASSUME kind \in BM_Kinds, BlockTypes, BlocksInOrder, ArmsTell,
         \A arm \in ArmsOf(kind) :
           disk.arms[arm].done = BM_GROUPS /\ disk.arms[arm].counts
  PROVE  /\ [k \in DOMAIN ran |-> ran[k].round] = SEQUENCE(kind)
         /\ \A k \in 1 .. Len(ran) : /\ ran[k].flaw = None
                                     /\ ran[k].round.arm \in ArmsOf(kind)
                                     /\ ran[k].build
                                          = disk.arms[ran[k].round.arm].client
<1>1. PICK seq, end : seq = SEQUENCE(kind) /\ end = Len(seq)
  OBVIOUS
<1>2. /\ seq \in Seq(Blocks(kind)) /\ end \in 1 .. end
      /\ seq[end].group = BM_GROUPS - 1
      /\ \A i, j \in 1 .. end : i < j /\ seq[i].arm = seq[j].arm =>
           seq[i].group < seq[j].group
  BY <1>1, TurnByTurn
<1>3. /\ ran \in Seq(BlockRan) /\ Len(ran) <= end
      /\ \A k \in 1 .. Len(ran) : ran[k].round = seq[k]
  BY <1>1 DEF BlockTypes, BlocksInOrder
<1>4. PICK arm : arm = seq[end].arm
  OBVIOUS
<1>5. seq[end] \in Blocks(kind)
  BY <1>1, <1>2
<1>6. arm \in ArmsOf(kind)
  BY <1>4, <1>5 DEF Blocks
<1>7. BM_GROUPS \in Nat /\ BM_GROUPS # 0
  BY BlockAssumption
<1>8. PICK k \in 1 .. Len(ran) : ran[k].round.arm = arm
  BY <1>6, <1>7 DEF ArmsTell
<1>9. PICK l \in 1 .. Len(ran) : Latest(l) /\ ran[l].round.arm = arm
  BY <1>3, <1>8, LatestExists
<1>10. ran[l] \in BlockRan
  BY <1>3
<1>11. ran[l].round.group = BM_GROUPS - 1 /\ ran[l].flaw \in {None, "counts"}
  <2>1. Tells(disk.arms[arm], ran[l])
    BY <1>9 DEF ArmsTell
  <2>2. ran[l].round.group \in 0 .. BM_GROUPS - 1
    BY <1>10 DEF BlockRan, Blocks
  <2> QED BY <1>6, <1>7, <2>1, <2>2 DEF Tells
<1>12. l = end /\ Len(ran) = end
  <2>1. l \in 1 .. end /\ seq[l].arm = seq[end].arm /\ seq[l].group = seq[end].group
    BY <1>2, <1>3, <1>4, <1>9, <1>11
  <2>2. ~(l < end)
    BY <1>2, <1>7, <2>1
  <2> QED BY <1>2, <1>3, <2>1, <2>2
<1>13. ASSUME NEW i \in 1 .. Len(ran)
       PROVE  /\ ran[i].flaw = None /\ ran[i].round.arm \in ArmsOf(kind)
              /\ ran[i].build = disk.arms[ran[i].round.arm].client
  <2>1. ran[i].flaw \in {None, "counts"}
    BY <1>2, <1>11, <1>12 DEF BlocksInOrder
  <2>2. ran[i].round.arm \in ArmsOf(kind)
    <3>1. ran[i] \in BlockRan
      BY <1>3
    <3> QED BY <3>1 DEF BlockRan, Blocks
  <2> QED BY <2>1, <2>2 DEF ArmsTell
<1>14. [i \in DOMAIN ran |-> ran[i].round] = seq
  <2>1. DOMAIN ran = 1 .. end /\ DOMAIN seq = 1 .. end
    BY <1>1, <1>2, <1>3, <1>12
  <2>2. seq = [i \in 1 .. end |-> seq[i]]
    BY <1>2, <2>1
  <2> QED BY <1>3, <1>12, <2>1, <2>2
<1> QED BY <1>1, <1>13, <1>14

\* The comparison reads nothing but directories, and they are enough.
LEMMA MatrixReported ==
  ASSUME kind \in BM_Kinds, BlockTypes, AsRegistered, BlocksInOrder, ArmsTell,
         BM_Compare
  PROVE  /\ [k \in DOMAIN ran |-> ran[k].round] = SEQUENCE(kind)
         /\ \A r \in ToSet(ran) : r.flaw = None
         /\ \A j, k \in DOMAIN ran : ran[j].round.arm = ran[k].round.arm =>
              ran[j].build = ran[k].build
         /\ kind = "p31" =>
              \A r \in ToSet(ran) : r.build = Registered(r.round.arm)
<1>1. DOMAIN ran = 1 .. Len(ran)
  BY DEF BlockTypes
<1>2. \A arm \in ArmsOf(kind) :
        disk.arms[arm].done = BM_GROUPS /\ disk.arms[arm].counts
  <2>1. CASE kind = "e1"
    BY <2>1, ArmsAre DEF BM_Compare, compare, load_arm, verify_round
  <2>2. CASE kind = "p31"
    BY <2>2 DEF BM_Compare, P31_compare, load_experiment_arm, load_arm,
       verify_round, ArmsOf
  <2> QED BY <2>1, <2>2 DEF BM_Kinds
<1>3. kind = "p31" => \A arm \in ArmsOf(kind) :
                        disk.arms[arm].client = Registered(arm)
  BY DEF BM_Compare, P31_compare, load_experiment_arm, AsRegistered, ArmsOf
<1>4. /\ [k \in DOMAIN ran |-> ran[k].round] = SEQUENCE(kind)
      /\ \A k \in 1 .. Len(ran) : /\ ran[k].flaw = None
                                  /\ ran[k].round.arm \in ArmsOf(kind)
                                  /\ ran[k].build
                                       = disk.arms[ran[k].round.arm].client
  BY <1>2, WholeMatrix
<1>5. \A r \in ToSet(ran) :
        r.flaw = None /\ (kind = "p31" => r.build = Registered(r.round.arm))
  BY <1>1, <1>3, <1>4 DEF ToSet
<1>6. \A j, k \in DOMAIN ran : ran[j].round.arm = ran[k].round.arm =>
        ran[j].build = ran[k].build
  BY <1>1, <1>4
<1> QED BY <1>4, <1>5, <1>6

\* The end of the matrix, the comparison, a kill and a rebuild.
LEMMA MatrixGoesOn ==
  ASSUME kind \in BM_Kinds, BlockTypes, AsRegistered, BlocksInOrder, ArmsTell,
         BM_ReportIsSound, BM_Finish \/ BM_Analyze \/ Crash \/ Rebuild
  PROVE  /\ BlockTypes' /\ AsRegistered' /\ BlocksInOrder' /\ ArmsTell'
         /\ BM_ReportIsSound'
<1>1. CASE BM_Finish
  <2>1. /\ pc = "next" /\ pc' = "exit0" /\ kind' = kind /\ next' = next
        /\ ran' = ran /\ build' = build /\ verdict' = verdict
        /\ mem' = [mem EXCEPT !.finished = TRUE]
        /\ disk' = [disk EXCEPT !.experiment = mem']
    BY <1>1 DEF BM_Finish
  <2>2. /\ DOMAIN disk' = DOMAIN disk /\ disk'.arms = disk.arms
        /\ disk'.experiment = mem' /\ mem'.clients = mem.clients
    BY <2>1 DEF BlockTypes, AsRegistered
  <2>3. BlockTypes'
    BY <2>1, <2>2 DEF BlockTypes, BlockRan, Stopped
  <2>4. AsRegistered'
    BY <2>1, <2>2 DEF AsRegistered, Registered
  <2> QED BY <2>1, <2>2, <2>3, <2>4, SameBlocks, SameReport DEF Stopped
<1>2. CASE BM_Analyze
  <2>1. /\ pc' = pc /\ kind' = kind /\ next' = next /\ mem' = mem /\ disk' = disk
        /\ ran' = ran /\ build' = build
        /\ verdict' = [said |-> IF BM_Compare THEN "reported" ELSE "refused"]
    BY <1>2 DEF BM_Analyze
  <2>2. BlockTypes' /\ AsRegistered'
    BY <2>1 DEF BlockTypes, BlockRan, AsRegistered, Registered
  <2>3. BM_ReportIsSound'
    <3>1. verdict'.said = "reported" => BM_Compare
      BY <2>1
    <3> QED
      BY <2>1, <3>1, MatrixReported DEF BM_ReportIsSound, BM_ReportIsWhole,
         BM_OneClientPerArm, BM_Reported, Registered
  <2> QED BY <2>1, <2>2, <2>3, SameBlocks
<1>3. CASE Crash
  <2>1. /\ pc' = "killed" /\ kind' = kind /\ next' = next /\ disk' = disk
        /\ ran' = ran /\ build' = build /\ verdict' = verdict
    BY <1>3 DEF Crash
  <2>2. BlockTypes' /\ AsRegistered'
    BY <2>1 DEF BlockTypes, BlockRan, AsRegistered, Registered, Stopped
  <2> QED BY <2>1, <2>2, SameBlocks, SameReport DEF Stopped
<1>4. CASE Rebuild
  <2>1. /\ pc' = pc /\ kind' = kind /\ next' = next /\ mem' = mem /\ disk' = disk
        /\ ran' = ran /\ build' = build + 1 /\ verdict' = verdict
    BY <1>4 DEF Rebuild
  <2>2. BlockTypes' /\ AsRegistered'
    BY <2>1 DEF BlockTypes, BlockRan, AsRegistered, Registered
  <2> QED BY <2>1, <2>2, SameBlocks, SameReport
<1> QED BY <1>1, <1>2, <1>3, <1>4

-----------------------------------------------------------------------------
(* Every campaign *)

\* What is inductive of the campaigns.
CampaignInv == CaseInv /\ ChunkInv /\ MatrixInv /\ BlockInv

\* Every line that a step of a chunk leaves is one that was there or follows
\* those that were.
LinesKept ==
  \A g \in HF_Groups : IsPrefix(disk.groups[g].lines, disk'.groups[g].lines)

\* No campaign has begun anything.
LEMMA InitCampaign == Init => CampaignInv
<1> SUFFICES ASSUME Init PROVE CampaignInv
  OBVIOUS
<1>1. CaseInv
  <2> SUFFICES ASSUME kind \in SUP_Kinds
               PROVE  CaseTypes /\ (os.hits \cap Unguarded = {} => CaseHandled)
    BY DEF CaseInv
  <2>1. LC_Init \/ TS_Init
    BY DEF Init, P32_Init, E2_Init, HF_Init, V4_Init, BM_Init, BM_Kinds,
           TM_Init, ST_Init, TS_LayoutInit, SUP_Kinds
  <2>2. pc = "off" /\ os = SUP_Nothing
    BY <2>1 DEF LC_Init, TS_Init
  <2> QED
    BY <2>2 DEF CaseTypes, CaseHandled, Over, SUP_Nothing, Stopped, SUP_Try,
                SUP_Finally
<1>2. ChunkInv
  <2> SUFFICES ASSUME kind = "hf"
               PROVE  ChunkTypes /\ LinesNumbered /\ ChunkPlaces
    BY DEF ChunkInv
  <2>1. HF_Init
    BY DEF Init, P32_Init, E2_Init, V4_Init, BM_Init, BM_Kinds, TM_Init,
           ST_Init, LC_Init, TS_Init, TS_LayoutInit
  <2>2. /\ pc = "off"
        /\ disk = [env |-> None, groups |-> [g \in HF_Groups |-> HF_NoGroup],
                   summary |-> None, failure |-> None, sums |-> None]
    BY <2>1 DEF HF_Init
  <2>3. HF_NoGroup \in Group /\ ~HF_NoGroup.dir /\ HF_NoGroup.lines = <<>>
    BY DEF HF_NoGroup, Group, Lines, Summaries
  <2>4. /\ disk.groups \in [HF_Groups -> Group]
        /\ \A g \in HF_Groups : ~Begun(g) /\ disk.groups[g].lines = <<>>
        /\ DOMAIN disk = {"env", "groups", "summary", "failure", "sums"}
    BY <2>2, <2>3 DEF Begun
  <2> QED
    BY <2>2, <2>4 DEF ChunkTypes, LinesNumbered, ChunkPlaces, Stopped
<1>3. MatrixInv
  <2> SUFFICES ASSUME kind = "p32"
               PROVE  MatrixTypes /\ RoundsInOrder /\ FailureNamed
    BY DEF MatrixInv
  <2>1. P32_Init
    BY DEF Init, E2_Init, HF_Init, V4_Init, BM_Init, BM_Kinds, TM_Init,
           ST_Init, LC_Init, TS_Init, TS_LayoutInit
  <2>2. /\ pc = "off" /\ next = 1 /\ ran = <<>> /\ build = 0
        /\ DOMAIN disk = {"output", "experiment", "environment", "failure"}
        /\ disk.failure = None
    BY <2>1 DEF P32_Init
  <2> QED
    BY <2>2 DEF MatrixTypes, RoundsInOrder, FailureNamed, Stopped
<1>4. BlockInv
  <2> SUFFICES ASSUME kind \in BM_Kinds
               PROVE  /\ BlockTypes /\ AsRegistered /\ BlocksInOrder
                      /\ ArmsTell /\ BM_ReportIsSound
    BY DEF BlockInv
  <2>1. BM_Init
    BY DEF Init, P32_Init, E2_Init, HF_Init, V4_Init, BM_Kinds, TM_Init,
           ST_Init, LC_Init, TS_Init, TS_LayoutInit
  <2>2. /\ pc = "off" /\ next = 1 /\ ran = <<>> /\ build = 0
        /\ disk = [experiment |-> None,
                   arms |-> [arm \in ArmsOf(kind) |-> BM_NoArm]]
        /\ verdict = [said |-> None]
    BY <2>1 DEF BM_Init, ArmsOf
  <2>3. BlockTypes
    <3>1. /\ DOMAIN disk = {"experiment", "arms"} /\ DOMAIN disk.arms = ArmsOf(kind)
          /\ \A arm \in ArmsOf(kind) : disk.arms[arm] = BM_NoArm
      BY <2>2
    <3>2. /\ DOMAIN BM_NoArm = {"client", "setenv", "payload", "messages", "done",
                                "counts", "chunk"}
          /\ BM_NoArm.done = 0 /\ BM_NoArm.counts \in BOOLEAN
          /\ BM_NoArm.chunk = None
      BY DEF BM_NoArm
    <3>3. 0 \in 0 .. BM_GROUPS
      BY BlockAssumption
    <3> HIDE DEF BM_NoArm
    <3>4. /\ build \in Nat /\ next \in Nat /\ ran \in Seq(BlockRan)
          /\ pc \in Stopped \cup {"next", "block"}
      BY <2>2 DEF Stopped
    <3> QED BY <3>1, <3>2, <3>3, <3>4 DEF BlockTypes
  <2>4. AsRegistered
    BY <2>2 DEF AsRegistered
  <2>5. BlocksInOrder
    <3>1. Len(SEQUENCE(kind)) \in Nat
      BY TurnByTurn
    <3> QED BY <2>2, <3>1 DEF BlocksInOrder
  <2>6. ArmsTell
    BY <2>2 DEF ArmsTell, BM_NoArm
  <2>7. BM_ReportIsSound
    BY <2>2, BlockAssumption DEF BM_ReportIsSound, BM_ReportIsWhole,
       BM_OneClientPerArm, BM_Reported
  <2> QED BY <2>3, <2>4, <2>5, <2>6, <2>7
<1> QED BY <1>1, <1>2, <1>3, <1>4 DEF CampaignInv

\* A step that leaves the lines of a group as they are keeps them.
LEMMA SameLines ==
  ASSUME ChunkTypes,
         \A g \in HF_Groups : disk'.groups[g].lines = disk.groups[g].lines
  PROVE  LinesKept
<1> SUFFICES ASSUME NEW g \in HF_Groups
             PROVE  IsPrefix(disk.groups[g].lines, disk'.groups[g].lines)
  BY DEF LinesKept
<1>1. PICK lines : lines = disk.groups[g].lines
  OBVIOUS
<1>2. lines \in Lines
  BY <1>1 DEF ChunkTypes, Group
<1>3. IsPrefix(lines, lines)
  BY <1>2 DEF Lines, IsPrefix
<1> QED BY <1>1, <1>3

\* Each step is one of the behaviour's own campaign.
LEMMA WhoseStep ==
  ASSUME Next
  PROVE  /\ kind' = kind
         /\ kind = "hf" => HF_Next
         /\ kind = "p32" => P32_Next
         /\ kind \in BM_Kinds => BM_Next
<1> USE DEF At, SUP_Kinds, BM_Kinds, Go, Fail, Mark
<1>1. CASE SUP_RunCase
  BY <1>1 DEF SUP_RunCase, SUP_Refuse, SUP_Begin, SUP_SpawnDriver, SUP_BindDriver,
     SUP_DriverUp, SUP_DriverFails, SUP_CncFails, SUP_SpawnWorker,
     SUP_BindWorker, SUP_WorkerEnds, SUP_PollFails, SUP_StopDriverEarly,
     SUP_Check, SUP_Append, SUP_StopAll, SUP_Remove, SUP_End, Term, Wait
<1>2. CASE SUP_Around
  BY <1>2 DEF SUP_Around, SUP_DriverBreaks, SUP_WorkerHangs, SUP_Rebuild,
     SUP_Signal, SUP_Crash, Rebuild, Crash
<1>3. CASE LC_Step \/ LC_Analyze
  BY <1>3 DEF LC_Step, LC_Start, LC_Finish, check_resource_limits, LC_Analyze
<1>4. CASE TS_Step \/ TS_Gate \/ TS_Layout
  BY <1>4 DEF TS_Step, TS_Start, TS_Summary, TS_Finish, TS_Gate, TS_Layout
<1> QED BY <1>1, <1>2, <1>3, <1>4, Others DEF Next, SupervisorStep

\* The invariant and the lines through one step.
LEMMA NextCampaign ==
  ASSUME CampaignInv, [Next]_allVars
  PROVE  CampaignInv' /\ kind' = kind /\ (kind = "hf" => LinesKept)
<1>1. CASE UNCHANGED allVars
  <2>1. /\ kind' = kind /\ pc' = pc /\ next' = next /\ mem' = mem
        /\ disk' = disk /\ os' = os /\ ran' = ran /\ build' = build
        /\ verdict' = verdict
    BY <1>1 DEF allVars, vars
  <2>2. CaseInv' /\ ChunkInv'
    BY <2>1 DEF CampaignInv, CaseInv, CaseTypes, CaseHandled, Over, ChunkInv,
                ChunkTypes, LinesNumbered, ChunkPlaces, Begun
  <2>3. kind = "hf" => LinesKept
    BY <2>1, SameLines DEF CampaignInv, ChunkInv
  <2>4. MatrixInv'
    BY <2>1, SameRounds DEF CampaignInv, MatrixInv, MatrixTypes, FailureNamed
  <2>5. BlockInv'
    <3> SUFFICES ASSUME kind \in BM_Kinds
                 PROVE  /\ BlockTypes' /\ AsRegistered' /\ BlocksInOrder'
                        /\ ArmsTell' /\ BM_ReportIsSound'
      BY <2>1 DEF BlockInv
    <3>1. BlockTypes /\ AsRegistered /\ BlocksInOrder /\ ArmsTell
          /\ BM_ReportIsSound
      BY DEF CampaignInv, BlockInv
    <3>2. BlockTypes' /\ AsRegistered'
      BY <2>1, <3>1 DEF BlockTypes, BlockRan, AsRegistered, Registered
    <3> QED BY <2>1, <3>1, <3>2, SameBlocks, SameReport
  <2> QED BY <2>1, <2>2, <2>3, <2>4, <2>5 DEF CampaignInv
<1>2. CASE Next
  <2>1. kind' = kind
    BY <1>2, WhoseStep
  <2>2. CaseInv'
    BY <1>2, <2>1, CaseStep DEF CampaignInv, CaseInv
  <2>3. kind = "hf" => ChunkInv' /\ LinesKept
    <3> SUFFICES ASSUME kind = "hf" PROVE ChunkInv' /\ LinesKept
      OBVIOUS
    <3>1. ChunkTypes /\ LinesNumbered /\ ChunkPlaces
      BY DEF CampaignInv, ChunkInv
    <3>2. HF_Next
      BY <1>2, WhoseStep
    <3>3. ChunkTypes' /\ LinesNumbered' /\ ChunkPlaces' /\ LinesKept
      BY <3>1, <3>2, StartKeeps, EnterKeeps, RoundKeeps, EndGroupKeeps,
         AbortKeeps, ElsewhereKeeps, SameLines DEF HF_Next, LinesKept
    <3> QED BY <3>3 DEF ChunkInv
  <2>4. ChunkInv'
    BY <2>1, <2>3 DEF ChunkInv
  <2>5. MatrixInv'
    <3> SUFFICES ASSUME kind = "p32"
                 PROVE  MatrixTypes' /\ RoundsInOrder' /\ FailureNamed'
      BY <2>1 DEF MatrixInv
    <3>1. MatrixTypes /\ RoundsInOrder /\ FailureNamed
      BY DEF CampaignInv, MatrixInv
    <3>2. P32_Next
      BY <1>2, WhoseStep
    <3> QED
      BY <3>1, <3>2, MatrixStarts, RoundLaunched, RoundCollected,
         MatrixElsewhere DEF P32_Next, P32_Step
  <2>6. BlockInv'
    <3> SUFFICES ASSUME kind \in BM_Kinds
                 PROVE  /\ BlockTypes' /\ AsRegistered' /\ BlocksInOrder'
                        /\ ArmsTell' /\ BM_ReportIsSound'
      BY <2>1 DEF BlockInv
    <3>1. BlockTypes /\ AsRegistered /\ BlocksInOrder /\ ArmsTell
          /\ BM_ReportIsSound
      BY DEF CampaignInv, BlockInv
    <3>2. BM_Next
      BY <1>2, WhoseStep
    <3> QED
      BY <3>1, <3>2, MatrixBegins, BlockLaunched, ChunkEnded, BlockCollected,
         MatrixGoesOn DEF BM_Next
  <2> QED BY <2>1, <2>2, <2>3, <2>4, <2>5, <2>6 DEF CampaignInv
<1> QED BY <1>1, <1>2

\* run_case of both suites, the chunks of the stability experiment, the P3-2
\* matrix and both block matrices, in every reachable state.
THEOREM CampaignInvariance == Spec => []CampaignInv
<1>1. Init => CampaignInv
  BY InitCampaign
<1>2. CampaignInv /\ [Next]_allVars => CampaignInv'
  BY NextCampaign
<1> QED BY <1>1, <1>2, PTL DEF Spec

\* Whatever goes wrong in a case of run_latency_compare.py or
\* run_topology_suite.py and wherever a signal interrupts its try body, the
\* next case and the end of the script find no process of it running, no Aeron
\* directory and no segment.  The finally clause stops what names are bound
\* to, and that is everything that runs, but for a signal between Popen and
\* the assignment of its result.
THEOREM NothingIsLeft == Spec => []SUP_NothingLeft
<1>1. CampaignInv => SUP_NothingLeft
  <2> SUFFICES ASSUME CampaignInv, kind \in SUP_Kinds,
                      pc \in Stopped \cup {"next"},
                      os.hits \cap Unguarded = {}
               PROVE  /\ {os.worker, os.driver} \subseteq {"none", "gone"}
                      /\ ~os.dir /\ ~os.segments
    BY DEF SUP_NothingLeft, Unguarded
  <2>1. CaseHandled
    BY DEF CampaignInv, CaseInv
  <2> QED BY <2>1 DEF CaseHandled, Over
<1> QED BY <1>1, CampaignInvariance, PTL

\* Evidence of the stability experiment is only ever added: no step of a
\* resumed chunk, of an abort or of a crash takes a line out of a
\* results.jsonl or changes one, and the lines of a group are numbered
\* through.
THEOREM EvidenceIsKept == Spec => HF_EvidenceKept
<1>1. ASSUME CampaignInv, [Next]_allVars
      PROVE  [kind = "hf" =>
               \A g \in HF_Groups :
                 /\ IsPrefix(disk.groups[g].lines, disk'.groups[g].lines)
                 /\ \A k \in DOMAIN disk'.groups[g].lines :
                      disk'.groups[g].lines[k].round = k - 1]_vars
  <2>1. CampaignInv' /\ kind' = kind /\ (kind = "hf" => LinesKept)
    BY <1>1, NextCampaign
  <2>2. kind = "hf" => LinesNumbered'
    BY <2>1 DEF CampaignInv, ChunkInv
  <2> QED BY <2>1, <2>2 DEF LinesKept, LinesNumbered
<1> QED BY <1>1, CampaignInvariance, PTL DEF Spec, HF_EvidenceKept

\* p3-p32-multithread.py never retries a round and never goes on after one it
\* saw fail, in any plan and wherever it is killed: the rounds that ran are the
\* first of the plan, all but the last passed, and a failure.json names the
\* last round of a manifest that does not say complete.
THEOREM MatrixStopsAtFailure == Spec => []P32_StopsAtFailure
<1>1. CampaignInv => P32_StopsAtFailure
  <2> SUFFICES ASSUME CampaignInv, kind = "p32"
               PROVE  P32_StopsAtFailure
    BY DEF P32_StopsAtFailure
  <2>1. MatrixTypes /\ RoundsInOrder /\ FailureNamed
    BY DEF CampaignInv, MatrixInv
  <2>2. ran \in Seq(RanRound)
    BY <2>1 DEF MatrixTypes
  <2>3. ASSUME NEW j \in DOMAIN ran, NEW k \in DOMAIN ran,
               ran[j].round = ran[k].round
        PROVE  j = k
    <3>1. ran[j].round.ordinal = j - 1 /\ ran[k].round.ordinal = k - 1
      BY <2>1, <2>2 DEF RoundsInOrder
    <3> QED BY <2>2, <2>3, <3>1
  <2>4. ASSUME NEW k \in 1 .. Len(ran) - 1
        PROVE  P32_Record(ran[k].round, ran[k].flaw).status = "ok"
    <3>1. k \in 1 .. Len(ran) /\ k < Len(ran)
      BY <2>2
    <3> QED BY <2>1, <3>1 DEF RoundsInOrder, Passed
  <2> QED BY <2>1, <2>3, <2>4 DEF P32_StopsAtFailure, FailureNamed
<1> QED BY <1>1, CampaignInvariance, PTL

\* What compare_throughput_ab.py and compare_p31_throughput.py report is the
\* registered matrix, with any number of groups: every block of the sequence
\* ran once, in order, ended well and on its arm's one client, although the
\* comparison reads only what the chunks left in each arm's directory, also a
\* chunk whose orchestrator was killed.
THEOREM BlockReportIsSound == Spec => []BM_ReportIsSound
<1>1. CampaignInv => BM_ReportIsSound
  <2>1. CASE kind \in BM_Kinds
    BY <2>1 DEF CampaignInv, BlockInv
  <2>2. CASE kind \notin BM_Kinds
    BY <2>2 DEF BM_ReportIsSound, BM_ReportIsWhole, BM_OneClientPerArm,
       BM_Reported
  <2> QED BY <2>1, <2>2
<1> QED BY <1>1, CampaignInvariance, PTL

=============================================================================
