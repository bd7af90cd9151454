---------------------------- MODULE CaseSupervisor ----------------------------
(***************************************************************************)
(* run_case: one benchmark case as a worker process, beside an Aeron       *)
(* driver process when the engine is Aeron, with shared memory of both.    *)
(*                                                                         *)
(*   src/tools/aeron_compare/run_latency_compare.py   kind "latency"       *)
(*   src/tools/aeron_compare/run_topology_suite.py    kind "topology"      *)
(*                                                                         *)
(* A step is one statement of run_case that starts, watches, stops or      *)
(* removes something.  SIGTERM and SIGHUP raise KeyboardInterrupt between  *)
(* any two of them: inside the try body it leads to the finally clause,    *)
(* elsewhere, and inside the finally clause, it ends the script.           *)
(*                                                                         *)
(* A flaw of a case: refused (memory or CPUs, before anything starts);     *)
(* driver (died or hung); timeout; floor (memory ran low); exit (code);    *)
(* no_result; counts; mode (another topology, rate, origin or              *)
(* verification than asked for); oom (a memory event of the cgroup).       *)
(***************************************************************************)
EXTENDS Campaign

CONSTANTS
  MaxSignals,   \* bound: signals the script is sent
  MaxStarts     \* bound: times it is started on one directory

\* At least the case without a signal.
ASSUME SupervisorAssumption == MaxSignals \in Nat /\ MaxStarts \in Nat \ {0}

VARIABLE os   \* the children and what they leave in /dev/shm

SUP_Nothing == [worker |-> "none", driver |-> "none", dir |-> FALSE,
                segments |-> FALSE, hits |-> {}, signals |-> 0]

SUP_Kinds == {"latency", "topology"}
At(place) == kind \in SUP_Kinds /\ pc = place
Case == mem.plan[next]

\* The statements of the try body, and those of the finally clause that can
\* be cut short.
SUP_Try == {"driver", "driver born", "cnc", "worker", "worker born", "poll",
            "early term", "early wait", "check", "append"}
SUP_Finally == {"term worker", "wait worker", "term driver", "wait driver",
                "rmtree", "unlink"}

Go(place) == pc' = place /\ UNCHANGED <<kind, next, build, runs, verdict>>

\* An exception in the try body.
Fail(what) == Go("term worker") /\ mem' = [mem EXCEPT !.error = what]

Mark(flaw) ==
  ran' = IF flaw = None THEN ran ELSE [ran EXCEPT ![Len(ran)].flaw = flaw]

-----------------------------------------------------------------------------
\* Before the try: available_kib() and, in the suite, cpu_layout().
SUP_Refuse ==
  /\ At("next") /\ next <= Len(mem.plan) /\ MayHave("refused")
  /\ ran' = Append(ran, [round |-> Case, flaw |-> "refused", build |-> build])
  /\ Go("exit1")
  /\ UNCHANGED <<mem, disk, os>>

SUP_Begin ==
  /\ At("next") /\ next <= Len(mem.plan)
  /\ ran' = Append(ran, [round |-> Case, flaw |-> None, build |-> build])
  /\ Go(IF Case.engine = "aeron" THEN "driver" ELSE "worker")
  /\ UNCHANGED <<mem, disk, os>>

\* Popen returns a process before the name driver is bound to it.
SUP_SpawnDriver ==
  /\ At("driver")
  /\ os' = [os EXCEPT !.driver = "up"]
  /\ Go("driver born")
  /\ UNCHANGED <<mem, disk, ran>>

SUP_BindDriver ==
  /\ At("driver born")
  /\ mem' = [mem EXCEPT !.driver = TRUE]
  /\ Go("cnc")
  /\ UNCHANGED <<disk, ran, os>>

\* The driver creates its directory and then cnc.dat in it.
SUP_DriverUp ==
  /\ At("cnc") /\ os.driver = "up"
  /\ os' = [os EXCEPT !.dir = TRUE]
  /\ Go("worker")
  /\ UNCHANGED <<mem, disk, ran>>

\* The driver hangs or dies, with its directory made or not.
SUP_DriverBreaks ==
  /\ At("cnc") \/ At("poll")
  /\ os.driver = "up" /\ MayHave("driver")
  /\ \E state \in {"hung", "gone"}, made \in BOOLEAN :
       os' = [os EXCEPT !.driver = state, !.dir = @ \/ made]
  /\ Mark("driver")
  /\ UNCHANGED <<kind, pc, next, mem, disk, build, runs, verdict>>

\* Mutant: only the exit of the driver is noticed.
CncNoDeadline == At("cnc") /\ os.driver = "gone" /\ Fail("driver")

\* driver.poll() or the deadline of the loop.
SUP_CncFails ==
  At("cnc") /\ os.driver \in {"hung", "gone"} /\ Fail("driver")

\* The startup loop looks at the memory floor as well.
SUP_DriverFails ==
  /\ \/ SUP_CncFails /\ UNCHANGED ran
     \/ At("cnc") /\ MayHave("floor") /\ Mark("floor") /\ Fail("floor")
  /\ UNCHANGED <<disk, os>>

SUP_SpawnWorker ==
  /\ At("worker")
  /\ os' = [os EXCEPT !.worker = "up", !.segments = Case.engine # "aeron"]
  /\ Go("worker born")
  /\ UNCHANGED <<mem, disk, ran>>

SUP_BindWorker ==
  /\ At("worker born")
  /\ mem' = [mem EXCEPT !.worker = TRUE]
  /\ Go("poll")
  /\ UNCHANGED <<disk, ran, os>>

\* The worker ends by itself; a failed one may leave its segments.
SUP_WorkerEnds ==
  /\ At("poll") /\ os.worker = "up"
  /\ \E flaw \in {None, "exit", "no_result", "counts", "mode", "oom"} :
       /\ MayHave(flaw) /\ Mark(flaw)
       /\ \E leaves \in BOOLEAN :
            /\ leaves => flaw = "exit"
            /\ os' = [os EXCEPT !.worker = "gone",
                                !.segments = @ /\ leaves]
       /\ IF flaw = "exit" THEN Fail("exit")
          ELSE /\ Go(IF kind = "topology" THEN "early term" ELSE "check")
               /\ UNCHANGED mem
  /\ UNCHANGED disk

SUP_WorkerHangs ==
  /\ At("poll") /\ os.worker = "up" /\ MayHave("timeout")
  /\ os' = [os EXCEPT !.worker = "hung"]
  /\ Mark("timeout")
  /\ UNCHANGED <<kind, pc, next, mem, disk, build, runs, verdict>>

\* The poll loop's own exits: the deadline, the memory floor, and in the
\* suite a driver that is gone.
SUP_PollFails ==
  /\ At("poll")
  /\ \/ os.worker = "hung" /\ Fail("timeout") /\ UNCHANGED ran
     \/ MayHave("floor") /\ Mark("floor") /\ Fail("floor")
     \/ /\ kind = "topology" /\ os.driver = "gone"
        /\ Fail("driver") /\ UNCHANGED ran
  /\ UNCHANGED <<disk, os>>

-----------------------------------------------------------------------------
\* stop(): nothing for None or a process that is gone; else TERM to its
\* group, three seconds to end, and KILL.
Term(who, here, wait, after) ==
  /\ At(here)
  /\ Go(IF mem[who] /\ os[who] \in {"up", "hung"} THEN wait ELSE after)
  /\ UNCHANGED <<mem, disk, ran, os>>

\* Mutant: a process that ignores TERM is left alone.
TermOnly(obeys) == IF obeys THEN "gone" ELSE "hung"

\* It ends on TERM or, after the wait, by KILL.
Stopped_by(obeys) == "gone"

Wait(who, here, after) ==
  /\ At(here)
  /\ \E obeys \in BOOLEAN : os' = [os EXCEPT ![who] = Stopped_by(obeys)]
  /\ Go(after)
  /\ UNCHANGED <<mem, disk, ran>>

\* The suite stops the driver before it reads and hashes the logs.
SUP_StopDriverEarly ==
  \/ Term("driver", "early term", "early wait", "check")
  \/ Wait("driver", "early wait", "check")

\* Mutant: the counters of the RESULT line are not compared.
SeenWithoutCounts(flaw) ==
  \/ flaw = "no_result"
  \/ kind = "topology" /\ flaw \in {"mode", "oom"}

\* What each script compares with the case it asked for.
SUP_Seen(flaw) ==
  \/ flaw \in {"no_result", "counts"}
  \/ kind = "topology" /\ flaw \in {"mode", "oom"}

SUP_Check ==
  /\ At("check")
  /\ IF SUP_Seen(Last(ran).flaw) THEN Fail(Last(ran).flaw)
     ELSE Go("append") /\ UNCHANGED mem
  /\ UNCHANGED <<disk, ran, os>>

\* The record goes to results.jsonl before the finally clause, with the client
\* hashed now and with what its output and the cgroup's counters show.
SUP_Append ==
  /\ At("append")
  /\ disk' = [disk EXCEPT !.results =
       Append(IF @ = None THEN <<>> ELSE @,
              [case |-> Case, client_sha256 |-> build, shows |-> Last(ran).flaw])]
  /\ Go("term worker")
  /\ UNCHANGED <<mem, ran, os>>

-----------------------------------------------------------------------------
\* The finally clause, and what follows it.
SUP_StopAll ==
  \/ Term("worker", "term worker", "wait worker", "term driver")
  \/ Wait("worker", "wait worker", "term driver")
  \/ Term("driver", "term driver", "wait driver", "rmtree")
  \/ Wait("driver", "wait driver", "rmtree")

SUP_Remove ==
  /\ \/ At("rmtree") /\ os' = [os EXCEPT !.dir = FALSE] /\ Go("unlink")
     \/ At("unlink") /\ os' = [os EXCEPT !.segments = FALSE] /\ Go("cooldown")
  /\ UNCHANGED <<mem, disk, ran>>

SUP_End ==
  /\ At("cooldown")
  /\ IF mem.error # None
     THEN pc' = "exit1" /\ UNCHANGED <<next, mem, os>>
     ELSE /\ pc' = "next" /\ next' = next + 1
          /\ mem' = [mem EXCEPT !.rows = Append(@, Case),
                                !.worker = FALSE, !.driver = FALSE]
          /\ os' = [os EXCEPT !.worker = IF @ = "gone" THEN "none" ELSE @,
                              !.driver = IF @ = "gone" THEN "none" ELSE @]
  /\ UNCHANGED <<kind, disk, ran, build, runs, verdict>>

\* SIGTERM or SIGHUP: interrupted() raises KeyboardInterrupt.
SUP_Signal ==
  /\ kind \in SUP_Kinds /\ pc \notin Stopped /\ os.signals < MaxSignals
  /\ os' = [os EXCEPT !.signals = @ + 1, !.hits = @ \cup {pc}]
  /\ IF pc \in SUP_Try
     THEN Fail("signal")
     ELSE Go("killed") /\ UNCHANGED mem
  /\ UNCHANGED <<disk, ran>>

\* The client is read when its process starts and hashed when the record is
\* written: it is rebuilt between the two, or while no script runs.
SUP_Rebuild ==
  /\ kind = "latency" /\ pc \in Stopped \cup {"poll"} /\ MayHave("rebuilt")
  /\ Rebuild
  /\ UNCHANGED os

\* A signal that cannot be handled.
SUP_Crash ==
  /\ kind \in SUP_Kinds /\ Crash
  /\ os' = [os EXCEPT !.hits = @ \cup {"kill"}]

SUP_RunCase ==
  \/ SUP_Refuse \/ SUP_Begin \/ SUP_SpawnDriver \/ SUP_BindDriver
  \/ SUP_DriverUp \/ SUP_DriverFails \/ SUP_SpawnWorker \/ SUP_BindWorker
  \/ SUP_WorkerEnds \/ SUP_PollFails \/ SUP_StopDriverEarly \/ SUP_Check
  \/ SUP_Append \/ SUP_StopAll \/ SUP_Remove \/ SUP_End

SUP_Around ==
  \/ SUP_DriverBreaks \/ SUP_WorkerHangs \/ SUP_Rebuild
  \/ SUP_Signal \/ SUP_Crash

\* The cases results.jsonl has a line for.
SUP_Lines ==
  IF disk.results = None THEN <<>>
  ELSE [k \in DOMAIN disk.results |-> disk.results[k].case]

-----------------------------------------------------------------------------
\* Properties.

\* Whatever goes wrong in a case, with the driver, the worker, memory or the
\* output, and wherever a signal interrupts its try body, the next case and
\* the end of the script find no process of it running, no Aeron directory
\* and no segment.  The exceptions are a signal in the moment between Popen
\* and the binding of its result, one inside the finally clause, and SIGKILL.
\* A worker that forks is one process here: stop() waits for its leader alone.
SUP_NothingLeft ==
  /\ kind \in SUP_Kinds /\ pc \in Stopped \cup {"next"}
  /\ os.hits \cap (SUP_Finally \cup {"driver born", "worker born", "kill"}) = {}
  => /\ {os.worker, os.driver} \subseteq {"none", "gone"}
     /\ ~os.dir /\ ~os.segments

\* results.jsonl holds the cases that ended well and no others: in the order
\* of the plan, each once, and none with anything wrong that its script looks
\* for.  A driver that breaks after the worker is done is not looked for, and
\* run_latency_compare.py compares neither the mode nor memory events.
SUP_LedgerExact ==
  kind \in SUP_Kinds /\ disk.results # None =>
    LET unseen == IF kind = "latency" THEN {"driver", "mode", "oom"}
                  ELSE {"driver"}
        good == SelectSeq(ran, LAMBDA r : r.flaw \in {None} \cup unseen)
        cases == [k \in DOMAIN good |-> good[k].round]
    IN /\ IsPrefix(SUP_Lines, cases)
       /\ \A j, k \in DOMAIN SUP_Lines :
            SUP_Lines[j] = SUP_Lines[k] => j = k
       /\ (pc = "next" => SUP_Lines = cases /\ mem.rows = cases)

\* No case lasts for ever: a worker or a driver that hangs is found by a
\* deadline, one that ignores TERM is killed, and the script ends.
SUP_Ends == kind \in SUP_Kinds ~> pc \in Stopped

=============================================================================
