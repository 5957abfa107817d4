-------------------------- MODULE ExperimentRunner --------------------------
(***************************************************************************)
(* The parallel experiment runner: harness/run_experiment.py with the      *)
(* BudgetTracker and the ResultWriter of harness/metrics.py, and of        *)
(* run_swe_qa_task (harness/swe_qa_runner.py) the parts that touch what    *)
(* the threads share: the budget gate, the ways it ends, budget.record.    *)
(*                                                                         *)
(* The main thread submits one future per (task, condition) pair that has  *)
(* no error-free row yet; MaxWorkers pool threads run them; the main       *)
(* thread alone takes finished futures and appends one JSONL row for each. *)
(* A process may be interrupted (Ctrl-C sets a flag), be killed, or die    *)
(* half way through an append; the next one resumes from the file.         *)
(***************************************************************************)
EXTENDS Integers, FiniteSets

CONSTANTS
  NTasks, NConditions,  \* the experiment has NTasks x NConditions pairs
  MaxWorkers,           \* parallelism.max_workers
  MaxTotal,             \* budget.max_total_usd, in units of cost
  Estimate,             \* what the gate assumes one run costs (1.0)
  MaxCost,              \* the most one agent run can cost
  WarmUps,              \* what a config may say under "warmup"
  MaxLaunches,          \* bound: processes started on one results directory
  Faults                \* what the environment does, of FaultKinds

FaultKinds == {"signal",  \* Ctrl-C or SIGTERM
               "crash",   \* the process is killed between two steps
               "tear",    \* the process is killed inside an append
               "raise",   \* run_swe_qa_task raises instead of returning
               "hang"}    \* a call it makes without a timeout never returns

ASSUME RunnerAssumption ==
  /\ NTasks \in Nat \ {0} /\ NConditions \in Nat \ {0}
  /\ MaxWorkers \in Nat \ {0}
  /\ MaxTotal \in Nat /\ Estimate \in Nat /\ MaxCost \in Nat
  /\ WarmUps \subseteq BOOLEAN
  /\ MaxLaunches \in Nat
  /\ Faults \subseteq FaultKinds

Tasks == 1..NTasks
Conditions == 1..NConditions
Pairs == Tasks \X Conditions

VARIABLES
  \* on disk
  okRows,     \* okRows[p]: parseable rows without "error" for pair p
  tail,       \* how the last line ends: see Tails
  launches,   \* processes started so far
  \* in the process
  warmup,     \* its config: a throwaway run per condition ahead of the loop
  phase,      \* where the main thread is
  why,        \* how the experiment loop was left
  shutdown,   \* the _shutdown event
  total,      \* BudgetTracker.total_spent
  warmLeft,   \* conditions still to be warmed up
  future,     \* future[p]: the state of the future of pair p
  \* history
  answered,   \* pairs this process has had answered without error
  ragged      \* the file it resumed from did not end with a newline

disk == <<okRows, tail>>
launch == <<launches, warmup, ragged>>
vars == <<okRows, tail, launch, phase, why, shutdown, total, warmLeft,
          future, answered>>

-----------------------------------------------------------------------------
(* The results file                                                        *)

\* The last line is newline-terminated (Clean), or cut (Torn: nothing in it
\* parses, or it parses to an error row), or it is the whole error-free row
\* of a pair that lacks only its newline.
Clean == <<0, 0>>
Torn == <<0, 1>>
Tails == {Clean, Torn} \cup Pairs

\* mutant: an off-by-one in what counts as completed
CompletedTwice == {p \in Pairs : okRows[p] > 1}

\* ResultWriter.load_completed
Completed == {p \in Pairs : okRows[p] > 0}

\* Whatever is appended to an unterminated line shares that line with it: the
\* line no longer parses, so the row that was readable until now is not.
WithoutTail(rows) ==
  IF tail \in Pairs THEN [rows EXCEPT ![tail] = @ - 1] ELSE rows

\* mutant: the file is opened for writing instead of appending
AppendRowTruncating(p, ok) ==
  /\ okRows' = [q \in Pairs |-> IF q = p /\ ok THEN 1 ELSE 0]
  /\ tail' = Clean

\* ResultWriter.write
AppendRow(p, ok) ==
  /\ okRows' = IF tail = Clean /\ ok THEN [okRows EXCEPT ![p] = @ + 1]
                                       ELSE WithoutTail(okRows)
  /\ tail' = Clean

\* ResultWriter.write cut short after some of its bytes
TearRow(p, ok) ==
  \/ /\ tail' = Torn
     /\ okRows' = WithoutTail(okRows)
  \/ /\ tail = Clean /\ ok
     /\ tail' = p
     /\ okRows' = [okRows EXCEPT ![p] = @ + 1]

-----------------------------------------------------------------------------
(* Futures and the budget                                                  *)

Unrun == {"skipped", "refused"}          \* returned without running
Written == {"ok", "error", "refused"}    \* results that become a row
Finished == {"ok", "error", "raised"} \cup Unrun
\* "hung": stuck in a call that does not return; "yielded" and "dismissed": the
\* loop has had the result, of a pair that was run and of one that was not.
FutureStates == Finished \cup {"absent", "pending", "running", "hung",
                               "cancelled", "yielded", "dismissed"}

InState(s) == {p \in Pairs : future[p] = s}
Running == InState("running") \cup InState("hung")

\* mutant: condition-major order without warm-up
BeforeByCondition(p, q) ==
  p[2] < q[2] \/ (p[2] = q[2] /\ p[1] < q[1])

\* The order of the work list: task-major, condition-major under warm-up.
Before(p, q) ==
  IF warmup THEN p[2] < q[2] \/ (p[2] = q[2] /\ p[1] < q[1])
            ELSE p[1] < q[1] \/ (p[1] = q[1] /\ p[2] < q[2])

\* The pool's queue is first in, first out.
NextInQueue(p) ==
  /\ future[p] = "pending"
  /\ \A q \in InState("pending") : q = p \/ Before(p, q)

\* mutant: the gate forgets the estimate of the run it admits
WithinBudgetSoFar == total <= MaxTotal

\* BudgetTracker.check_budget(estimated_cost=1.0)
WithinBudget == total + Estimate <= MaxTotal

Cancel(f) == [p \in Pairs |-> IF f[p] = "pending" THEN "cancelled" ELSE f[p]]

Set(p, s) == future' = [future EXCEPT ![p] = s]

\* What becomes of a finished future the loop has had.
Had(s) == IF s \in Unrun THEN "dismissed" ELSE "yielded"

-----------------------------------------------------------------------------
Init ==
  /\ okRows = [p \in Pairs |-> 0]
  /\ tail = Clean
  /\ launches = 0
  /\ warmup = FALSE
  /\ phase = "down"
  /\ why = "none"
  /\ shutdown = FALSE
  /\ total = 0
  /\ warmLeft = {}
  /\ future = [p \in Pairs |-> "absent"]
  /\ answered = {}
  /\ ragged = FALSE

\* main: a fresh budget, and every pair without an error-free row to do.
Launch ==
  /\ phase \in {"down", "end"}
  /\ launches < MaxLaunches
  /\ launches' = launches + 1
  /\ warmup' \in WarmUps
  /\ ragged' = (tail # Clean)
  /\ shutdown' = FALSE
  /\ total' = 0
  /\ warmLeft' = {}
  /\ answered' = {}
  /\ future' = [p \in Pairs |-> IF p \in Completed THEN "absent" ELSE "pending"]
  /\ phase' = IF Completed = Pairs THEN "end" ELSE "clone"
  /\ why' = IF Completed = Pairs THEN "finished" ELSE "none"
  /\ UNCHANGED disk

\* _signal_handler
Signal ==
  /\ "signal" \in Faults
  /\ phase \notin {"down", "end"}
  /\ ~shutdown
  /\ shutdown' = TRUE
  /\ UNCHANGED <<disk, launch, phase, why, total, warmLeft, future, answered>>

-----------------------------------------------------------------------------
(* The main thread before the pool                                         *)

\* The repositories are cloned; a failure is printed and ignored.
CloneRepos ==
  /\ phase = "clone"
  /\ ~shutdown
  /\ phase' = "warm"
  /\ warmLeft' = IF warmup THEN {p[2] : p \in InState("pending")} ELSE {}
  /\ UNCHANGED <<disk, launch, why, shutdown, total, future, answered>>

\* One throwaway run of condition c.  It goes through the budget gate and is
\* recorded; a refusal, an early error or an exception leaves no trace.
WarmCondition(c) ==
  /\ phase = "warm"
  /\ ~shutdown
  /\ c \in warmLeft /\ \A d \in warmLeft : c <= d
  /\ warmLeft' = warmLeft \ {c}
  /\ \/ WithinBudget /\ \E cost \in 0..MaxCost : total' = total + cost
     \/ UNCHANGED total
  /\ UNCHANGED <<disk, launch, phase, why, shutdown, future, answered>>

\* A throwaway run hangs: it is the main thread that waits for it.
HangWarmUp ==
  /\ "hang" \in Faults
  /\ phase = "warm" /\ warmLeft # {}
  /\ ~shutdown /\ WithinBudget
  /\ phase' = "hung"
  /\ UNCHANGED <<disk, launch, why, shutdown, total, warmLeft, future, answered>>

\* Both loops return from run_swe_qa_experiment when they see the flag.
SetupInterrupted ==
  /\ shutdown
  /\ phase = "clone" \/ (phase = "warm" /\ warmLeft # {})
  /\ phase' = "end"
  /\ why' = "interrupted"
  /\ UNCHANGED <<disk, launch, shutdown, total, warmLeft, future, answered>>

StartPool ==
  /\ phase = "warm"
  /\ warmLeft = {}
  /\ phase' = "loop"
  /\ UNCHANGED <<disk, launch, why, shutdown, total, warmLeft, future, answered>>

-----------------------------------------------------------------------------
(* The pool threads: _worker and run_swe_qa_task                           *)

PoolAlive == phase \in {"loop", "drain"}
main == <<launch, phase, why, shutdown, warmLeft>>

\* A free thread takes the next future off the queue.
Take(p) == /\ PoolAlive
           /\ NextInQueue(p)
           /\ Cardinality(Running) < MaxWorkers

SkipTask(p) ==
  /\ Take(p)
  /\ shutdown
  /\ Set(p, "skipped")
  /\ UNCHANGED <<disk, main, total, answered>>

RefuseTask(p) ==
  /\ Take(p)
  /\ ~shutdown /\ ~WithinBudget
  /\ Set(p, "refused")
  /\ UNCHANGED <<disk, main, total, answered>>

RunTask(p) ==
  /\ Take(p)
  /\ ~shutdown /\ WithinBudget
  /\ Set(p, "running")
  /\ UNCHANGED <<disk, main, total, answered>>

\* An error return ahead of the agent: nothing is recorded with the budget.
FailEarly(p) ==
  /\ future[p] = "running"
  /\ Set(p, "error")
  /\ UNCHANGED <<disk, main, total, answered>>

\* The agent ran; its cost is recorded only now, whatever its verdict.
FinishTask(p, cost, verdict) ==
  /\ future[p] = "running"
  /\ Set(p, verdict)
  /\ total' = total + cost
  /\ answered' = IF verdict = "ok" THEN answered \cup {p} ELSE answered
  /\ UNCHANGED <<disk, main>>

\* The agent ran and the judge set-up raises ahead of budget.record.
RaiseTask(p) ==
  /\ "raise" \in Faults
  /\ future[p] = "running"
  /\ Set(p, "raised")
  /\ UNCHANGED <<disk, main, total, answered>>

\* probe_arm_server waits for initialize, list_tools or the teardown of a
\* server that stopped answering, or a checkout for its git.
HangTask(p) ==
  /\ "hang" \in Faults
  /\ future[p] = "running"
  /\ Set(p, "hung")
  /\ UNCHANGED <<disk, main, total, answered>>

-----------------------------------------------------------------------------
(* The main thread: for future in as_completed(futures)                    *)

\* The flag is seen ahead of future.result(): the loop is left at once.
YieldInterrupted(p) ==
  /\ phase = "loop" /\ future[p] \in Finished
  /\ shutdown
  /\ future' = [Cancel(future) EXCEPT ![p] = Had(@)]
  /\ phase' = "drain" /\ why' = "interrupted"
  /\ UNCHANGED <<disk, launch, shutdown, total, warmLeft, answered>>

\* future.result() re-raises; leaving the with-block cancels nothing.
YieldRaised(p) ==
  /\ phase = "loop" /\ future[p] = "raised"
  /\ ~shutdown
  /\ Set(p, "yielded")
  /\ phase' = "drain" /\ why' = "raised"
  /\ UNCHANGED <<disk, launch, shutdown, total, warmLeft, answered>>

\* A row is appended.  (The None of a skipped task cannot come with the flag
\* down, so the loop's "continue" is never reached.)
YieldRow(p) ==
  /\ phase = "loop" /\ future[p] \in {"ok", "error"}
  /\ ~shutdown
  /\ AppendRow(p, future[p] = "ok")
  /\ Set(p, "yielded")
  /\ UNCHANGED <<main, total, answered>>

\* A refused task gets its error row, then the rest of the queue is cancelled.
YieldRefusal(p) ==
  /\ phase = "loop" /\ future[p] = "refused"
  /\ ~shutdown
  /\ AppendRow(p, FALSE)
  /\ future' = [Cancel(future) EXCEPT ![p] = "dismissed"]
  /\ phase' = "drain" /\ why' = "budget"
  /\ UNCHANGED <<launch, shutdown, total, warmLeft, answered>>

\* mutant: the loop is left once nothing is queued or running
LoopDoneEarly ==
  /\ phase = "loop"
  /\ \A p \in Pairs : future[p] \notin {"pending", "running"}
  /\ phase' = "end" /\ why' = "finished"
  /\ UNCHANGED <<disk, launch, shutdown, total, warmLeft, future, answered>>

\* mutant: the loop waits for every pair, the ones already recorded included
LoopDoneAllPairs ==
  /\ phase = "loop"
  /\ \A p \in Pairs : future[p] = "yielded"
  /\ phase' = "end" /\ why' = "finished"
  /\ UNCHANGED <<disk, launch, shutdown, total, warmLeft, future, answered>>

LoopDone ==
  /\ phase = "loop"
  /\ \A p \in Pairs : future[p] \in {"absent", "yielded"}
  /\ phase' = "end" /\ why' = "finished"
  /\ UNCHANGED <<disk, launch, shutdown, total, warmLeft, future, answered>>

\* ThreadPoolExecutor.__exit__ waits for the queue and for every thread.
DrainDone ==
  /\ phase = "drain"
  /\ InState("pending") = {} /\ Running = {}
  /\ phase' = "end"
  /\ UNCHANGED <<disk, launch, why, shutdown, total, warmLeft, future, answered>>

-----------------------------------------------------------------------------
(* The process is killed                                                   *)

ProcessLost ==
  /\ phase' = "down" /\ why' = "none"
  /\ shutdown' = FALSE
  /\ total' = 0
  /\ warmLeft' = {}
  /\ future' = [p \in Pairs |-> "absent"]
  /\ answered' = {}
  /\ warmup' = FALSE /\ ragged' = FALSE
  /\ UNCHANGED launches

Crash ==
  /\ "crash" \in Faults
  /\ phase \notin {"down", "end"}
  /\ ProcessLost
  /\ UNCHANGED disk

CrashInAppend(p) ==
  /\ "tear" \in Faults
  /\ phase = "loop" /\ ~shutdown
  /\ future[p] \in Written
  /\ TearRow(p, future[p] = "ok")
  /\ ProcessLost

-----------------------------------------------------------------------------
MainSetup == CloneRepos \/ (\E c \in Conditions : WarmCondition(c))
               \/ SetupInterrupted \/ StartPool

MainLoop == \/ \E p \in Pairs : \/ YieldInterrupted(p) \/ YieldRaised(p)
                                \/ YieldRow(p) \/ YieldRefusal(p)
            \/ LoopDone \/ DrainDone

Dispatch == \E p \in Pairs : SkipTask(p) \/ RefuseTask(p) \/ RunTask(p)

AgentEnds(p) ==
  \/ FailEarly(p) \/ RaiseTask(p)
  \/ \E cost \in 0..MaxCost, verdict \in {"ok", "error"} :
       FinishTask(p, cost, verdict)

Next ==
  \/ Launch \/ Signal
  \/ MainSetup \/ MainLoop
  \/ Dispatch \/ \E p \in Pairs : AgentEnds(p) \/ HangTask(p)
  \/ HangWarmUp \/ Crash \/ \E p \in Pairs : CrashInAppend(p)

Spec == Init /\ [][Next]_vars

\* The interpreter schedules its threads, and a run ends unless it hangs: the
\* clone, the builds, the agent and the judge have timeouts and bounded retries;
\* the calls of probe_arm_server and the git of a checkout have none, and nothing
\* is assumed of them (HangTask, HangWarmUp).
Fairness ==
  /\ WF_vars(MainSetup) /\ WF_vars(MainLoop) /\ WF_vars(Dispatch)
  /\ \A p \in Pairs : WF_vars(AgentEnds(p))

FairSpec == Spec /\ Fairness

-----------------------------------------------------------------------------
(* Properties                                                              *)

TypeOK ==
  /\ okRows \in [Pairs -> Nat]
  /\ tail \in Tails
  /\ launches \in Nat
  /\ warmup \in BOOLEAN
  /\ phase \in {"down", "clone", "warm", "hung", "loop", "drain", "end"}
  /\ why \in {"none", "finished", "interrupted", "budget", "raised"}
  /\ shutdown \in BOOLEAN
  /\ total \in Nat
  /\ warmLeft \subseteq Conditions
  /\ future \in [Pairs -> FutureStates]
  /\ answered \subseteq Pairs
  /\ ragged \in BOOLEAN

\* Whatever the threads, signals and crashes do, the results file never holds
\* two readable answers for one pair (ResultWriter.write, load_completed).
OneAnswerPerPair == \A p \in Pairs : okRows[p] <= 1

\* Why: a pair the process still has to deal with has no readable answer, and
\* an unterminated answer is counted exactly once.
OneAnswerInv ==
  /\ TypeOK
  /\ OneAnswerPerPair
  /\ tail \in Pairs => okRows[tail] = 1
  /\ \A p \in Pairs : future[p] \notin {"absent", "yielded"} => okRows[p] = 0

\* The gate reads the total and the cost arrives later, so a process may
\* overspend; by no more than the runs its threads had in flight
\* (BudgetTracker.check_budget, .record).
Headroom == IF Estimate <= MaxTotal THEN MaxTotal - Estimate ELSE 0
OverspendBounded == total <= Headroom + MaxWorkers * MaxCost

\* Why: every run in flight may still record up to MaxCost.
InFlightInv ==
  /\ Cardinality(Running) <= MaxWorkers
  /\ total + Cardinality(Running) * MaxCost <= Headroom + MaxWorkers * MaxCost
  /\ phase \notin {"loop", "drain"} => Running = {}

\* A pair with a readable answer is never given to an agent again (main's
\* auto-resume: "idempotent").
NoRerun ==
  [][\A p \in Pairs :
       future[p] # "running" /\ future'[p] = "running" => okRows[p] = 0]_vars

\* The results file and the futures together implement the ledger; the entry in
\* doubt is the one on an unterminated line.
Outstanding ==
  IF phase \in {"down", "end"} THEN {}
  ELSE {p \in Pairs :
          future[p] \notin {"absent", "cancelled", "yielded", "dismissed"}}
Doubt == {tail} \cap Pairs
Ledger == INSTANCE ResultLedger
            WITH ledger <- Completed, open <- Outstanding, doubt <- Doubt
ImplementsLedger == Ledger!Spec

\* When a process is over and its loop ran to the end, every answer its agents
\* gave is in the file ("Crash-safe resume (JSONL append per task)"), but for
\* the one its first append may have lost to a line an earlier process tore.
Lost == {p \in answered : okRows[p] = 0}
FinishedKeepsAnswers ==
  phase = "end" /\ why = "finished" =>
    Cardinality(Lost) <= IF ragged THEN 1 ELSE 0

\* Task-major order: however a process stops, of the pairs it was given at most
\* one task has some that were run and some that were not ("paired data (C0+C1 for
\* the same task) even if the run is interrupted"): cancelled, skipped and refused
\* pairs, and the pairs whose result the loop has had, are counted too.  Under
\* warm-up the same holds of the conditions, whose cached prefix is kept warm.
Started == {p \in Pairs :
              future[p] \in {"running", "hung", "ok", "error", "raised", "yielded"}}
Waiting == {p \in Pairs :
              future[p] \in {"pending", "cancelled", "dismissed"} \cup Unrun}
Group(p) == IF warmup THEN p[2] ELSE p[1]
Split == {g \in Tasks \cup Conditions :
            \E p \in Started, q \in Waiting : Group(p) = g /\ Group(q) = g}
OneSplitTask == Cardinality(Split) <= 1

\* A process that is not killed ends, whichever way its loop is left, unless a
\* call without a timeout hangs.  Then it has gone as far as it can without that
\* call: no thread is running, none is free for a pair that waits, and the loop
\* has had every result (as_completed; ThreadPoolExecutor.__exit__ waits).
Stuck ==
  \/ phase = "hung"
  \/ /\ InState("hung") # {} /\ InState("running") = {}
     /\ InState("pending") = {} \/ Cardinality(InState("hung")) = MaxWorkers
     /\ phase = "loop" => \A p \in Pairs : future[p] \notin Finished
EndsUnlessStuck == (phase = "clone") ~> (phase \in {"down", "end"} \/ Stuck)

=============================================================================
