----------------------- MODULE ExperimentRunnerProofs -----------------------
(* Proofs about ExperimentRunner, for every number of tasks, conditions,     *)
(* threads and launches, every budget and every set of faults.               *)
EXTENDS ExperimentRunner, FiniteSetTheorems, TLAPS

\* The sentinels for the last line are no pairs.
LEMMA TailsDistinct == Clean \notin Pairs /\ Torn \notin Pairs /\ Clean # Torn
  BY RunnerAssumption DEF Clean, Torn, Pairs, Tasks, Conditions

-----------------------------------------------------------------------------
(* Two readable answers for one pair never coexist                           *)

LEMMA OneAnswerInit == Init => OneAnswerInv
  <1> SUFFICES ASSUME Init PROVE OneAnswerInv
    OBVIOUS
  <1>1. TypeOK
    BY DEF Init, TypeOK, FutureStates, Tails
  <1>2. tail \notin Pairs
    BY TailsDistinct DEF Init
  <1> QED BY <1>1, <1>2 DEF Init, OneAnswerInv, OneAnswerPerPair

\* What an append does to the counts, given the invariant.
LEMMA AppendKeepsCounts ==
  ASSUME OneAnswerInv, NEW p \in Pairs, NEW ok \in BOOLEAN, okRows[p] = 0,
         AppendRow(p, ok) \/ TearRow(p, ok)
  PROVE  /\ okRows' \in [Pairs -> Nat]
         /\ tail' \in Tails
         /\ \A q \in Pairs : okRows'[q] <= 1
         /\ \A q \in Pairs : q # p /\ okRows[q] = 0 => okRows'[q] = 0
         /\ tail' \in Pairs => okRows'[tail'] = 1
  <1> USE TailsDistinct DEF OneAnswerInv, OneAnswerPerPair, TypeOK, Tails
  <1>1. CASE tail = Clean
    BY <1>1 DEF AppendRow, TearRow, WithoutTail
  <1>2. CASE tail # Clean
    BY <1>2 DEF AppendRow, TearRow, WithoutTail
  <1> QED BY <1>1, <1>2

LEMMA OneAnswerStep == OneAnswerInv /\ [Next]_vars => OneAnswerInv'
  <1> SUFFICES ASSUME OneAnswerInv, [Next]_vars PROVE OneAnswerInv'
    OBVIOUS
  <1> USE DEF OneAnswerInv, OneAnswerPerPair, TypeOK, launch
  <1>1. CASE UNCHANGED vars
    BY <1>1 DEF vars
  <1>2. CASE Launch
    <2>1. \A p \in Pairs : future'[p] # "absent" => okRows[p] = 0
      BY <1>2 DEF Launch, Completed
    <2>2. future' \in [Pairs -> FutureStates]
      BY <1>2 DEF Launch, FutureStates
    <2>3. phase' \in {"clone", "end"} /\ why' \in {"none", "finished"}
      BY <1>2, Zenon DEF Launch
    <2>4. /\ okRows' = okRows /\ tail' = tail
          /\ launches' \in Nat /\ shutdown' = FALSE /\ total' = 0
          /\ warmLeft' = {} /\ answered' = {}
      BY <1>2 DEF Launch, disk
    <2>5. warmup' \in BOOLEAN /\ ragged' \in BOOLEAN
      BY <1>2, RunnerAssumption, Zenon DEF Launch
    <2> QED BY <2>1, <2>2, <2>3, <2>4, <2>5
  <1>3. CASE Signal
    BY <1>3 DEF Signal, disk
  <1>4. CASE MainSetup
    <2>1. CASE CloneRepos
      BY <2>1 DEF CloneRepos, disk, InState, Pairs
    <2>2. ASSUME NEW c \in Conditions, WarmCondition(c) PROVE OneAnswerInv'
      BY <2>2, RunnerAssumption DEF WarmCondition, disk
    <2>3. CASE SetupInterrupted
      BY <2>3 DEF SetupInterrupted, disk
    <2>4. CASE StartPool
      BY <2>4 DEF StartPool, disk
    <2> QED BY <1>4, <2>1, <2>2, <2>3, <2>4 DEF MainSetup
  <1>5. CASE MainLoop
    <2>1. ASSUME NEW p \in Pairs, YieldInterrupted(p) PROVE OneAnswerInv'
      <3>1. /\ \A q \in Pairs : future'[q] \in {future[q], "cancelled", "yielded", "dismissed"}
            /\ \A q \in Pairs : future[q] \in {"absent", "yielded"} /\ q # p
                               => future'[q] = future[q]
            /\ future' \in [Pairs -> FutureStates] /\ okRows[p] = 0
        BY <2>1 DEF YieldInterrupted, Finished, Unrun, Cancel, Had, FutureStates
      <3>2. \A q \in Pairs : future'[q] \notin {"absent", "yielded"} => okRows[q] = 0
        BY <3>1
      <3> QED BY <2>1, <3>1, <3>2 DEF YieldInterrupted, disk
    <2>2. ASSUME NEW p \in Pairs, YieldRaised(p) PROVE OneAnswerInv'
      BY <2>2 DEF YieldRaised, disk, Set, FutureStates
    <2>3. ASSUME NEW p \in Pairs, YieldRow(p) PROVE OneAnswerInv'
      BY <2>3, AppendKeepsCounts DEF YieldRow, main, Set, FutureStates
    <2>4. ASSUME NEW p \in Pairs, YieldRefusal(p) PROVE OneAnswerInv'
      <3>1. /\ \A q \in Pairs : future'[q] \notin {"absent", "yielded"} =>
                                 q = p \/ future[q] \notin {"absent", "yielded"}
            /\ future' \in [Pairs -> FutureStates]
            /\ okRows[p] = 0 /\ AppendRow(p, FALSE)
        BY <2>4 DEF YieldRefusal, Cancel, FutureStates
      <3>2. /\ okRows' \in [Pairs -> Nat] /\ tail' \in Tails
            /\ \A q \in Pairs : okRows'[q] <= 1
            /\ \A q \in Pairs : q # p /\ okRows[q] = 0 => okRows'[q] = 0
            /\ tail' \in Pairs => okRows'[tail'] = 1
        BY <3>1, AppendKeepsCounts
      <3>3. okRows'[p] = 0
        BY <3>1 DEF AppendRow, WithoutTail, Tails
      <3> QED BY <2>4, <3>1, <3>2, <3>3 DEF YieldRefusal
    <2>5. CASE LoopDone
      BY <2>5 DEF LoopDone, disk
    <2>6. CASE DrainDone
      BY <2>6 DEF DrainDone, disk
    <2> QED BY <1>5, <2>1, <2>2, <2>3, <2>4, <2>5, <2>6 DEF MainLoop
  <1>6. CASE Dispatch
    <2> SUFFICES ASSUME NEW p \in Pairs, SkipTask(p) \/ RefuseTask(p) \/ RunTask(p)
                 PROVE  OneAnswerInv'
      BY <1>6 DEF Dispatch
    <2> QED BY DEF SkipTask, RefuseTask, RunTask, Take, NextInQueue, Set, disk,
                   main, FutureStates, Finished, Unrun
  <1>7. ASSUME NEW p \in Pairs, AgentEnds(p) PROVE OneAnswerInv'
    <2>1. CASE FailEarly(p) \/ RaiseTask(p)
      BY <2>1 DEF FailEarly, RaiseTask, Set, disk, main, FutureStates, Finished
    <2>2. ASSUME NEW cost \in 0..MaxCost, NEW verdict \in {"ok", "error"},
                 FinishTask(p, cost, verdict)
          PROVE  OneAnswerInv'
      BY <2>2, RunnerAssumption
      DEF FinishTask, Set, disk, main, FutureStates, Finished
    <2> QED BY <1>7, <2>1, <2>2 DEF AgentEnds
  <1>8. CASE Crash
    BY <1>8 DEF Crash, ProcessLost, disk, FutureStates
  <1>9. ASSUME NEW p \in Pairs, CrashInAppend(p) PROVE OneAnswerInv'
    BY <1>9, AppendKeepsCounts
    DEF CrashInAppend, ProcessLost, FutureStates, Written
  <1>10. CASE HangWarmUp
    BY <1>10 DEF HangWarmUp, disk
  <1>11. ASSUME NEW p \in Pairs, HangTask(p) PROVE OneAnswerInv'
    BY <1>11 DEF HangTask, Set, disk, main, FutureStates
  <1> QED BY <1>1, <1>2, <1>3, <1>4, <1>5, <1>6, <1>7, <1>8, <1>9, <1>10, <1>11
      DEF Next

\* However a process is interrupted or torn down and however often it is
\* started again, the results file holds at most one readable answer for each
\* pair (ResultWriter.write, ResultWriter.load_completed, main).
THEOREM OneAnswer == Spec => []OneAnswerPerPair
  <1>1. OneAnswerInv => OneAnswerPerPair
    BY DEF OneAnswerInv
  <1> QED BY <1>1, OneAnswerInit, OneAnswerStep, PTL DEF Spec

\* The state of the runner keeps its type, however many processes are started on
\* one file: no count of rows or money runs away (main, ResultWriter).
THEOREM TypeCorrect == Spec => []TypeOK
  <1>1. OneAnswerInv => TypeOK
    BY DEF OneAnswerInv
  <1> QED BY <1>1, OneAnswerInit, OneAnswerStep, PTL DEF Spec

\* A pair that has a readable answer is never started again.
THEOREM NeverRerun == Spec => NoRerun
  <1> DEFINE Reruns == \A p \in Pairs :
                 future[p] # "running" /\ future'[p] = "running" => okRows[p] = 0
  <1>1. OneAnswerInv /\ [Next]_vars => [Reruns]_vars
    <2> SUFFICES ASSUME OneAnswerInv, Next PROVE Reruns
      OBVIOUS
    <2> SUFFICES ASSUME NEW p \in Pairs, future[p] # "running",
                        future'[p] = "running"
                 PROVE  okRows[p] = 0
      OBVIOUS
    <2> USE DEF OneAnswerInv, TypeOK
    <2>1. CASE Dispatch
      BY <2>1 DEF Dispatch, SkipTask, RefuseTask, RunTask, Take, NextInQueue, Set
    <2>2. ASSUME NEW q \in Pairs, AgentEnds(q) PROVE FALSE
      BY <2>2 DEF AgentEnds, FailEarly, RaiseTask, FinishTask, Set
    <2>3. CASE MainLoop
      BY <2>3 DEF MainLoop, YieldInterrupted, YieldRaised, YieldRow,
                  YieldRefusal, LoopDone, DrainDone, Cancel, Set, Had
    <2>4. CASE Launch \/ Signal \/ Crash \/ MainSetup \/ HangWarmUp
      BY <2>4 DEF Launch, Signal, Crash, MainSetup, CloneRepos, WarmCondition,
                  SetupInterrupted, StartPool, ProcessLost, HangWarmUp
    <2>6. ASSUME NEW q \in Pairs, HangTask(q) PROVE FALSE
      BY <2>6 DEF HangTask, Set
    <2>5. ASSUME NEW q \in Pairs, CrashInAppend(q) PROVE FALSE
      BY <2>5 DEF CrashInAppend, ProcessLost
    <2> QED BY <2>1, <2>2, <2>3, <2>4, <2>5, <2>6 DEF Next
  <1> QED BY <1>1, OneAnswerInit, OneAnswerStep, PTL DEF Spec, NoRerun

-----------------------------------------------------------------------------
(* The overspend of one process                                              *)

\* Multiplication by a natural number is monotonic.
LEMMA TimesMonotonic ==
  ASSUME NEW a \in Nat, NEW b \in Nat, NEW c \in Nat, a <= b
  PROVE  a * c <= b * c
  <1>1. (b - a) \in Nat /\ b = a + (b - a)
    OBVIOUS
  <1>2. (b - a) * c >= 0
    BY <1>1
  <1> QED BY <1>1, <1>2

\* The runs in flight form a finite set.
LEMMA RunningFinite == IsFiniteSet(Running) /\ Cardinality(Running) \in Nat
  <1>1. IsFiniteSet(Tasks) /\ IsFiniteSet(Conditions)
    BY FS_Interval, RunnerAssumption DEF Tasks, Conditions
  <1>2. IsFiniteSet(Pairs)
    BY <1>1, FS_Product DEF Pairs
  <1>3. Running \in SUBSET Pairs
    BY DEF Running, InState
  <1>4. IsFiniteSet(Running)
    BY <1>2, <1>3, FS_Subset
  <1> QED BY <1>4, FS_CardinalityType

LEMMA SpendInit == Init => InFlightInv
  <1> SUFFICES ASSUME Init PROVE InFlightInv
    OBVIOUS
  <1>1. Running = {} /\ total = 0
    BY DEF Init, Running, InState
  <1>2. Cardinality(Running) = 0
    BY <1>1, FS_EmptySet
  <1>3. Headroom \in Nat /\ MaxWorkers * MaxCost \in Nat
    BY RunnerAssumption DEF Headroom
  <1> QED BY <1>1, <1>2, <1>3, RunnerAssumption DEF InFlightInv

\* A step that starts no run and spends nothing.
LEMMA FewerInFlight ==
  ASSUME TypeOK, InFlightInv, TypeOK', Running' \subseteq Running,
         total' <= total, phase' \notin {"loop", "drain"} => Running' = {}
  PROVE  InFlightInv'
  <1>1. /\ Cardinality(Running') <= Cardinality(Running)
        /\ Cardinality(Running') \in Nat /\ Cardinality(Running) \in Nat
    <2>1. IsFiniteSet(Running)
      BY RunningFinite
    <2>2. Running' \in SUBSET Running
      OBVIOUS
    <2>3. IsFiniteSet(Running') /\ Cardinality(Running') <= Cardinality(Running)
      BY <2>1, <2>2, FS_Subset
    <2> QED BY <2>1, <2>3, FS_CardinalityType
  <1>2. Cardinality(Running') * MaxCost <= Cardinality(Running) * MaxCost
    BY <1>1, TimesMonotonic, RunnerAssumption
  <1>3. /\ Headroom \in Nat /\ MaxWorkers * MaxCost \in Nat
        /\ Cardinality(Running') * MaxCost \in Nat
        /\ Cardinality(Running) * MaxCost \in Nat
    BY <1>1, RunnerAssumption DEF Headroom
  <1> QED BY <1>1, <1>2, <1>3, RunnerAssumption DEF InFlightInv, TypeOK

\* A run that records its cost leaves flight in the same step.
LEMMA FinishInFlight ==
  ASSUME TypeOK, InFlightInv, NEW p \in Pairs, NEW cost \in 0..MaxCost,
         NEW verdict \in {"ok", "error"}, FinishTask(p, cost, verdict)
  PROVE  InFlightInv'
  <1>1. Running' = Running \ {p} /\ p \in Running
    BY DEF FinishTask, Set, Running, InState, TypeOK
  <1>2. Cardinality(Running') = Cardinality(Running) - 1
    BY <1>1, RunningFinite, FS_RemoveElement
  <1>3. total' = total + cost /\ phase' = phase
    BY DEF FinishTask, main
  <1>4. Cardinality(Running') * MaxCost = Cardinality(Running) * MaxCost - MaxCost
    BY <1>2, RunningFinite, RunnerAssumption
  <1>5. /\ Cardinality(Running) * MaxCost \in Nat /\ Headroom \in Nat
        /\ MaxWorkers * MaxCost \in Nat /\ total \in Nat
    BY RunningFinite, RunnerAssumption DEF Headroom, TypeOK
  <1>6. total' + Cardinality(Running') * MaxCost <= Headroom + MaxWorkers * MaxCost
    BY <1>3, <1>4, <1>5, RunnerAssumption DEF InFlightInv
  <1>7. Cardinality(Running') <= MaxWorkers
    BY <1>2, RunningFinite, RunnerAssumption DEF InFlightInv
  <1>8. phase' \notin {"loop", "drain"} => Running' = {}
    BY <1>1, <1>3 DEF InFlightInv
  <1> QED BY <1>6, <1>7, <1>8 DEF InFlightInv, Headroom

\* A run is started under the gate: whatever was spent, the total still lies
\* below the headroom, so every thread may spend MaxCost on top of it.
LEMMA StartInFlight ==
  ASSUME TypeOK, InFlightInv, NEW p \in Pairs, RunTask(p)
  PROVE  InFlightInv'
  <1>1. Running' = Running \cup {p} /\ p \notin Running
    BY DEF RunTask, Take, NextInQueue, Set, Running, InState, TypeOK
  <1>2. Cardinality(Running') = Cardinality(Running) + 1
    BY <1>1, RunningFinite, FS_AddElement
  <1>3. /\ total' = total /\ phase' = phase /\ phase \in {"loop", "drain"}
        /\ total + Estimate <= MaxTotal /\ Cardinality(Running) < MaxWorkers
    BY DEF RunTask, Take, PoolAlive, WithinBudget, main
  <1>4. Cardinality(Running') <= MaxWorkers /\ Cardinality(Running') \in Nat
    BY <1>2, <1>3, RunningFinite, RunnerAssumption
  <1>5. Cardinality(Running') * MaxCost <= MaxWorkers * MaxCost
    BY <1>4, TimesMonotonic, RunnerAssumption
  <1>6. total <= Headroom /\ Headroom \in Nat /\ total \in Nat
    BY <1>3, RunnerAssumption DEF Headroom, TypeOK
  <1>7. Cardinality(Running') * MaxCost \in Nat /\ MaxWorkers * MaxCost \in Nat
    BY <1>4, RunnerAssumption
  <1>8. total' + Cardinality(Running') * MaxCost <= Headroom + MaxWorkers * MaxCost
    BY <1>3, <1>5, <1>6, <1>7
  <1> QED BY <1>3, <1>4, <1>8 DEF InFlightInv, Headroom

\* A warm-up run is the only run there is.
LEMMA WarmInFlight ==
  ASSUME TypeOK, InFlightInv, NEW c \in Conditions, WarmCondition(c)
  PROVE  InFlightInv'
  <1>1. Running' = Running /\ Running = {} /\ phase' = phase
    BY DEF WarmCondition, Running, InState, InFlightInv
  <1>2. Cardinality(Running) = 0
    BY <1>1, FS_EmptySet
  <1>3. Headroom \in Nat /\ MaxWorkers * MaxCost \in Nat
    BY RunnerAssumption DEF Headroom
  <1>4. MaxCost <= MaxWorkers * MaxCost
    <2>1. 1 * MaxCost <= MaxWorkers * MaxCost
      BY TimesMonotonic, RunnerAssumption
    <2> QED BY <2>1, RunnerAssumption
  <1>5. total' <= Headroom + MaxWorkers * MaxCost
    <2>1. CASE UNCHANGED total
      BY <2>1, <1>2, <1>3, RunnerAssumption DEF InFlightInv, TypeOK
    <2>2. CASE WithinBudget /\ \E cost \in 0..MaxCost : total' = total + cost
      <3>1. total <= Headroom
        BY <2>2, RunnerAssumption DEF WithinBudget, Headroom, TypeOK
      <3> QED BY <2>2, <3>1, <1>3, <1>4, RunnerAssumption DEF TypeOK
    <2> QED BY <2>1, <2>2 DEF WarmCondition
  <1>6. total' \in Nat
    BY RunnerAssumption DEF WarmCondition, TypeOK
  <1>7. Cardinality(Running)' = 0
    BY <1>1, <1>2
  <1>8. Cardinality(Running)' * MaxCost = 0
    BY <1>7, RunnerAssumption
  <1> QED BY <1>1, <1>3, <1>5, <1>6, <1>7, <1>8, RunnerAssumption
      DEF InFlightInv, Headroom

LEMMA SpendStep ==
  TypeOK /\ TypeOK' /\ InFlightInv /\ [Next]_vars => InFlightInv'
  <1> SUFFICES ASSUME TypeOK, TypeOK', InFlightInv, [Next]_vars
               PROVE  InFlightInv'
    OBVIOUS
  <1> DEFINE NoSpend == /\ Running' \subseteq Running
                        /\ total' <= total
                        /\ phase' \notin {"loop", "drain"} => Running' = {}
  <1>1. NoSpend => InFlightInv'
    BY FewerInFlight
  <1> USE DEF TypeOK, Running, InState
  <1>2. CASE UNCHANGED vars
    BY <1>1, <1>2 DEF vars, InFlightInv
  <1>3. CASE Launch
    BY <1>1, <1>3 DEF Launch
  <1>4. CASE Signal
    BY <1>1, <1>4 DEF Signal, InFlightInv
  <1>5. CASE MainSetup
    <2>1. CASE CloneRepos \/ SetupInterrupted \/ StartPool
      BY <1>1, <2>1 DEF CloneRepos, SetupInterrupted, StartPool, InFlightInv
    <2> QED BY <1>5, <2>1, WarmInFlight DEF MainSetup
  <1>6. CASE MainLoop
    <2>1. ASSUME NEW p \in Pairs,
                 YieldInterrupted(p) \/ YieldRaised(p) \/ YieldRow(p)
                   \/ YieldRefusal(p)
          PROVE  NoSpend
      <3>1. CASE YieldInterrupted(p)
        BY <3>1 DEF YieldInterrupted, Cancel, Had
      <3>2. CASE YieldRaised(p)
        BY <3>2 DEF YieldRaised, Set
      <3>3. CASE YieldRow(p)
        BY <3>3 DEF YieldRow, Set, main
      <3>4. CASE YieldRefusal(p)
        BY <3>4 DEF YieldRefusal, Cancel
      <3> QED BY <2>1, <3>1, <3>2, <3>3, <3>4
    <2>2. CASE LoopDone
      BY <1>1, <2>2 DEF LoopDone
    <2>3. CASE DrainDone
      BY <1>1, <2>3 DEF DrainDone
    <2> QED BY <1>1, <1>6, <2>1, <2>2, <2>3 DEF MainLoop
  <1>7. CASE Dispatch
    <2>1. ASSUME NEW p \in Pairs, SkipTask(p) \/ RefuseTask(p) PROVE NoSpend
      BY <2>1 DEF SkipTask, RefuseTask, Take, PoolAlive, Set, main
    <2> QED BY <1>1, <1>7, <2>1, StartInFlight DEF Dispatch
  <1>8. ASSUME NEW p \in Pairs, AgentEnds(p) PROVE InFlightInv'
    <2>1. CASE FailEarly(p) \/ RaiseTask(p)
      BY <1>1, <2>1 DEF FailEarly, RaiseTask, Set, main, InFlightInv
    <2> QED BY <1>8, <2>1, FinishInFlight DEF AgentEnds
  <1>9. CASE Crash \/ \E p \in Pairs : CrashInAppend(p)
    BY <1>1, <1>9 DEF Crash, CrashInAppend, ProcessLost
  <1>10. CASE HangWarmUp \/ \E p \in Pairs : HangTask(p)
    BY <1>1, <1>10 DEF HangWarmUp, HangTask, Set, main, InFlightInv
  <1> QED BY <1>2, <1>3, <1>4, <1>5, <1>6, <1>7, <1>8, <1>9, <1>10 DEF Next

\* However the gate and the recording of costs interleave, a process spends
\* less than its budget plus one run per thread (BudgetTracker, _worker).
THEOREM Overspend == Spec => []OverspendBounded
  <1>1. InFlightInv /\ TypeOK => OverspendBounded
    <2> SUFFICES ASSUME InFlightInv, TypeOK PROVE OverspendBounded
      OBVIOUS
    <2>1. Cardinality(Running) * MaxCost \in Nat
      BY RunningFinite, RunnerAssumption
    <2>2. Headroom \in Nat /\ MaxWorkers * MaxCost \in Nat
      BY RunnerAssumption DEF Headroom
    <2> QED BY <2>1, <2>2 DEF InFlightInv, TypeOK, OverspendBounded
  <1> QED BY <1>1, SpendInit, SpendStep, TypeCorrect, PTL DEF Spec

-----------------------------------------------------------------------------
(* The runner implements the ledger                                          *)

\* A step that leaves the file alone and opens nothing drops or stutters.
LEMMA StepDrops ==
  ASSUME UNCHANGED disk, Outstanding' \subseteq Outstanding
  PROVE  [Ledger!Next]_(Ledger!vars)
  <1>1. Completed' = Completed /\ Doubt' = Doubt
    BY DEF Completed, Doubt, disk
  <1> QED BY <1>1 DEF Ledger!Next, Ledger!Drop

\* An append to an unterminated line records nothing; what it costs is the entry
\* on that line.  So does an append that is torn there.
LEMMA AppendLoses ==
  ASSUME OneAnswerInv, tail # Clean, tail' \notin Pairs,
         okRows' = WithoutTail(okRows), Outstanding' \subseteq Outstanding
  PROVE  [Ledger!Next]_(Ledger!vars)
  <1> USE DEF OneAnswerInv, OneAnswerPerPair, TypeOK
  <1>1. Doubt' = {}
    BY DEF Doubt
  <1>2. CASE tail \in Pairs
    <2>1. Doubt = {tail}
      BY <1>2 DEF Doubt
    <2>2. Completed' = Completed \ Doubt
      BY <1>2, <2>1 DEF Completed, WithoutTail
    <2> QED BY <1>1, <2>1, <2>2 DEF Ledger!Next, Ledger!Lose
  <1>3. CASE tail \notin Pairs
    <2>1. Doubt = {} /\ Completed' = Completed
      BY <1>3 DEF Doubt, Completed, WithoutTail
    <2> QED BY <1>1, <2>1 DEF Ledger!Next, Ledger!Drop
  <1> QED BY <1>2, <1>3

\* An append that records nothing on a line of its own.
LEMMA AppendDrops ==
  ASSUME OneAnswerInv, NEW p \in Pairs, NEW ok \in BOOLEAN, AppendRow(p, ok),
         ~(tail = Clean /\ ok), Outstanding' \subseteq Outstanding
  PROVE  [Ledger!Next]_(Ledger!vars)
  <1>1. tail' = Clean /\ okRows' = WithoutTail(okRows)
    BY DEF AppendRow
  <1>2. CASE tail = Clean
    <2>1. UNCHANGED disk
      BY <1>1, <1>2, TailsDistinct DEF WithoutTail, disk
    <2> QED BY <2>1, StepDrops
  <1>3. CASE tail # Clean
    BY <1>1, <1>3, TailsDistinct, AppendLoses
  <1> QED BY <1>2, <1>3

LEMMA LedgerStep ==
  ASSUME OneAnswerInv, [Next]_vars
  PROVE  [Ledger!Next]_(Ledger!vars)
  <1> DEFINE Goal == [Ledger!Next]_(Ledger!vars)
  <1> USE DEF OneAnswerInv, TypeOK
  <1>1. CASE UNCHANGED vars
    BY <1>1, StepDrops DEF vars, disk, Outstanding
  <1>2. CASE Launch
    <2>1. Outstanding = {} /\ Completed' = Completed /\ Doubt' = Doubt
      BY <1>2 DEF Launch, Outstanding, disk, Completed, Doubt
    <2>2. CASE Completed = Pairs
      <3>1. phase' = "end"
        BY <1>2, <2>2, Zenon DEF Launch
      <3>2. Outstanding' = {}
        BY <3>1 DEF Outstanding
      <3> QED BY <2>1, <3>2 DEF Ledger!vars
    <2>3. CASE Completed # Pairs
      <3>1. phase' = "clone"
        BY <1>2, <2>3, Zenon DEF Launch
      <3>2. Outstanding' = Pairs \ Completed
        BY <1>2, <3>1 DEF Launch, Outstanding
      <3> QED BY <2>1, <3>2 DEF Ledger!Next, Ledger!Open
    <2> QED BY <2>2, <2>3
  <1>3. CASE Signal \/ Crash
    BY <1>3, StepDrops DEF Signal, Crash, ProcessLost, Outstanding
  <1>4. CASE MainSetup
    BY <1>4, StepDrops DEF MainSetup, CloneRepos, WarmCondition,
       SetupInterrupted, StartPool, disk, Outstanding
  <1>5. CASE MainLoop
    <2>1. ASSUME NEW p \in Pairs, YieldRow(p), tail = Clean, future[p] = "ok"
          PROVE  Goal
      <3>1. Completed' = Completed \cup {p} /\ Doubt = {} /\ Doubt' = {}
        BY <2>1, TailsDistinct DEF YieldRow, AppendRow, Completed, Doubt
      <3>2. p \in Outstanding
        BY <2>1 DEF YieldRow, Outstanding
      <3>3. Outstanding' = Outstanding \ {p}
        BY <2>1 DEF YieldRow, Outstanding, Set, main
      <3>4. Ledger!Commit(p)
        BY <3>1, <3>2, <3>3 DEF Ledger!Commit
      <3> QED BY <2>1, <3>4 DEF Ledger!Next
    <2>2. ASSUME NEW p \in Pairs, YieldRow(p), ~(tail = Clean /\ future[p] = "ok")
          PROVE  Goal
      <3>1. Outstanding' \subseteq Outstanding
        BY <2>2 DEF YieldRow, Outstanding, Set, main
      <3>2. AppendRow(p, future[p] = "ok") /\ (future[p] = "ok") \in BOOLEAN
        BY <2>2 DEF YieldRow
      <3> QED BY <2>2, <3>1, <3>2, AppendDrops
    <2>3. ASSUME NEW p \in Pairs, YieldRefusal(p) PROVE Goal
      <3>1. Outstanding' \subseteq Outstanding
        BY <2>3 DEF YieldRefusal, Outstanding, Cancel
      <3>2. AppendRow(p, FALSE)
        BY <2>3 DEF YieldRefusal
      <3> QED BY <3>1, <3>2, AppendDrops
    <2>4. ASSUME NEW p \in Pairs, YieldInterrupted(p) PROVE Goal
      BY <2>4, StepDrops DEF YieldInterrupted, Outstanding, Cancel, Had, disk
    <2>5. ASSUME NEW p \in Pairs, YieldRaised(p) PROVE Goal
      BY <2>5, StepDrops DEF YieldRaised, Outstanding, Set, disk
    <2>6. CASE LoopDone \/ DrainDone
      BY <2>6, StepDrops DEF LoopDone, DrainDone, Outstanding, disk
    <2> QED BY <1>5, <2>1, <2>2, <2>3, <2>4, <2>5, <2>6 DEF MainLoop
  <1>6. CASE Dispatch
    BY <1>6, StepDrops DEF Dispatch, SkipTask, RefuseTask, RunTask, Take,
       NextInQueue, Set, disk, main, Outstanding
  <1>7. ASSUME NEW p \in Pairs, AgentEnds(p) PROVE Goal
    BY <1>7, StepDrops DEF AgentEnds, FailEarly, RaiseTask, FinishTask, Set,
       disk, main, Outstanding
  <1>8. ASSUME NEW p \in Pairs, CrashInAppend(p) PROVE Goal
    <2>1. Outstanding' = {} /\ p \in Outstanding
      BY <1>8 DEF CrashInAppend, ProcessLost, Outstanding, Written
    <2>2. CASE tail' = Torn /\ okRows' = WithoutTail(okRows)
      <3>1. CASE tail = Clean
        <4>1. Completed' = Completed /\ Doubt' = Doubt
          BY <2>2, <3>1, TailsDistinct DEF Completed, Doubt, WithoutTail
        <4> QED BY <2>1, <4>1 DEF Ledger!Next, Ledger!Drop
      <3>2. CASE tail # Clean
        BY <2>1, <2>2, <3>2, TailsDistinct, AppendLoses
      <3> QED BY <3>1, <3>2
    <2>3. CASE tail = Clean /\ tail' = p /\ okRows' = [okRows EXCEPT ![p] = @ + 1]
      <3>1. Completed' = Completed \cup {p} /\ Doubt = {} /\ Doubt' = {p}
        BY <2>3, TailsDistinct DEF Completed, Doubt
      <3>2. Ledger!HalfCommit(p)
        BY <2>1, <3>1 DEF Ledger!HalfCommit
      <3> QED BY <3>2 DEF Ledger!Next
    <2> QED BY <1>8, <2>2, <2>3 DEF CrashInAppend, TearRow
  <1>9. CASE HangWarmUp \/ \E p \in Pairs : HangTask(p)
    BY <1>9, StepDrops DEF HangWarmUp, HangTask, Set, disk, main, Outstanding
  <1> QED BY <1>1, <1>2, <1>3, <1>4, <1>5, <1>6, <1>7, <1>8, <1>9 DEF Next

\* Threads, budget, signals, crashes, torn appends and resumes together are a
\* ledger that never gives out a recorded pair, and only grows but for the one
\* entry that may be in doubt ("Crash-safe resume").
THEOREM LedgerImplemented == Spec => ImplementsLedger
  <1>1. Init => Ledger!Init
    BY TailsDistinct DEF Init, Ledger!Init, Completed, Outstanding, Doubt
  <1>2. OneAnswerInv /\ [Next]_vars => [Ledger!Next]_(Ledger!vars)
    BY LedgerStep
  <1> QED BY <1>1, <1>2, OneAnswerInit, OneAnswerStep, PTL
      DEF Spec, ImplementsLedger, Ledger!Spec

-----------------------------------------------------------------------------
(* Interruption leaves at most one task half started                         *)

\* Futures are started in the order of the work list; once one has been passed
\* over, for the flag, the budget or a cancelled queue, none is started any more.
OrderInv ==
  /\ \A p \in Started, q \in Waiting : Before(p, q)
  /\ \/ Waiting = InState("pending")
     \/ shutdown \/ ~WithinBudget \/ InState("pending") = {}

\* A step that starts none of the pairs and makes none of them wait.
LEMMA FewerToOrder ==
  ASSUME OrderInv, Started' \subseteq Started, Waiting' \subseteq Waiting,
         warmup' = warmup,
         \/ Waiting' = Waiting /\ InState("pending")' = InState("pending")
            /\ (shutdown => shutdown') /\ (WithinBudget' => WithinBudget)
         \/ InState("pending")' = {}
  PROVE  OrderInv'
  BY DEF OrderInv, Before

\* The future at the head of the queue is started ahead of all that wait.
LEMMA HeadStarts ==
  ASSUME OrderInv, TypeOK, NEW p \in Pairs, RunTask(p)
  PROVE  OrderInv'
  <1> USE DEF RunTask, Take, Set, main, TypeOK
  <1>1. /\ future[p] = "pending" /\ warmup' = warmup
        /\ ~shutdown /\ WithinBudget
    BY DEF NextInQueue, launch
  <1>2. Waiting = InState("pending")
    BY <1>1 DEF OrderInv, InState
  <1>3. Started' \subseteq Started \cup {p}
    BY DEF Started
  <1>4. Waiting' = Waiting \ {p} /\ InState("pending")' = InState("pending") \ {p}
    BY <1>1 DEF Waiting, InState, Unrun
  <1>5. \A q \in Waiting' : Before(p, q)
    BY <1>2, <1>4 DEF NextInQueue
  <1> QED BY <1>1, <1>2, <1>3, <1>4, <1>5 DEF OrderInv, Before

\* A future that is passed over still waits, and so do all behind it.
LEMMA HeadWaits ==
  ASSUME OrderInv, TypeOK, NEW p \in Pairs, SkipTask(p) \/ RefuseTask(p)
  PROVE  OrderInv'
  <1> USE DEF SkipTask, RefuseTask, Take, Set, main, TypeOK
  <1>1. /\ future[p] = "pending" /\ warmup' = warmup
        /\ shutdown' = shutdown /\ total' = total
    BY DEF NextInQueue, launch
  <1>2. shutdown' \/ ~WithinBudget'
    BY <1>1 DEF WithinBudget
  <1>3. Started' = Started /\ Waiting' = Waiting
    BY <1>1 DEF Started, Waiting, Unrun
  <1> QED BY <1>1, <1>2, <1>3 DEF OrderInv, Before

\* The loop takes a result: what was run stays run, what was not stays unrun.
LEMMA ResultHad ==
  ASSUME OrderInv, TypeOK, NEW p \in Pairs,
         YieldInterrupted(p) \/ YieldRaised(p) \/ YieldRow(p) \/ YieldRefusal(p)
  PROVE  OrderInv'
  <1> USE DEF TypeOK, Set, Cancel, Had, Unrun, main, launch
  <1>1. warmup' = warmup
    BY DEF YieldInterrupted, YieldRaised, YieldRow, YieldRefusal
  <1>2. Started' = Started /\ Waiting' = Waiting
    <2>1. CASE YieldInterrupted(p)
      BY <2>1 DEF YieldInterrupted, Finished, Started, Waiting
    <2>2. CASE YieldRaised(p)
      BY <2>2 DEF YieldRaised, Started, Waiting
    <2>3. CASE YieldRow(p)
      BY <2>3 DEF YieldRow, Started, Waiting
    <2>4. CASE YieldRefusal(p)
      BY <2>4 DEF YieldRefusal, Started, Waiting
    <2> QED BY <2>1, <2>2, <2>3, <2>4
  <1>3. \/ InState("pending")' = {}
        \/ /\ InState("pending")' = InState("pending")
           /\ UNCHANGED <<shutdown, total>>
    <2>1. CASE YieldInterrupted(p)
      BY <2>1 DEF YieldInterrupted, Finished, InState
    <2>2. CASE YieldRaised(p)
      BY <2>2 DEF YieldRaised, InState
    <2>3. CASE YieldRow(p)
      BY <2>3 DEF YieldRow, InState
    <2>4. CASE YieldRefusal(p)
      BY <2>4 DEF YieldRefusal, InState
    <2> QED BY <2>1, <2>2, <2>3, <2>4
  <1>4. UNCHANGED <<shutdown, total>> => (WithinBudget' => WithinBudget)
    BY DEF WithinBudget
  <1> QED BY <1>1, <1>2, <1>3, <1>4, FewerToOrder

\* Spending never brings a process back into its budget.
LEMMA SpendingShrinks ==
  ASSUME TypeOK, total' \in Nat, total <= total' PROVE WithinBudget' => WithinBudget
  <1>1. total \in Nat /\ MaxTotal \in Nat /\ Estimate \in Nat
    BY RunnerAssumption DEF TypeOK
  <1>2. \A a, b, e, m \in Nat : a <= b /\ b + e <= m => a + e <= m
    OBVIOUS
  <1>3. total' + Estimate <= MaxTotal => total + Estimate <= MaxTotal
    BY <1>1, <1>2, Zenon
  <1> QED BY <1>3 DEF WithinBudget

\* A step outside the loop that leaves the futures alone, and only spends.
LEMMA FuturesStay ==
  ASSUME OrderInv, TypeOK, UNCHANGED <<future, warmup>>, shutdown => shutdown',
         total' \in Nat, total <= total'
  PROVE  OrderInv'
  <1>1. /\ Started' = Started /\ Waiting' = Waiting
        /\ InState("pending")' = InState("pending")
    BY DEF Started, Waiting, InState
  <1>2. WithinBudget' => WithinBudget
    BY SpendingShrinks
  <1> QED BY <1>1, <1>2, FewerToOrder

\* A run ends or hangs: it has been started all the same.
LEMMA RunMoves ==
  ASSUME OrderInv, TypeOK, NEW p \in Pairs, future[p] = "running",
         NEW s \in {"ok", "error", "raised", "hung"}, Set(p, s),
         UNCHANGED <<warmup, shutdown>>, total' \in Nat, total <= total'
  PROVE  OrderInv'
  <1>1. Started' = Started /\ Waiting' = Waiting
    BY DEF Started, Waiting, Set, TypeOK, Unrun
  <1>2. InState("pending")' = InState("pending")
    BY DEF InState, Set, TypeOK
  <1>3. WithinBudget' => WithinBudget
    BY SpendingShrinks
  <1> QED BY <1>1, <1>2, <1>3, FewerToOrder

LEMMA OrderStep == OneAnswerInv /\ OrderInv /\ [Next]_vars => OrderInv'
  <1> SUFFICES ASSUME OneAnswerInv, OrderInv, [Next]_vars PROVE OrderInv'
    OBVIOUS
  <1>0. TypeOK /\ total \in Nat
    BY DEF OneAnswerInv, TypeOK
  <1>1. CASE UNCHANGED vars
    BY <1>0, <1>1, FuturesStay DEF vars, launch
  <1>2. ASSUME \A p \in Pairs : future'[p] \in {"absent", "pending"} PROVE OrderInv'
    <2>1. Started' = {} /\ Waiting' = InState("pending")'
      BY <1>2 DEF Started, Waiting, InState, Unrun
    <2> QED BY <2>1 DEF OrderInv
  <1>3. CASE Launch
    <2>1. \A p \in Pairs : future'[p] \in {"absent", "pending"}
      BY <1>3 DEF Launch
    <2> QED BY <1>2, <2>1
  <1>4. CASE Signal \/ HangWarmUp \/ CloneRepos \/ SetupInterrupted \/ StartPool
               \/ LoopDone \/ DrainDone
    <2>1. UNCHANGED <<future, warmup, total>> /\ (shutdown => shutdown')
      BY <1>4 DEF Signal, HangWarmUp, CloneRepos, SetupInterrupted, StartPool,
         LoopDone, DrainDone, launch
    <2> QED BY <1>0, <2>1, FuturesStay
  <1>5. ASSUME NEW c \in Conditions, WarmCondition(c) PROVE OrderInv'
    <2>1. UNCHANGED <<future, warmup, shutdown>> /\ total' \in Nat /\ total <= total'
      BY <1>0, <1>5, RunnerAssumption DEF WarmCondition, launch
    <2> QED BY <1>0, <2>1, FuturesStay
  <1>6. CASE Dispatch
    BY <1>0, <1>6, HeadStarts, HeadWaits DEF Dispatch
  <1>7. ASSUME NEW p \in Pairs, AgentEnds(p) \/ HangTask(p) PROVE OrderInv'
    <2>1. CASE FailEarly(p) \/ RaiseTask(p) \/ HangTask(p)
      BY <1>0, <2>1, RunMoves DEF FailEarly, RaiseTask, HangTask, main, launch
    <2>2. ASSUME NEW cost \in 0..MaxCost, NEW verdict \in {"ok", "error"},
                 FinishTask(p, cost, verdict)
          PROVE  OrderInv'
      BY <1>0, <2>2, RunMoves, RunnerAssumption DEF FinishTask, main, launch
    <2> QED BY <1>7, <2>1, <2>2 DEF AgentEnds
  <1>8. CASE Crash \/ \E p \in Pairs : CrashInAppend(p)
    <2>1. \A p \in Pairs : future'[p] \in {"absent", "pending"}
      BY <1>8 DEF Crash, CrashInAppend, ProcessLost
    <2> QED BY <1>2, <2>1
  <1> QED BY <1>0, <1>1, <1>3, <1>4, <1>5, <1>6, <1>7, <1>8, ResultHad
      DEF Next, MainSetup, MainLoop

\* Two half-started groups would each have a pair started ahead of a pair of the
\* other one, so there is at most one.
LEMMA OrderSplitsOne ==
  ASSUME OrderInv
  PROVE  OneSplitTask
  <1>1. \A g, h \in Split : g = h
    <2> SUFFICES ASSUME NEW g \in Split, NEW h \in Split PROVE g = h
      OBVIOUS
    <2>1. PICK p \in Started, q \in Waiting : Group(p) = g /\ Group(q) = g
      BY DEF Split
    <2>2. PICK r \in Started, s \in Waiting : Group(r) = h /\ Group(s) = h
      BY DEF Split
    <2>3. Before(p, s) /\ Before(r, q)
      BY DEF OrderInv
    <2>4. g \in Int /\ h \in Int
      BY DEF Split, Tasks, Conditions
    <2> QED BY <2>1, <2>2, <2>3, <2>4 DEF Before, Group
  <1>2. CASE Split = {}
    BY <1>2, FS_EmptySet DEF OneSplitTask
  <1>3. ASSUME NEW g \in Split PROVE OneSplitTask
    <2>1. Split = {g}
      BY <1>1
    <2>2. Cardinality({g}) = 1
      BY FS_Singleton
    <2> QED BY <2>1, <2>2 DEF OneSplitTask
  <1> QED BY <1>2, <1>3

\* However a process stops and whatever was resumed, at most one task has had
\* some of the pairs it was given run and some cancelled, skipped, refused or
\* still waiting, or one condition under warm-up (the work list of
\* run_swe_qa_experiment under a first-in first-out pool).
THEOREM PairedWhenStopped == Spec => []OneSplitTask
  <1>1. Init => OrderInv
    BY DEF Init, OrderInv, Started, Waiting, InState, Unrun
  <1>2. OrderInv => OneSplitTask
    BY OrderSplitsOne
  <1> QED BY <1>1, <1>2, OneAnswerInit, OneAnswerStep, OrderStep, PTL DEF Spec

-----------------------------------------------------------------------------
(* A loop that runs to its end has written every answer                      *)

\* Answered pairs that are neither in the file nor about to be written to it.
Unwritten == {p \in answered : okRows[p] = 0 /\ future[p] # "ok"}

\* Only the first append may lose its row, and only to a line that was left
\* unterminated by an earlier process.
KeepInv ==
  /\ phase \in {"down", "clone", "warm", "hung"} => answered = {}
  /\ phase = "loop" => /\ tail \notin answered
                       /\ \E p \in Pairs : Unwritten \subseteq {p}
                       /\ Unwritten # {} => ragged /\ tail = Clean
  /\ phase # "down" /\ tail # Clean => ragged
  /\ phase = "drain" => why # "finished"
  /\ FinishedKeepsAnswers
  /\ Running # {} => PoolAlive

\* The pairs are not empty.
LEMMA SomePair == \E p \in Pairs : TRUE
  <1>1. <<1, 1>> \in Pairs
    BY RunnerAssumption DEF Pairs, Tasks, Conditions
  <1> QED BY <1>1

\* Outside the loop and its end, little has to be shown.
LEMMA KeepAside ==
  ASSUME phase' \notin {"loop", "end"},
         phase' \in {"down", "clone", "warm", "hung"} => answered' = {},
         phase' # "down" /\ tail' # Clean => ragged',
         phase' = "drain" => why' # "finished",
         Running' # {} => PoolAlive'
  PROVE  KeepInv'
  BY DEF KeepInv, FinishedKeepsAnswers, Clean

\* Nor for a step of a thread that neither answers a pair nor writes.
LEMMA KeepQuiet ==
  ASSUME KeepInv, UNCHANGED <<disk, main, answered>>, phase = "loop" \/ phase = "drain",
         \A p \in Pairs : future[p] = "ok" <=> future'[p] = "ok",
         answered \subseteq Pairs
  PROVE  KeepInv'
  <1>1. Unwritten' = Unwritten
    BY DEF Unwritten, disk
  <1>2. PoolAlive'
    BY DEF PoolAlive, main
  <1> QED BY <1>1, <1>2 DEF KeepInv, FinishedKeepsAnswers, disk, main, launch, Clean

LEMMA KeepRow ==
  ASSUME OneAnswerInv, KeepInv, NEW p \in Pairs, YieldRow(p)
  PROVE  KeepInv'
  <1> USE DEF OneAnswerInv, TypeOK
  <1>1. /\ answered' = answered /\ ragged' = ragged
        /\ phase = "loop" /\ phase' = "loop" /\ tail' = Clean
        /\ future' = [future EXCEPT ![p] = "yielded"]
    BY DEF YieldRow, Set, main, launch, AppendRow
  <1>2. tail' \notin answered'
    BY <1>1, TailsDistinct
  <1>3. /\ \E q \in Pairs : Unwritten' \subseteq {q}
        /\ Unwritten' # {} => ragged'
    <2>1. CASE tail = Clean
      <3>1. \A q \in Pairs : okRows[q] > 0 => okRows'[q] > 0
        BY <2>1, TailsDistinct DEF YieldRow, AppendRow, WithoutTail
      <3>2. future[p] = "ok" => okRows'[p] > 0
        BY <2>1 DEF YieldRow, AppendRow
      <3>3. Unwritten' \subseteq Unwritten
        BY <1>1, <3>1, <3>2 DEF Unwritten
      <3> QED BY <1>1, <3>3 DEF KeepInv
    <2>2. CASE tail # Clean
      <3>1. Unwritten = {} /\ ragged /\ tail \notin answered
        BY <1>1, <2>2 DEF KeepInv
      <3>2. \A q \in answered : okRows'[q] = okRows[q]
        BY <2>2, <3>1 DEF YieldRow, AppendRow, WithoutTail
      <3>3. Unwritten' \subseteq {p}
        BY <1>1, <3>1, <3>2 DEF Unwritten
      <3> QED BY <1>1, <3>1, <3>3
    <2> QED BY <2>1, <2>2
  <1>4. PoolAlive'
    BY <1>1 DEF PoolAlive
  <1> QED BY <1>1, <1>2, <1>3, <1>4 DEF KeepInv, FinishedKeepsAnswers, Clean

LEMMA KeepFinish ==
  ASSUME OneAnswerInv, KeepInv, NEW p \in Pairs, NEW cost \in 0..MaxCost,
         NEW verdict \in {"ok", "error"}, FinishTask(p, cost, verdict)
  PROVE  KeepInv'
  <1> USE DEF OneAnswerInv, TypeOK, FinishTask, Set, disk, main, launch
  <1>1. PoolAlive /\ PoolAlive' /\ phase' = phase
    BY DEF KeepInv, Running, InState, PoolAlive
  <1>2. Unwritten' \subseteq Unwritten
    BY DEF Unwritten
  <1>3. tail \in Pairs => tail # p
    OBVIOUS
  <1>4. tail \notin answered => tail' \notin answered'
    BY <1>3
  <1>5. phase' # "end" /\ phase' \notin {"down", "clone", "warm", "hung"}
    BY <1>1 DEF PoolAlive
  <1> QED BY <1>1, <1>2, <1>4, <1>5 DEF KeepInv, FinishedKeepsAnswers, Clean

LEMMA KeepDone ==
  ASSUME OneAnswerInv, KeepInv, LoopDone
  PROVE  KeepInv'
  <1> USE DEF OneAnswerInv, TypeOK, LoopDone, disk, launch
  <1>1. Lost' = Unwritten
    BY DEF Lost, Unwritten
  <1>2. Cardinality(Unwritten) <= IF ragged THEN 1 ELSE 0
    <2>1. CASE Unwritten = {}
      BY <2>1, FS_EmptySet
    <2>2. CASE Unwritten # {}
      <3>1. PICK q \in Pairs : Unwritten \subseteq {q}
        BY DEF KeepInv
      <3>2. Unwritten = {q} /\ ragged
        BY <2>2, <3>1 DEF KeepInv
      <3>3. Cardinality({q}) = 1
        BY FS_Singleton
      <3> QED BY <3>2, <3>3
    <2> QED BY <2>1, <2>2
  <1>3. FinishedKeepsAnswers'
    BY <1>1, <1>2 DEF FinishedKeepsAnswers
  <1>4. Running' = {}
    BY DEF Running, InState
  <1> QED BY <1>3, <1>4 DEF KeepInv, Clean

LEMMA KeepStep == OneAnswerInv /\ KeepInv /\ [Next]_vars => KeepInv'
  <1> SUFFICES ASSUME OneAnswerInv, KeepInv, [Next]_vars PROVE KeepInv'
    OBVIOUS
  <1> USE DEF OneAnswerInv, TypeOK
  <1>1. CASE UNCHANGED vars
    BY <1>1 DEF vars, launch, KeepInv, FinishedKeepsAnswers, Lost, Unwritten,
                Running, InState, PoolAlive, Clean
  <1>2. CASE Launch
    <2>1. /\ answered' = {} /\ phase' \in {"clone", "end"}
          /\ tail' # Clean => ragged'
      BY <1>2, Zenon DEF Launch, disk, Clean
    <2>2. Running' = {}
      BY <1>2 DEF Launch, Running, InState
    <2>3. Lost' = {}
      BY <2>1 DEF Lost
    <2>4. Cardinality(Lost') = 0
      BY <2>3, FS_EmptySet
    <2> QED BY <2>1, <2>2, <2>4 DEF KeepInv, FinishedKeepsAnswers, Clean
  <1>3. CASE Signal
    BY <1>3 DEF Signal, launch, disk, KeepInv, FinishedKeepsAnswers, Lost, Unwritten,
                Running, InState, PoolAlive, Clean
  <1>4. CASE Crash \/ \E p \in Pairs : CrashInAppend(p)
    BY <1>4, KeepAside DEF Crash, CrashInAppend, ProcessLost, Running, InState
  <1>5. CASE MainSetup
    <2>1. answered = {} /\ answered' = {} /\ Running' = {}
      BY <1>5 DEF MainSetup, CloneRepos, WarmCondition, SetupInterrupted,
         StartPool, KeepInv, Running, InState, PoolAlive
    <2>2. tail' # Clean => ragged'
      BY <1>5 DEF MainSetup, CloneRepos, WarmCondition, SetupInterrupted,
         StartPool, KeepInv, disk, launch, Clean
    <2>3. Unwritten' = {}
      BY <2>1 DEF Unwritten
    <2>4. phase' \in {"clone", "warm", "loop"} \/ (phase' = "end" /\ why' # "finished")
      BY <1>5 DEF MainSetup, CloneRepos, WarmCondition, SetupInterrupted, StartPool
    <2> QED BY <2>1, <2>2, <2>3, <2>4, SomePair DEF KeepInv, FinishedKeepsAnswers, Clean
  <1>6. CASE MainLoop
    <2>1. ASSUME NEW p \in Pairs,
                 YieldInterrupted(p) \/ YieldRaised(p) \/ YieldRefusal(p)
          PROVE  KeepInv'
      <3>1. phase' = "drain" /\ why' # "finished" /\ PoolAlive'
        BY <2>1 DEF YieldInterrupted, YieldRaised, YieldRefusal, PoolAlive
      <3>2. tail' # Clean => ragged'
        BY <2>1 DEF YieldInterrupted, YieldRaised, YieldRefusal, disk, launch,
                    AppendRow, KeepInv, Clean
      <3> QED BY <3>1, <3>2, KeepAside
    <2>2. CASE DrainDone
      <3>1. /\ phase' = "end" /\ why' # "finished" /\ Running' = {}
            /\ tail' # Clean => ragged'
        BY <2>2 DEF DrainDone, KeepInv, Running, InState, disk, launch, Clean
      <3> QED BY <3>1 DEF KeepInv, FinishedKeepsAnswers
    <2> QED BY <1>6, <2>1, <2>2, KeepRow, KeepDone DEF MainLoop
  <1>7. CASE Dispatch
    <2> SUFFICES ASSUME NEW p \in Pairs, SkipTask(p) \/ RefuseTask(p) \/ RunTask(p)
                 PROVE  KeepInv'
      BY <1>7 DEF Dispatch
    <2>1. /\ UNCHANGED <<disk, main, answered>> /\ (phase = "loop" \/ phase = "drain")
          /\ \A q \in Pairs : future[q] = "ok" <=> future'[q] = "ok"
      BY DEF SkipTask, RefuseTask, RunTask, Take, NextInQueue, PoolAlive, Set
    <2> QED BY <2>1, KeepQuiet
  <1>8. ASSUME NEW p \in Pairs, AgentEnds(p) PROVE KeepInv'
    <2>1. CASE FailEarly(p) \/ RaiseTask(p)
      <3>1. /\ UNCHANGED <<disk, main, answered>> /\ (phase = "loop" \/ phase = "drain")
            /\ \A q \in Pairs : future[q] = "ok" <=> future'[q] = "ok"
        BY <2>1 DEF FailEarly, RaiseTask, Set, KeepInv, Running, InState, PoolAlive
      <3> QED BY <3>1, KeepQuiet
    <2> QED BY <1>8, <2>1, KeepFinish DEF AgentEnds
  <1>9. ASSUME NEW p \in Pairs, HangTask(p) PROVE KeepInv'
    <2>1. /\ UNCHANGED <<disk, main, answered>> /\ (phase = "loop" \/ phase = "drain")
          /\ \A q \in Pairs : future[q] = "ok" <=> future'[q] = "ok"
      BY <1>9 DEF HangTask, Set, KeepInv, Running, InState, PoolAlive
    <2> QED BY <2>1, KeepQuiet
  <1>10. CASE HangWarmUp
    <2>1. /\ phase' = "hung" /\ answered' = {} /\ Running' = {}
          /\ tail' # Clean => ragged'
      BY <1>10 DEF HangWarmUp, KeepInv, Running, InState, PoolAlive, disk, launch, Clean
    <2> QED BY <2>1, KeepAside
  <1> QED BY <1>1, <1>2, <1>3, <1>4, <1>5, <1>6, <1>7, <1>8, <1>9, <1>10 DEF Next

\* A process whose loop ran to its end has every answer its agents gave in the
\* results file, but for one if the file it resumed from was torn ("Crash-safe
\* resume (JSONL append per task)").
THEOREM AnswersKept == Spec => []FinishedKeepsAnswers
  <1>1. Init => KeepInv
    BY DEF Init, KeepInv, FinishedKeepsAnswers, Running, InState
  <1>2. KeepInv => FinishedKeepsAnswers
    BY DEF KeepInv
  <1> QED BY <1>1, <1>2, OneAnswerInit, OneAnswerStep, KeepStep, PTL DEF Spec

-----------------------------------------------------------------------------
(* A process is finite                                                       *)

\* How far a future is from its end, and the main thread from its own.
Rank(state) ==
  CASE state = "pending" -> 3
    [] state = "running" -> 2
    [] state \in Finished \cup {"hung"} -> 1
    [] OTHER -> 0
Ahead == [clone |-> 4, warm |-> 3, loop |-> 2, drain |-> 1, hung |-> 1,
          end |-> 0, down |-> 0]

\* No future goes back, and the main thread goes on, or else a future, a warm-up
\* or the flag does.
Forward ==
  /\ \A p \in Pairs : Rank(future'[p]) <= Rank(future[p])
  /\ \/ Ahead[phase'] < Ahead[phase]
     \/ /\ phase' = phase
        /\ warmLeft' \subseteq warmLeft /\ (shutdown => shutdown')
        /\ \/ \E p \in Pairs : Rank(future'[p]) < Rank(future[p])
           \/ warmLeft' # warmLeft
           \/ shutdown' # shutdown
ProcessesProceed == [][~Launch => Forward]_vars

\* The moves a future makes.
LEMMA Ranked ==
  /\ Rank("pending") = 3 /\ Rank("running") = 2
  /\ \A s \in Finished \cup {"hung"} : Rank(s) = 1
  /\ Rank("absent") = 0 /\ Rank("cancelled") = 0
  /\ Rank("yielded") = 0 /\ Rank("dismissed") = 0
  /\ \A s \in FutureStates : Rank(s) \in 0..3
  BY DEF Rank, Finished, Unrun, FutureStates

\* One future moves.
LEMMA FutureMoves ==
  ASSUME TypeOK, NEW p \in Pairs, NEW s \in FutureStates, Set(p, s),
         Rank(s) < Rank(future[p]), UNCHANGED <<phase, warmLeft, shutdown>>
  PROVE  Forward
  <1>1. /\ future'[p] = s
        /\ \A q \in Pairs : q # p => future'[q] = future[q]
        /\ \A q \in Pairs : Rank(future[q]) \in 0..3
    BY Ranked DEF TypeOK, Set
  <1>2. \A q \in Pairs : Rank(future'[q]) <= Rank(future[q])
    BY <1>1, Ranked
  <1> QED BY <1>1, <1>2 DEF Forward

LEMMA CancelRanks ==
  ASSUME TypeOK, NEW p \in Pairs, future[p] \in Finished,
         NEW s \in {"yielded", "dismissed"},
         future' = [Cancel(future) EXCEPT ![p] = s]
  PROVE  \A q \in Pairs : Rank(future'[q]) <= Rank(future[q])
  <1> TAKE q \in Pairs
  <1>1. /\ future'[q] \in {"yielded", "dismissed", "cancelled", future[q]}
        /\ Rank(future[q]) \in 0..3
    BY Ranked DEF TypeOK, Cancel
  <1> QED BY <1>1, Ranked

LEMMA ForwardStep ==
  ASSUME TypeOK, Next, ~Launch PROVE Forward
  <1> DEFINE Same == \A p \in Pairs : Rank(future'[p]) <= Rank(future[p])
  <1>0. future' = future => Same
    BY Ranked DEF TypeOK
  <1>1. CASE Signal
    BY <1>0, <1>1 DEF Signal, Forward
  <1>2. CASE MainSetup
    <2>1. CASE CloneRepos \/ SetupInterrupted \/ StartPool
      BY <1>0, <2>1 DEF CloneRepos, SetupInterrupted, StartPool, Forward, Ahead
    <2>2. ASSUME NEW c \in Conditions, WarmCondition(c) PROVE Forward
      <3>1. warmLeft' \subseteq warmLeft /\ warmLeft' # warmLeft /\ UNCHANGED <<future, phase, shutdown>>
        BY <2>2 DEF WarmCondition
      <3> QED BY <1>0, <3>1 DEF Forward
    <2> QED BY <1>2, <2>1, <2>2 DEF MainSetup
  <1>3. CASE MainLoop
    <2>1. ASSUME NEW p \in Pairs, YieldInterrupted(p) \/ YieldRefusal(p) PROVE Forward
      <3>1. future[p] \in Finished /\ phase = "loop" /\ phase' = "drain"
        BY <2>1 DEF YieldInterrupted, YieldRefusal, Finished, Unrun
      <3>2. PICK s \in {"yielded", "dismissed"} :
                   future' = [Cancel(future) EXCEPT ![p] = s]
        <4>1. CASE YieldInterrupted(p)
          <5>1. /\ future' = [Cancel(future) EXCEPT ![p] = Had(Cancel(future)[p])]
                /\ Had(Cancel(future)[p]) \in {"yielded", "dismissed"}
            BY <4>1 DEF YieldInterrupted, Had
          <5> QED BY <5>1
        <4>2. CASE YieldRefusal(p)
          BY <4>2 DEF YieldRefusal
        <4> QED BY <2>1, <4>1, <4>2
      <3>3. Same
        BY <3>1, <3>2, CancelRanks
      <3> QED BY <3>1, <3>3 DEF Forward, Ahead
    <2>2. ASSUME NEW p \in Pairs, YieldRaised(p) PROVE Forward
      <3>1. /\ future[p] = "raised" /\ Set(p, "yielded")
            /\ phase = "loop" /\ phase' = "drain"
        BY <2>2 DEF YieldRaised
      <3>2. Same
        <4> TAKE q \in Pairs
        <4>1. future'[q] \in {"yielded", future[q]} /\ Rank(future[q]) \in 0..3
          BY <3>1, Ranked DEF TypeOK, Set
        <4> QED BY <4>1, Ranked
      <3> QED BY <3>1, <3>2 DEF Forward, Ahead
    <2>3. ASSUME NEW p \in Pairs, YieldRow(p) PROVE Forward
      <3>1. /\ future[p] \in Finished /\ Set(p, "yielded")
            /\ UNCHANGED <<phase, warmLeft, shutdown>>
        BY <2>3 DEF YieldRow, Finished, main
      <3>2. Rank("yielded") < Rank(future[p]) /\ "yielded" \in FutureStates
        BY <3>1, Ranked DEF FutureStates
      <3> QED BY <3>1, <3>2, FutureMoves
    <2>4. CASE LoopDone \/ DrainDone
      BY <1>0, <2>4 DEF LoopDone, DrainDone, Forward, Ahead
    <2> QED BY <1>3, <2>1, <2>2, <2>3, <2>4 DEF MainLoop
  <1>4. ASSUME NEW p \in Pairs, SkipTask(p) \/ RefuseTask(p) \/ RunTask(p) PROVE Forward
    <2>1. PICK s \in {"skipped", "refused", "running"} : Set(p, s)
      BY <1>4 DEF SkipTask, RefuseTask, RunTask
    <2>2. future[p] = "pending" /\ UNCHANGED <<phase, warmLeft, shutdown>>
      BY <1>4 DEF SkipTask, RefuseTask, RunTask, Take, NextInQueue, main
    <2>3. s \in FutureStates /\ Rank(s) < Rank(future[p])
      BY <2>2, Ranked DEF FutureStates, Finished, Unrun
    <2> QED BY <2>1, <2>2, <2>3, FutureMoves
  <1>5. ASSUME NEW p \in Pairs, AgentEnds(p) \/ HangTask(p) PROVE Forward
    <2>1. PICK s \in {"ok", "error", "raised", "hung"} : Set(p, s)
      BY <1>5 DEF AgentEnds, FailEarly, RaiseTask, FinishTask, HangTask
    <2>2. future[p] = "running" /\ UNCHANGED <<phase, warmLeft, shutdown>>
      BY <1>5 DEF AgentEnds, FailEarly, RaiseTask, FinishTask, HangTask, main
    <2>3. s \in FutureStates /\ Rank(s) < Rank(future[p])
      BY <2>2, Ranked DEF FutureStates, Finished, Unrun
    <2> QED BY <2>1, <2>2, <2>3, FutureMoves
  <1>6. ASSUME ProcessLost, phase \notin {"down", "end"} PROVE Forward
    <2>1. Same
      BY <1>6, Ranked DEF ProcessLost, TypeOK
    <2> QED BY <1>6, <2>1 DEF ProcessLost, Forward, Ahead, TypeOK
  <1>7. Crash \/ (\E p \in Pairs : CrashInAppend(p)) => ProcessLost /\ phase \notin {"down", "end"}
    BY DEF Crash, CrashInAppend
  <1>8. CASE HangWarmUp
    BY <1>0, <1>8 DEF HangWarmUp, Forward, Ahead
  <1> QED BY <1>1, <1>2, <1>3, <1>4, <1>5, <1>6, <1>7, <1>8 DEF Next, Dispatch

\* Whatever is signalled, raised, refused or hangs, a process is finite: of its pairs
\* each is dispatched, run and yielded at most once, its main thread passes through
\* its phases once, and only the next process takes a finished future back
\* (run_swe_qa_experiment).
THEOREM ProcessesAreFinite == Spec => ProcessesProceed
  <1>1. OneAnswerInv /\ [Next]_vars => [~Launch => Forward]_vars
    BY ForwardStep DEF OneAnswerInv
  <1> QED BY <1>1, OneAnswerInit, OneAnswerStep, PTL DEF Spec, ProcessesProceed

=============================================================================
