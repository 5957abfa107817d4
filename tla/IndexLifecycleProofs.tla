------------------------ MODULE IndexLifecycleProofs ------------------------
(* Proofs about IndexLifecycle, for every number of processes, trees, kills, *)
(* failures and benchmark runs.                                              *)
EXTENDS IndexLifecycle, FiniteSetTheorems, TLAPS

LEMMA TypedStep == Typed /\ [Next]_vars => Typed'
  <1> SUFFICES ASSUME Typed, [Next]_vars PROVE Typed'
    OBVIOUS
  <1> USE LifecycleAssumption
      DEF Typed, TypeOK, StepsOfTools, Commits, Directories, Absent, Hollow, Partial,
          LockFiles, Steps, BuildSteps, disk, entries, lock, procs, operator, bounds
  <1>1. CASE UNCHANGED vars
    BY <1>1 DEF vars
  <1>2. ASSUME NEW p \in Procs, Start(p) \/ StartAtWill(p) PROVE Typed'
    BY <1>2 DEF Start, StartPrebuild, StartReset, StartAtWill, StartBench, StartResetAll, Begin, Goto
  <1>3. ASSUME NEW p \in Procs, Step(p) PROVE Typed'
    <2>0. pc[p] \notin {"idle", "check", "lock", "filling", "next"} => at[p] \in Trees
      OBVIOUS
    <2>1. CASE Finish(p)
      BY <2>0, <2>1 DEF Finish, Gone, ReleaseLock, Goto
    <2>2. CASE CheckLock(p)
      <3>1. CASE Takeover
        BY <2>2, <3>1 DEF CheckLock, Goto
      <3>2. CASE ~Takeover
        <4>1. lockKind = "held" /\ lockOwner # p /\ pc[p] = "check"
          BY <2>2, <3>2 DEF CheckLock, Takeover
        <4>2. Gone(p) /\ UNCHANGED <<disk, lock, operator>>
          BY <2>2, <3>2 DEF CheckLock
        <4> QED BY <4>1, <4>2 DEF Gone
      <3> QED BY <3>1, <3>2
    <2>3. CASE TruncateLock(p)
      BY <2>0, <2>3 DEF TruncateLock, Goto
    <2>4. CASE FillLock(p)
      BY <2>0, <2>4 DEF FillLock, Goto
    <2>5. ASSUME NEW t \in Trees, SkipStamped(p, t) PROVE Typed'
      BY <2>0, <2>5 DEF SkipStamped, Visit, PrepareTree, IndexThen, StampThen, Recut, Goto
    <2>6. ASSUME NEW t \in Trees, PrebuildTree(p, t) PROVE Typed'
      BY <2>0, <2>6 DEF PrebuildTree, Visit, PrepareTree, IndexThen, StampThen, Recut, Goto
    <2>7. ASSUME NEW t \in Trees, RefuseTree(p, t) \/ ReadTornStamp(p, t) PROVE Typed'
      <3>1. /\ StopAt(p, t) /\ mustReset' \in {mustReset, t}
        BY <2>7 DEF RefuseTree, ReadTornStamp
      <3> QED BY <2>0, <3>1 DEF StopAt, PrepareTree, IndexThen, StampThen, Recut, Gone, ReleaseLock
    <2>8. ASSUME NEW t \in Trees, BenchTree(p, t) PROVE Typed'
      BY <2>0, <2>8 DEF BenchTree, Visit, PrepareTree, IndexThen, StampThen, Recut, Goto
    <2>9. ASSUME NEW t \in Trees, ResetTree(p, t) PROVE Typed'
      BY <2>0, <2>9 DEF ResetTree, Visit, PrepareTree, IndexThen, StampThen, Recut, Goto
    <2>10. CASE UseCache(p)
      BY <2>0, <2>10 DEF UseCache, Goto
    <2>11. CASE RestoreDone(p)
      BY <2>0, <2>11 DEF RestoreDone, Goto
    <2>12. CASE StartInit(p)
      BY <2>0, <2>12 DEF StartInit, Goto
    <2>13. CASE InitDone(p)
      BY <2>0, <2>13 DEF InitDone, Goto
    <2>14. CASE InitFails(p)
      BY <2>0, <2>14 DEF InitFails, Goto
    <2>15. CASE MakeCache(p)
      BY <2>0, <2>15 DEF MakeCache, CacheStep, Goto
    <2>16. CASE StartCopy(p)
      BY <2>0, <2>16 DEF StartCopy, CacheStep, Goto
    <2>17. CASE CopyDone(p)
      BY <2>0, <2>17 DEF CopyDone, CacheStep, Goto
    <2>18. CASE StampBegun(p)
      BY <2>0, <2>18 DEF StampBegun, Goto
    <2>19. CASE StampDone(p)
      BY <2>0, <2>19 DEF StampDone, Goto
    <2>20. CASE RunAgent(p)
      BY <2>0, <2>20 DEF RunAgent, Goto
    <2>21. CASE LeaveTree(p)
      BY <2>0, <2>21 DEF LeaveTree, Goto
    <2>22. CASE ResetStamp(p)
      BY <2>0, <2>22 DEF ResetStamp, Goto
    <2>23. CASE ResetCache(p)
      BY <2>0, <2>23 DEF ResetCache, TakingApart, Goto
    <2>24. CASE ResetIndex(p)
      BY <2>0, <2>24 DEF ResetIndex, CacheCleared, CacheRemains, RemovalFails, Goto
    <2>25. CASE ResetDone(p)
      BY <2>0, <2>25 DEF ResetDone, RemovalFails, Goto
    <2> HIDE DEF Typed
    <2> QED BY <1>3, <2>1, <2>2, <2>3, <2>4, <2>5, <2>6, <2>7, <2>8, <2>9,
               <2>10, <2>11, <2>12, <2>13, <2>14, <2>15, <2>16, <2>17, <2>18,
               <2>19, <2>20, <2>21, <2>22, <2>23, <2>24, <2>25 DEF Step
  <1>4. ASSUME NEW p \in Procs, Kill(p) PROVE Typed'
    BY <1>4 DEF Kill, Gone
  <1>5. ASSUME NEW t \in Trees, MoveHead(t) PROVE Typed'
    BY <1>5 DEF MoveHead
  <1> QED BY <1>1, <1>2, <1>3, <1>4, <1>5 DEF Next


LEMMA StepActive ==
  ASSUME NEW p \in Procs, Step(p) PROVE pc[p] # "idle"
  BY DEF Step, Finish, CheckLock, TruncateLock, FillLock, SkipStamped, Visit,
         PrebuildTree, RefuseTree, ReadTornStamp, StopAt, BenchTree, ResetTree, UseCache,
         RestoreDone, StartInit, InitDone, InitFails, MakeCache, CacheStep,
         StartCopy, CopyDone, StampBegun, StampDone, RunAgent, LeaveTree,
         ResetStamp, ResetCache, ResetIndex, ResetDone


LEMMA LifeStep == Alone /\ LifeInv /\ [Next]_vars => LifeInv'
  <1> SUFFICES ASSUME Alone, LifeInv, [Next]_vars PROVE LifeInv'
    OBVIOUS
  <1>0. Typed'
    BY TypedStep DEF LifeInv
  <1> USE <1>0, LifecycleAssumption
      DEF LifeInv, Typed, TypeOK, StepsOfTools, OneTool, TreeSound, WorkSound, Trusted,
          Commits, Directories, Absent, Hollow, Partial, Steps, BuildSteps, disk,
          entries, lock, procs, operator, bounds
  <1>1. CASE UNCHANGED vars
    BY <1>1 DEF vars
  <1>2. ASSUME NEW p \in Procs, Start(p) \/ StartAtWill(p) PROVE LifeInv'
    BY <1>2 DEF Start, StartPrebuild, StartReset, StartAtWill, StartBench, StartResetAll, Begin, Goto
  <1>3. ASSUME NEW p \in Procs, Step(p) PROVE LifeInv'
    <2>0. /\ tool[p] # "none" /\ \A q \in Procs \ {p} : tool[q] = "none" /\ at[q] = NoTree
          /\ pc[p] \notin {"idle", "check", "lock", "filling", "next"} => at[p] \in Trees
      BY <1>3, StepActive
    <2>1. CASE Finish(p)
      BY <2>0, <2>1 DEF Finish, Gone, ReleaseLock, Goto
    <2>2. CASE CheckLock(p)
      BY <2>0, <2>2 DEF CheckLock, Takeover, Gone, Goto
    <2>3. CASE TruncateLock(p)
      BY <2>0, <2>3 DEF TruncateLock, Goto
    <2>4. CASE FillLock(p)
      BY <2>0, <2>4 DEF FillLock, Goto
    <2>5. ASSUME NEW t \in Trees, SkipStamped(p, t) PROVE LifeInv'
      BY <2>0, <2>5 DEF SkipStamped, Visit, PrepareTree, IndexThen, StampThen, Recut, Goto
    <2>6. ASSUME NEW t \in Trees, PrebuildTree(p, t) PROVE LifeInv'
      BY <2>0, <2>6 DEF PrebuildTree, Visit, PrepareTree, IndexThen, StampThen, Recut, Goto
    <2>7. ASSUME NEW t \in Trees, RefuseTree(p, t) \/ ReadTornStamp(p, t) PROVE LifeInv'
      BY <2>0, <2>7 DEF RefuseTree, ReadTornStamp, StopAt, PrepareTree, IndexThen, StampThen, Recut, Gone,
                        ReleaseLock, Goto
    <2>8. ASSUME NEW t \in Trees, BenchTree(p, t) PROVE LifeInv'
      BY <2>0, <2>8 DEF BenchTree, Visit, PrepareTree, IndexThen, StampThen, Recut, Goto
    <2>9. ASSUME NEW t \in Trees, ResetTree(p, t) PROVE LifeInv'
      BY <2>0, <2>9 DEF ResetTree, Visit, PrepareTree, IndexThen, StampThen, Recut, Goto
    <2>10. CASE UseCache(p)
      BY <2>0, <2>10 DEF UseCache, Goto
    <2>11. CASE RestoreDone(p)
      BY <2>0, <2>11 DEF RestoreDone, Goto
    <2>12. CASE StartInit(p)
      <3> DEFINE t == at[p]
      <3>1. /\ pc[p] = "cache" /\ t \in Trees /\ cache[t] = Absent
            /\ index' = [index EXCEPT ![t] = Partial]
            /\ pc' = [pc EXCEPT ![p] = "init"]
            /\ cold'[p] <=> index[t] = Absent
            /\ UNCHANGED <<head, commit, stamp, entries, lock, tool, at, todo, operator>>
        <4>1. cold' = [cold EXCEPT ![p] = (index[t] = Absent)]
          BY <2>12, Zenon DEF StartInit
        <4>2. cold \in [Procs -> BOOLEAN]
          OBVIOUS
        <4>3. ASSUME index[t] = Absent PROVE cold'[p]
          <5>1. cold' = [cold EXCEPT ![p] = TRUE]
            BY <4>1, <4>3, Zenon
          <5> QED BY <4>2, <5>1
        <4>4. ASSUME index[t] # Absent PROVE ~cold'[p]
          <5>1. cold' = [cold EXCEPT ![p] = FALSE]
            BY <4>1, <4>4, Zenon
          <5> QED BY <4>2, <5>1
        <4> QED BY <2>0, <2>12, <4>3, <4>4 DEF StartInit, Goto
      <3>2. \A q \in Procs \ {p} : WorkSound(q)'
        BY <2>0, <3>1
      <3>3. WorkSound(p)'
        BY <2>0, <3>1
      <3> QED BY <3>1, <3>2, <3>3
    <2>13. CASE InitDone(p)
      BY <2>0, <2>13 DEF InitDone, Goto
    <2>14. CASE InitFails(p)
      BY <2>0, <2>14 DEF InitFails, Goto
    <2>15. CASE MakeCache(p)
      BY <2>0, <2>15 DEF MakeCache, CacheStep, Goto
    <2>16. CASE StartCopy(p)
      BY <2>0, <2>16 DEF StartCopy, CacheStep, Goto
    <2>17. CASE CopyDone(p)
      BY <2>0, <2>17 DEF CopyDone, CacheStep, Goto
    <2>18. CASE StampBegun(p)
      BY <2>0, <2>18 DEF StampBegun, Goto
    <2>19. CASE StampDone(p)
      BY <2>0, <2>19 DEF StampDone, Goto
    <2>20. CASE RunAgent(p)
      BY <2>0, <2>20 DEF RunAgent, Goto
    <2>21. CASE LeaveTree(p)
      BY <2>0, <2>21 DEF LeaveTree, Goto
    <2>22. CASE ResetStamp(p)
      BY <2>0, <2>22 DEF ResetStamp, Goto
    <2>23. CASE ResetCache(p)
      BY <2>0, <2>23 DEF ResetCache, TakingApart, Goto
    <2>24. CASE ResetIndex(p)
      BY <2>0, <2>24 DEF ResetIndex, CacheCleared, CacheRemains, RemovalFails, Goto
    <2>25. CASE ResetDone(p)
      BY <2>0, <2>25 DEF ResetDone, RemovalFails, Goto
    <2> HIDE DEF LifeInv, Typed
    <2> QED BY <1>3, <2>1, <2>2, <2>3, <2>4, <2>5, <2>6, <2>7, <2>8, <2>9,
               <2>10, <2>11, <2>12, <2>13, <2>14, <2>15, <2>16, <2>17, <2>18,
               <2>19, <2>20, <2>21, <2>22, <2>23, <2>24, <2>25 DEF Step
  <1>4. ASSUME NEW p \in Procs, Kill(p) PROVE LifeInv'
    BY <1>4 DEF Kill, Gone
  <1>5. ASSUME NEW t \in Trees, MoveHead(t) PROVE LifeInv'
    BY <1>5 DEF MoveHead
  <1> QED BY <1>1, <1>2, <1>3, <1>4, <1>5 DEF Next

LEMMA LifeInit == Init => LifeInv
  BY LifecycleAssumption
  DEF Init, LifeInv, Typed, TypeOK, StepsOfTools, OneTool, TreeSound, WorkSound,
      Trusted, Commits, Directories, Absent, Hollow, Partial, LockFiles, Steps,
      BuildSteps

\* The lifecycle's state is well typed, and a lock that names a live process
\* names one that is prebuilding (acquire_lock, release_lock), however many
\* tools run at once.
THEOREM LifecycleTyped == Spec => []TypeOK
  <1>1. Init => Typed
    BY LifeInit DEF LifeInv
  <1>2. Typed => TypeOK
    BY DEF Typed
  <1> QED BY <1>1, <1>2, TypedStep, PTL DEF Spec

\* When one tool runs at a time, a stamp always stands for a complete index of
\* its tree's commit, whatever was killed half way, failed or reset before, as
\* long as the source repository has not moved and no cache entry has outlived a
\* reset (prebuild's main, index_repo_at, reset's main).
THEOREM StampsMeanBuilt == ASSUME Alone PROVE Spec => []StampMeansBuilt
  <1>1. LifeInv => StampMeansBuilt
    BY DEF LifeInv, Typed, TypeOK, Commits, TreeSound, StampMeansBuilt, Trusted
  <1>2. LifeInv /\ [Next]_vars => LifeInv'
    BY LifeStep
  <1> QED BY <1>1, <1>2, LifeInit, PTL DEF Spec

\* ... and the seconds it records are those of a build from nothing.
THEOREM StampsRecordColdBuilds == ASSUME Alone PROVE Spec => []StampsAreCold
  <1>1. LifeInv => StampsAreCold
    BY DEF LifeInv, TreeSound, StampsAreCold
  <1>2. LifeInv /\ [Next]_vars => LifeInv'
    BY LifeStep
  <1> QED BY <1>1, <1>2, LifeInit, PTL DEF Spec

\* ... and a benchmark's agents find a complete index of their tree's commit
\* (ensure_arm_index).
THEOREM AgentsFindBuiltIndex == ASSUME Alone PROVE Spec => []AgentIndexBuilt
  <1>1. LifeInv => AgentIndexBuilt
    BY DEF LifeInv, Typed, TypeOK, Commits, WorkSound, AgentIndexBuilt, Trusted,
           Fresh
  <1>2. LifeInv /\ [Next]_vars => LifeInv'
    BY LifeStep
  <1> QED BY <1>1, <1>2, LifeInit, PTL DEF Spec

-----------------------------------------------------------------------------
(* The tools keep to the protocol of a tree's index                          *)

\* The protocol's state, as ImplementsTreeIndex reads it off the tools'.
MUsable == {t \in Trees \ Lost : Fresh(t)}
MStamped == {t \in Trees \ Lost : stamp[t] # "none"}
MBuilding == {t \in Trees \ Lost : \E p \in Procs : Builds(p, t)}
MUsers == [t \in Trees |-> {p \in Procs : t \notin Lost /\ Queries(p, t)}]

\* A tree looks the same from outside after a step, and what a process does in it.
SameTree(t) == (Fresh(t)' <=> Fresh(t)) /\ ((stamp'[t] # "none") <=> (stamp[t] # "none"))
SameUse(p, t) == (Builds(p, t)' <=> Builds(p, t)) /\ (Queries(p, t)' <=> Queries(p, t))

\* A step that nobody sees but in trees that are lost.
LEMMA Unseen ==
  ASSUME Lost \subseteq Lost',
         \A t \in Trees : t \notin Lost' => SameTree(t) /\ \A p \in Procs : SameUse(p, t)
  PROVE  I!Lose
  <1>1. Lost' \subseteq Trees
    BY DEF Lost
  <1>2. /\ MUsable' = MUsable \ Lost'
        /\ MStamped' = MStamped \ Lost'
    BY DEF SameTree, MUsable, MStamped
  <1>3. MBuilding' = MBuilding \ Lost'
    BY DEF SameUse, MBuilding
  <1>4. MUsers' = [t \in Trees |-> IF t \in Lost' THEN {} ELSE MUsers[t]]
    BY DEF SameUse, MUsers
  <1> QED BY <1>1, <1>2, <1>3, <1>4 DEF I!Lose, MUsable, MStamped, MBuilding, MUsers

\* A step after which somebody may no longer build or query.
LEMMA Leaving ==
  ASSUME Lost' = Lost, \A t \in Trees : SameTree(t),
         \A p \in Procs : \A t \in Trees :
           (Builds(p, t)' => Builds(p, t)) /\ (Queries(p, t)' => Queries(p, t))
  PROVE  I!Release
  <1>1. MUsable' = MUsable /\ MStamped' = MStamped
    BY DEF SameTree, MUsable, MStamped
  <1>2. MBuilding' \subseteq MBuilding
    BY DEF MBuilding
  <1>3. /\ MUsers' \in [Trees -> SUBSET Procs]
        /\ \A t \in Trees : MUsers'[t] \subseteq MUsers[t]
    BY DEF MUsers
  <1> QED BY <1>1, <1>2, <1>3 DEF I!Release, MUsable, MStamped, MBuilding, MUsers

\* What a step in one tree that is not lost does to the protocol's state.
LEMMA InTree ==
  ASSUME NEW u \in Trees \ Lost, Lost' = Lost,
         \A t \in Trees : t # u => SameTree(t) /\ \A p \in Procs : SameUse(p, t)
  PROVE  /\ Fresh(u)' => MUsable' = MUsable \cup {u}
         /\ ~Fresh(u)' => MUsable' = MUsable \ {u}
         /\ stamp'[u] # "none" => MStamped' = MStamped \cup {u}
         /\ stamp'[u] = "none" => MStamped' = MStamped \ {u}
         /\ (\E p \in Procs : Builds(p, u)') => MBuilding' = MBuilding \cup {u}
         /\ (\A p \in Procs : ~Builds(p, u)') => MBuilding' = MBuilding \ {u}
         /\ MUsers' = [MUsers EXCEPT ![u] = {p \in Procs : Queries(p, u)'}]
         /\ MUsers[u] = {p \in Procs : Queries(p, u)}
         /\ u \in MUsable <=> Fresh(u)
         /\ u \in MStamped <=> stamp[u] # "none"
         /\ u \in MBuilding <=> \E p \in Procs : Builds(p, u)
  <1>1. /\ Fresh(u)' => MUsable' = MUsable \cup {u}
        /\ ~Fresh(u)' => MUsable' = MUsable \ {u}
        /\ u \in MUsable <=> Fresh(u)
    BY DEF MUsable, SameTree
  <1>2. /\ stamp'[u] # "none" => MStamped' = MStamped \cup {u}
        /\ stamp'[u] = "none" => MStamped' = MStamped \ {u}
        /\ u \in MStamped <=> stamp[u] # "none"
    BY DEF MStamped, SameTree
  <1>3. /\ (\E p \in Procs : Builds(p, u)') => MBuilding' = MBuilding \cup {u}
        /\ (\A p \in Procs : ~Builds(p, u)') => MBuilding' = MBuilding \ {u}
        /\ u \in MBuilding <=> \E p \in Procs : Builds(p, u)
    BY DEF MBuilding, SameUse
  <1>4. /\ MUsers' = [MUsers EXCEPT ![u] = {p \in Procs : Queries(p, u)'}]
        /\ MUsers[u] = {p \in Procs : Queries(p, u)}
    BY DEF MUsers, SameUse
  <1> QED BY <1>1, <1>2, <1>3, <1>4

\* Nobody else is running, and a step leaves the others alone.
LEMMA OthersIdle ==
  ASSUME LifeInv, NEW p \in Procs, Step(p), NEW q \in Procs, q # p
  PROVE  pc[q] = "idle" /\ pc'[q] = "idle" /\ \A t \in Trees : SameUse(q, t)
  <1>1. pc[q] = "idle" /\ tool[q] = "none"
    BY StepActive DEF LifeInv, Typed, TypeOK, OneTool
  <1>2. pc'[q] = pc[q]
    BY DEF LifeInv, Typed, TypeOK, Step, Finish, CheckLock, TruncateLock, FillLock,
           SkipStamped, Visit, PrebuildTree, RefuseTree, ReadTornStamp, StopAt, BenchTree,
           ResetTree, UseCache,
           RestoreDone, StartInit, InitDone, InitFails, MakeCache, CacheStep,
           StartCopy, CopyDone, StampBegun, StampDone, RunAgent, LeaveTree,
           ResetStamp, ResetCache, ResetIndex, ResetDone, Gone, Goto, procs
  <1> QED BY <1>1, <1>2 DEF SameUse, Builds, Queries

\* prepare_arm_tree: a tree that is not lost is as it was cut.
LEMMA VisitUnseen ==
  ASSUME LifeInv, NEW u \in Trees, PrepareTree(u)
  PROVE  /\ Lost' = Lost
         /\ \A t \in Trees : t \notin Lost => SameTree(t)
  <1>1. /\ UNCHANGED <<head, kept>>
        /\ \A t \in Trees : t # u =>
             index'[t] = index[t] /\ stamp'[t] = stamp[t] /\ commit'[t] = commit[t]
    BY DEF PrepareTree, LifeInv, Typed, TypeOK, entries
  <1>2. Lost' = Lost
    BY <1>1 DEF Lost, Trusted
  <1>3. ASSUME u \notin Lost
        PROVE  index'[u] = index[u] /\ stamp'[u] = stamp[u] /\ commit'[u] = commit[u]
    <2>1. commit[u] = head[u]
      BY <1>3 DEF Lost, Trusted, LifeInv, Typed, TypeOK, Commits
    <2> QED BY <2>1 DEF PrepareTree, IndexThen, StampThen, Recut, LifeInv, Typed, TypeOK
  <1> QED BY <1>1, <1>2, <1>3 DEF SameTree, Fresh

\* The steps of the tools' loops.
LEMMA LoopSteps ==
  ASSUME LifeInv, NEW p \in Procs, Step(p), NEW u \in Trees,
         \/ SkipStamped(p, u) \/ PrebuildTree(p, u)
         \/ RefuseTree(p, u) \/ ReadTornStamp(p, u)
         \/ BenchTree(p, u) \/ ResetTree(p, u)
  PROVE  I!Lose \/ I!Admit(p, u)
  <1>1. PrepareTree(u) /\ pc[p] = "next"
    BY DEF SkipStamped, PrebuildTree, RefuseTree, ReadTornStamp, StopAt, BenchTree, ResetTree, Visit
  <1>2. \A t \in Trees : ~Builds(p, t) /\ ~Queries(p, t)
    BY <1>1 DEF Builds, Queries
  <1>3. CASE BenchTree(p, u) /\ StampThen(u) # "none"
    <2>1. pc'[p] = "agent" /\ at'[p] = u
      BY <1>3 DEF BenchTree, Visit, Goto, LifeInv, Typed, TypeOK
    <2>2. \A t \in Trees : ~Builds(p, t)' /\ (Queries(p, t)' <=> t = u)
      BY <2>1 DEF Builds, Queries
    <2>3. CASE u \in Lost
      BY <1>1, <1>2, <2>2, <2>3, VisitUnseen, OthersIdle, Unseen DEF SameUse
    <2>4. CASE u \notin Lost
      <3>1. Fresh(u) /\ Fresh(u)' /\ (stamp'[u] # "none" <=> stamp[u] # "none")
        <4>1. commit[u] = 0 /\ head[u] = 0
          BY <2>4 DEF Lost, Trusted, LifeInv, Typed, TypeOK, Commits
        <4>2. index[u] = 0
          BY <1>3, <2>4, <4>1 DEF Lost, LifeInv, TreeSound, StampThen, Recut
        <4> QED BY <1>1, <2>4, <4>1, <4>2, VisitUnseen DEF Fresh, SameTree
      <3>2. Lost' = Lost
        BY <1>1, VisitUnseen
      <3>3. \A t \in Trees : SameTree(t)
        BY <1>1, <3>1 DEF PrepareTree, LifeInv, Typed, TypeOK, SameTree, Fresh
      <3>4. {q \in Procs : Queries(q, u)'} = {q \in Procs : Queries(q, u)} \cup {p}
        BY <2>2, <1>2, OthersIdle DEF Queries
      <3>5. \A q \in Procs : ~Builds(q, u) /\ ~Builds(q, u)'
        BY <1>2, <2>2, OthersIdle DEF Builds
      <3>6. \A t \in Trees : t # u => SameTree(t) /\ \A q \in Procs : SameUse(q, t)
        BY <1>2, <2>2, <3>3, OthersIdle DEF SameUse
      <3>7. /\ MUsable' = MUsable \cup {u} /\ u \in MUsable /\ u \notin MBuilding
            /\ MBuilding' = MBuilding \ {u}
            /\ MUsers' = [MUsers EXCEPT ![u] = @ \cup {p}]
        BY <2>4, <3>1, <3>2, <3>4, <3>5, <3>6, InTree
      <3>8. MStamped' = MStamped
        BY <3>2, <3>3 DEF MStamped, SameTree
      <3> QED BY <2>4, <3>2, <3>7, <3>8
              DEF I!Admit, MUsable, MStamped, MBuilding, MUsers
    <2> QED BY <2>3, <2>4
  <1>4. CASE ~(BenchTree(p, u) /\ StampThen(u) # "none")
    <2>1. pc'[p] \in {"next", "cache", "rstamp", "idle"}
      BY <1>4 DEF SkipStamped, PrebuildTree, RefuseTree, ReadTornStamp, StopAt, BenchTree,
                  ResetTree, Visit, Goto,
                  Gone, LifeInv, Typed, TypeOK
    <2>2. \A t \in Trees : ~Builds(p, t)' /\ ~Queries(p, t)'
      BY <2>1 DEF Builds, Queries
    <2> QED BY <1>1, <1>2, <2>2, VisitUnseen, OthersIdle, Unseen DEF SameUse
  <1> QED BY <1>3, <1>4

\* A step of a tool in the tree it works on.
AtWork(p) ==
  \/ UseCache(p) \/ RestoreDone(p) \/ StartInit(p) \/ InitDone(p) \/ InitFails(p)
  \/ MakeCache(p) \/ StartCopy(p) \/ CopyDone(p)
  \/ StampBegun(p) \/ StampDone(p) \/ RunAgent(p) \/ LeaveTree(p)
  \/ ResetStamp(p) \/ ResetCache(p) \/ ResetIndex(p) \/ ResetDone(p)

\* It touches nothing else.
LEMMA WorkFrame ==
  ASSUME LifeInv, NEW p \in Procs, AtWork(p)
  PROVE  /\ Step(p) /\ at[p] \in Trees /\ at'[p] \in {at[p], NoTree}
         /\ UNCHANGED <<head, commit>>
         /\ \A t \in Trees : t # at[p] =>
              /\ SameTree(t)
              /\ t \in Lost' <=> t \in Lost
              /\ \A q \in Procs : SameUse(q, t)
  <1>1. /\ Step(p) /\ at[p] \in Trees /\ at'[p] \in {at[p], NoTree}
        /\ UNCHANGED <<head, commit>>
    BY DEF AtWork, Step, LifeInv, Typed, TypeOK, UseCache, RestoreDone, StartInit, InitDone,
           InitFails, MakeCache, CacheStep, StartCopy, CopyDone, StampBegun, StampDone,
           RunAgent, LeaveTree, ResetStamp, ResetCache, ResetIndex, ResetDone, disk, procs
  <1>2. \A t \in Trees : t # at[p] =>
          index'[t] = index[t] /\ stamp'[t] = stamp[t] /\ (t \in kept' <=> t \in kept)
    BY DEF AtWork, LifeInv, Typed, TypeOK, UseCache, RestoreDone, StartInit, InitDone,
           InitFails, MakeCache, CacheStep, StartCopy, CopyDone, StampBegun, StampDone,
           RunAgent, LeaveTree, ResetStamp, ResetCache, ResetIndex, ResetDone, CacheCleared,
           CacheRemains, disk, entries
  <1>3. \A t \in Trees : t # at[p] => SameUse(p, t)
    BY <1>1, LifecycleAssumption DEF SameUse, Builds, Queries
  <1> QED BY <1>1, <1>2, <1>3, OthersIdle DEF SameTree, Fresh, Lost, Trusted

\* It is a step of the protocol.
LEMMA WorkSteps ==
  ASSUME LifeInv, NEW p \in Procs, AtWork(p)
  PROVE  I!Next
  <1>0. PICK u \in Trees : u = at[p]
    BY WorkFrame
  <1>1. /\ Step(p) /\ at'[p] \in {u, NoTree} /\ NoTree \notin Trees
        /\ UNCHANGED <<head, commit>>
        /\ \A q \in Procs : q # p =>
             \A t \in Trees : ~Builds(q, t) /\ ~Queries(q, t) /\ ~Builds(q, t)' /\ ~Queries(q, t)'
        /\ \A t \in Trees : t # u =>
             /\ SameTree(t) /\ (t \in Lost' <=> t \in Lost)
             /\ \A q \in Procs : SameUse(q, t)
    BY <1>0, WorkFrame, OthersIdle, LifecycleAssumption DEF Builds, Queries
  <1>2. Lost \subseteq Trees /\ Lost' \subseteq Trees
    BY DEF Lost
  \* Nothing is promised of the tree.
  <1>3. CASE u \in Lost'
    <2>1. Lost \subseteq Lost'
      BY <1>1, <1>2, <1>3
    <2> QED BY <1>1, <1>3, <2>1, Unseen DEF I!Next
  \* What was left of it is gone.
  <1>4. CASE u \notin Lost' /\ u \in Lost
    <2>1. ResetIndex(p)
      BY <1>0, <1>4 DEF AtWork, Lost, Trusted, LifeInv, Typed, TypeOK, UseCache,
         RestoreDone, StartInit, InitDone, InitFails, MakeCache, CacheStep, StartCopy,
         CopyDone, StampBegun, StampDone, RunAgent, LeaveTree, ResetStamp, ResetCache,
         ResetDone, disk, entries
    <2>2. /\ stamp[u] = "none" /\ stamp'[u] = "none"
          /\ index'[u] \in {Absent, Partial} /\ commit'[u] \in Commits
      BY <1>0, <1>1, <2>1 DEF ResetIndex, LifeInv, Typed, TypeOK, WorkSound, disk
    <2>3. ~Builds(p, u) /\ ~Queries(p, u) /\ ~Builds(p, u)' /\ ~Queries(p, u)'
      BY <2>1 DEF ResetIndex, Goto, Builds, Queries, LifeInv, Typed, TypeOK
    <2>4. ~Fresh(u)'
      BY <2>2 DEF Fresh, Absent, Partial, Commits
    <2>5. Lost' = Lost \ {u}
      BY <1>1, <1>2, <1>4
    <2>6. MUsable' = MUsable /\ u \notin MUsable
      BY <1>1, <1>4, <2>4, <2>5 DEF MUsable, SameTree
    <2>7. MStamped' = MStamped
      BY <1>1, <1>4, <2>2, <2>5 DEF MStamped, SameTree
    <2>8. MBuilding' = MBuilding
      BY <1>1, <1>4, <2>3, <2>5 DEF MBuilding, SameUse
    <2>9. MUsers' = MUsers
      BY <1>1, <1>4, <2>3, <2>5 DEF MUsers, SameUse
    <2> QED BY <2>5, <2>6, <2>7, <2>8, <2>9
            DEF I!Regain, I!Next, MUsable, MStamped, MBuilding, MUsers
  <1>5. CASE u \notin Lost' /\ u \notin Lost
    <2>0. /\ Lost' = Lost /\ u \in Trees \ Lost
          /\ head[u] = 0 /\ commit[u] = 0 /\ commit'[u] = 0
      BY <1>1, <1>2, <1>5 DEF Lost, Trusted, LifeInv, Typed, TypeOK, Commits
    <2>1. /\ TreeSound(u) /\ WorkSound(p) /\ Trusted(u)
      BY <1>5 DEF LifeInv, Lost
    <2>2. /\ (\E q \in Procs : Builds(q, u)) <=> Builds(p, u)
          /\ (\E q \in Procs : Builds(q, u)') <=> Builds(p, u)'
          /\ {q \in Procs : Queries(q, u)} = IF Queries(p, u) THEN {p} ELSE {}
          /\ {q \in Procs : Queries(q, u)'} = IF Queries(p, u)' THEN {p} ELSE {}
      BY <1>1
    <2>3. /\ Fresh(u)' => MUsable' = MUsable \cup {u}
          /\ ~Fresh(u)' => MUsable' = MUsable \ {u}
          /\ stamp'[u] # "none" => MStamped' = MStamped \cup {u}
          /\ stamp'[u] = "none" => MStamped' = MStamped \ {u}
          /\ Builds(p, u)' => MBuilding' = MBuilding \cup {u}
          /\ ~Builds(p, u)' => MBuilding' = MBuilding \ {u}
          /\ MUsers' = [MUsers EXCEPT ![u] = IF Queries(p, u)' THEN {p} ELSE {}]
          /\ MUsers[u] = IF Queries(p, u) THEN {p} ELSE {}
          /\ MUsers \in [Trees -> SUBSET Procs]
          /\ u \in MUsable <=> Fresh(u)
          /\ u \in MStamped <=> stamp[u] # "none"
          /\ u \in MBuilding <=> Builds(p, u)
      <3>1. MUsers \in [Trees -> SUBSET Procs]
        BY DEF MUsers
      <3> QED BY <1>1, <2>0, <2>2, <3>1, InTree
    \* Nothing in the tree changes but who works on it.
    <2>4. ASSUME SameTree(u), Builds(p, u)' => Builds(p, u), Queries(p, u)' => Queries(p, u)
          PROVE  I!Next
      BY <1>1, <2>0, <2>4, Leaving DEF SameUse, I!Next
    \* The tree is not used, and its index goes or is built.
    <2>5. ASSUME stamp[u] = "none", stamp'[u] = "none", ~Builds(p, u), ~Queries(p, u),
                 ~Fresh(u)', ~Queries(p, u)'
          PROVE  I!Next
      <3>1. u \notin Lost \cup MStamped \cup MBuilding /\ MUsers[u] = {}
        BY <2>0, <2>3, <2>5
      <3>2. /\ MUsable' = MUsable \ {u} /\ MStamped' = MStamped /\ MUsers' = MUsers
            /\ MBuilding' = MBuilding \/ MBuilding' = MBuilding \cup {u}
        BY <2>3, <2>5, <3>1
      <3>3. I!StartBuild(u) \/ I!Remove(u)
        BY <2>0, <3>1, <3>2
           DEF I!StartBuild, I!Remove, I!Unused, MUsable, MStamped, MBuilding, MUsers
      <3> QED BY <3>3 DEF I!Next
    <2>6. CASE InitDone(p)
      <3>1. /\ pc[p] = "init" /\ Builds(p, u) /\ ~Queries(p, u)
            /\ ~Builds(p, u)' /\ ~Queries(p, u)' /\ Fresh(u)' /\ stamp'[u] = stamp[u]
        BY <1>0, <2>6 DEF InitDone, Goto, Builds, Queries, Fresh, LifeInv, Typed, TypeOK
      <3>2. /\ u \in MBuilding /\ MBuilding' = MBuilding \ {u} /\ MUsable' = MUsable \cup {u}
            /\ MStamped' = MStamped /\ MUsers' = MUsers
        BY <2>3, <3>1
      <3> QED BY <2>0, <3>2 DEF I!FinishBuild, I!Next, MUsable, MStamped, MBuilding, MUsers
    <2>7. CASE StampBegun(p) \/ StampDone(p)
      <3>1. /\ pc[p] \in {"built", "stamping"} /\ ~Builds(p, u) /\ ~Queries(p, u)
            /\ ~Builds(p, u)' /\ ~Queries(p, u)' /\ stamp'[u] # "none" /\ index'[u] = index[u]
        BY <1>0, <2>7 DEF StampBegun, StampDone, Goto, Builds, Queries, LifeInv, Typed, TypeOK
      <3>2. index[u] = 0
        BY <1>0, <2>1, <3>1, LifecycleAssumption DEF WorkSound
      <3>3. Fresh(u) /\ Fresh(u)'
        BY <2>0, <3>1, <3>2 DEF Fresh
      <3>4. /\ u \in MUsable \ MBuilding /\ MStamped' = MStamped \cup {u}
            /\ MBuilding' = MBuilding /\ MUsable' = MUsable /\ MUsers' = MUsers
        BY <2>3, <3>1, <3>3
      <3> QED BY <2>0, <3>4 DEF I!Stamp, I!Next, MUsable, MStamped, MBuilding, MUsers
    <2>8. CASE ResetStamp(p)
      <3>1. /\ ~Builds(p, u) /\ ~Queries(p, u) /\ ~Builds(p, u)' /\ ~Queries(p, u)'
            /\ stamp'[u] = "none" /\ index'[u] = index[u]
        BY <1>0, <2>8 DEF ResetStamp, Goto, Builds, Queries, LifeInv, Typed, TypeOK
      <3>2. Fresh(u)' <=> Fresh(u)
        BY <1>1, <3>1 DEF Fresh
      <3>3. /\ MStamped' = MStamped \ {u}
            /\ MBuilding' = MBuilding /\ MUsable' = MUsable /\ MUsers' = MUsers
        BY <2>3, <3>1, <3>2
      <3> QED BY <2>0, <3>3 DEF I!Unstamp, I!Next, MUsable, MStamped, MBuilding, MUsers
    <2>9. CASE RunAgent(p)
      <3>1. /\ pc[p] = "built" /\ ~Builds(p, u) /\ ~Queries(p, u)
            /\ ~Builds(p, u)' /\ Queries(p, u)' /\ stamp' = stamp /\ index' = index
        BY <1>0, <2>9 DEF RunAgent, Goto, Builds, Queries, LifeInv, Typed, TypeOK, disk
      <3>2. index[u] = 0
        BY <1>0, <2>1, <3>1, LifecycleAssumption DEF WorkSound
      <3>3. Fresh(u) /\ Fresh(u)'
        BY <2>0, <3>1, <3>2 DEF Fresh
      <3>4. /\ u \in MUsable \ MBuilding /\ MStamped' = MStamped
            /\ MBuilding' = MBuilding /\ MUsable' = MUsable
            /\ MUsers' = [MUsers EXCEPT ![u] = @ \cup {p}]
        BY <2>3, <3>1, <3>3
      <3> QED BY <2>0, <3>4 DEF I!Admit, I!Next, MUsable, MStamped, MBuilding, MUsers
    <2>10. CASE StartInit(p) \/ ResetIndex(p)
      <3>1. /\ stamp[u] = "none" /\ stamp' = stamp /\ index'[u] \in {Absent, Partial}
            /\ ~Builds(p, u) /\ ~Queries(p, u) /\ ~Queries(p, u)'
        BY <1>0, <2>1, <2>10, LifecycleAssumption
        DEF StartInit, ResetIndex, Goto, Builds, Queries, LifeInv, Typed, TypeOK, WorkSound
      <3>2. ~Fresh(u)'
        BY <2>0, <3>1 DEF Fresh, Absent, Partial
      <3> QED BY <2>5, <3>1, <3>2
    <2>11. CASE ResetDone(p)
      <3>1. /\ stamp[u] = "none" /\ stamp' = stamp
            /\ ~Builds(p, u) /\ ~Queries(p, u) /\ ~Builds(p, u)' /\ ~Queries(p, u)'
            /\ index'[u] = Absent \/ index' = index
        BY <1>0, <2>11
        DEF ResetDone, Goto, Builds, Queries, LifeInv, Typed, TypeOK, WorkSound
      <3>2. CASE index'[u] = Absent
        <4>1. ~Fresh(u)'
          BY <2>0, <3>2 DEF Fresh, Absent
        <4> QED BY <2>5, <3>1, <4>1
      <3>3. CASE index' = index
        BY <1>1, <2>4, <3>1, <3>3 DEF SameTree, Fresh
      <3> QED BY <3>1, <3>2, <3>3
    <2>12. CASE UseCache(p)
      <3>1. pc[p] = "cache" /\ cache[u] # Absent
        BY <1>0, <2>12 DEF UseCache
      <3>2. index[u] = 0
        BY <2>1, <3>1 DEF TreeSound
      <3>3. UNCHANGED <<index, stamp>> /\ ~Builds(p, u)' /\ ~Queries(p, u)'
        BY <1>0, <2>12, <3>2
        DEF UseCache, Goto, Builds, Queries, LifeInv, Typed, TypeOK, Absent, Partial
      <3> QED BY <1>1, <2>4, <3>3 DEF SameTree, Fresh
    <2>13. ~RestoreDone(p)
      BY <1>0, <2>1, LifecycleAssumption DEF RestoreDone, WorkSound
    <2>14. CASE \/ InitFails(p) \/ MakeCache(p) \/ StartCopy(p) \/ CopyDone(p)
                \/ LeaveTree(p) \/ ResetCache(p)
      <3>1. UNCHANGED <<index, stamp>> /\ ~Builds(p, u)' /\ ~Queries(p, u)'
        BY <1>0, <2>14
        DEF InitFails, MakeCache, CacheStep, StartCopy, CopyDone, LeaveTree, ResetCache,
            Goto, Builds, Queries, LifeInv, Typed, TypeOK, disk
      <3> QED BY <1>1, <2>4, <3>1 DEF SameTree, Fresh
    <2> QED BY <2>6, <2>7, <2>8, <2>9, <2>10, <2>11, <2>12, <2>13, <2>14 DEF AtWork
  <1> QED BY <1>3, <1>4, <1>5

LEMMA TreeIndexStep == LifeInv /\ [Next]_vars => [I!Next]_(I!vars)
  <1> SUFFICES ASSUME LifeInv, [Next]_vars PROVE I!Next \/ UNCHANGED (I!vars)
    OBVIOUS
  <1>1. CASE UNCHANGED vars
    BY <1>1 DEF I!vars, vars, Lost, Trusted, Fresh, Builds, Queries
  <1>2. ASSUME NEW p \in Procs, Start(p) \/ StartAtWill(p) PROVE I!Next
    <2>1. /\ UNCHANGED <<head, commit, index, stamp, kept>>
          /\ pc[p] = "idle" /\ pc'[p] \notin {"init", "agent"}
          /\ \A q \in Procs : q # p => pc'[q] = pc[q] /\ at'[q] = at[q]
      BY <1>2 DEF Start, StartPrebuild, StartReset, StartAtWill, StartBench, StartResetAll, Begin,
                  Goto, LifeInv, Typed, TypeOK, disk, entries
    <2>2. Lost' = Lost /\ \A t \in Trees : SameTree(t)
      BY <2>1 DEF Lost, Trusted, SameTree, Fresh
    <2>3. \A q \in Procs : \A t \in Trees : SameUse(q, t)
      BY <2>1 DEF SameUse, Builds, Queries
    <2> QED BY <2>2, <2>3, Unseen DEF I!Next
  <1>3. ASSUME NEW p \in Procs,
               Finish(p) \/ CheckLock(p) \/ TruncateLock(p) \/ FillLock(p)
        PROVE  I!Next
    <2>1. /\ UNCHANGED <<head, commit, index, stamp, kept>>
          /\ pc[p] \notin {"init", "agent"} /\ pc'[p] \notin {"init", "agent"}
          /\ Step(p)
      BY <1>3 DEF Finish, CheckLock, TruncateLock, FillLock, Gone, Goto, Step, LifeInv, Typed,
                  TypeOK, disk, entries
    <2>2. Lost' = Lost /\ \A t \in Trees : SameTree(t)
      BY <2>1 DEF Lost, Trusted, SameTree, Fresh
    <2>3. \A q \in Procs : \A t \in Trees : SameUse(q, t)
      BY <2>1, OthersIdle DEF SameUse, Builds, Queries
    <2> QED BY <2>2, <2>3, Unseen DEF I!Next
  <1>4. ASSUME NEW p \in Procs, Step(p) PROVE I!Next
    <2>1. ASSUME NEW u \in Trees,
                 \/ SkipStamped(p, u) \/ PrebuildTree(p, u)
                 \/ RefuseTree(p, u) \/ ReadTornStamp(p, u)
                 \/ BenchTree(p, u) \/ ResetTree(p, u)
          PROVE  I!Next
      BY <1>4, <2>1, LoopSteps DEF I!Next
    <2> QED BY <1>3, <1>4, <2>1, WorkSteps DEF Step, AtWork
  <1>5. ASSUME NEW p \in Procs, Kill(p) PROVE I!Next
    <2>1. /\ UNCHANGED <<head, commit, index, stamp, kept>>
          /\ pc'[p] = "idle"
          /\ \A q \in Procs : q # p => pc'[q] = pc[q] /\ at'[q] = at[q]
      BY <1>5 DEF Kill, Gone, LifeInv, Typed, TypeOK, disk, entries
    <2>2. Lost' = Lost /\ \A t \in Trees : SameTree(t)
      BY <2>1 DEF Lost, Trusted, SameTree, Fresh
    <2>3. \A q \in Procs : \A t \in Trees :
            (Builds(q, t)' => Builds(q, t)) /\ (Queries(q, t)' => Queries(q, t))
      BY <2>1 DEF Builds, Queries
    <2> QED BY <2>2, <2>3, Leaving DEF I!Next
  <1>6. ASSUME NEW t \in Trees, MoveHead(t) PROVE I!Next
    <2>1. /\ UNCHANGED <<commit, index, stamp, kept, pc, at>>
          /\ \A u \in Trees : Trusted(u)' => Trusted(u)
      BY <1>6 DEF MoveHead, Trusted, LifeInv, Typed, TypeOK, Commits, entries, procs
    <2>2. Lost \subseteq Lost' /\ \A u \in Trees : SameTree(u)
      BY <2>1 DEF Lost, SameTree, Fresh
    <2>3. \A q \in Procs : \A u \in Trees : SameUse(q, u)
      BY <2>1 DEF SameUse, Builds, Queries
    <2> QED BY <2>2, <2>3, Unseen DEF I!Next
  <1> QED BY <1>1, <1>2, <1>4, <1>5, <1>6 DEF Next

LEMMA QuietTools ==
  LifeInv /\ (\A p \in Procs : tool[p] = "none") => I!Quiet
  <1> SUFFICES ASSUME LifeInv, \A p \in Procs : tool[p] = "none" PROVE I!Quiet
    OBVIOUS
  <1>1. \A p \in Procs : \A t \in Trees : ~Builds(p, t) /\ ~Queries(p, t)
    BY DEF LifeInv, Typed, TypeOK, Builds, Queries
  <1>2. \A t \in Trees \ Lost : stamp[t] # "none" => Fresh(t)
    BY DEF LifeInv, Typed, TypeOK, Commits, TreeSound, Lost, Trusted, Fresh
  <1> QED BY <1>1, <1>2 DEF I!Quiet

\* When one tool runs at a time, prebuild, reset and run implement the protocol of
\* a tree's index: a build or a removal finds neither a stamp nor an agent, and what
\* is stamped or handed to an agent is complete (prebuild's main, reset's main,
\* index_repo_at, ensure_arm_index).
THEOREM ToolsKeepTreeIndex == ASSUME Alone PROVE Spec => ImplementsTreeIndex
  <1>1. LifeInv /\ [Next]_vars => LifeInv'
    BY LifeStep
  <1>2. Init => I!Init
    <2>1. Init => /\ \A p \in Procs : tool[p] = "none"
                  /\ \A t \in Trees : Trusted(t)
      BY DEF Init, Trusted
    <2>2. Init => Lost = {}
      BY <2>1 DEF Lost
    <2> QED BY <2>1, <2>2, LifeInit, QuietTools DEF I!Init
  <1> QED BY <1>1, <1>2, LifeInit, TreeIndexStep, PTL
          DEF Spec, ImplementsTreeIndex, I!Spec

\* Whatever the tools did and however they were killed, a run that starts when
\* none is running finds the trees as the protocol lets it begin (I!Quiet, which
\* is what a run of ArmSetup starts from: TreeIndexImplemented).
THEOREM ToolsLeaveQuiet ==
  ASSUME Alone
  PROVE  Spec => []((\A p \in Procs : tool[p] = "none") => I!Quiet)
  <1>1. LifeInv /\ [Next]_vars => LifeInv'
    BY LifeStep
  <1> QED BY <1>1, LifeInit, QuietTools, PTL DEF Spec

-----------------------------------------------------------------------------
(* A tool is finite                                                          *)

\* How far a tool is from its next tree, and from its end: ten steps a tree.
Way == [check |-> 4, lock |-> 3, filling |-> 2, next |-> 1,
        cache |-> 10, init |-> 9, mkcache |-> 8, copy |-> 7, copying |-> 6, restore |-> 6,
        built |-> 5, stamping |-> 4, agent |-> 4, failed |-> 4,
        rstamp |-> 10, rcache |-> 9, rindex |-> 8, rclear |-> 7]
Remaining(p) == IF pc[p] = "idle" THEN 0 ELSE 10 * Cardinality(todo[p]) + Way[pc[p]]

\* Nobody but the operator, who starts it, gives a tool more to do, and each of
\* its steps leaves it less.
Proceed ==
  \A p \in Procs :
    /\ Remaining(p)' > Remaining(p) => Start(p) \/ StartAtWill(p)
    /\ Step(p) => Remaining(p)' < Remaining(p)
ToolsProceed == [][Proceed]_vars

LEMMA TreesLeft ==
  ASSUME IsFiniteSet(Trees), TypeOK, NEW p \in Procs
  PROVE  /\ Cardinality(todo[p]) \in Nat /\ Cardinality(Trees) \in Nat
         /\ Cardinality(todo[p]) <= Cardinality(Trees)
         /\ \A t \in todo[p] : Cardinality(todo[p] \ {t}) = Cardinality(todo[p]) - 1
  <1>1. todo[p] \subseteq Trees
    BY DEF TypeOK
  <1>2. /\ IsFiniteSet(todo[p]) /\ Cardinality(todo[p]) \in Nat /\ Cardinality(Trees) \in Nat
        /\ Cardinality(todo[p]) <= Cardinality(Trees)
    BY <1>1, FS_Subset, FS_CardinalityType
  <1> QED BY <1>2, FS_RemoveElement

\* Remaining, by where the tool is.
LEMMA RemainingIs ==
  ASSUME IsFiniteSet(Trees), TypeOK, NEW p \in Procs
  PROVE  /\ Remaining(p) \in 0..(10 * Cardinality(Trees) + 10)
         /\ pc[p] = "idle" => Remaining(p) = 0
         /\ pc[p] # "idle" => /\ Way[pc[p]] \in 1..10
                              /\ Remaining(p) = 10 * Cardinality(todo[p]) + Way[pc[p]]
  <1>1. pc[p] \in Steps
    BY DEF TypeOK
  <1>2. pc[p] # "idle" => Way[pc[p]] \in 1..10
    BY <1>1 DEF Steps, BuildSteps, Way
  <1> QED BY <1>2, TreesLeft DEF Remaining

\* A step in which the tool leaves, stays with its tree, or takes the next one.
Leaves(p) == pc[p] # "idle" /\ pc'[p] = "idle"
Goes(p) ==
  /\ pc[p] # "idle" /\ pc'[p] # "idle" /\ Way[pc'[p]] < Way[pc[p]] /\ Way[pc'[p]] \in 1..10
  /\ todo'[p] = todo[p]
Takes(p) ==
  /\ pc[p] = "next" /\ pc'[p] # "idle" /\ Way[pc'[p]] \in 1..10
  /\ \E t \in todo[p] : todo'[p] = todo[p] \ {t}

LEMMA StepMoves ==
  ASSUME Typed, NEW p \in Procs, Step(p)
  PROVE  /\ Leaves(p) \/ Goes(p) \/ Takes(p)
         /\ \A q \in Procs \ {p} : pc'[q] = pc[q] /\ todo'[q] = todo[q]
  <1> DEFINE Moves == /\ Leaves(p) \/ Goes(p) \/ Takes(p)
                      /\ \A q \in Procs \ {p} : pc'[q] = pc[q] /\ todo'[q] = todo[q]
  <1> USE DEF Typed, TypeOK, Goto, Leaves, Goes, Takes, Way
  <1>1. CASE Finish(p)
    BY <1>1 DEF Finish, Gone
  <1>2. CASE CheckLock(p) \/ TruncateLock(p) \/ FillLock(p)
    BY <1>2 DEF CheckLock, TruncateLock, FillLock, Gone
  <1>3. ASSUME NEW t \in Trees, NEW step \in {"next", "cache", "agent", "rstamp"}, Visit(p, t, step)
        PROVE  Moves
    BY <1>3 DEF Visit
  <1>4. ASSUME NEW t \in Trees, SkipStamped(p, t) \/ PrebuildTree(p, t) \/ BenchTree(p, t)
                                  \/ ResetTree(p, t)
        PROVE  Moves
    <2> HIDE DEF Typed, Leaves, Goes, Takes
    <2> QED BY <1>3, <1>4 DEF SkipStamped, PrebuildTree, BenchTree, ResetTree
  <1>5. ASSUME NEW t \in Trees, RefuseTree(p, t) \/ ReadTornStamp(p, t) PROVE Moves
    BY <1>5 DEF RefuseTree, ReadTornStamp, StopAt, Gone
  <1>6. CASE UseCache(p) \/ RestoreDone(p) \/ StartInit(p) \/ InitDone(p) \/ InitFails(p)
    BY <1>6 DEF UseCache, RestoreDone, StartInit, InitDone, InitFails
  <1>7. CASE MakeCache(p) \/ StartCopy(p) \/ CopyDone(p)
    BY <1>7 DEF MakeCache, StartCopy, CopyDone, CacheStep
  <1>8. CASE StampBegun(p) \/ StampDone(p) \/ RunAgent(p) \/ LeaveTree(p)
    BY <1>8 DEF StampBegun, StampDone, RunAgent, LeaveTree
  <1>9. CASE ResetStamp(p) \/ ResetCache(p) \/ ResetIndex(p) \/ ResetDone(p)
    BY <1>9 DEF ResetStamp, ResetCache, ResetIndex, ResetDone
  <1> HIDE DEF Typed, Leaves, Goes, Takes
  <1> QED BY <1>1, <1>2, <1>4, <1>5, <1>6, <1>7, <1>8, <1>9 DEF Step

LEMMA StepProceeds ==
  ASSUME IsFiniteSet(Trees), Typed, NEW p \in Procs, Step(p)
  PROVE  Remaining(p)' \in Int /\ Remaining(p)' < Remaining(p)
  <1>1. TypeOK
    BY DEF Typed
  <1>2. /\ Cardinality(todo[p]) \in Nat
        /\ \A t \in todo[p] : Cardinality(todo[p] \ {t}) = Cardinality(todo[p]) - 1
        /\ pc[p] # "idle" => /\ Way[pc[p]] \in 1..10
                             /\ Remaining(p) = 10 * Cardinality(todo[p]) + Way[pc[p]]
    BY <1>1, TreesLeft, RemainingIs
  <1>3. CASE Leaves(p)
    <2>1. Remaining(p)' = 0
      BY <1>3 DEF Leaves, Remaining
    <2> QED BY <1>2, <1>3, <2>1 DEF Leaves
  <1>4. CASE Goes(p)
    <2>1. Remaining(p)' = 10 * Cardinality(todo[p]) + Way[pc'[p]]
      BY <1>4 DEF Goes, Remaining, Way
    <2> QED BY <1>2, <1>4, <2>1 DEF Goes
  <1>5. CASE Takes(p)
    <2>1. PICK t \in todo[p] : todo'[p] = todo[p] \ {t}
      BY <1>5 DEF Takes
    <2>2. Remaining(p)' = 10 * Cardinality(todo[p] \ {t}) + Way[pc'[p]]
      BY <1>5, <2>1 DEF Takes, Remaining, Way
    <2>3. Remaining(p) = 10 * Cardinality(todo[p]) + 1
      BY <1>2, <1>5 DEF Takes, Way
    <2>4. Remaining(p)' = 10 * (Cardinality(todo[p]) - 1) + Way[pc'[p]]
      BY <1>2, <2>2
    <2>5. ASSUME NEW n \in Nat, NEW way \in 1..10
          PROVE  10 * (n - 1) + way \in Int /\ 10 * (n - 1) + way < 10 * n + 1
      BY <2>5
    <2>6. Cardinality(todo[p]) \in Nat /\ Way[pc'[p]] \in 1..10
      BY <1>2, <1>5 DEF Takes
    <2> QED BY <2>3, <2>4, <2>5, <2>6
  <1> QED BY <1>3, <1>4, <1>5, StepMoves

LEMMA ProceedStep ==
  ASSUME IsFiniteSet(Trees), Typed, Next, NEW p \in Procs
  PROVE  /\ Remaining(p)' > Remaining(p) => Start(p) \/ StartAtWill(p)
         /\ Step(p) => Remaining(p)' < Remaining(p)
  <1>1. TypeOK /\ Remaining(p) \in Nat
    BY RemainingIs, TreesLeft DEF Typed
  <1>2. pc'[p] = pc[p] /\ todo'[p] = todo[p] => Remaining(p)' = Remaining(p)
    BY DEF Remaining
  <1>3. Step(p) => Remaining(p)' \in Int /\ Remaining(p)' < Remaining(p)
    BY StepProceeds
  <1>4. ASSUME NEW q \in Procs, q # p, Step(q) PROVE Remaining(p)' = Remaining(p)
    BY <1>2, <1>4, StepMoves
  <1>5. ASSUME NEW q \in Procs, q # p, Start(q) \/ StartAtWill(q)
        PROVE  Remaining(p)' = Remaining(p)
    BY <1>1, <1>2, <1>5
    DEF Start, StartPrebuild, StartReset, StartAtWill, StartBench, StartResetAll, Begin, Goto,
        TypeOK
  <1>6. ASSUME NEW q \in Procs, Kill(q) PROVE ~(Remaining(p)' > Remaining(p))
    <2>1. CASE q = p
      <3>1. Remaining(p)' = 0
        BY <1>1, <1>6, <2>1 DEF Kill, Gone, Remaining, TypeOK
      <3> QED BY <1>1, <3>1
    <2>2. CASE q # p
      BY <1>1, <1>2, <1>6, <2>2 DEF Kill, Gone, TypeOK
    <2> QED BY <2>1, <2>2
  <1>7. ASSUME NEW t \in Trees, MoveHead(t) PROVE Remaining(p)' = Remaining(p)
    BY <1>2, <1>7 DEF MoveHead, procs
  <1> QED BY <1>1, <1>3, <1>4, <1>5, <1>6, <1>7 DEF Next

\* However many tools run at once and wherever they are killed, each is finite:
\* with finitely many trees it takes at most 10 * Cardinality(Trees) + 10 steps,
\* no other tool gives it more to do, and none waits for another: a lock that is
\* held sends a second prebuild away (prebuild's main, reset's main, index_repo_at).
THEOREM ToolsAreFinite ==
  ASSUME IsFiniteSet(Trees)
  PROVE  Spec => /\ [](\A p \in Procs : Remaining(p) \in 0..(10 * Cardinality(Trees) + 10))
                 /\ ToolsProceed
  <1>1. Init => Typed
    BY LifeInit DEF LifeInv
  <1>2. Typed => \A p \in Procs : Remaining(p) \in 0..(10 * Cardinality(Trees) + 10)
    BY RemainingIs DEF Typed
  <1>3. Typed /\ [Next]_vars => [Proceed]_vars
    BY ProceedStep DEF Proceed
  <1> QED BY <1>1, <1>2, <1>3, TypedStep, PTL DEF Spec, ToolsProceed

=============================================================================
