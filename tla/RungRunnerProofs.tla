-------------------------- MODULE RungRunnerProofs --------------------------
(* Proofs about RungRunner, for any instances, arms and trees they share, any *)
(* plans and flags, and every number of runs and faults.                      *)
EXTENDS RungRunner, FiniteSetTheorems, TLAPS

-----------------------------------------------------------------------------
(* What a unit's step leaves alone *)

LEMMA Pairs ==
  /\ \A u \in Units : u = <<u[1], u[2]>> /\ u[1] \in Instances /\ u[2] \in Arms
                      /\ Rides[u[2]] = u[2] /\ <<u[1], u[2]>> \in Cells
  /\ \A u \in Units, a \in Arms : <<u[1], a>> \in Cells
  BY RungAssumption DEF Units, Parents, Cells

LEMMA MainKept ==
  ASSUME NEW u \in Units, UnitStep(u)
  PROVE UNCHANGED <<graded, plan, opts, phase, grading, runs>>
  BY DEF UnitStep, StepFrame, CellFrame, disk, grading, Take, StageExisting, StageAfresh, StageAdd,
         StageAdded, BuildSkipped, BuildStart, BuildExits, BuildFails, WriteStamp, Refuse, Query,
         CellTimeout, Hang, UnitRaises, Keep, Reap, Misses

\* The steps that touch the tree and the build record alone.
TreeStep(u) ==
  \/ StageExisting(u) \/ StageAfresh(u) \/ StageAdd(u) \/ StageAdded(u)
  \/ BuildSkipped(u) \/ BuildStart(u) \/ BuildExits(u) \/ BuildFails(u) \/ WriteStamp(u)
  \/ Keep(u) \/ Reap(u)
CellStep(u) ==
  \/ \E a \in Arms : Refuse(u, a) \/ Query(u, a) \/ CellTimeout(u, a)
  \/ Hang(u) \/ UnitRaises(u)

LEMMA UnitSteps == ASSUME NEW u \in Units, UnitStep(u) PROVE Take(u) \/ TreeStep(u) \/ CellStep(u)
  BY DEF UnitStep, TreeStep, CellStep

\* A tree step moves one unit on, from and to the steps it does.
LEMMA TreeStepKeeps ==
  ASSUME TypeOK, NEW u \in Units, TreeStep(u)
  PROVE /\ UNCHANGED <<cell, lost, todo, mocked, misread>>
        /\ pc[u] \in {"stage", "adding", "build", "building", "built", "reap"}
        /\ pc' = [pc EXCEPT ![u] = pc'[u]] /\ pc'[u] \in Steps \ {"queued", "hung"}
        /\ build' = [build EXCEPT ![u] = build'[u]]
        /\ build'[u] \in {"none", "skipped", "ok", "mock", "failed"}
        /\ faults' \in 0..MaxFaults
  BY RungAssumption DEF TypeOK, TreeStep, StepFrame, grading, StageExisting, StageAfresh, StageAdd,
         StageAdded, BuildSkipped, BuildStart, BuildExits, BuildReal, BuildMock, BuildFails,
         WriteStamp, Keep, Reap, Goto, Set, Steps

LEMMA TreeStepTree ==
  ASSUME TypeOK, NEW u \in Units, UnitInv(u), TreeStep(u)
  PROVE tree' = [tree EXCEPT ![u] = tree'[u]] /\ tree'[u] \in Trees \cup {NoTree}
  <1> DEFINE Done == tree' = [tree EXCEPT ![u] = tree'[u]] /\ tree'[u] \in Trees \cup {NoTree}
  <1> SUFFICES Done
    OBVIOUS
  <1>1. tree[u] \in Trees \cup {NoTree} /\ tree \in [Units -> Trees \cup {NoTree}]
    BY DEF TypeOK
  <1>2. ASSUME NEW t \in Trees \cup {NoTree}, Set(u, t) PROVE Done
    BY <1>1, <1>2 DEF Set
  <1>3. CASE UNCHANGED tree
    BY <1>1, <1>3
  <1>4. pc[u] \in InTree \/ Staged(u) => tree[u] \in Trees
    BY <1>1 DEF UnitInv, Staged
  <1>5. NewTree \in Trees
    BY DEF NewTree, Trees
  <1>6. ASSUME NEW t \in Trees
        PROVE /\ [t EXCEPT !.src = "full"] \in Trees
              /\ [t EXCEPT !.stamp = "written"] \in Trees
              /\ [t EXCEPT !.why = @ \cup {"outlived"}] \in Trees
              /\ [t EXCEPT !.index = "whole", !.why = @ \ {"rebuilt"}] \in Trees
              /\ [t EXCEPT !.index = "mock", !.why = @ \ {"rebuilt"}] \in Trees
              /\ [t EXCEPT !.index = "mock", !.why = (@ \ {"rebuilt"}) \cup {"blind"}] \in Trees
              /\ [t EXCEPT !.index = "part",
                    !.why = (@ \ {"blind", "outlived"}) \cup
                            (IF t.stamp = "written" THEN {"rebuilt"} ELSE {})] \in Trees
    BY DEF Trees, Befallen
  <1>10. ASSUME NEW t \in Trees PROVE Scraps(t) \subseteq Trees
    <2>1. /\ t.src \in {"full", "half", "lost"} /\ t.stamp \in {"none", "written"}
          /\ t.index \in {"none", "part", "mock", "whole"}
          /\ t.why \cup {"scrapped", "outlived"} \in SUBSET Befallen
      BY DEF Trees, Befallen
    <2> QED
      BY <2>1 DEF Trees, Scraps
  <1>7. CASE StageAfresh(u) \/ StageAdd(u) \/ StageAdded(u)
    BY <1>2, <1>3, <1>4, <1>5, <1>6, <1>7 DEF StageAfresh, StageAdd, StageAdded, InTree
  <1>8. CASE BuildStart(u) \/ BuildExits(u) \/ WriteStamp(u)
    BY <1>2, <1>3, <1>4, <1>6, <1>8
       DEF BuildStart, BuildExits, BuildReal, BuildMock, WriteStamp, InTree
  <1>9. CASE Keep(u) \/ Reap(u)
    <2>1. CASE Keep(u)
      BY <1>2, <1>3, <1>4, <1>6, <2>1 DEF Keep
    <2>2. CASE Reap(u)
      BY <1>2, <1>4, <1>10, <2>2 DEF Reap
    <2> QED
      BY <1>9, <2>1, <2>2
  <1> QED
    BY <1>3, <1>7, <1>8, <1>9 DEF TreeStep, StageExisting, BuildSkipped, BuildFails

LEMMA TreeStepTyped ==
  ASSUME TypeOK, NEW u \in Units, UnitInv(u), TreeStep(u) PROVE TypeOK'
  <1>1. UnitStep(u)
    BY DEF UnitStep, TreeStep
  <1>2. UNCHANGED <<graded, plan, opts, phase, grading, runs>>
    BY <1>1, MainKept
  <1> QED
    BY <1>2, TreeStepKeeps, TreeStepTree DEF TypeOK, Steps, grading

\* A cell step moves one unit on and writes one cell of its list, if any.
Wrote(u, a, record) ==
  /\ Record(<<u[1], a>>, record)
  /\ todo' = [todo EXCEPT ![u] = @ \ {a}]
  /\ record = "ok" => Query(u, a)
NewlyMocked(u) ==
  /\ mocked' \subseteq Cells
  /\ \A c \in mocked' \ mocked : c[1] = u[1]
  /\ \A c \in mocked' \ mocked : Rides[c[2]] = c[2] =>
       c = u /\ cell'[u] = "mock" /\ u[2] \notin todo'[u]
CellKept(u) ==
  /\ UNCHANGED <<tree, build, misread, faults>>
  /\ pc[u] \in {"judge", "query", "hung"}
  /\ pc' = [pc EXCEPT ![u] = pc'[u]] /\ pc'[u] \in {"judge", "query", "hung", "reap"}
  /\ pc'[u] \in {"query", "hung"} => pc[u] \in {"query", "hung"}
  /\ pc'[u] = "judge" => pc[u] = "judge"
  /\ \/ UNCHANGED <<cell, lost, todo, mocked>>
     \/ \E a \in todo[u] \cap Arms, record \in CellRecords : Wrote(u, a, record)
  /\ NewlyMocked(u)

LEMMA CellStepKeeps ==
  ASSUME TypeOK, NEW u \in Units, UnitInv(u), CellStep(u) PROVE CellKept(u)
  <1>1. /\ pc \in [Units -> Steps] /\ todo \in [Units -> SUBSET Arms] /\ mocked \subseteq Cells
        /\ cell \in [Cells -> CellRecords]
    BY DEF TypeOK
  <1>2. ASSUME NEW a \in Arms, Refuse(u, a) PROVE CellKept(u)
    <2>1. PICK record \in CellRecords :
            /\ record # "ok" /\ Record(<<u[1], a>>, record)
            /\ build[u] = "mock" /\ a = u[2] => record = "mock"
      BY <1>2 DEF Refuse, CellRecords
    <2>2. Wrote(u, a, record)
      BY <1>2, <2>1 DEF Refuse, Wrote
    <2>3. NewlyMocked(u)
      <3>1. CASE mocked' = mocked
        BY <1>1, <3>1 DEF NewlyMocked
      <3>2. CASE build[u] = "mock" /\ mocked' = mocked \cup {<<u[1], a>>}
        <4>1. <<u[1], a>> \in Cells /\ u = <<u[1], u[2]>>
          BY Pairs
        <4>2. Rides[a] = a => a = u[2]
          BY <1>2 DEF Refuse, UnitInv, ArmsOf
        <4>3. a = u[2] => cell'[u] = "mock" /\ u[2] \notin todo'[u]
          BY <1>1, <2>1, <2>2, <3>2, <4>1 DEF Record, Wrote
        <4> QED
          BY <1>1, <3>2, <4>1, <4>2, <4>3 DEF NewlyMocked
      <3> QED
        BY <1>2, <3>1, <3>2 DEF Refuse
    <2> QED
      BY <1>1, <1>2, <2>2, <2>3 DEF CellKept, Refuse, CellFrame, Goto
  <1>3. ASSUME NEW a \in Arms, Query(u, a) PROVE CellKept(u)
    <2>1. \E record \in CellRecords : Wrote(u, a, record)
      BY <1>3 DEF Query, Strike, CellRecords, Wrote
    <2> QED
      BY <1>1, <1>3, <2>1 DEF CellKept, Query, Strike, CellFrame, Goto, NewlyMocked
  <1>4. ASSUME NEW a \in Arms, CellTimeout(u, a) PROVE CellKept(u)
    <2>1. Wrote(u, a, "open") /\ "open" \in CellRecords
      BY <1>4 DEF CellTimeout, Strike, CellRecords, Wrote
    <2> QED
      BY <1>1, <1>4, <2>1 DEF CellKept, CellTimeout, Strike, CellFrame, Goto, NewlyMocked
  <1>5. CASE Hang(u) \/ UnitRaises(u)
    BY <1>1, <1>5 DEF CellKept, Hang, UnitRaises, CellFrame, Goto, NewlyMocked
  <1> QED
    BY <1>2, <1>3, <1>4, <1>5 DEF CellStep

LEMMA CellStepTyped ==
  ASSUME TypeOK, NEW u \in Units, UnitInv(u), CellStep(u) PROVE TypeOK'
  <1>1. UNCHANGED <<graded, plan, opts, phase, grading, runs>>
    BY MainKept DEF UnitStep, CellStep
  <1>2. CellKept(u)
    BY CellStepKeeps
  <1>3. cell' \in [Cells -> CellRecords] /\ todo' \in [Units -> SUBSET Arms] /\ lost' \subseteq Cells
    <2>1. CASE UNCHANGED <<cell, lost, todo, mocked>>
      BY <2>1 DEF TypeOK
    <2>2. ASSUME NEW a \in todo[u] \cap Arms, NEW record \in CellRecords, Wrote(u, a, record)
          PROVE cell' \in [Cells -> CellRecords] /\ todo' \in [Units -> SUBSET Arms]
                /\ lost' \subseteq Cells
      <3>1. <<u[1], a>> \in Cells
        BY Pairs
      <3> QED
        BY <2>2, <3>1 DEF TypeOK, Wrote, Record
    <2> QED
      BY <1>2, <2>1, <2>2 DEF CellKept
  <1>4. mocked' \subseteq Cells /\ misread' \subseteq Cells
    BY <1>2 DEF TypeOK, CellKept, NewlyMocked
  <1>5. pc' \in [Units -> Steps]
    BY <1>2 DEF TypeOK, CellKept, Steps
  <1> QED
    BY <1>1, <1>2, <1>3, <1>4, <1>5 DEF TypeOK, CellKept, grading

LEMMA MissesCount == ASSUME TypeOK, NEW unread, Misses(unread) PROVE faults' \in 0..MaxFaults
  BY RungAssumption DEF TypeOK, Misses

\* A unit's list as a worker takes it: the arms without an answer, and those
\* whose answer was misread.
LEMMA TakeKeeps ==
  ASSUME TypeOK, NEW u \in Units, Take(u)
  PROVE /\ UNCHANGED <<tree, cell, lost, build, mocked>>
        /\ phase = "units" /\ u \in Planned /\ pc[u] = "queued"
        /\ todo' = [todo EXCEPT ![u] = todo'[u]] /\ todo'[u] \subseteq ArmsOf(u)
        /\ \A a \in todo'[u] : Ok(u[1], a) => <<u[1], a>> \in misread'
        /\ misread \subseteq misread' /\ misread' \subseteq Cells
        /\ faults' \in 0..MaxFaults
        /\ pc' = [pc EXCEPT ![u] = pc'[u]] /\ pc'[u] \in {"done", "stage"}
        /\ Cardinality(Running) < plan.workers
  <1>1. PICK unread \in SUBSET {a \in ArmsOf(u) : Ok(u[1], a)} :
          LET left == {a \in ArmsOf(u) : Ok(u[1], a) => a \in unread} IN
          /\ Misses(unread)
          /\ misread' = misread \cup ({u[1]} \X unread)
          /\ todo' = [todo EXCEPT ![u] = left]
          /\ Goto(u, IF left = {} THEN "done" ELSE "stage")
    BY DEF Take
  <1>2. faults' \in 0..MaxFaults
    BY <1>1, MissesCount
  <1>3. {u[1]} \X unread \subseteq Cells
    BY Pairs, RungAssumption DEF Cells, ArmsOf, TypeOK
  <1>4. misread \subseteq misread' /\ misread' \subseteq Cells
    BY <1>1, <1>3 DEF TypeOK
  <1>5. todo'[u] = {a \in ArmsOf(u) : Ok(u[1], a) => a \in unread}
    BY <1>1 DEF TypeOK
  <1>6. \A a \in todo'[u] : Ok(u[1], a) => <<u[1], a>> \in misread'
    BY <1>1, <1>5
  <1>7. todo' = [todo EXCEPT ![u] = todo'[u]] /\ todo'[u] \subseteq ArmsOf(u)
    BY <1>1, <1>5 DEF TypeOK
  <1>8. pc' = [pc EXCEPT ![u] = pc'[u]] /\ pc'[u] \in {"done", "stage"}
    BY <1>1 DEF TypeOK, Goto
  <1> QED
    BY <1>2, <1>4, <1>6, <1>7, <1>8 DEF Take, disk

LEMMA TakeTyped ==
  ASSUME TypeOK, NEW u \in Units, Take(u) PROVE TypeOK'
  <1>1. UNCHANGED <<graded, plan, opts, phase, grading, runs>>
    BY MainKept DEF UnitStep
  <1>2. ArmsOf(u) \subseteq Arms
    BY RungAssumption DEF ArmsOf, TypeOK
  <1>3. todo' \in [Units -> SUBSET Arms] /\ pc' \in [Units -> Steps]
    BY <1>2, TakeKeeps DEF TypeOK, Steps
  <1> QED
    BY <1>1, <1>3, TakeKeeps DEF TypeOK, grading

-----------------------------------------------------------------------------
(* What main's steps leave alone *)

\* Begin, and the steps that end a run: what is kept in memory starts afresh.
Anew ==
  /\ pc' = [u \in Units |-> "queued"]
  /\ todo' = [u \in Units |-> {}]
  /\ build' = [u \in Units |-> "none"]
  /\ checkouts' = {} /\ failed' = {} /\ warm' = "no"
  /\ grader' = [a \in Arms |-> "waiting"]
  /\ UNCHANGED <<cell, lost, graded, plan>>
Ended ==
  /\ phase # "units" /\ phase' = "idle" /\ opts' = {} /\ mocked' = {} /\ misread' = {}
  /\ faults' \in 0..MaxFaults /\ UNCHANGED <<tree, runs>>
Begun ==
  /\ phase = "idle" /\ phase' \in {"check", "units"} /\ opts' \in Options
  /\ runs' \in 0..MaxRuns[plan] /\ UNCHANGED <<tree, mocked, misread, faults>>
Killed == phase' = "idle" /\ opts' = {} /\ mocked' = {} /\ misread' = {} /\ Kill

Prewarmed ==
  /\ phase = "prewarm" /\ failed' = {} /\ UNCHANGED checkouts
  /\ warm' \in {"no", "yes"}
  /\ warm' = "yes" => plan.instances \subseteq checkouts

\* Main goes from one part to the next, which grades nothing by itself.
Onward ==
  /\ UNCHANGED <<disk, plan, opts, pc, todo, build, grader, mocked, runs>>
  /\ faults' \in 0..MaxFaults
  /\ \/ /\ phase = "units" /\ phase' = "check" /\ \A u \in Planned : pc[u] = "done"
        /\ misread' = misread
     \/ phase = "check" /\ phase' = "prewarm" /\ misread' = MockCells
     \/ phase = "prewarm" /\ phase' \in {"prewarm", "selftest"} /\ misread' = misread
     \/ phase = "selftest" /\ phase' = "grade" /\ misread' = misread
     \/ /\ phase = "grade" /\ phase' = "reported" /\ misread' = misread
        /\ \A a \in plan.arms : grader[a] \notin {"waiting", "grading"}
  /\ \/ UNCHANGED <<checkouts, failed, warm>>
     \/ \E i \in Instances : Checkout(i)
     \/ Prewarmed

Graded(a) ==
  /\ phase = "grade"
  /\ UNCHANGED <<tree, cell, lost, plan, process, checkouts, failed, warm, mocked, runs>>
  /\ faults' \in 0..MaxFaults
  /\ grader' = [grader EXCEPT ![a] = grader'[a]]
  /\ graded' = [graded EXCEPT ![a] = graded'[a]]
  /\ misread \subseteq misread' /\ misread' \subseteq Cells
  /\ \A c \in misread' \ misread : c[2] = a
  /\ \/ /\ GradeStart(a) /\ graded'[a] = graded[a] /\ grader'[a] \in {"skipped", "grading"}
        /\ grader'[a] = "skipped" => \A i \in OkCells(a) : <<i, a>> \in misread'
     \/ /\ grader[a] = "grading" /\ grader'[a] \in {"ok", "failed", "raised"}
        /\ graded'[a] \in {graded[a], Read(a)} /\ misread' = misread
        /\ grader'[a] = "ok" => graded'[a] = Read(a)

LEMMA GradeStarts == ASSUME TypeOK, NEW a \in Arms, GradeStart(a) PROVE Graded(a)
  <1>1. PICK unread \in SUBSET OkCells(a) :
          /\ Misses(unread)
          /\ misread' = misread \cup (unread \X {a})
          /\ grader' = [grader EXCEPT ![a] = IF unread = OkCells(a) THEN "skipped" ELSE "grading"]
    BY DEF GradeStart
  <1>2. faults' \in 0..MaxFaults
    BY <1>1, MissesCount
  <1>3. unread \X {a} \subseteq Cells /\ \A c \in unread \X {a} : c[2] = a
    BY DEF OkCells, Cells
  <1>4. misread \subseteq misread' /\ misread' \subseteq Cells
        /\ \A c \in misread' \ misread : c[2] = a
    BY <1>1, <1>3 DEF TypeOK
  <1>5. /\ grader' = [grader EXCEPT ![a] = grader'[a]] /\ grader'[a] \in {"skipped", "grading"}
        /\ grader'[a] = "skipped" => \A i \in OkCells(a) : <<i, a>> \in misread'
    BY <1>1 DEF TypeOK
  <1> QED
    BY <1>2, <1>4, <1>5 DEF TypeOK, GradeStart, GradeFrame, Graded, process

LEMMA MainSteps ==
  ASSUME TypeOK, MainStep, \A a \in Arms : GraderInv(a)
  PROVE Onward \/ (Anew /\ Ended) \/ \E a \in Arms : Graded(a)
  <1>1. ASSUME UnitsEnd \/ Selftest \/ Summarize \/ Return
        PROVE Onward \/ (Anew /\ Ended)
    BY <1>1 DEF TypeOK, UnitsEnd, Selftest, Summarize, Return, Goon, Onto, Leave, Fresh,
                Onward, Anew, Ended, disk, grading
  <1>6. ASSUME CheckMock PROVE Onward \/ (Anew /\ Ended)
    <2>1. PICK unread \in SUBSET MockCells :
            /\ Misses(unread)
            /\ IF unread = MockCells THEN misread' = unread /\ Onto("prewarm") ELSE Leave
      BY <1>6 DEF CheckMock
    <2>2. faults' \in 0..MaxFaults
      BY <2>1, MissesCount
    <2>3. CASE unread = MockCells
      BY <1>6, <2>1, <2>2, <2>3 DEF CheckMock, Onto, Onward, grading
    <2>4. CASE Leave
      BY <1>6, <2>2, <2>4 DEF CheckMock, Leave, Fresh, Anew, Ended, disk
    <2> QED
      BY <2>1, <2>3, <2>4
  <1>2. ASSUME PrewarmEnds PROVE Onward \/ (Anew /\ Ended)
    <2>1. CASE Leave
      BY <1>2, <2>1 DEF TypeOK, PrewarmEnds, Leave, Fresh, Anew, Ended, disk
    <2>2. ASSUME NEW rc \in {0, 1}, rc = 0 => plan.instances \subseteq checkouts \cup failed,
                 warm' = IF Complete(rc) THEN "yes" ELSE "no",
                 failed' = {}, phase' = "selftest",
                 UNCHANGED <<plan, opts, pc, todo, build, checkouts, grader, mocked, misread>>
          PROVE Onward
      BY <1>2, <2>2 DEF TypeOK, PrewarmEnds, Onward, Prewarmed, Complete, disk
    <2> QED
      BY <1>2, <2>1, <2>2 DEF PrewarmEnds
  <1>5. ASSUME NEW i \in Instances, Checkout(i) PROVE Onward
    BY <1>5 DEF TypeOK, Checkout, Onward, process
  <1>3. ASSUME NEW a \in Arms, GradeStart(a) PROVE Graded(a)
    BY <1>3, GradeStarts
  <1>4. ASSUME NEW a \in Arms, GradeEnd(a) PROVE Graded(a)
    BY <1>4 DEF TypeOK, GradeEnd, GradeFrame, Graded, process, GraderInv
  <1> QED
    BY <1>1, <1>2, <1>3, <1>4, <1>5, <1>6 DEF MainStep

LEMMA BeginSteps == ASSUME TypeOK, Begin PROVE Anew /\ Begun
  BY RungAssumption DEF TypeOK, Begin, Fresh, Anew, Begun, disk

LEMMA KillSteps == ASSUME TypeOK, Kill PROVE Anew /\ Killed /\ faults' \in 0..MaxFaults
  BY RungAssumption DEF TypeOK, Kill, Leave, Fresh, Anew, Killed

LEMMA Steppings ==
  ASSUME RungInv, [Next]_vars
  PROVE \/ Anew /\ (Begun \/ Ended \/ Killed)
        \/ \E u \in Units : Take(u) \/ TreeStep(u) \/ CellStep(u)
        \/ Onward
        \/ \E a \in Arms : Graded(a)
        \/ UNCHANGED vars
  BY MainSteps, BeginSteps, KillSteps, UnitSteps DEF RungInv, Next

LEMMA KillTrees ==
  ASSUME TypeOK, Kill, NEW u \in Units
  PROVE /\ tree'[u] \in Trees \cup {NoTree}
        /\ tree' = [v \in Units |-> tree'[v]]
        /\ Staged(u)' <=> Staged(u)
        /\ tree'[u].src = tree[u].src
        /\ Staged(u) => /\ tree'[u].index = tree[u].index /\ tree'[u].stamp = tree[u].stamp
                        /\ tree[u].why \subseteq tree'[u].why
                        /\ u \in Running => "outlived" \in tree'[u].why
                        /\ pc[u] = "adding" => "cut" \in tree'[u].why
  <1>1. tree[u] \in Trees \cup {NoTree}
    BY DEF TypeOK
  <1>2. ASSUME Staged(u), NEW w \in SUBSET Befallen
        PROVE /\ [tree[u] EXCEPT !.why = @ \cup w] \in Trees
              /\ [tree[u] EXCEPT !.why = @ \cup w] # NoTree
              /\ [tree[u] EXCEPT !.why = @ \cup w].why = tree[u].why \cup w
              /\ [tree[u] EXCEPT !.why = @ \cup w].src = tree[u].src
              /\ [tree[u] EXCEPT !.why = @ \cup w].index = tree[u].index
              /\ [tree[u] EXCEPT !.why = @ \cup w].stamp = tree[u].stamp
    BY <1>1, <1>2 DEF Staged, Trees, NoTree
  <1>3. CASE ~(u \in Running /\ Staged(u))
    BY <1>1, <1>3 DEF Kill, Running, Staged
  <1>4. CASE u \in Running /\ Staged(u)
    <2> DEFINE w == {"outlived"} \cup (IF pc[u] = "adding" THEN {"cut"} ELSE {})
    <2>1. tree'[u] = [tree[u] EXCEPT !.why = @ \cup w]
      BY <1>4 DEF Kill
    <2>2. w \in SUBSET Befallen
      BY DEF Befallen
    <2>3. "outlived" \in w /\ (pc[u] = "adding" => "cut" \in w)
      OBVIOUS
    <2> HIDE DEF w
    <2> QED
      BY <1>2, <1>4, <2>1, <2>2, <2>3 DEF Kill, Staged
  <1> QED
    BY <1>3, <1>4

-----------------------------------------------------------------------------
(* The trees *)

OwnTree(u) == (pc[u] \in InTree => Staged(u)) /\ TreeInv(u)

\* A step after which the tree is gone, or a unit is where nothing is claimed.
LEMMA NoTreeHolds ==
  ASSUME NEW u \in Units, tree'[u] = NoTree, pc'[u] \notin InTree PROVE OwnTree(u)'
  BY DEF OwnTree, TreeInv, HalfInv, StampInv, MockInv, OutlivedInv, Staged

LEMMA TreeFields ==
  ASSUME TypeOK, NEW u \in Units
  PROVE /\ Staged(u) <=> tree[u] \in Trees
        /\ tree[u] = NoTree <=> ~Staged(u)
        /\ tree[u] \in Trees \cup {NoTree}
        /\ Staged(u) => /\ tree[u].src \in {"full", "half", "lost"}
                        /\ tree[u].stamp \in {"none", "written"}
                        /\ tree[u].index \in {"none", "part", "mock", "whole"}
                        /\ tree[u].why \subseteq Befallen
  BY DEF TypeOK, Staged, Trees, NoTree

\* What a step turns a tree into, field by field.
Became(u, src, index, stamp, why) ==
  /\ Staged(u)'
  /\ tree'[u].src = src /\ tree'[u].index = index
  /\ tree'[u].stamp = stamp /\ tree'[u].why = why

LEMMA Becomes ==
  ASSUME TypeOK, NEW u \in Units, NEW t \in Trees, Set(u, t)
  PROVE Became(u, t.src, t.index, t.stamp, t.why)
  BY DEF TypeOK, Set, Became, Staged, Trees, NoTree

LEMMA StageHolds ==
  ASSUME TypeOK, NEW u \in Units, OwnTree(u),
         StageExisting(u) \/ StageAfresh(u) \/ StageAdd(u) \/ StageAdded(u)
  PROVE OwnTree(u)'
  <1>1. pc \in [Units -> Steps] /\ tree \in [Units -> Trees \cup {NoTree}]
    BY DEF TypeOK
  <1>2. CASE StageExisting(u)
    <2>1. tree' = tree /\ pc'[u] = "build" /\ pc[u] = "stage" /\ opts' = opts /\ build' = build
      BY <1>1, <1>2 DEF StageExisting, Goto, StepFrame
    <2> QED
      BY <1>2, <2>1 DEF StageExisting, OwnTree, TreeInv, HalfInv, StampInv, MockInv, OutlivedInv,
                        Staged, InTree, IndexPresent, Markers, Excusing
  <1>3. CASE StageAfresh(u)
    <2>1. CASE Set(u, NoTree) /\ UNCHANGED pc
      <3>1. tree'[u] = NoTree /\ pc'[u] = "stage"
        BY <1>1, <1>3, <2>1 DEF StageAfresh, Set
      <3> QED
        BY <3>1, NoTreeHolds DEF InTree
    <2>2. CASE Goto(u, "reap") /\ UNCHANGED tree
      <3>1. tree' = tree /\ pc'[u] = "reap" /\ pc[u] = "stage" /\ opts' = opts /\ build' = build
        BY <1>1, <1>3, <2>2 DEF StageAfresh, Goto, StepFrame
      <3> QED
        BY <3>1 DEF OwnTree, TreeInv, HalfInv, StampInv, MockInv, OutlivedInv,
                    Staged, InTree, IndexPresent, Markers, Excusing
    <2> QED
      BY <1>3, <2>1, <2>2 DEF StageAfresh
  <1>4. CASE StageAdd(u)
    <2>1. pc'[u] = "adding"
      BY <1>1, <1>4 DEF StageAdd, Goto
    <2>2. Became(u, "half", "none", "none", {})
      <3>1. NewTree \in Trees /\ NewTree.src = "half" /\ NewTree.index = "none"
            /\ NewTree.stamp = "none" /\ NewTree.why = {}
        BY DEF NewTree, Trees
      <3> QED
        BY <1>4, <3>1, Becomes DEF StageAdd
    <2> QED
      BY <2>1, <2>2 DEF Became, OwnTree, TreeInv, HalfInv, StampInv, MockInv, OutlivedInv,
                        IndexPresent, Markers
  <1>5. CASE StageAdded(u)
    <2>1. CASE Set(u, NoTree) /\ Goto(u, "reap")
      <3>1. tree'[u] = NoTree /\ pc'[u] = "reap"
        BY <1>1, <2>1 DEF Set, Goto
      <3> QED
        BY <3>1, NoTreeHolds DEF InTree
    <2>2. CASE Set(u, [tree[u] EXCEPT !.src = "full"]) /\ Goto(u, "build")
      <3>1. pc'[u] = "build" /\ pc[u] = "adding" /\ tree[u] \in Trees
        BY <1>1, <1>5, <2>2, TreeFields DEF StageAdded, Goto, OwnTree, InTree
      <3>2. Became(u, "full", tree[u].index, tree[u].stamp, tree[u].why)
        <4> DEFINE t == [tree[u] EXCEPT !.src = "full"]
        <4>1. t \in Trees /\ t.src = "full" /\ t.index = tree[u].index
              /\ t.stamp = tree[u].stamp /\ t.why = tree[u].why
          BY <3>1 DEF Trees
        <4> QED
          BY <2>2, <4>1, Becomes
      <3>3. Staged(u)
        BY <3>1, TreeFields
      <3> QED
        BY <3>1, <3>2, <3>3 DEF Became, OwnTree, TreeInv, HalfInv, StampInv, MockInv, OutlivedInv,
                          IndexPresent, Markers, InTree, Excusing
    <2> QED
      BY <1>5, <2>1, <2>2 DEF StageAdded
  <1> QED
    BY <1>2, <1>3, <1>4, <1>5

LEMMA BuildHolds ==
  ASSUME TypeOK, NEW u \in Units, OwnTree(u),
         BuildSkipped(u) \/ BuildStart(u) \/ BuildExits(u) \/ BuildFails(u) \/ WriteStamp(u)
  PROVE OwnTree(u)'
  <1>1. /\ pc \in [Units -> Steps] /\ build \in [Units -> {"none", "skipped", "ok", "mock", "failed"}]
        /\ pc[u] \in InTree /\ tree[u] \in Trees /\ Staged(u)
        /\ opts' = opts
    BY TreeFields DEF TypeOK, OwnTree, InTree, BuildSkipped, BuildStart, BuildExits, BuildFails,
                      WriteStamp, StepFrame
  <1>2. CASE BuildSkipped(u)
    <2>1. tree' = tree /\ pc'[u] = "query" /\ pc[u] = "build"
      BY <1>1, <1>2 DEF BuildSkipped, Goto
    <2> QED
      BY <1>1, <1>2, <2>1 DEF BuildSkipped, OwnTree, TreeInv, HalfInv, StampInv, MockInv,
                 OutlivedInv, Staged, InTree, IndexPresent, Markers, Excusing
  <1>3. CASE BuildStart(u)
    <2>1. pc'[u] = "building" /\ pc[u] = "build"
      BY <1>1, <1>3 DEF BuildStart, Goto
    <2> DEFINE why == (tree[u].why \ {"blind", "outlived"}) \cup
                        (IF tree[u].stamp = "written" THEN {"rebuilt"} ELSE {})
               t == [tree[u] EXCEPT !.index = "part", !.why = why]
    <2>2. t \in Trees /\ t.src = tree[u].src /\ t.index = "part" /\ t.stamp = tree[u].stamp
          /\ t.why = why
      BY <1>1 DEF Trees, Befallen
    <2>3. Set(u, t)
      BY <1>3 DEF BuildStart
    <2>4. Became(u, tree[u].src, "part", tree[u].stamp, why)
      BY <2>2, <2>3, Becomes
    <2>5. HalfInv(u)'
      BY <1>1, <2>1, <2>4 DEF Became, OwnTree, TreeInv, HalfInv, Excusing
    <2>6. StampInv(u)'
      BY <1>1, <2>1, <2>4 DEF Became, StampInv, IndexPresent, Markers
    <2> QED
      BY <1>1, <2>1, <2>4, <2>5, <2>6 DEF Became, OwnTree, TreeInv, MockInv, OutlivedInv
  <1>4. CASE BuildExits(u)
    <2>1. pc'[u] = "built" /\ pc[u] = "building"
      BY <1>1, <1>4 DEF BuildExits, Goto
    <2>2. ASSUME NEW index \in {"whole", "mock"}, NEW blind \in {{}, {"blind"}},
                 Set(u, [tree[u] EXCEPT !.index = index, !.why = (@ \ {"rebuilt"}) \cup blind]),
                 index = "mock" => blind # {} \/ build'[u] = "mock"
          PROVE OwnTree(u)'
      <3> DEFINE why == (tree[u].why \ {"rebuilt"}) \cup blind
                 t == [tree[u] EXCEPT !.index = index, !.why = why]
      <3>1. t \in Trees /\ t.src = tree[u].src /\ t.index = index /\ t.stamp = tree[u].stamp
            /\ t.why = why
        BY <1>1 DEF Trees, Befallen
      <3>2. Became(u, tree[u].src, index, tree[u].stamp, why)
        BY <2>2, <3>1, Becomes
      <3>3. HalfInv(u)'
        BY <1>1, <2>1, <3>2 DEF Became, OwnTree, TreeInv, HalfInv, Excusing
      <3>4. MockInv(u)'
        BY <1>1, <2>1, <2>2, <3>2 DEF Became, MockInv, Excusing
      <3> QED
        BY <1>1, <2>1, <3>2, <3>3, <3>4 DEF Became, OwnTree, TreeInv, StampInv, OutlivedInv
    <2>3. ASSUME NEW index \in {"whole", "mock"},
                 Set(u, [tree[u] EXCEPT !.index = index, !.why = @ \ {"rebuilt"}]),
                 index = "mock" => build'[u] = "mock"
          PROVE OwnTree(u)'
      <3>1. [tree[u] EXCEPT !.index = index, !.why = @ \ {"rebuilt"}]
              = [tree[u] EXCEPT !.index = index, !.why = (@ \ {"rebuilt"}) \cup {}]
        OBVIOUS
      <3> QED
        BY <2>2, <2>3, <3>1
    <2>4. CASE BuildReal(u)
      BY <2>3, <2>4 DEF BuildReal
    <2>5. CASE BuildMock(u)
      BY <1>1, <2>2, <2>3, <2>5 DEF BuildMock
    <2> QED
      BY <1>4, <2>4, <2>5 DEF BuildExits
  <1>5. CASE BuildFails(u)
    <2>1. tree' = tree /\ pc'[u] \in {"judge", "reap"} /\ pc[u] = "building"
      BY <1>1, <1>5 DEF BuildFails, Goto
    <2> QED
      BY <1>1, <2>1 DEF OwnTree, TreeInv, HalfInv, StampInv, MockInv,
                 OutlivedInv, Staged, InTree, IndexPresent, Markers, Excusing
  <1>6. CASE WriteStamp(u)
    <2>1. build' = build /\ pc[u] = "built"
          /\ pc'[u] = IF build[u] = "mock" THEN "judge" ELSE "query"
      BY <1>1, <1>6 DEF WriteStamp, Goto
    <2>2. \E stamp : Became(u, tree[u].src, tree[u].index, stamp, tree[u].why)
      <3>1. CASE UNCHANGED tree
        BY <1>1, <3>1 DEF Became, Staged
      <3>2. CASE Set(u, [tree[u] EXCEPT !.stamp = "written"])
        <4> DEFINE t == [tree[u] EXCEPT !.stamp = "written"]
        <4>1. t \in Trees /\ t.src = tree[u].src /\ t.index = tree[u].index
              /\ t.why = tree[u].why
          BY <1>1 DEF Trees
        <4> QED
          BY <3>2, <4>1, Becomes
      <3> QED
        BY <1>6, <3>1, <3>2 DEF WriteStamp
    <2> QED
      BY <1>1, <2>1, <2>2 DEF Became, OwnTree, TreeInv, HalfInv, StampInv, MockInv, OutlivedInv,
                 InTree, Excusing
  <1> QED
    BY <1>2, <1>3, <1>4, <1>5, <1>6

LEMMA RemovalHolds ==
  ASSUME TypeOK, NEW u \in Units, OwnTree(u), Keep(u) \/ Reap(u)
  PROVE OwnTree(u)'
  <1>1. pc[u] = "reap" /\ pc'[u] = "done" /\ opts' = opts
    BY DEF TypeOK, Keep, Reap, Goto, StepFrame
  <1>2. CASE Keep(u)
    <2>1. CASE ~Staged(u)
      <3>1. tree'[u] = NoTree
        BY <1>2, <2>1, TreeFields DEF Keep
      <3> QED
        BY <1>1, <3>1, NoTreeHolds DEF InTree
    <2>2. CASE Staged(u)
      <3> DEFINE t == [tree[u] EXCEPT !.why = @ \cup {"outlived"}]
      <3>1. tree[u] \in Trees
        BY <2>2, TreeFields
      <3>2. t \in Trees /\ t.src = tree[u].src /\ t.index = tree[u].index
            /\ t.stamp = tree[u].stamp /\ t.why = tree[u].why \cup {"outlived"}
        BY <3>1 DEF Trees, Befallen
      <3>3. Became(u, tree[u].src, tree[u].index, tree[u].stamp, tree[u].why \cup {"outlived"})
        BY <1>2, <2>2, <3>2, Becomes DEF Keep
      <3> QED
        BY <1>1, <2>2, <3>3 DEF Became, OwnTree, TreeInv, HalfInv, StampInv, MockInv, OutlivedInv,
                 InTree, Excusing, IndexPresent, Markers
    <2> QED
      BY <2>1, <2>2
  <1>3. CASE Reap(u)
    <2>1. CASE Set(u, NoTree)
      <3>1. tree'[u] = NoTree
        BY <2>1 DEF TypeOK, Set
      <3> QED
        BY <1>1, <3>1, NoTreeHolds DEF InTree
    <2>2. CASE \E s \in Scraps(tree[u]) : Set(u, s)
      <3>1. PICK s \in Scraps(tree[u]) : Set(u, s)
        BY <2>2
      <3>2. tree[u] \in Trees
        BY <1>3, TreeFields DEF Reap
      <3>3. s \in Trees /\ {"scrapped", "outlived"} \subseteq s.why
        BY <3>2, TreeFields DEF Scraps, Trees, Befallen
      <3>4. Became(u, s.src, s.index, s.stamp, s.why)
        BY <3>1, <3>3, Becomes
      <3> QED
        BY <1>1, <3>3, <3>4 DEF Became, OwnTree, TreeInv, HalfInv, StampInv, MockInv, OutlivedInv,
                 InTree, Excusing, IndexPresent, Markers
    <2> QED
      BY <1>3, <2>1, <2>2 DEF Reap
  <1> QED
    BY <1>2, <1>3

LEMMA CellHolds ==
  ASSUME TypeOK, NEW u \in Units, OwnTree(u), CellKept(u), opts' = opts
  PROVE OwnTree(u)'
  <1>1. /\ tree' = tree /\ build' = build /\ pc[u] \in {"judge", "query", "hung"}
        /\ pc'[u] \in {"judge", "query", "hung", "reap"}
        /\ pc'[u] \in {"query", "hung"} => pc[u] \in {"query", "hung"}
    BY DEF CellKept
  <1>2. HalfInv(u)' /\ OutlivedInv(u)'
    BY <1>1 DEF OwnTree, TreeInv, HalfInv, OutlivedInv, Staged
  <1>3. StampInv(u)'
    BY <1>1 DEF OwnTree, TreeInv, StampInv, Staged, IndexPresent, Markers
  <1>4. MockInv(u)'
    BY <1>1 DEF OwnTree, TreeInv, MockInv, Staged
  <1> QED
    BY <1>1, <1>2, <1>3, <1>4 DEF OwnTree, TreeInv, InTree, Staged

LEMMA TakeHolds ==
  ASSUME TypeOK, NEW u \in Units, OwnTree(u), Take(u)
  PROVE OwnTree(u)'
  <1>1. tree' = tree /\ pc[u] = "queued" /\ pc'[u] \in {"done", "stage"} /\ opts' = opts
    BY TakeKeeps DEF Take
  <1> QED
    BY <1>1 DEF OwnTree, TreeInv, HalfInv, StampInv, MockInv, OutlivedInv, Staged, InTree,
                IndexPresent, Markers, Excusing

\* A unit that no step is of, in the same run.
LEMMA TreeUntouched ==
  ASSUME NEW v \in Units, OwnTree(v), tree'[v] = tree[v], pc'[v] = pc[v], build'[v] = build[v],
         opts' = opts
  PROVE OwnTree(v)'
  BY DEF OwnTree, TreeInv, HalfInv, StampInv, MockInv, OutlivedInv, Staged, IndexPresent, Markers

\* A unit as a run begins or ends, and as the process is killed.
LEMMA AnewHolds ==
  ASSUME TypeOK, NEW v \in Units, OwnTree(v), UnitInv(v), Anew, Begun \/ Ended
  PROVE OwnTree(v)'
  <1>1. pc'[v] = "queued" /\ tree'[v] = tree[v]
    BY DEF Anew, Begun, Ended
  <1>2. pc[v] \in {"queued", "done"}
    BY DEF UnitInv, Begun, Ended
  <1> QED
    BY <1>1, <1>2 DEF OwnTree, TreeInv, HalfInv, StampInv, MockInv, OutlivedInv, Staged, InTree,
                IndexPresent, Markers, Excusing

LEMMA KillHolds ==
  ASSUME TypeOK, NEW v \in Units, OwnTree(v), Anew, Kill
  PROVE OwnTree(v)'
  <1>1. pc'[v] = "queued"
    BY DEF Anew
  <1>2. /\ Staged(v)' <=> Staged(v)
        /\ tree'[v].src = tree[v].src
        /\ Staged(v) => /\ tree'[v].index = tree[v].index /\ tree'[v].stamp = tree[v].stamp
                        /\ tree[v].why \subseteq tree'[v].why
                        /\ v \in Running => "outlived" \in tree'[v].why
                        /\ pc[v] = "adding" => "cut" \in tree'[v].why
    BY KillTrees
  <1>3. HalfInv(v)'
    BY <1>1, <1>2 DEF OwnTree, TreeInv, HalfInv, Excusing
  <1>4. StampInv(v)'
    BY <1>1, <1>2 DEF OwnTree, TreeInv, StampInv, IndexPresent, Markers
  <1>5. MockInv(v)'
    BY <1>1, <1>2 DEF OwnTree, TreeInv, MockInv, Running, Excusing
  <1>6. OutlivedInv(v)'
    BY <1>1, <1>2 DEF OwnTree, TreeInv, OutlivedInv, Running
  <1> QED
    BY <1>1, <1>3, <1>4, <1>5, <1>6 DEF OwnTree, TreeInv, InTree

LEMMA OwnTreeStep ==
  ASSUME RungInv, [Next]_vars, NEW v \in Units PROVE OwnTree(v)'
  <1>1. TypeOK /\ UnitInv(v) /\ OwnTree(v)
    BY DEF RungInv, UnitInv, OwnTree
  <1>2. CASE Anew /\ (Begun \/ Ended)
    BY <1>1, <1>2, AnewHolds
  <1>3. CASE Anew /\ Killed
    BY <1>1, <1>3, KillHolds DEF Killed
  <1>4. ASSUME NEW u \in Units, Take(u) \/ TreeStep(u) \/ CellStep(u) PROVE OwnTree(v)'
    <2>1. opts' = opts /\ TypeOK /\ UnitInv(u) /\ OwnTree(u)
      BY <1>4, MainKept DEF RungInv, UnitInv, OwnTree, UnitStep, TreeStep, CellStep
    <2>2. CASE v = u
      <3>1. CASE Take(u)
        BY <2>1, <2>2, <3>1, TakeHolds
      <3>2. CASE CellStep(u)
        BY <2>1, <2>2, <3>2, CellStepKeeps, CellHolds
      <3>3. CASE TreeStep(u)
        BY <2>1, <2>2, <3>3, StageHolds, BuildHolds, RemovalHolds DEF TreeStep
      <3> QED
        BY <1>4, <3>1, <3>2, <3>3
    <2>3. CASE v # u
      <3>1. CASE Take(u)
        BY <1>1, <2>1, <2>3, <3>1, TakeKeeps, TreeUntouched DEF TypeOK
      <3>2. CASE CellStep(u)
        BY <1>1, <2>1, <2>3, <3>2, CellStepKeeps, TreeUntouched DEF TypeOK, CellKept
      <3>3. CASE TreeStep(u)
        <4>1. tree' = [tree EXCEPT ![u] = tree'[u]] /\ pc' = [pc EXCEPT ![u] = pc'[u]]
              /\ build' = [build EXCEPT ![u] = build'[u]]
          BY <2>1, <3>3, TreeStepTree, TreeStepKeeps
        <4>2. tree'[v] = tree[v] /\ pc'[v] = pc[v] /\ build'[v] = build[v]
          BY <1>1, <2>3, <4>1 DEF TypeOK
        <4> QED
          BY <1>1, <2>1, <4>2, TreeUntouched
      <3> QED
        BY <1>4, <3>1, <3>2, <3>3
    <2> QED
      BY <2>2, <2>3
  <1>5. CASE Onward \/ (\E a \in Arms : Graded(a)) \/ UNCHANGED vars
    <2>1. tree' = tree /\ pc' = pc /\ build' = build /\ opts' = opts
      BY <1>5 DEF Onward, Graded, disk, process, vars
    <2> QED
      BY <1>1, <2>1, TreeUntouched
  <1> QED
    BY <1>2, <1>3, <1>4, <1>5, Steppings

-----------------------------------------------------------------------------
(* Types *)

LEMMA TypeStep == ASSUME RungInv, [Next]_vars PROVE TypeOK'
  <1>1. TypeOK /\ \A a \in Arms : GraderInv(a)
    BY DEF RungInv
  <1>2. CASE Anew /\ (Begun \/ Ended)
    BY <1>1, <1>2 DEF TypeOK, Anew, Begun, Ended, Phases, Steps
  <1>3. CASE Anew /\ Killed
    <2>1. tree' \in [Units -> Trees \cup {NoTree}]
      <3>1. tree' = [u \in Units |-> tree'[u]]
        BY <1>3 DEF Killed, Kill
      <3>2. \A u \in Units : tree'[u] \in Trees \cup {NoTree}
        BY <1>1, <1>3, KillTrees DEF Killed
      <3> QED
        BY <3>1, <3>2
    <2>2. faults' \in 0..MaxFaults /\ runs' = runs
      BY <1>1, <1>3, KillSteps DEF Killed, Kill
    <2> QED
      BY <1>1, <1>3, <2>1, <2>2 DEF TypeOK, Anew, Killed, Phases, Steps
  <1>4. ASSUME NEW u \in Units, Take(u) \/ TreeStep(u) \/ CellStep(u) PROVE TypeOK'
    <2>1. TypeOK /\ UnitInv(u)
      BY DEF RungInv
    <2> QED
      BY <1>4, <2>1, TakeTyped, TreeStepTyped, CellStepTyped
  <1>5. CASE Onward
    <2>1. /\ checkouts' \subseteq Instances /\ failed' \subseteq Instances
          /\ warm' \in {"no", "yes"}
      <3>1. CASE UNCHANGED <<checkouts, failed, warm>>
        BY <1>1, <3>1 DEF TypeOK
      <3>2. ASSUME NEW i \in Instances, Checkout(i)
            PROVE /\ checkouts' \subseteq Instances /\ failed' \subseteq Instances
                  /\ warm' \in {"no", "yes"}
        BY <1>1, <3>2 DEF TypeOK, Checkout
      <3>3. CASE Prewarmed
        BY <1>1, <3>3 DEF TypeOK, Prewarmed
      <3> QED
        BY <1>5, <3>1, <3>2, <3>3 DEF Onward
    <2>2. misread' \subseteq Cells
      BY <1>1, <1>5 DEF TypeOK, Onward, MockCells
    <2> QED
      BY <1>1, <1>5, <2>1, <2>2 DEF TypeOK, Onward, disk, Phases
  <1>6. ASSUME NEW a \in Arms, Graded(a) PROVE TypeOK'
    <2>1. Read(a) \in SUBSET Instances /\ graded[a] \in SUBSET Instances
      BY <1>1 DEF TypeOK, OkCells, Read
    <2>2. graded'[a] \in SUBSET Instances
      BY <1>6, <2>1 DEF Graded
    <2>3. grader'[a] \in {"waiting", "grading", "skipped", "ok", "failed", "raised"}
      BY <1>6 DEF Graded
    <2>4. graded' \in [Arms -> SUBSET Instances]
      BY <1>1, <1>6, <2>2 DEF TypeOK, Graded
    <2>5. grader' \in [Arms -> {"waiting", "grading", "skipped", "ok", "failed", "raised"}]
      BY <1>1, <1>6, <2>3 DEF TypeOK, Graded
    <2> QED
      BY <1>1, <1>6, <2>4, <2>5 DEF TypeOK, Graded, process
  <1>7. CASE UNCHANGED vars
    BY <1>1, <1>7 DEF TypeOK, vars, disk, process, grading
  <1> QED
    BY <1>2, <1>3, <1>4, <1>5, <1>6, <1>7, Steppings

-----------------------------------------------------------------------------
(* Cells *)

\* What a step of unit u may do to the cells, and to what is left to query.
CellsMoved(u) ==
  /\ misread' = misread
  /\ \A c \in Cells : cell[c] = "ok" /\ c \notin misread => cell'[c] = "ok"
  /\ \A c \in Cells : cell[c] = "ok" \/ c \in lost => cell'[c] = "ok" \/ c \in lost'
  /\ \A v \in Units, a \in Arms :
       Rides[a] = v[2] /\ (v # u \/ a \in todo'[u] \/ a \notin todo[u]) =>
         cell'[<<v[1], a>>] = cell[<<v[1], a>>]
  /\ todo'[u] \subseteq todo[u]
  /\ \A v \in Units : v # u => todo'[v] = todo[v]

LEMMA CellsMove ==
  ASSUME TypeOK, NEW u \in Units, UnitInv(u), CellStep(u) PROVE CellsMoved(u)
  <1>1. CellKept(u)
    BY CellStepKeeps
  <1>4. misread' = misread /\ pc[u] # "done"
    BY <1>1 DEF CellKept
  <1>2. CASE UNCHANGED <<cell, lost, todo, mocked>>
    BY <1>2, <1>4 DEF CellsMoved
  <1>3. ASSUME NEW a \in todo[u] \cap Arms, NEW record \in CellRecords, Wrote(u, a, record)
        PROVE CellsMoved(u)
    <2>1. Rides[a] = u[2] /\ (cell[<<u[1], a>>] = "ok" => <<u[1], a>> \in misread)
      BY <1>4 DEF UnitInv, ArmsOf, Ok
    <2>2. \A c \in Cells : c # <<u[1], a>> => cell'[c] = cell[c] /\ (c \in lost => c \in lost')
      BY <1>3 DEF Wrote, Record, TypeOK
    <2>3. todo'[u] = todo[u] \ {a} /\ \A v \in Units : v # u => todo'[v] = todo[v]
      BY <1>3 DEF Wrote, TypeOK
    <2>4. ASSUME NEW v \in Units, NEW b \in Arms, Rides[b] = v[2],
                 v # u \/ b \in todo'[u] \/ b \notin todo[u]
          PROVE cell'[<<v[1], b>>] = cell[<<v[1], b>>]
      <3>1. <<v[1], b>> # <<u[1], a>>
        BY <2>1, <2>3, <2>4, Pairs
      <3> QED
        BY <2>2, <3>1, Pairs
    <2>5. <<u[1], a>> \in Cells
      BY Pairs
    <2>6. cell[<<u[1], a>>] = "ok" \/ <<u[1], a>> \in lost =>
            cell'[<<u[1], a>>] = "ok" \/ <<u[1], a>> \in lost'
      BY <1>3, <2>5 DEF Wrote, Record, TypeOK
    <2> QED
      BY <1>4, <2>1, <2>2, <2>3, <2>4, <2>6 DEF CellsMoved
  <1> QED
    BY <1>1, <1>2, <1>3 DEF CellKept

LEMMA UnitInvStep ==
  ASSUME RungInv, [Next]_vars, NEW v \in Units PROVE UnitInv(v)'
  <1>1. TypeOK /\ UnitInv(v) /\ OwnTree(v)'
    BY OwnTreeStep DEF RungInv
  <1>2. plan' = plan /\ Planned' = Planned /\ ArmsOf(v)' = ArmsOf(v)
    <2>1. plan' = plan
      BY MainKept, Steppings, <1>1 DEF Anew, Onward, Graded, vars, UnitStep, TreeStep, CellStep
    <2> QED
      BY <2>1 DEF Planned, ArmsOf
  <1>3. CASE Anew /\ (Begun \/ Ended \/ Killed)
    BY <1>1, <1>3 DEF Anew, UnitInv, InTree
  <1>4. CASE Onward
    <2>1. pc' = pc /\ todo' = todo /\ cell' = cell
      BY <1>4 DEF Onward, disk
    <2>2. pc[v] \notin {"queued", "done"} => phase' = "units"
      BY <1>1, <1>4 DEF UnitInv, Onward
    <2>3. pc[v] \in {"queued", "done"} \/ misread' = misread
      BY <1>1, <1>4 DEF UnitInv, Onward
    <2>4. pc[v] = "queued" => todo[v] = {}
      BY <1>1 DEF UnitInv
    <2> QED
      BY <1>1, <1>2, <2>1, <2>2, <2>3, <2>4 DEF UnitInv, OwnTree, Ok
  <1>5. CASE (\E a \in Arms : Graded(a)) \/ UNCHANGED vars
    <2>1. pc' = pc /\ todo' = todo /\ cell' = cell /\ phase' = phase /\ misread \subseteq misread'
      BY <1>5 DEF Graded, disk, process, vars
    <2> QED
      BY <1>1, <1>2, <2>1 DEF UnitInv, OwnTree, Ok
  <1>6. ASSUME NEW u \in Units, Take(u) \/ TreeStep(u) \/ CellStep(u) PROVE UnitInv(v)'
    <2>1. phase' = phase /\ TypeOK /\ UnitInv(u)
      BY <1>6, MainKept DEF RungInv, UnitStep, TreeStep, CellStep
    <2>2. CASE Take(u)
      <3>1. cell' = cell /\ phase = "units" /\ u \in Planned
        BY <2>1, <2>2, TakeKeeps
      <3>2. CASE v = u
        <4>1. /\ todo'[u] \subseteq ArmsOf(u)
              /\ \A a \in todo'[u] : Ok(u[1], a) => <<u[1], a>> \in misread'
          BY <2>1, <2>2, TakeKeeps
        <4>2. \A a \in todo'[u] : Ok(u[1], a)' => <<u[1], a>> \in misread'
          BY <3>1, <4>1 DEF Ok
        <4>3. pc'[u] # "queued"
          BY <2>1, <2>2, TakeKeeps
        <4> QED
          BY <1>1, <1>2, <2>1, <3>1, <3>2, <4>1, <4>2, <4>3 DEF UnitInv, OwnTree
      <3>3. CASE v # u
        <4>1. pc'[v] = pc[v] /\ todo'[v] = todo[v] /\ misread \subseteq misread'
          BY <2>1, <2>2, <3>3, TakeKeeps DEF TypeOK
        <4> QED
          BY <1>1, <1>2, <2>1, <3>1, <4>1 DEF UnitInv, OwnTree, Ok
      <3> QED
        BY <3>2, <3>3
    <2>3. CASE TreeStep(u)
      <3>1. cell' = cell /\ todo' = todo /\ misread' = misread
        BY <2>1, <2>3, TreeStepKeeps
      <3>2. pc[u] \notin {"queued", "done"}
        BY <2>1, <2>3, TreeStepKeeps
      <3>3. v # u => pc'[v] = pc[v]
        BY <2>1, <2>3, TreeStepKeeps DEF TypeOK
      <3>4. pc'[u] # "queued"
        BY <2>1, <2>3, TreeStepKeeps
      <3>5. CASE v = u
        BY <1>1, <1>2, <2>1, <3>1, <3>2, <3>4, <3>5 DEF UnitInv, OwnTree, Ok
      <3>6. CASE v # u
        BY <1>1, <1>2, <2>1, <3>1, <3>3, <3>6 DEF UnitInv, OwnTree, Ok
      <3> QED
        BY <3>5, <3>6
    <2>4. CASE CellStep(u)
      <3>1. CellsMoved(u) /\ CellKept(u)
        BY <2>1, <2>4, CellsMove, CellStepKeeps
      <3>2. pc[u] \notin {"queued", "done"} /\ (v # u => pc'[v] = pc[v])
        BY <2>1, <3>1 DEF CellKept, TypeOK
      <3>3. ASSUME NEW a \in todo'[v]
            PROVE  /\ a \in ArmsOf(v)
                   /\ pc'[v] # "done" /\ Ok(v[1], a)' => <<v[1], a>> \in misread'
        <4>1. a \in todo[v] /\ (v = u => a \in todo'[u])
          BY <3>1 DEF CellsMoved
        <4>2. a \in ArmsOf(v) /\ a \in Arms /\ Rides[a] = v[2]
          BY <1>1, <4>1 DEF UnitInv, ArmsOf, TypeOK
        <4>3. cell'[<<v[1], a>>] = cell[<<v[1], a>>]
          BY <3>1, <4>1, <4>2 DEF CellsMoved
        <4>4. pc[v] # "done" /\ Ok(v[1], a) => <<v[1], a>> \in misread
          BY <1>1, <4>1 DEF UnitInv
        <4>5. pc'[v] # "done" => pc[v] # "done"
          BY <3>2
        <4> QED
          BY <3>1, <4>2, <4>3, <4>4, <4>5 DEF Ok, CellsMoved
      <3>4. pc'[v] = "queued" => pc[v] = "queued" /\ todo'[v] = todo[v]
        BY <3>1, <3>2 DEF CellKept, CellsMoved
      <3>5. pc[v] = "queued" => todo[v] = {}
        BY <1>1 DEF UnitInv
      <3> QED
        BY <1>1, <1>2, <2>1, <3>2, <3>3, <3>4, <3>5 DEF UnitInv, OwnTree
    <2> QED
      BY <1>6, <2>2, <2>3, <2>4
  <1> QED
    BY <1>3, <1>4, <1>5, <1>6, Steppings

\* A build arm's own cell among the refused ones.
RefusedAt(c) ==
  IF phase \in {"units", "check"}
  THEN cell[c] = "mock" /\ c[2] \notin todo[c] /\ pc[c] # "queued"
  ELSE c \in misread

LEMMA OwnCells == \A c \in Cells : Rides[c[2]] = c[2] => c \in Units
  BY RungAssumption DEF Cells, Units, Parents

LEMMA RefusalStep ==
  ASSUME RungInv, [Next]_vars PROVE RefusalInv'
  <1>1. TypeOK /\ RefusalInv /\ \A u \in Units : UnitInv(u)
    BY DEF RungInv
  <1>0. \A c \in mocked : c \in Cells /\ (Rides[c[2]] = c[2] => c \in Units /\ RefusedAt(c))
    BY <1>1, OwnCells DEF RefusalInv, RefusedAt, TypeOK
  <1>2. CASE Anew /\ (Ended \/ Killed)
    BY <1>2 DEF Ended, Killed, RefusalInv
  <1>3. CASE Anew /\ Begun
    BY <1>1, <1>3 DEF Begun, RefusalInv
  <1>4. CASE Onward
    <2>1. pc' = pc /\ todo' = todo /\ cell' = cell /\ mocked' = mocked
      BY <1>4 DEF Onward, disk
    <2>2. phase' # "idle"
      BY <1>4 DEF Onward
    <2>3. ASSUME NEW c \in mocked, Rides[c[2]] = c[2] PROVE RefusedAt(c)'
      <3>1. RefusedAt(c) /\ c \in Cells
        BY <1>0, <2>3
      <3>2. CASE phase = "units" /\ phase' = "check"
        BY <2>1, <3>1, <3>2 DEF RefusedAt
      <3>3. CASE phase = "check" /\ phase' = "prewarm" /\ misread' = MockCells
        BY <3>1, <3>3 DEF RefusedAt, MockCells
      <3>4. CASE phase \in {"prewarm", "selftest", "grade"} /\ misread' = misread
                 /\ phase' \in {"prewarm", "selftest", "grade", "reported"}
        BY <3>1, <3>4 DEF RefusedAt
      <3> QED
        BY <1>4, <3>2, <3>3, <3>4 DEF Onward
    <2> QED
      BY <2>1, <2>2, <2>3 DEF RefusalInv, RefusedAt
  <1>5. CASE (\E a \in Arms : Graded(a)) \/ UNCHANGED vars
    <2>1. /\ pc' = pc /\ todo' = todo /\ cell' = cell /\ phase' = phase /\ mocked' = mocked
          /\ misread \subseteq misread'
      BY <1>5 DEF Graded, disk, process, vars
    <2> QED
      BY <1>1, <2>1 DEF RefusalInv
  <1>6. ASSUME NEW u \in Units, Take(u) \/ TreeStep(u) PROVE RefusalInv'
    <2>1. mocked' = mocked /\ cell' = cell /\ misread \subseteq misread'
      BY <1>1, <1>6, TakeKeeps, TreeStepKeeps
    <2>2. phase' = phase
      BY <1>6, MainKept DEF UnitStep, TreeStep
    <2>3. ASSUME NEW w \in Units, pc[w] # "queued" PROVE todo'[w] = todo[w] /\ pc'[w] # "queued"
      <3>1. CASE Take(u)
        BY <1>1, <2>3, <3>1, TakeKeeps DEF TypeOK
      <3>2. CASE TreeStep(u)
        BY <1>1, <2>3, <3>2, TreeStepKeeps DEF TypeOK
      <3> QED
        BY <1>6, <3>1, <3>2
    <2>4. ASSUME NEW c \in mocked, Rides[c[2]] = c[2] PROVE RefusedAt(c)'
      BY <1>0, <2>1, <2>2, <2>3, <2>4 DEF RefusedAt
    <2> QED
      BY <1>1, <2>1, <2>2, <2>4 DEF RefusalInv, RefusedAt
  <1>7. ASSUME NEW u \in Units, CellStep(u) PROVE RefusalInv'
    <2>1. CellsMoved(u) /\ CellKept(u) /\ UnitInv(u)
      BY <1>1, <1>7, CellsMove, CellStepKeeps
    <2>2. phase' = phase /\ phase = "units"
      BY <1>7, <2>1, MainKept DEF UnitStep, CellStep, UnitInv, CellKept
    <2>3. \A w \in Units : pc[w] # "queued" => pc'[w] # "queued"
      BY <1>1, <2>1 DEF CellKept, TypeOK
    <2>4. ASSUME NEW c \in mocked', Rides[c[2]] = c[2] PROVE RefusedAt(c)'
      <3>1. CASE c \in mocked
        <4>1. /\ c \in Units /\ cell[c] = "mock" /\ c[2] \notin todo[c] /\ pc[c] # "queued"
              /\ c = <<c[1], c[2]>> /\ c[2] \in Arms
          BY <1>0, <2>2, <2>4, <3>1, Pairs DEF RefusedAt
        <4>2. c[2] \notin todo'[c]
          BY <2>1, <4>1 DEF CellsMoved
        <4>3. c # u \/ c[2] \notin todo[u]
          BY <4>1
        <4>4. cell'[<<c[1], c[2]>>] = cell[<<c[1], c[2]>>]
          BY <2>1, <2>4, <4>1, <4>3 DEF CellsMoved
        <4> QED
          BY <2>2, <2>3, <4>1, <4>2, <4>4 DEF RefusedAt
      <3>2. CASE c \notin mocked
        <4>1. c = u /\ cell'[u] = "mock" /\ u[2] \notin todo'[u]
          BY <2>1, <2>4, <3>2 DEF CellKept, NewlyMocked
        <4>2. pc'[u] # "queued"
          BY <2>1 DEF CellKept
        <4> QED
          BY <2>2, <4>1, <4>2 DEF RefusedAt
      <3> QED
        BY <3>1, <3>2
    <2> QED
      BY <2>2, <2>4 DEF RefusalInv, RefusedAt
  <1> QED
    BY <1>2, <1>3, <1>4, <1>5, <1>6, <1>7, Steppings

-----------------------------------------------------------------------------
(* Grading *)

\* An arm's grading while its cells stay as they are, and are read as they were.
LEMMA GraderStands ==
  ASSUME NEW a \in Arms, GraderInv(a), UNCHANGED <<cell, lost, plan>>, graded'[a] = graded[a],
         grader'[a] = grader[a],
         \/ grader[a] = "waiting" \/ phase' = phase
         \/ phase = "grade" /\ phase' = "reported" /\ grader[a] # "grading",
         grader[a] \in {"ok", "skipped"} => Read(a)' = Read(a)
  PROVE  GraderInv(a)'
  BY DEF GraderInv, Ok

LEMMA GraderStep ==
  ASSUME RungInv, [Next]_vars, NEW a \in Arms PROVE GraderInv(a)'
  <1>1. TypeOK /\ GraderInv(a) /\ \A u \in Units : UnitInv(u)
    BY DEF RungInv
  <1>2. CASE Anew /\ (Begun \/ Ended \/ Killed)
    <2>1. UNCHANGED <<cell, lost, graded, plan>> /\ grader'[a] = "waiting"
      BY <1>2 DEF Anew
    <2> QED
      BY <1>1, <2>1 DEF GraderInv, Ok
  <1>3. CASE Onward
    <2>1. UNCHANGED <<cell, lost, graded, plan, grader>>
      BY <1>3 DEF Onward, disk
    <2>2. grader[a] # "waiting" => phase = "grade" /\ phase' = "reported" /\ misread' = misread
                                   /\ grader[a] # "grading"
      BY <1>1, <1>3 DEF Onward, GraderInv
    <2>3. grader[a] \in {"ok", "skipped"} => Read(a)' = Read(a)
      BY <2>1, <2>2 DEF Read, OkCells, Ok
    <2> QED
      BY <1>1, <2>1, <2>2, <2>3, GraderStands
  <1>4. CASE UNCHANGED vars
    <2>1. UNCHANGED <<cell, lost, graded, plan, grader, misread, phase>>
      BY <1>4 DEF vars, disk, process, grading
    <2> QED
      BY <1>1, <2>1, GraderStands DEF Read, OkCells, Ok
  <1>5. ASSUME NEW b \in Arms, Graded(b) PROVE GraderInv(a)'
    <2>1. UNCHANGED <<cell, lost>> /\ phase' = "grade" /\ phase = "grade" /\ plan' = plan
      BY <1>5 DEF Graded, process
    <2>2. CASE a = b
      <3>1. GradeStart(a) \/ grader[a] = "grading"
        BY <1>5, <2>2 DEF Graded
      <3>2. a \in plan.arms
        BY <1>1, <3>1 DEF GradeStart, GraderInv
      <3>3. Read(a) \subseteq OkCells(a) /\ OkCells(a)' = OkCells(a)
        BY <2>1 DEF Read, OkCells, Ok
      <3>4. \A i \in graded'[a] : i \in graded[a] \/ i \in OkCells(a)
        BY <1>5, <2>2, <3>3 DEF Graded
      <3>5. \A i \in graded'[a] : Ok(i, a)' \/ <<i, a>> \in lost'
        BY <1>1, <2>1, <3>4 DEF GraderInv, OkCells, Ok
      <3>6. grader'[a] = "ok" => graded'[a] = Read(a)'
        <4>1. grader'[a] = "ok" => graded'[a] = Read(a) /\ misread' = misread
          BY <1>5, <2>2 DEF Graded
        <4> QED
          BY <3>3, <4>1 DEF Read
      <3>7. grader'[a] = "skipped" => Read(a)' = {}
        <4>1. grader'[a] = "skipped" => \A i \in OkCells(a) : <<i, a>> \in misread'
          BY <1>5, <2>2 DEF Graded
        <4> QED
          BY <3>3, <4>1 DEF Read
      <3> QED
        BY <2>1, <3>2, <3>5, <3>6, <3>7 DEF GraderInv
    <2>3. CASE a # b
      <3>1. graded'[a] = graded[a] /\ grader'[a] = grader[a]
        BY <1>1, <1>5, <2>3 DEF Graded, TypeOK
      <3>2. \A i \in Instances : <<i, a>> \in misread' <=> <<i, a>> \in misread
        BY <1>5, <2>3 DEF Graded
      <3>3. Read(a)' = Read(a)
        BY <2>1, <3>2 DEF Read, OkCells, Ok
      <3> QED
        BY <1>1, <2>1, <3>1, <3>3, GraderStands
    <2> QED
      BY <2>2, <2>3
  <1>6. ASSUME NEW u \in Units, Take(u) \/ TreeStep(u) \/ CellStep(u) PROVE GraderInv(a)'
    <2>1. graded' = graded /\ grader' = grader /\ phase' = phase /\ plan' = plan
      BY <1>6, MainKept DEF UnitStep, TreeStep, CellStep, grading
    <2>2. phase = "units"
      BY <1>1, <1>6, TakeKeeps, TreeStepKeeps, CellStepKeeps DEF UnitInv, CellKept
    <2>3. grader[a] = "waiting"
      BY <1>1, <2>2 DEF GraderInv
    <2>4. \A c \in Cells : cell[c] = "ok" \/ c \in lost => cell'[c] = "ok" \/ c \in lost'
      BY <1>1, <1>6, TakeKeeps, TreeStepKeeps, CellsMove DEF CellsMoved
    <2>5. \A i \in graded[a] : <<i, a>> \in Cells
      BY <1>1 DEF TypeOK, Cells
    <2> QED
      BY <1>1, <2>1, <2>3, <2>4, <2>5 DEF GraderInv, Ok
  <1> QED
    BY <1>2, <1>3, <1>4, <1>5, <1>6, Steppings

-----------------------------------------------------------------------------
(* The pools *)

LEMMA FiniteUnits == IsFiniteSet(Units) /\ IsFiniteSet(Running) /\ IsFiniteSet(Grading)
  <1>1. Parents \subseteq Arms
    BY RungAssumption DEF Parents
  <1>2. IsFiniteSet(Parents)
    BY <1>1, FS_Subset, RungAssumption
  <1>3. IsFiniteSet(Units)
    BY <1>2, FS_Product, RungAssumption DEF Units
  <1>4. Running \subseteq Units /\ Grading \subseteq Arms
    BY DEF Running, Grading
  <1> QED
    BY <1>3, <1>4, FS_Subset, RungAssumption

\* A pool at rest, and one that takes one more.
LEMMA PoolGrows ==
  ASSUME NEW S, IsFiniteSet(S), NEW T, IsFiniteSet(T), NEW x, NEW n \in Nat,
         T \subseteq S \cup {x}, Cardinality(S) < n
  PROVE Cardinality(T) <= n
  <1>1. Cardinality(S) \in Nat
    BY FS_CardinalityType
  <1>2. IsFiniteSet(S \cup {x}) /\ Cardinality(S \cup {x}) <= Cardinality(S) + 1
    BY <1>1, FS_AddElement
  <1>3. Cardinality(T) <= Cardinality(S \cup {x})
    BY <1>2, FS_Subset
  <1>4. Cardinality(T) \in Nat /\ Cardinality(S \cup {x}) \in Nat
    BY <1>2, FS_CardinalityType
  <1> QED
    BY <1>1, <1>2, <1>3, <1>4

LEMMA PoolShrinks ==
  ASSUME NEW S, IsFiniteSet(S), NEW T, T \subseteq S, NEW n \in Nat, Cardinality(S) <= n
  PROVE Cardinality(T) <= n
  BY FS_Subset, FS_CardinalityType

LEMMA PoolStep ==
  ASSUME RungInv, [Next]_vars PROVE (Cardinality(Running) <= plan.workers)'
  <1>1. /\ TypeOK /\ \A u \in Units : UnitInv(u)
        /\ Cardinality(Running) <= plan.workers
    BY DEF RungInv, PoolInv
  <1>2. plan.workers \in Nat /\ IsFiniteSet(Running) /\ IsFiniteSet(Running')
    <2>1. Running' \subseteq Units
      BY DEF Running, Units
    <2> QED
      BY <1>1, <2>1, FiniteUnits, FS_Subset, RungAssumption DEF TypeOK
  <1>3. plan' = plan
    BY <1>1, MainKept, Steppings DEF Anew, Onward, Graded, vars, UnitStep, TreeStep, CellStep
  <1>4. CASE Running' \subseteq Running
    BY <1>1, <1>2, <1>3, <1>4, PoolShrinks
  <1>5. CASE Anew /\ (Begun \/ Ended \/ Killed)
    <2>1. Running' = {}
      BY <1>5 DEF Anew, Running
    <2> QED
      BY <1>4, <2>1
  <1>6. CASE Onward \/ (\E a \in Arms : Graded(a)) \/ UNCHANGED vars
    <2>1. pc' = pc
      BY <1>6 DEF Onward, Graded, process, vars
    <2> QED
      BY <1>4, <2>1 DEF Running
  <1>7. ASSUME NEW u \in Units, TreeStep(u) \/ CellStep(u)
        PROVE (Cardinality(Running) <= plan.workers)'
    <2>1. pc[u] \notin {"queued", "done"} /\ pc' = [pc EXCEPT ![u] = pc'[u]]
      BY <1>1, <1>7, TreeStepKeeps, CellStepKeeps DEF CellKept
    <2>2. Running' \subseteq Running
      BY <1>1, <2>1 DEF Running, TypeOK
    <2> QED
      BY <1>4, <2>2
  <1>8. ASSUME NEW u \in Units, Take(u) PROVE (Cardinality(Running) <= plan.workers)'
    <2>1. Cardinality(Running) < plan.workers /\ pc' = [pc EXCEPT ![u] = pc'[u]]
      BY <1>1, <1>8, TakeKeeps
    <2>2. Running' \subseteq Running \cup {u}
      BY <1>1, <2>1 DEF Running, TypeOK
    <2> QED
      BY <1>2, <1>3, <2>1, <2>2, PoolGrows
  <1> QED
    BY <1>5, <1>6, <1>7, <1>8, Steppings

LEMMA WarmStep ==
  ASSUME RungInv, [Next]_vars PROVE WarmInv'
  <1>1. /\ TypeOK /\ \A a \in Arms : GraderInv(a)
        /\ WarmInv
    BY DEF RungInv, PoolInv
  <1>2. phase # "grade" => Grading = {}
    BY <1>1 DEF Grading, GraderInv
  <1>3. Cardinality({}) = 0
    BY FS_EmptySet
  <1>4. CASE Anew /\ (Begun \/ Ended \/ Killed)
    <2>1. Grading' = {} /\ warm' = "no"
      BY <1>4 DEF Anew, Grading
    <2> QED
      BY <1>3, <2>1 DEF WarmInv
  <1>5. CASE Onward
    <2>1. Grading' = Grading /\ plan' = plan
      BY <1>5 DEF Onward, Grading
    <2>2. CASE UNCHANGED <<checkouts, failed, warm>>
      BY <1>1, <2>1, <2>2 DEF WarmInv
    <2>3. ASSUME NEW i \in Instances, Checkout(i) PROVE WarmInv'
      BY <1>1, <2>1, <2>3 DEF WarmInv, Checkout
    <2>4. CASE Prewarmed
      BY <1>2, <1>3, <2>1, <2>4 DEF WarmInv, Prewarmed
    <2> QED
      BY <1>5, <2>2, <2>3, <2>4 DEF Onward
  <1>6. CASE UNCHANGED vars
    BY <1>1, <1>6 DEF vars, grading, WarmInv, Grading
  <1>7. ASSUME NEW u \in Units, Take(u) \/ TreeStep(u) \/ CellStep(u) PROVE WarmInv'
    <2>1. grading' = grading /\ plan' = plan
      BY <1>7, MainKept DEF UnitStep, TreeStep, CellStep
    <2> QED
      BY <1>1, <2>1 DEF WarmInv, Grading, grading
  <1>8. ASSUME NEW a \in Arms, Graded(a) PROVE WarmInv'
    <2>1. /\ checkouts' = checkouts /\ warm' = warm /\ plan' = plan
          /\ grader' = [grader EXCEPT ![a] = grader'[a]]
      BY <1>8 DEF Graded
    <2>2. IsFiniteSet(Grading) /\ IsFiniteSet(Grading') /\ Cardinality(Grading) \in Nat
      <3>1. Grading' \subseteq Arms
        BY DEF Grading
      <3> QED
        BY <3>1, FiniteUnits, FS_Subset, FS_CardinalityType, RungAssumption
    <2>3. CASE grader[a] = "grading"
      <3>1. Grading' \subseteq Grading
        BY <1>1, <2>1, <2>3 DEF Grading, TypeOK
      <3>2. Cardinality(Grading') <= Cardinality(Grading) /\ Cardinality(Grading') \in Nat
        BY <2>2, <3>1, FS_Subset, FS_CardinalityType
      <3> QED
        BY <1>1, <2>1, <2>2, <3>2 DEF WarmInv
    <2>4. CASE GradeStart(a)
      <3>1. CASE warm = "yes"
        BY <1>1, <2>1, <3>1 DEF WarmInv
      <3>2. CASE warm # "yes"
        <4>1. Cardinality(Grading) < 1
          BY <2>4, <3>2 DEF GradeStart, GradeWorkers
        <4>2. Grading' \subseteq Grading \cup {a}
          BY <1>1, <2>1 DEF Grading, TypeOK
        <4>3. Cardinality(Grading') <= 1
          BY <2>2, <4>1, <4>2, PoolGrows
        <4> QED
          BY <2>1, <2>2, <3>2, <4>3, FS_CardinalityType DEF WarmInv
      <3> QED
        BY <3>1, <3>2
    <2> QED
      BY <1>8, <2>3, <2>4 DEF Graded
  <1> QED
    BY <1>4, <1>5, <1>6, <1>7, <1>8, Steppings

-----------------------------------------------------------------------------
(* The theorems *)

LEMMA InitInv == Init => RungInv
  <1> SUFFICES ASSUME Init PROVE RungInv
    OBVIOUS
  <1>1. TypeOK
    BY RungAssumption DEF Init, TypeOK, CellRecords, Steps, Phases
  <1>2. \A u \in Units : UnitInv(u) /\ TreeInv(u)
    BY DEF Init, UnitInv, TreeInv, HalfInv, StampInv, MockInv, OutlivedInv, Staged, InTree
  <1>3. RefusalInv /\ warm = "no" /\ \A a \in Arms : GraderInv(a)
    BY DEF Init, RefusalInv, GraderInv
  <1>4. Running = {} /\ Grading = {}
    BY DEF Init, Running, Grading
  <1>5. Cardinality({}) = 0 /\ plan.workers \in Nat
    BY <1>1, FS_EmptySet, RungAssumption DEF TypeOK
  <1> QED
    BY <1>1, <1>2, <1>3, <1>4, <1>5 DEF RungInv, PoolInv, WarmInv

LEMMA NextInv == RungInv /\ [Next]_vars => RungInv'
  <1> SUFFICES ASSUME RungInv, [Next]_vars PROVE RungInv'
    OBVIOUS
  <1>1. \A u \in Units : UnitInv(u)' /\ TreeInv(u)'
    BY UnitInvStep, OwnTreeStep DEF OwnTree
  <1>2. \A a \in Arms : GraderInv(a)'
    BY GraderStep
  <1> QED
    BY <1>1, <1>2, TypeStep, RefusalStep, PoolStep, WarmStep DEF RungInv, PoolInv

\* The inductive invariant: types, where each unit and its tree are, which
\* cell holds a refusal, what the graders have written, the pools' sizes.
THEOREM Invariance == Spec => []RungInv
  BY InitInv, NextInv, PTL DEF Spec

\* The types of the runner's state, on disk and in memory.
THEOREM Types == Spec => []TypeOK
  BY Invariance, PTL DEF RungInv

\* main's abort on a mock-embedded build: a run that refused such a build in
\* the build arm's own cell is past the check only if the check could not read
\* that cell, whatever its other units and earlier runs wrote.
THEOREM RecordedMocksAreNotGraded == Spec => []MockRunNotGraded
  <1>1. RungInv => MockRunNotGraded
    BY DEF RungInv, RefusalInv, MockRunNotGraded
  <1> QED
    BY <1>1, Invariance, PTL

\* The reaping of trees: those that neither outlived their unit nor are in use
\* by one are gone, for any number of units and workers.
THEOREM DiskIsBounded == Spec => []DiskBounded
  <1>1. ASSUME RungInv PROVE DiskBounded
    <2> DEFINE Live == {u \in Units : Staged(u) /\ "outlived" \notin tree[u].why}
    <2>1. Live \subseteq Running
      BY <1>1 DEF RungInv, TreeInv, OutlivedInv, Running
    <2>2. IsFiniteSet(Running) /\ plan.workers \in Nat /\ Cardinality(Running) <= plan.workers
      BY <1>1, FiniteUnits, RungAssumption DEF RungInv, TypeOK, PoolInv
    <2> QED
      BY <2>1, <2>2, PoolShrinks DEF DiskBounded
  <1> QED
    BY <1>1, Invariance, PTL

\* grade_arm and summarize: a graded row is one of an answered cell, or of an
\* answer that was misread and replaced, and a finished grading holds what could
\* be read when the run reports.
THEOREM GradedFilesMatch == Spec => []GradedMatchesCells
  <1>1. RungInv => GradedMatchesCells
    BY DEF RungInv, GraderInv, GradedMatchesCells
  <1> QED
    BY <1>1, Invariance, PTL

\* The prewarm before the grading pool: graders that may clone run alone.
THEOREM GradersDoNotRace == Spec => []NoCloneRace
  <1>1. RungInv => NoCloneRace
    BY DEF RungInv, PoolInv, WarmInv, NoCloneRace
  <1> QED
    BY <1>1, Invariance, PTL

\* Resuming by cell: run_unit writes over a cell that is ok only if it could not
\* read it.
THEOREM ReadCellsAreKept == Spec => OkCellsKept
  <1>1. ASSUME RungInv, [Next]_vars, NEW c \in Cells, cell[c] = "ok", c \notin misread
        PROVE  cell'[c] = cell[c]
    <2>1. TypeOK /\ \A u \in Units : UnitInv(u)
      BY <1>1 DEF RungInv
    <2>2. CASE (Anew /\ (Begun \/ Ended \/ Killed)) \/ Onward \/ (\E a \in Arms : Graded(a))
               \/ UNCHANGED vars
      BY <2>2 DEF Anew, Onward, Graded, vars, disk
    <2>3. ASSUME NEW u \in Units, Take(u) \/ TreeStep(u) PROVE cell'[c] = cell[c]
      BY <2>1, <2>3, TakeKeeps, TreeStepKeeps
    <2>4. ASSUME NEW u \in Units, CellStep(u) PROVE cell'[c] = cell[c]
      BY <1>1, <2>1, <2>4, CellsMove DEF CellsMoved
    <2> QED
      BY <1>1, <2>2, <2>3, <2>4, Steppings
  <1>2. RungInv /\ [Next]_vars =>
          [\A c \in Cells : cell[c] = "ok" /\ c \notin misread => cell'[c] = cell[c]]_vars
    BY <1>1
  <1> QED
    BY <1>2, Invariance, PTL DEF Spec, OkCellsKept

\* query_arm is only reached with an index that run_unit may serve: an answer
\* from a defective tree has one of the causes ScoredOnSound names.
THEOREM AnswersAreOnSoundTrees == Spec => ScoredOnSound
  <1> DEFINE Sound(u, a) ==
        Answered(u, a) => \A d \in Defects(tree[u]) : Excusing(d) \cap (tree[u].why \cup opts) # {}
  <1>1. ASSUME RungInv, [Next]_vars, NEW v \in Units, NEW b \in Arms PROVE Sound(v, b)
    <2>1. TypeOK /\ \A u \in Units : UnitInv(u) /\ TreeInv(u)
      BY <1>1 DEF RungInv
    <2>2. CASE Anew /\ (Begun \/ Ended \/ Killed)
      BY <2>2 DEF Begun, Ended, Killed, Answered
    <2>5. CASE Onward \/ (\E a \in Arms : Graded(a)) \/ UNCHANGED vars
      BY <2>5 DEF Onward, Graded, process, vars, Answered
    <2>3. ASSUME NEW u \in Units, Take(u) \/ TreeStep(u) PROVE Sound(v, b)
      <3>1. CASE Take(u)
        <4>1. todo[u] = {} /\ \A w \in Units : w # u => todo'[w] = todo[w]
          BY <2>1, <3>1, TakeKeeps DEF UnitInv, TypeOK
        <4> QED
          BY <4>1 DEF Answered
      <3>2. CASE TreeStep(u)
        BY <2>1, <3>2, TreeStepKeeps DEF Answered
      <3> QED
        BY <2>3, <3>1, <3>2
    <2>4. ASSUME NEW u \in Units, CellStep(u) PROVE Sound(v, b)
      <3>1. CellKept(u) /\ CellsMoved(u) /\ UnitInv(u) /\ TreeInv(u)
        BY <2>1, <2>4, CellStepKeeps, CellsMove
      <3>2. CASE ~Answered(v, b)
        BY <3>2
      <3>3. CASE Answered(v, b)
        <4>1. u = v
          BY <3>1, <3>3 DEF CellsMoved, Answered
        <4>2. PICK a \in todo[u] \cap Arms, record \in CellRecords : Wrote(u, a, record)
          BY <3>1, <3>3 DEF CellKept, Answered
        <4>3. record = "ok"
          <5>1. a = b
            BY <2>1, <3>3, <4>1, <4>2 DEF Answered, Wrote, TypeOK
          <5>2. cell'[<<u[1], a>>] = record
            BY <2>1, <4>2, Pairs DEF Wrote, Record, TypeOK
          <5> QED
            BY <3>3, <4>1, <5>1, <5>2 DEF Answered
        <4>4. pc[u] = "query" /\ Staged(u)
          BY <3>1, <4>2, <4>3 DEF Wrote, Query, UnitInv, InTree
        <4>5. \A d \in Defects(tree[u]) : d \in {"half", "unfinished", "mock"}
          BY DEF Defects
        <4>6. "half" \in Defects(tree[u]) => Excusing("half") \cap tree[u].why # {}
          BY <3>1, <4>4 DEF TreeInv, HalfInv, Defects
        <4>7. "unfinished" \in Defects(tree[u]) =>
                Excusing("unfinished") \cap (tree[u].why \cup opts) # {}
          BY <3>1, <4>4 DEF TreeInv, StampInv, Defects, Excusing
        <4>8. "mock" \in Defects(tree[u]) => Excusing("mock") \cap tree[u].why # {}
          BY <3>1, <4>4 DEF TreeInv, MockInv, Defects
        <4> QED
          BY <4>1, <4>5, <4>6, <4>7, <4>8
      <3> QED
        BY <3>2, <3>3
    <2> QED
      BY <2>2, <2>3, <2>4, <2>5, <1>1, Steppings
  <1>2. RungInv /\ [Next]_vars => [\A u \in Units, a \in Arms : Sound(u, a)]_vars
    BY <1>1
  <1>3. Spec => [][\A u \in Units, a \in Arms : Sound(u, a)]_vars
    BY <1>2, Invariance, PTL DEF Spec
  <1> QED
    BY <1>3 DEF ScoredOnSound

-----------------------------------------------------------------------------
(* A unit is finite *)

\* What is left of a unit in its run: its arms to be queried, each of which may
\* hang first, and the steps of its tree.
Asked(u) == 2 * Cardinality(todo[u])
Left(u) ==
  CASE pc[u] = "queued" -> 2 * Cardinality(Arms) + 12
    [] pc[u] = "stage" ->
         Asked(u) + IF ~Staged(u) THEN 10 ELSE IF tree[u].src = "lost" THEN 11 ELSE 9
    [] pc[u] = "adding" -> Asked(u) + 9
    [] pc[u] = "build" -> Asked(u) + 8
    [] pc[u] = "building" -> Asked(u) + 7
    [] pc[u] = "built" -> Asked(u) + 6
    [] pc[u] \in {"judge", "query"} -> Asked(u) + 4
    [] pc[u] = "hung" -> Asked(u) + 3
    [] pc[u] = "reap" -> 1
    [] OTHER -> 0

\* Left, case by case.
Measured(u) ==
  /\ Asked(u) \in 0..(2 * Cardinality(Arms))
  /\ Left(u) \in 0..(2 * Cardinality(Arms) + 12)
  /\ pc[u] = "queued" => Left(u) = 2 * Cardinality(Arms) + 12
  /\ pc[u] = "stage" =>
       /\ ~Staged(u) => Left(u) = Asked(u) + 10
       /\ Staged(u) /\ tree[u].src = "lost" => Left(u) = Asked(u) + 11
       /\ Staged(u) /\ tree[u].src # "lost" => Left(u) = Asked(u) + 9
  /\ pc[u] = "adding" => Left(u) = Asked(u) + 9
  /\ pc[u] = "build" => Left(u) = Asked(u) + 8
  /\ pc[u] = "building" => Left(u) = Asked(u) + 7
  /\ pc[u] = "built" => Left(u) = Asked(u) + 6
  /\ pc[u] \in {"judge", "query"} => Left(u) = Asked(u) + 4
  /\ pc[u] = "hung" => Left(u) = Asked(u) + 3
  /\ pc[u] = "reap" => Left(u) = 1
  /\ pc[u] = "done" => Left(u) = 0

LEMMA FewAsked ==
  ASSUME TypeOK, NEW u \in Units
  PROVE  /\ Cardinality(Arms) \in Nat
         /\ Asked(u) \in 0..(2 * Cardinality(Arms))
  <1>1. IsFiniteSet(Arms) /\ todo[u] \subseteq Arms
    BY RungAssumption DEF TypeOK
  <1>2. /\ IsFiniteSet(todo[u])
        /\ Cardinality(todo[u]) \in Nat /\ Cardinality(Arms) \in Nat
        /\ Cardinality(todo[u]) <= Cardinality(Arms)
    BY <1>1, FS_Subset, FS_CardinalityType
  <1> QED BY <1>2 DEF Asked

LEMMA LeftNow ==
  ASSUME NEW u \in Units
  PROVE  TypeOK => Measured(u)
  <1> SUFFICES ASSUME TypeOK PROVE Measured(u)
    OBVIOUS
  <1>1. /\ Cardinality(Arms) \in Nat
        /\ Asked(u) \in 0..(2 * Cardinality(Arms))
    BY FewAsked
  <1>2. pc[u] \in Steps
    BY DEF TypeOK
  <1>3. CASE pc[u] = "stage"
    BY <1>1, <1>3 DEF Left, Measured
  <1>4. CASE pc[u] # "stage"
    BY <1>1, <1>2, <1>4 DEF Left, Measured, Steps
  <1> QED BY <1>3, <1>4

LEMMA LeftThen ==
  ASSUME NEW u \in Units
  PROVE  TypeOK' => Measured(u)'
  BY LeftNow, PTL

LEMMA TakeShortens ==
  ASSUME TypeOK, TypeOK', NEW u \in Units, Take(u)
  PROVE  Left(u)' < Left(u)
  <1>1. /\ Measured(u) /\ Measured(u)' /\ Cardinality(Arms) \in Nat
        /\ pc[u] = "queued" /\ pc'[u] \in {"done", "stage"}
    BY LeftNow, LeftThen, FewAsked, TakeKeeps
  <1> QED BY <1>1 DEF Measured

LEMMA TreeStepShortens ==
  ASSUME TypeOK, TypeOK', NEW u \in Units, TreeStep(u)
  PROVE  Left(u)' < Left(u)
  <1>1. todo' = todo
    BY TreeStepKeeps
  <1>2. /\ Measured(u) /\ Measured(u)' /\ Asked(u)' = Asked(u)
        /\ pc \in [Units -> Steps] /\ tree \in [Units -> Trees \cup {NoTree}]
    BY <1>1, LeftNow, LeftThen DEF Asked, TypeOK
  <1> USE <1>2 DEF Measured, Goto
  <1>3. CASE StageExisting(u) \/ StageAfresh(u)
    BY <1>3 DEF StageExisting, StageAfresh, Set, Staged
  <1>4. CASE StageAdd(u) \/ StageAdded(u)
    BY <1>4 DEF StageAdd, StageAdded
  <1>5. CASE BuildSkipped(u) \/ BuildStart(u) \/ BuildExits(u)
    BY <1>5 DEF BuildSkipped, BuildStart, BuildExits
  <1>6. CASE BuildFails(u) \/ WriteStamp(u)
    BY <1>6 DEF BuildFails, WriteStamp
  <1>7. CASE Keep(u) \/ Reap(u)
    BY <1>7 DEF Keep, Reap
  <1> HIDE DEF Measured
  <1> QED BY <1>3, <1>4, <1>5, <1>6, <1>7 DEF TreeStep

LEMMA OneLess ==
  ASSUME TypeOK, NEW u \in Units, NEW a \in todo[u], todo' = [todo EXCEPT ![u] = @ \ {a}]
  PROVE  Asked(u)' = Asked(u) - 2
  <1>1. IsFiniteSet(todo[u]) /\ todo'[u] = todo[u] \ {a}
    BY RungAssumption, FS_Subset DEF TypeOK
  <1>2. Cardinality(todo[u] \ {a}) = Cardinality(todo[u]) - 1 /\ Cardinality(todo[u]) \in Nat
    BY <1>1, FS_RemoveElement, FS_CardinalityType
  <1>3. ASSUME NEW n \in Nat PROVE 2 * (n - 1) = 2 * n - 2
    BY <1>3
  <1>4. Cardinality(todo[u])' = Cardinality(todo[u]) - 1
    BY <1>1, <1>2
  <1> QED BY <1>2, <1>3, <1>4 DEF Asked

LEMMA CellStepShortens ==
  ASSUME TypeOK, TypeOK', NEW u \in Units, CellStep(u)
  PROVE  Left(u)' < Left(u)
  <1>1. Measured(u) /\ Measured(u)' /\ pc \in [Units -> Steps]
    BY LeftNow, LeftThen DEF TypeOK
  <1>2. ASSUME NEW a \in Arms, Refuse(u, a) \/ Query(u, a) \/ CellTimeout(u, a)
        PROVE  Left(u)' < Left(u)
    <2>1. a \in todo[u] /\ todo' = [todo EXCEPT ![u] = @ \ {a}]
      BY <1>2 DEF Refuse, Query, CellTimeout, Strike
    <2>2. Asked(u)' = Asked(u) - 2
      BY <2>1, OneLess
    <2> QED BY <1>1, <1>2, <2>2 DEF Measured, Refuse, Query, CellTimeout, Strike, Goto
  <1>3. CASE Hang(u) \/ UnitRaises(u)
    <2>1. Asked(u)' = Asked(u)
      BY <1>3 DEF Hang, UnitRaises, Asked
    <2> QED BY <1>1, <1>3, <2>1 DEF Measured, Hang, UnitRaises, Goto
  <1> QED BY <1>2, <1>3 DEF CellStep

\* A unit no step is of.
LEMMA OtherStands ==
  ASSUME NEW v \in Units, pc'[v] = pc[v], todo'[v] = todo[v], tree'[v] = tree[v]
  PROVE  Left(v)' = Left(v)
  <1>1. Asked(v)' = Asked(v) /\ (Staged(v)' <=> Staged(v))
    BY DEF Asked, Staged
  <1> QED BY <1>1 DEF Left

\* While a run goes on, no step of it prolongs a unit, and each of a unit's own
\* shortens it.
Shorten ==
  phase # "idle" /\ phase' # "idle" =>
    \A u \in Units : Left(u)' <= Left(u) /\ (UnitStep(u) => Left(u)' < Left(u))
UnitsShorten == [][Shorten]_vars

LEMMA ShortenStep ==
  ASSUME RungInv, RungInv', [Next]_vars, phase # "idle", phase' # "idle", NEW u \in Units
  PROVE  Left(u)' <= Left(u) /\ (UnitStep(u) => Left(u)' < Left(u))
  <1>1. TypeOK /\ TypeOK' /\ Left(u) \in Int /\ Left(u)' \in Int
    BY LeftNow, LeftThen, FewAsked DEF RungInv, Measured
  <1>2. UnitStep(u) => Left(u)' < Left(u)
    BY <1>1, UnitSteps, TakeShortens, TreeStepShortens, CellStepShortens
  <1>3. ASSUME NEW v \in Units, Take(v) \/ TreeStep(v) \/ CellStep(v), v # u
        PROVE  Left(u)' = Left(u)
    <2>1. /\ pc' = [pc EXCEPT ![v] = pc'[v]] /\ todo' = [todo EXCEPT ![v] = todo'[v]]
          /\ tree' = [tree EXCEPT ![v] = tree'[v]]
      <3>1. CASE Take(v)
        BY <1>1, <3>1, TakeKeeps DEF TypeOK
      <3>2. CASE TreeStep(v)
        BY <1>1, <3>2, TreeStepKeeps, TreeStepTree DEF RungInv, TypeOK
      <3>3. CASE CellStep(v)
        <4>1. CellKept(v)
          BY <1>1, <3>3, CellStepKeeps DEF RungInv
        <4>2. tree' = tree /\ pc' = [pc EXCEPT ![v] = pc'[v]]
          BY <4>1 DEF CellKept
        <4>3. todo' = [todo EXCEPT ![v] = todo'[v]]
          BY <1>1, <4>1 DEF CellKept, Wrote, TypeOK
        <4> QED BY <1>1, <4>2, <4>3 DEF TypeOK
      <3> QED BY <1>3, <3>1, <3>2, <3>3
    <2>2. pc'[u] = pc[u] /\ todo'[u] = todo[u] /\ tree'[u] = tree[u]
      BY <1>1, <1>3, <2>1 DEF TypeOK
    <2> QED BY <2>2, OtherStands
  <1>4. ASSUME NEW v \in Units, Take(v) \/ TreeStep(v) \/ CellStep(v)
        PROVE  Left(u)' <= Left(u)
    <2>1. UnitStep(v)
      BY <1>4 DEF UnitStep, TreeStep, CellStep
    <2> QED BY <1>1, <1>2, <1>3, <1>4, <2>1
  <1>5. CASE Onward \/ (\E a \in Arms : Graded(a)) \/ UNCHANGED vars
    <2>1. UNCHANGED <<pc, todo, tree>>
      BY <1>5 DEF Onward, Graded, disk, process, vars
    <2>2. Left(u)' = Left(u)
      BY <2>1, OtherStands
    <2> QED BY <1>1, <1>2, <2>2
  <1>6. ~(Begun \/ Ended \/ Killed)
    BY DEF Begun, Ended, Killed
  <1> QED BY <1>2, <1>4, <1>5, <1>6, Steppings

\* Whatever its servers, builds and removals do, a unit of a run is finite: at
\* most 2 * Cardinality(Arms) + 12 steps, two for each of its cells under
\* --unit-timeout, and no other unit's lengthen it (run_unit).
THEOREM UnitsAreFinite ==
  Spec => /\ [](\A u \in Units : Left(u) \in 0..(2 * Cardinality(Arms) + 12))
          /\ UnitsShorten
  <1>1. RungInv => \A u \in Units : Left(u) \in 0..(2 * Cardinality(Arms) + 12)
    BY LeftNow DEF Measured, RungInv
  <1>2. RungInv /\ RungInv' /\ [Next]_vars => Shorten
    <2> HIDE DEF RungInv
    <2> QED BY ShortenStep DEF Shorten
  <1> QED BY <1>1, <1>2, Invariance, PTL DEF Spec, UnitsShorten

=============================================================================
