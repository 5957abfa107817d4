----------------------------- MODULE RungRunner -----------------------------
(***************************************************************************)
(* The parallel, resumable runner of rung 8 (results/bakeoff_2026_08/      *)
(* rung8/rung8_runner.py, and the steps it takes from canary_allarms.py).  *)
(* A unit is an instance and a build arm: it stages a worktree, builds the *)
(* arm's index in it, queries each arm that rides on that index, writes a  *)
(* cell per query and removes the tree.  When all units have ended, main   *)
(* grades every arm's cells in a batch.  A run resumes from the cells and  *)
(* the trees earlier runs left; it may be killed at any point.  The arms   *)
(* are those with an index to build (serena, which has none, is left out). *)
(***************************************************************************)
EXTENDS Integers, FiniteSets

CONSTANTS
  Instances,   \* instances of the splits
  Arms,        \* arms
  Rides,       \* SHARED_TREE: the build arm whose tree an arm queries
  Embeds,      \* build arms whose index has vectors to be probed (repowise)
  Plans,       \* --instances, --arms and --workers, each the same for all runs of a tag
  Options,     \* sets of flags a run may be started with
  MaxRuns,     \* bound: runs of one tag, by its plan
  MaxFaults    \* bound: kills, removals cut short, blind probes and failed readings of cells

ASSUME RungAssumption ==
  /\ Rides \in [Arms -> Arms]
  /\ \A a \in Arms : Rides[Rides[a]] = Rides[a]
  /\ IsFiniteSet(Instances) /\ IsFiniteSet(Arms)
  /\ Plans \subseteq [instances : SUBSET Instances, arms : SUBSET Arms, workers : Nat \ {0}]
  /\ Options \subseteq SUBSET {"keep", "skip", "rebuild", "grade-only"}
  /\ MaxRuns \in [Plans -> Nat] /\ MaxFaults \in Nat

VARIABLES
  \* on disk
  tree,      \* a unit's worktree, NoTree while there is none
  cell,      \* the cell record of an instance and an arm
  graded,    \* an arm's graded file: the instances with a graded row
  \* of the process
  plan,      \* what it was told to run
  opts,      \* the flags it was started with
  phase,     \* where main is
  pc,        \* where a unit is
  todo,      \* a unit's arms still to be queried
  build,     \* what its build record says
  checkouts, \* the grader's checkouts the prewarm has made
  failed,    \* those it has told of as failed, while it runs
  warm,      \* what main takes the prewarm for, once it has ended
  grader,    \* where an arm's grading is
  \* history
  mocked,    \* cells this run refused for a mock-embedded build
  misread,   \* cells this run took for missing when it last read them
  lost,      \* answers that were replaced and have not been given again
  runs, faults

disk == <<tree, cell, lost, graded>>
process == <<opts, phase, pc, todo, build>>
grading == <<checkouts, failed, warm, grader>>
vars == <<disk, plan, process, grading, mocked, misread, runs, faults>>

Parents == {Rides[a] : a \in Arms}
Units == Instances \X Parents
Cells == Instances \X Arms
\* The arms of a unit, and the units of the plan (main: "if arms").
ArmsOf(u) == {a \in plan.arms : u[1] \in plan.instances /\ Rides[a] = u[2]}
Planned == {u \in Units : ArmsOf(u) # {}}

(***************************************************************************)
(* A tree's sources are checked out in full, in part, or have lost the     *)
(* link that tells their HEAD.  Its index is absent, unfinished with its   *)
(* markers in place, finished with mock vectors, or finished.  `why` is    *)
(* history: what befell this tree that its stamp and HEAD do not tell.     *)
(*   rebuilt   a build began in it while it carried a stamp                *)
(*   scrapped  its removal stopped half way                                *)
(*   cut       the runner was killed while it was being checked out        *)
(*   outlived  it outlived the unit that built it: kept, killed, scrapped  *)
(*   blind     the probe of its vectors failed, or found no table of them  *)
(***************************************************************************)
Befallen == {"rebuilt", "scrapped", "cut", "outlived", "blind"}
Trees == [src : {"full", "half", "lost"}, index : {"none", "part", "mock", "whole"},
          stamp : {"none", "written"}, why : SUBSET Befallen]
NoTree == [src |-> "gone"]
NewTree == [src |-> "half", index |-> "none", stamp |-> "none", why |-> {}]

\* A cell is ok, or it records a mock-embedded build (which only the build
\* arm's own cell does, build.index_embedder_mock), or it is open: absent,
\* failed, timed out or refused for another reason.
CellRecords == {"open", "mock", "ok"}

Steps == {"queued", "stage", "adding", "build", "building", "built", "judge",
          "query", "hung", "reap", "done"}
Running == {u \in Units : pc[u] \notin {"queued", "done"}}
Phases == {"idle", "units", "check", "prewarm", "selftest", "grade", "reported"}

TypeOK ==
  /\ tree \in [Units -> Trees \cup {NoTree}]
  /\ cell \in [Cells -> CellRecords]
  /\ graded \in [Arms -> SUBSET Instances]
  /\ plan \in Plans
  /\ opts \in Options \cup {{}} /\ phase \in Phases
  /\ pc \in [Units -> Steps]
  /\ todo \in [Units -> SUBSET Arms]
  /\ build \in [Units -> {"none", "skipped", "ok", "mock", "failed"}]
  /\ checkouts \subseteq Instances /\ failed \subseteq Instances
  /\ warm \in {"no", "yes"}
  /\ grader \in [Arms -> {"waiting", "grading", "skipped", "ok", "failed", "raised"}]
  /\ mocked \subseteq Cells /\ misread \subseteq Cells /\ lost \subseteq Cells
  /\ runs \in 0..MaxRuns[plan] /\ faults \in 0..MaxFaults

Init ==
  /\ tree = [u \in Units |-> NoTree]
  /\ cell = [c \in Cells |-> "open"]
  /\ graded = [a \in Arms |-> {}]
  /\ plan \in Plans
  /\ opts = {} /\ phase = "idle"
  /\ pc = [u \in Units |-> "queued"]
  /\ todo = [u \in Units |-> {}]
  /\ build = [u \in Units |-> "none"]
  /\ checkouts = {} /\ failed = {} /\ warm = "no"
  /\ grader = [a \in Arms |-> "waiting"]
  /\ mocked = {} /\ misread = {} /\ lost = {}
  /\ runs = 0 /\ faults = 0

-----------------------------------------------------------------------------
(* A run and its units                                                     *)

Goto(u, step) == pc' = [pc EXCEPT ![u] = step]
Set(u, t) == tree' = [tree EXCEPT ![u] = t]
Staged(u) == tree[u] # NoTree

Ok(i, a) == cell[<<i, a>>] = "ok"
OkCells(a) == {i \in Instances : Ok(i, a)}

\* What a process keeps in memory, as it starts.
Fresh ==
  /\ pc' = [u \in Units |-> "queued"]
  /\ todo' = [u \in Units |-> {}]
  /\ build' = [u \in Units |-> "none"]
  /\ checkouts' = {} /\ failed' = {} /\ warm' = "no"
  /\ grader' = [a \in Arms |-> "waiting"]

\* The process ends, by a return or an exception.
Leave ==
  /\ phase' = "idle" /\ opts' = {} /\ mocked' = {} /\ misread' = {}
  /\ Fresh
  /\ UNCHANGED plan

\* main goes on to its next part.
Onto(part) == phase' = part /\ UNCHANGED <<plan, opts, pc, todo, build, grading, mocked>>
Goon(part) == Onto(part) /\ UNCHANGED misread

Begin ==
  /\ phase = "idle" /\ runs < MaxRuns[plan]
  /\ runs' = runs + 1
  /\ opts' \in Options
  /\ phase' = IF "grade-only" \in opts' THEN "check" ELSE "units"
  /\ Fresh
  /\ UNCHANGED <<disk, plan, mocked, misread, faults>>

\* load_cell: cells it cannot read (OSError, JSONDecodeError) are taken for
\* missing, those of `unread` at this reading.
Misses(unread) ==
  IF unread = {} THEN UNCHANGED faults ELSE faults < MaxFaults /\ faults' = faults + 1

\* mutant: a unit with an arm left to query queries all its arms
TakeWhole(u) ==
  /\ phase = "units" /\ u \in Planned /\ pc[u] = "queued"
  /\ Cardinality(Running) < plan.workers
  /\ todo' = [todo EXCEPT ![u] = ArmsOf(u)]
  /\ Goto(u, IF \A a \in ArmsOf(u) : Ok(u[1], a) THEN "done" ELSE "stage")
  /\ UNCHANGED <<disk, plan, grading, opts, phase, build, mocked, misread, runs, faults>>

\* A worker takes a unit.  With nothing left to query it returns at once, and
\* leaves alone whatever tree is there.
Take(u) ==
  /\ phase = "units" /\ u \in Planned /\ pc[u] = "queued"
  /\ Cardinality(Running) < plan.workers
  /\ \E unread \in SUBSET {a \in ArmsOf(u) : Ok(u[1], a)} :
       LET left == {a \in ArmsOf(u) : Ok(u[1], a) => a \in unread} IN
       /\ Misses(unread)
       /\ misread' = misread \cup ({u[1]} \X unread)
       /\ todo' = [todo EXCEPT ![u] = left]
       /\ Goto(u, IF left = {} THEN "done" ELSE "stage")
  /\ UNCHANGED <<disk, plan, grading, opts, phase, build, mocked, runs>>

\* What a step of unit u that touches its tree alone leaves unchanged.
StepFrame ==
  UNCHANGED <<cell, lost, graded, plan, grading, opts, phase, todo, mocked, misread, runs>>

\* A tree whose HEAD is the instance's commit is taken as it is.
StageExisting(u) ==
  /\ pc[u] = "stage" /\ Staged(u) /\ tree[u].src # "lost"
  /\ Goto(u, "build")
  /\ UNCHANGED <<tree, build, faults>> /\ StepFrame

\* Any other tree is removed, and unless that worked no worktree can be added.
StageAfresh(u) ==
  /\ pc[u] = "stage" /\ Staged(u) /\ tree[u].src = "lost"
  /\ \/ Set(u, NoTree) /\ UNCHANGED pc
     \/ Goto(u, "reap") /\ UNCHANGED tree
  /\ UNCHANGED <<build, faults>> /\ StepFrame

\* git worktree add writes HEAD before it checks the files out.
StageAdd(u) ==
  /\ pc[u] = "stage" /\ ~Staged(u)
  /\ Set(u, NewTree)
  /\ Goto(u, "adding")
  /\ UNCHANGED <<build, faults>> /\ StepFrame

StageAdded(u) ==
  /\ pc[u] = "adding"
  /\ \/ Set(u, [tree[u] EXCEPT !.src = "full"]) /\ Goto(u, "build")
     \/ Set(u, NoTree) /\ Goto(u, "reap")     \* check=True: it raises
  /\ UNCHANGED <<build, faults>> /\ StepFrame

Markers(t) == t.index # "none"

\* mutant: the markers alone tell an index
IndexMarked(t) == Markers(t)

IndexPresent(t) == Markers(t) /\ t.stamp = "written"

BuildSkipped(u) ==
  /\ pc[u] = "build"
  /\ \/ IndexPresent(tree[u]) /\ "rebuild" \notin opts
     \/ "skip" \in opts
  /\ build' = [build EXCEPT ![u] = "skipped"]
  /\ Goto(u, "query")
  /\ UNCHANGED <<tree, faults>> /\ StepFrame

\* A build writes its markers early and its stamp, if one is there, is left.
BuildStart(u) ==
  /\ pc[u] = "build"
  /\ ~(IndexPresent(tree[u]) /\ "rebuild" \notin opts)
  /\ "skip" \notin opts
  /\ Set(u, [tree[u] EXCEPT !.index = "part",
               !.why = (@ \ {"blind", "outlived"}) \cup
                          (IF tree[u].stamp = "written" THEN {"rebuilt"} ELSE {})])
  /\ Goto(u, "building")
  /\ UNCHANGED <<build, faults>> /\ StepFrame

\* It exits 0 with real vectors, with mock ones that the probe reads, or with
\* mock ones that the probe fails on.
BuildReal(u) ==
  /\ Set(u, [tree[u] EXCEPT !.index = "whole", !.why = @ \ {"rebuilt"}])
  /\ build' = [build EXCEPT ![u] = "ok"]
  /\ UNCHANGED faults
BuildMock(u) ==
  /\ u[2] \in Embeds
  /\ \/ /\ Set(u, [tree[u] EXCEPT !.index = "mock", !.why = @ \ {"rebuilt"}])
        /\ build' = [build EXCEPT ![u] = "mock"]
        /\ UNCHANGED faults
     \/ /\ faults < MaxFaults
        /\ Set(u, [tree[u] EXCEPT !.index = "mock", !.why = (@ \ {"rebuilt"}) \cup {"blind"}])
        /\ build' = [build EXCEPT ![u] = "ok"]
        /\ faults' = faults + 1
BuildExits(u) ==
  /\ pc[u] = "building"
  /\ BuildReal(u) \/ BuildMock(u)
  /\ Goto(u, "built")
  /\ StepFrame

\* It exits with another code, when the vectors it has written are probed all
\* the same, or its three hours are over, which raises.
BuildFails(u) ==
  /\ pc[u] = "building"
  /\ \/ /\ \/ build' = [build EXCEPT ![u] = "failed"]
           \/ u[2] \in Embeds /\ build' = [build EXCEPT ![u] = "mock"]
        /\ Goto(u, "judge")
     \/ UNCHANGED build /\ Goto(u, "reap")
  /\ UNCHANGED <<tree, faults>> /\ StepFrame

\* An OSError of the stamp's write is swallowed.
WriteStamp(u) ==
  /\ pc[u] = "built"
  /\ \/ Set(u, [tree[u] EXCEPT !.stamp = "written"])
     \/ UNCHANGED tree
  /\ Goto(u, IF build[u] = "mock" THEN "judge" ELSE "query")
  /\ UNCHANGED <<build, faults>> /\ StepFrame

-----------------------------------------------------------------------------
(* Cells                                                                   *)

CellFrame == UNCHANGED <<tree, graded, plan, grading, opts, phase, build, misread, runs, faults>>

\* write_cell, in place of whatever was there: an answer too, had it been misread.
Record(c, record) ==
  /\ cell' = [cell EXCEPT ![c] = record]
  /\ lost' = IF record = "ok" THEN lost \ {c}
             ELSE IF cell[c] = "ok" THEN lost \cup {c} ELSE lost

\* The arm leaves the unit's list; after the last one comes the removal.
Strike(u, a) ==
  /\ todo' = [todo EXCEPT ![u] = @ \ {a}]
  /\ Goto(u, IF todo[u] = {a} THEN "reap" ELSE "query")

\* A build that failed or is mock-embedded: no arm is queried.  The record of
\* the build goes into the build arm's own cell only.
Refuse(u, a) ==
  /\ pc[u] = "judge" /\ a \in todo[u]
  /\ Record(<<u[1], a>>, IF build[u] = "mock" /\ a = u[2] THEN "mock" ELSE "open")
  /\ mocked' = IF build[u] = "mock" THEN mocked \cup {<<u[1], a>>} ELSE mocked
  /\ todo' = [todo EXCEPT ![u] = @ \ {a}]
  /\ Goto(u, IF todo[u] = {a} THEN "reap" ELSE "judge")
  /\ CellFrame

\* query_arm: the arm's server answers, or fails in one of the ways it reports.
Query(u, a) ==
  /\ pc[u] = "query" /\ a \in todo[u]
  /\ \E record \in {"ok", "open"} : Record(<<u[1], a>>, record)
  /\ Strike(u, a)
  /\ UNCHANGED mocked /\ CellFrame

\* initialize, list_tools and the server's teardown have no limit of their own.
Hang(u) ==
  /\ pc[u] = "query" /\ todo[u] # {}
  /\ Goto(u, "hung")
  /\ UNCHANGED <<cell, lost, todo, mocked>> /\ CellFrame

\* mutant: the limit covers no cell
CellTimeoutNever(u, a) ==
  /\ FALSE
  /\ Strike(u, a)
  /\ UNCHANGED mocked /\ CellFrame

\* --unit-timeout covers the whole cell.
CellTimeout(u, a) ==
  /\ pc[u] = "hung" /\ a \in todo[u]
  /\ Record(<<u[1], a>>, "open")
  /\ Strike(u, a)
  /\ UNCHANGED mocked /\ CellFrame

\* mutant: the removal is not in a finally
UnitRaisesUnreaped(u) ==
  /\ pc[u] = "query"
  /\ Goto(u, "done")
  /\ UNCHANGED <<cell, lost, todo, mocked>> /\ CellFrame

\* Anything else that raises ends the unit; its other cells are not written.
UnitRaises(u) ==
  /\ pc[u] \in {"judge", "query"}
  /\ Goto(u, "reap")
  /\ UNCHANGED <<cell, lost, todo, mocked>> /\ CellFrame

-----------------------------------------------------------------------------
(* Removal                                                                 *)

\* What a removal that stops half way may leave of a tree.
Scraps(t) ==
  {[src |-> src, index |-> index, stamp |-> stamp,
    why |-> t.why \cup {"scrapped", "outlived"}] :
     src \in {t.src, "half", "lost"},
     index \in IF t.index = "none" THEN {"none"} ELSE {t.index, "part", "none"},
     stamp \in {t.stamp, "none"}}

Keep(u) ==
  /\ pc[u] = "reap"
  /\ "keep" \in opts \/ ~Staged(u)
  /\ IF Staged(u) THEN Set(u, [tree[u] EXCEPT !.why = @ \cup {"outlived"}]) ELSE UNCHANGED tree
  /\ Goto(u, "done")
  /\ UNCHANGED <<build, faults>> /\ StepFrame

\* reap is best effort: it may leave part of the tree, and says nothing then.
Reap(u) ==
  /\ pc[u] = "reap" /\ "keep" \notin opts /\ Staged(u)
  /\ \/ Set(u, NoTree) /\ UNCHANGED faults
     \/ /\ faults < MaxFaults
        /\ \E s \in Scraps(tree[u]) : Set(u, s)
        /\ faults' = faults + 1
  /\ Goto(u, "done")
  /\ UNCHANGED build /\ StepFrame

-----------------------------------------------------------------------------
(* main                                                                    *)

\* (Ctrl-C is not a step of its own: the pool's with-block still runs every
\* unit, and main then ends as it does when the prewarm raises.)
UnitsEnd ==
  /\ phase = "units" /\ \A u \in Planned : pc[u] = "done"
  /\ Goon("check")
  /\ UNCHANGED <<disk, runs, faults>>

\* mutant: a run with an answer is not aborted
MockCellsAll ==
  IF \E c \in Cells : cell[c] = "ok" THEN {} ELSE {c \in Cells : cell[c] = "mock"}

\* The cells that record a mock-embedded build: unless it misreads them all,
\* main does not begin to grade (return 4).
MockCells == {c \in Cells : cell[c] = "mock"}
CheckMock ==
  /\ phase = "check"
  /\ \E unread \in SUBSET MockCells :
       /\ Misses(unread)
       /\ IF unread = MockCells THEN misread' = unread /\ Onto("prewarm") ELSE Leave
  /\ UNCHANGED <<disk, runs>>

\* The checkouts are made one by one, each failure told of in a line.
Checkout(i) ==
  /\ phase = "prewarm" /\ i \in plan.instances \ (checkouts \cup failed)
  /\ \/ checkouts' = checkouts \cup {i} /\ UNCHANGED failed
     \/ failed' = failed \cup {i} /\ UNCHANGED checkouts
  /\ UNCHANGED <<disk, plan, process, warm, grader, mocked, misread, runs, faults>>

\* mutant: only the lines are counted, which a process that died has not printed
CompleteUnlessTold(rc) == rc \in {0, 1} /\ failed = {}

Complete(rc) == rc = 0 /\ failed = {}

\* The process ends, or dies with lines missing; a time-out raises.
PrewarmEnds ==
  /\ phase = "prewarm"
  /\ \/ \E rc \in {0, 1} :
          /\ rc = 0 => plan.instances \subseteq checkouts \cup failed
          /\ warm' = IF Complete(rc) THEN "yes" ELSE "no"
          /\ failed' = {}
          /\ phase' = "selftest"
          /\ UNCHANGED <<plan, opts, pc, todo, build, checkouts, grader, mocked, misread>>
     \/ Leave
  /\ UNCHANGED <<disk, runs, faults>>

\* The grader tells a perfect prediction from a wrong one, or main returns 3.
Selftest ==
  /\ phase = "selftest"
  /\ \/ Goon("grade")
     \/ Leave
  /\ UNCHANGED <<disk, runs, faults>>

GradeFrame == UNCHANGED <<tree, cell, lost, plan, process, checkouts, failed, warm, mocked, runs>>
GradeWorkers == IF warm = "yes" THEN 5 ELSE 1   \* of as many arms as there are
Grading == {a \in Arms : grader[a] = "grading"}

\* The answers of an arm that were read.
Read(a) == {i \in OkCells(a) : <<i, a>> \notin misread}

\* An arm's prediction file holds the ok cells it reads, which no one changes
\* by now.
GradeStart(a) ==
  /\ phase = "grade" /\ a \in plan.arms /\ grader[a] = "waiting"
  /\ Cardinality(Grading) < GradeWorkers
  /\ \E unread \in SUBSET OkCells(a) :
       /\ Misses(unread)
       /\ misread' = misread \cup (unread \X {a})
       /\ grader' = [grader EXCEPT ![a] = IF unread = OkCells(a) THEN "skipped" ELSE "grading"]
  /\ UNCHANGED graded /\ GradeFrame

\* mutant: an earlier graded file is kept
GradeEndKept(a) ==
  /\ grader[a] = "grading"
  /\ graded' = [graded EXCEPT ![a] = IF @ = {} THEN Read(a) ELSE @]
  /\ grader' = [grader EXCEPT ![a] = "ok"]
  /\ UNCHANGED <<misread, faults>> /\ GradeFrame

\* The grader writes its file, or fails (its rc is only recorded) or is timed
\* out (which raises in main) with the earlier file in place.
GradeEnd(a) ==
  /\ grader[a] = "grading"
  /\ \/ /\ graded' = [graded EXCEPT ![a] = Read(a)]
        /\ grader' = [grader EXCEPT ![a] = "ok"]
     \/ /\ \E how \in {"failed", "raised"} : grader' = [grader EXCEPT ![a] = how]
        /\ UNCHANGED graded
  /\ UNCHANGED <<misread, faults>> /\ GradeFrame

\* summarize reads every arm's graded file, whatever wrote it.
Summarize ==
  /\ phase = "grade"
  /\ \A a \in plan.arms : grader[a] \notin {"waiting", "grading"}
  /\ IF \E a \in Arms : grader[a] = "raised" THEN Leave
     ELSE Goon("reported")
  /\ UNCHANGED <<disk, runs, faults>>

Return ==
  /\ phase = "reported"
  /\ Leave
  /\ UNCHANGED <<disk, runs, faults>>

\* The process is killed: the trees its units were in stay as they are.
Kill ==
  /\ phase # "idle" /\ faults < MaxFaults
  /\ faults' = faults + 1
  /\ tree' = [u \in Units |->
                IF u \in Running /\ Staged(u)
                THEN [tree[u] EXCEPT !.why = @ \cup {"outlived"} \cup
                        (IF pc[u] = "adding" THEN {"cut"} ELSE {})]
                ELSE tree[u]]
  /\ Leave
  /\ UNCHANGED <<cell, lost, graded, runs>>

UnitStep(u) ==
  \/ Take(u) \/ StageExisting(u) \/ StageAfresh(u) \/ StageAdd(u) \/ StageAdded(u)
  \/ BuildSkipped(u) \/ BuildStart(u) \/ BuildExits(u) \/ BuildFails(u) \/ WriteStamp(u)
  \/ \E a \in Arms : Refuse(u, a) \/ Query(u, a) \/ CellTimeout(u, a)
  \/ Hang(u) \/ UnitRaises(u) \/ Keep(u) \/ Reap(u)
MainStep ==
  \/ UnitsEnd \/ CheckMock \/ PrewarmEnds \/ Selftest \/ Summarize \/ Return
  \/ \E i \in Instances : Checkout(i)
  \/ \E a \in Arms : GradeStart(a) \/ GradeEnd(a)

Next == Begin \/ (\E u \in Units : UnitStep(u)) \/ MainStep \/ Kill

Spec == Init /\ [][Next]_vars

\* The pool's threads and main go on; git, the arms' servers under
\* --unit-timeout and the grader under its own limit end.
FairSpec ==
  /\ Spec
  /\ \A u \in Units : WF_vars(UnitStep(u))
  /\ WF_vars(MainStep)

-----------------------------------------------------------------------------
(* Properties                                                              *)

\* A step that answers a cell of a unit's list.
Answered(u, a) ==
  /\ phase = "units" /\ phase' = "units" /\ a \in todo[u] \ todo'[u]
  /\ cell'[<<u[1], a>>] = "ok"

\* What is wrong with a tree, and what would explain that it was not noticed.
Defects(t) ==
  (IF t.src = "full" THEN {} ELSE {"half"}) \cup
  (IF t.index \in {"none", "part"} THEN {"unfinished"} ELSE {}) \cup
  (IF t.index = "mock" THEN {"mock"} ELSE {})
Excusing(d) ==
  CASE d = "half" -> {"cut", "scrapped"}
    [] d = "unfinished" -> {"rebuilt", "scrapped", "skip"}
    [] d = "mock" -> {"outlived", "blind"}

\* An answered cell comes from a complete index, with real vectors, of a
\* complete checkout ("a build that failed does not get to produce a scored
\* row", the stamp and the HEAD test being what tells) unless: a kill cut the
\* checkout or a removal stopped half way; the index was not finished and a
\* build over a stamp was cut short, a removal stopped half way or --skip-build
\* was given; the vectors are mock and the probe failed on them or the tree
\* outlived the unit that refused it.
ScoredOnSound ==
  [][\A u \in Units, a \in Arms : Answered(u, a) =>
       \A d \in Defects(tree[u]) :
         Excusing(d) \cap (tree[u].why \cup opts) # {}]_vars

\* "the run that discovers it again must not be gradeable": a run that refused
\* a build arm's own cell for a mock-embedded build does not grade, unless its
\* check could not read that cell.  It does grade when it refused such a build
\* to the arms that share the tree alone, whose cells do not record the build.
MockRunNotGraded ==
  phase \in {"prewarm", "selftest", "grade", "reported"} =>
    \A c \in mocked : Rides[c[2]] = c[2] => c \in misread

\* Reaping "bounds peak disk at roughly workers x one arm's tree": beyond those
\* only trees remain that were kept, killed or not removed in full.
DiskBounded ==
  Cardinality({u \in Units : Staged(u) /\ "outlived" \notin tree[u].why}) <= plan.workers

\* A graded row is one of an answer that is there or was lost to a misreading,
\* and when a run reports, the graded file of an arm its grader finished holds
\* exactly the answers that could be read; an arm is left out only if there
\* were none.
GradedMatchesCells ==
  \A a \in Arms :
    /\ \A i \in graded[a] : Ok(i, a) \/ <<i, a>> \in lost
    /\ phase = "reported" =>
         /\ grader[a] = "ok" => graded[a] = Read(a)
         /\ grader[a] = "skipped" => Read(a) = {}

\* "a cell whose record exists with status == ok is skipped whole": no resumed
\* run, rebuild or refusal replaces an answer, unless the unit could not read it.
OkCellsKept ==
  [][\A c \in Cells : cell[c] = "ok" /\ c \notin misread => cell'[c] = cell[c]]_vars

\* "grading SERIALLY so the graders cannot race on the shared base clone": they
\* run side by side only when none of them has a checkout to make.
NoCloneRace == Cardinality(Grading) > 1 => plan.instances \subseteq checkouts

\* A run ends, whatever hangs ("a benchmark that can hang forever on one cell
\* out of 350 is not a benchmark").
RunEnds == phase # "idle" ~> phase = "idle"

-----------------------------------------------------------------------------
(* The inductive invariant                                                 *)

\* Units run while main waits for them; one that does has a tree once staged,
\* and its list holds arms of its own that are not ok yet, or were misread.
InTree == {"adding", "build", "building", "built", "judge", "query", "hung"}
UnitInv(u) ==
  /\ pc[u] \notin {"queued", "done"} => phase = "units"
  /\ IF pc[u] = "queued" THEN todo[u] = {} ELSE u \in Planned
  /\ pc[u] \in InTree => Staged(u)
  /\ todo[u] \subseteq ArmsOf(u)
  /\ \A a \in todo[u] : pc[u] # "done" /\ Ok(u[1], a) => <<u[1], a>> \in misread

\* What a unit's tree is like, and what its history tells of it.
HalfInv(u) ==
  Staged(u) /\ tree[u].src # "full" =>
    pc[u] = "adding" \/ Excusing("half") \cap tree[u].why # {}
StampInv(u) ==
  Staged(u) /\ tree[u].index \in {"none", "part"} =>
    /\ IndexPresent(tree[u]) => {"rebuilt", "scrapped"} \cap tree[u].why # {}
    /\ pc[u] # "built"
    /\ pc[u] \in {"query", "hung"} => IndexPresent(tree[u]) \/ "skip" \in opts
MockInv(u) ==
  Staged(u) /\ tree[u].index = "mock" =>
    \/ Excusing("mock") \cap tree[u].why # {}
    \/ pc[u] \in {"judge", "reap"}
    \/ pc[u] = "built" /\ build[u] = "mock"
OutlivedInv(u) ==
  Staged(u) /\ "outlived" \notin tree[u].why => pc[u] \notin {"queued", "stage", "done"}
TreeInv(u) == HalfInv(u) /\ StampInv(u) /\ MockInv(u) /\ OutlivedInv(u)

\* A refusal stays in the build arm's cell until main has read the cells.
RefusalInv ==
  /\ mocked # {} => phase # "idle"
  /\ \A c \in mocked : Rides[c[2]] = c[2] =>
       IF phase \in {"units", "check"}
       THEN cell[c] = "mock" /\ c[2] \notin todo[c] /\ pc[c] # "queued"
       ELSE c \in misread

GraderInv(a) ==
  /\ \A i \in graded[a] : Ok(i, a) \/ <<i, a>> \in lost
  /\ grader[a] # "waiting" => a \in plan.arms /\ phase \in {"grade", "reported"}
  /\ grader[a] = "grading" => phase = "grade"
  /\ grader[a] = "ok" => graded[a] = Read(a)
  /\ grader[a] = "skipped" => Read(a) = {}

WarmInv ==
  /\ warm = "yes" => plan.instances \subseteq checkouts
  /\ Cardinality(Grading) > 1 => warm = "yes"

PoolInv == Cardinality(Running) <= plan.workers /\ WarmInv

RungInv ==
  /\ TypeOK
  /\ \A u \in Units : UnitInv(u) /\ TreeInv(u)
  /\ RefusalInv
  /\ \A a \in Arms : GraderInv(a)
  /\ PoolInv

=============================================================================
