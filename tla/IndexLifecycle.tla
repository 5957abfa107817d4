--------------------------- MODULE IndexLifecycle ---------------------------
(***************************************************************************)
(* The life of an index on disk, across processes: the prebuild script and *)
(* its lock file (scripts/prebuild_mui_indexes.py), the reset script       *)
(* (scripts/reset_mui_arm_indexes.py) and a benchmark run                  *)
(* (harness/swe_qa_runner.py: ensure_arm_index), over the index cache all  *)
(* of them go through (index_repo_at).  Any process may be killed between  *)
(* any two steps.  The operator runs one tool at a time (Alone), or not.   *)
(***************************************************************************)
EXTENDS Integers, FiniteSets

CONSTANTS
  Procs, Trees,
  NoTree,
  Alone,       \* the operator starts a tool only when none is running
  MaxHead,     \* bound: commits a source repository moves through
  MaxKills,    \* bound: processes killed
  MaxFails,    \* bound: builds that fail or time out, removals that leave something
  MaxBenches   \* bound: benchmark runs, and resets that no refusal asks for

ASSUME LifecycleAssumption ==
  /\ NoTree \notin Trees
  /\ Alone \in BOOLEAN
  /\ MaxHead \in Nat /\ MaxKills \in Nat /\ MaxFails \in Nat /\ MaxBenches \in Nat

\* A directory: complete, and of a commit (a number from 0), or one of these.
Absent == -3
Hollow == -2     \* a cache entry without an index in it
Partial == -1    \* an index half written or half removed
Commits == 0..MaxHead
Directories == {Absent, Hollow, Partial} \cup Commits

\* The lock file: a process, or one of these (no file, one that does not parse,
\* one that names a process that is gone).
LockFiles == {"none", "torn", "dead"}

VARIABLES
  \* on disk
  head, commit,  \* of the source repository and of the worktree of each tree
  index, stamp,  \* of each tree
  cache,         \* the cache entry of each tree
  kept,          \* history: trees whose cache entry outlived a reset
  lockKind, lockOwner,  \* the prebuild lock
  \* of each process
  tool, pc, at, todo,
  cold,          \* its build began with nothing to go by
  \* the operator
  mustReset,     \* the tree the last prebuild refused
  kills, fails, benches

vars == <<head, commit, index, stamp, cache, kept, lockKind, lockOwner, tool, pc, at,
          todo, cold, mustReset, kills, fails, benches>>
entries == <<cache, kept>>
disk == <<head, commit, index, stamp, entries>>
lock == <<lockKind, lockOwner>>
procs == <<tool, pc, at, todo, cold>>
operator == <<mustReset, kills, fails, benches>>
bounds == <<kills, fails, benches>>

BuildSteps == {"cache", "restore", "init", "mkcache", "copy", "copying"}
Steps == BuildSteps \cup
  {"idle", "check", "lock", "filling", "next", "built", "failed", "stamping",
   "agent", "rstamp", "rcache", "rindex", "rclear"}

TypeOK ==
  /\ head \in [Trees -> Commits] /\ commit \in [Trees -> Commits]
  /\ index \in [Trees -> Directories]
  /\ stamp \in [Trees -> {"none", "torn", "cold", "warm"}]
  /\ cache \in [Trees -> Directories] /\ kept \subseteq Trees
  /\ lockKind \in LockFiles \cup {"held"} /\ lockOwner \in Procs
  /\ tool \in [Procs -> {"none", "prebuild", "reset", "bench"}]
  /\ pc \in [Procs -> Steps]
  /\ at \in [Procs -> Trees \cup {NoTree}]
  /\ todo \in [Procs -> SUBSET Trees]
  /\ cold \in [Procs -> BOOLEAN]
  /\ mustReset \in Trees \cup {NoTree}
  /\ lockKind = "held" => /\ tool[lockOwner] = "prebuild"
                          /\ pc[lockOwner] \notin {"check", "lock", "filling"}
  /\ kills \in 0..MaxKills /\ fails \in 0..MaxFails /\ benches \in 0..MaxBenches
  /\ \A p \in Procs :
       /\ (tool[p] = "none") <=> (pc[p] = "idle")
       /\ (at[p] = NoTree) <=> (pc[p] \in {"idle", "check", "lock", "filling", "next"})

\* Nothing built yet, and no lock.
Init ==
  /\ head = [t \in Trees |-> 0] /\ commit = [t \in Trees |-> 0]
  /\ index = [t \in Trees |-> Absent]
  /\ stamp = [t \in Trees |-> "none"]
  /\ cache = [t \in Trees |-> Absent] /\ kept = {}
  /\ lockKind = "none" /\ lockOwner \in Procs
  /\ tool = [p \in Procs |-> "none"]
  /\ pc = [p \in Procs |-> "idle"]
  /\ at = [p \in Procs |-> NoTree]
  /\ todo = [p \in Procs |-> {}]
  /\ cold = [p \in Procs |-> FALSE]
  /\ mustReset = NoTree
  /\ kills = 0 /\ fails = 0 /\ benches = 0

Goto(p, step) == pc' = [pc EXCEPT ![p] = step]

-----------------------------------------------------------------------------
(* Starting and ending a tool                                              *)

Begin(p, kind, step, work) ==
  /\ tool[p] = "none"
  /\ Alone => \A q \in Procs : tool[q] = "none"
  /\ tool' = [tool EXCEPT ![p] = kind]
  /\ todo' = [todo EXCEPT ![p] = work]
  /\ Goto(p, step)
  /\ UNCHANGED <<disk, lock, at, cold, mustReset, kills, fails>>

StartPrebuild(p) ==
  /\ mustReset = NoTree
  /\ Begin(p, "prebuild", "check", Trees)
  /\ UNCHANGED benches

\* The refusal names the tree and the command that resets it.
StartReset(p) ==
  /\ mustReset # NoTree
  /\ Begin(p, "reset", "next", {mustReset})
  /\ UNCHANGED benches

StartBench(p) ==
  /\ benches < MaxBenches /\ benches' = benches + 1
  /\ Begin(p, "bench", "next", Trees)

\* A reset that names no instances is one of all trees, stamped or not.
StartResetAll(p) ==
  /\ benches < MaxBenches /\ benches' = benches + 1
  /\ Begin(p, "reset", "next", Trees)

StartAtWill(p) == StartBench(p) \/ StartResetAll(p)

\* The process is over.
Gone(p) ==
  /\ tool' = [tool EXCEPT ![p] = "none"]
  /\ pc' = [pc EXCEPT ![p] = "idle"]
  /\ at' = [at EXCEPT ![p] = NoTree]
  /\ todo' = [todo EXCEPT ![p] = {}]
  /\ cold' = [cold EXCEPT ![p] = FALSE]

\* release_lock, in a finally: only a lock of one's own is removed.
ReleaseLock(p) ==
  /\ lockKind' = IF lockKind = "held" /\ lockOwner = p THEN "none" ELSE lockKind
  /\ UNCHANGED lockOwner

Finish(p) ==
  /\ pc[p] = "next" /\ todo[p] = {}
  /\ Gone(p)
  /\ IF tool[p] = "prebuild" THEN ReleaseLock(p) ELSE UNCHANGED lock
  /\ mustReset' = IF tool[p] = "reset" THEN NoTree ELSE mustReset
  /\ UNCHANGED <<disk, bounds>>

\* A killed process leaves its lock behind, with a pid that is gone.
Kill(p) ==
  /\ tool[p] # "none"
  /\ kills < MaxKills /\ kills' = kills + 1
  /\ Gone(p)
  /\ lockKind' = IF lockKind = "held" /\ lockOwner = p THEN "dead" ELSE lockKind
  /\ UNCHANGED <<disk, lockOwner, mustReset, fails, benches>>

-----------------------------------------------------------------------------
(* acquire_lock                                                            *)

\* mutant: a lock that does not name a process that is gone is respected
TakeoverOfDead == lockKind \in {"none", "dead"}

\* Only a lock file that names a live process is respected.
Takeover == lockKind # "held"

CheckLock(p) ==
  /\ pc[p] = "check"
  /\ IF Takeover THEN Goto(p, "lock") /\ UNCHANGED <<tool, at, todo, cold>>
                 ELSE Gone(p)
  /\ UNCHANGED <<disk, lock, operator>>

\* The file is truncated, then filled.
TruncateLock(p) ==
  /\ pc[p] = "lock"
  /\ lockKind' = "torn" /\ UNCHANGED lockOwner
  /\ Goto(p, "filling")
  /\ UNCHANGED <<disk, tool, at, todo, cold, operator>>

FillLock(p) ==
  /\ pc[p] = "filling"
  /\ lockKind' = "held" /\ lockOwner' = p
  /\ Goto(p, "next")
  /\ UNCHANGED <<disk, tool, at, todo, cold, operator>>

-----------------------------------------------------------------------------
(* The tools' loops over the trees.  Each visit starts with                *)
(* prepare_arm_tree, which cuts a tree again when its source has moved: its *)
(* index and its stamp are gone, its cache entry is not.                   *)

Recut(t) == commit[t] # head[t]
IndexThen(t) == IF Recut(t) THEN Absent ELSE index[t]
StampThen(t) == IF Recut(t) THEN "none" ELSE stamp[t]

PrepareTree(t) ==
  /\ commit' = [commit EXCEPT ![t] = head[t]]
  /\ index' = [index EXCEPT ![t] = IndexThen(t)]
  /\ stamp' = [stamp EXCEPT ![t] = StampThen(t)]
  /\ UNCHANGED <<head, entries>>

Visit(p, t, step) ==
  /\ pc[p] = "next" /\ t \in todo[p]
  /\ PrepareTree(t)
  /\ todo' = [todo EXCEPT ![p] = @ \ {t}]
  /\ at' = [at EXCEPT ![p] = IF step = "next" THEN NoTree ELSE t]
  /\ Goto(p, step)
  /\ UNCHANGED <<lock, tool, cold, operator>>

\* prebuild: a stamped tree is skipped, an unstamped index is refused.
SkipStamped(p, t) ==
  /\ tool[p] = "prebuild" /\ StampThen(t) \in {"cold", "warm"}
  /\ Visit(p, t, "next")

\* mutant: an index without a stamp is resumed, not refused
PrebuildTreeOver(p, t) ==
  /\ tool[p] = "prebuild" /\ StampThen(t) = "none"
  /\ Visit(p, t, "cache")

PrebuildTree(p, t) ==
  /\ tool[p] = "prebuild" /\ StampThen(t) = "none" /\ IndexThen(t) = Absent
  /\ Visit(p, t, "cache")

\* A prebuild ends at a tree, and with it all the trees it has not come to.
StopAt(p, t) ==
  /\ tool[p] = "prebuild" /\ pc[p] = "next" /\ t \in todo[p]
  /\ PrepareTree(t)
  /\ ReleaseLock(p)
  /\ Gone(p)
  /\ UNCHANGED bounds

\* A killed build's residue: the message names the tree and the command to reset it.
RefuseTree(p, t) ==
  /\ StampThen(t) = "none" /\ IndexThen(t) # Absent
  /\ StopAt(p, t)
  /\ mustReset' = t

\* A stamp that does not parse raises, and nothing is said of the tree.
ReadTornStamp(p, t) ==
  /\ StampThen(t) = "torn"
  /\ StopAt(p, t)
  /\ UNCHANGED mustReset

\* A benchmark run takes any stamp at its word.
BenchTree(p, t) ==
  /\ tool[p] = "bench"
  /\ Visit(p, t, IF StampThen(t) # "none" THEN "agent" ELSE "cache")

\* mutant: a reset does not take the stamp away
ResetTreeStamped(p, t) ==
  /\ tool[p] = "reset"
  /\ Visit(p, t, "rcache")

ResetTree(p, t) ==
  /\ tool[p] = "reset"
  /\ Visit(p, t, "rstamp")

-----------------------------------------------------------------------------
(* index_repo_at                                                           *)

\* A cache entry is a success, whatever is in it; it is copied into the tree
\* unless the tree has a database (a half-written index may or may not).
UseCache(p) ==
  LET t == at[p] IN
  /\ pc[p] = "cache" /\ cache[t] # Absent
  /\ \/ /\ cache[t] # Hollow /\ index[t] \in {Absent, Partial}
        /\ index' = [index EXCEPT ![t] = Partial]
        /\ Goto(p, "restore")
     \/ /\ cache[t] = Hollow \/ index[t] # Absent
        /\ UNCHANGED index
        /\ Goto(p, "built")
  /\ cold' = [cold EXCEPT ![p] = FALSE]
  /\ UNCHANGED <<head, commit, stamp, entries, lock, tool, at, todo, operator>>

RestoreDone(p) ==
  /\ pc[p] = "restore"
  /\ index' = [index EXCEPT ![at[p]] = cache[at[p]]]
  /\ Goto(p, "built")
  /\ UNCHANGED <<head, commit, stamp, entries, lock, tool, at, todo, cold, operator>>

StartInit(p) ==
  LET t == at[p] IN
  /\ pc[p] = "cache" /\ cache[t] = Absent
  /\ index' = [index EXCEPT ![t] = Partial]
  /\ cold' = [cold EXCEPT ![p] = index[t] = Absent]
  /\ Goto(p, "init")
  /\ UNCHANGED <<head, commit, stamp, entries, lock, tool, at, todo, operator>>

\* "init --resume" completes whatever it found.
InitDone(p) ==
  /\ pc[p] = "init"
  /\ index' = [index EXCEPT ![at[p]] = commit[at[p]]]
  /\ Goto(p, "mkcache")
  /\ UNCHANGED <<head, commit, stamp, entries, lock, tool, at, todo, cold, operator>>

\* A non-zero exit, or the timeout.
InitFails(p) ==
  /\ pc[p] = "init"
  /\ fails < MaxFails /\ fails' = fails + 1
  /\ Goto(p, "failed")
  /\ UNCHANGED <<disk, lock, tool, at, todo, cold, mustReset, kills, benches>>

\* The cache entry: a directory, then a copy of the index, file by file.
CacheStep(p, from, to, entry) ==
  /\ pc[p] = from
  /\ cache' = [cache EXCEPT ![at[p]] = entry]
  /\ Goto(p, to)
  /\ UNCHANGED <<head, commit, index, stamp, kept, lock, tool, at, todo, cold, operator>>

MakeCache(p) == CacheStep(p, "mkcache", "copy", Hollow)
StartCopy(p) == CacheStep(p, "copy", "copying", Partial)
CopyDone(p) == CacheStep(p, "copying", "built", index[at[p]])

-----------------------------------------------------------------------------
(* What the tools do with a build                                          *)

\* mutant: a failed build is stamped as well
StampBegunAnyway(p) ==
  /\ tool[p] = "prebuild" /\ pc[p] \in {"built", "failed"}
  /\ stamp' = [stamp EXCEPT ![at[p]] = "torn"]
  /\ Goto(p, "stamping")
  /\ UNCHANGED <<head, commit, index, entries, lock, tool, at, todo, cold, operator>>

\* The stamp is written after a build that did not fail.
StampBegun(p) ==
  /\ tool[p] = "prebuild" /\ pc[p] = "built"
  /\ stamp' = [stamp EXCEPT ![at[p]] = "torn"]
  /\ Goto(p, "stamping")
  /\ UNCHANGED <<head, commit, index, entries, lock, tool, at, todo, cold, operator>>

StampDone(p) ==
  /\ pc[p] = "stamping"
  /\ stamp' = [stamp EXCEPT ![at[p]] = IF cold[p] THEN "cold" ELSE "warm"]
  /\ Goto(p, "next")
  /\ at' = [at EXCEPT ![p] = NoTree]
  /\ UNCHANGED <<head, commit, index, entries, lock, tool, todo, cold, operator>>

\* mutant: whether the build failed is not looked at
RunAgentAnyway(p) ==
  /\ tool[p] = "bench" /\ pc[p] \in {"built", "failed"}
  /\ Goto(p, "agent")
  /\ UNCHANGED <<disk, lock, tool, at, todo, cold, operator>>

RunAgent(p) ==
  /\ tool[p] = "bench" /\ pc[p] = "built"
  /\ Goto(p, "agent")
  /\ UNCHANGED <<disk, lock, tool, at, todo, cold, operator>>

\* The agents of the tree are done, or its build failed.
LeaveTree(p) ==
  /\ pc[p] \in {"agent", "failed"}
  /\ Goto(p, "next")
  /\ at' = [at EXCEPT ![p] = NoTree]
  /\ UNCHANGED <<disk, lock, tool, todo, cold, operator>>

-----------------------------------------------------------------------------
(* reset: the stamp, then the cache entry, then the index                  *)

ResetStamp(p) ==
  /\ pc[p] = "rstamp"
  /\ stamp' = [stamp EXCEPT ![at[p]] = "none"]
  /\ Goto(p, "rcache")
  /\ UNCHANGED <<head, commit, index, entries, lock, tool, at, todo, cold, operator>>

\* rmtree takes a directory apart, and may be killed on the way.
TakingApart(dir) == IF dir = Absent THEN {Absent} ELSE {Hollow, Partial}

ResetCache(p) ==
  /\ pc[p] = "rcache"
  /\ \E rest \in TakingApart(cache[at[p]]) :
       cache' = [cache EXCEPT ![at[p]] = rest]
  /\ Goto(p, "rindex")
  /\ UNCHANGED <<head, commit, index, stamp, kept, lock, tool, at, todo, cold, operator>>

\* rmtree(ignore_errors=True) says nothing of what it could not remove.
RemovalFails ==
  /\ fails < MaxFails /\ fails' = fails + 1
  /\ UNCHANGED <<mustReset, kills, benches>>

CacheCleared(t) ==
  /\ cache' = [cache EXCEPT ![t] = Absent]
  /\ kept' = kept \ {t}
  /\ UNCHANGED operator

CacheRemains(t) ==
  /\ cache[t] # Absent /\ RemovalFails
  /\ kept' = kept \cup {t}
  /\ UNCHANGED cache

ResetIndex(p) ==
  /\ pc[p] = "rindex"
  /\ CacheCleared(at[p]) \/ CacheRemains(at[p])
  /\ index' = [index EXCEPT ![at[p]] = IF @ = Absent THEN Absent ELSE Partial]
  /\ Goto(p, "rclear")
  /\ UNCHANGED <<head, commit, stamp, lock, tool, at, todo, cold>>

ResetDone(p) ==
  /\ pc[p] = "rclear"
  /\ \/ index' = [index EXCEPT ![at[p]] = Absent] /\ UNCHANGED operator
     \/ index[at[p]] # Absent /\ RemovalFails /\ UNCHANGED index
  /\ Goto(p, "next")
  /\ at' = [at EXCEPT ![p] = NoTree]
  /\ UNCHANGED <<head, commit, stamp, entries, lock, tool, todo, cold>>

-----------------------------------------------------------------------------
MoveHead(t) ==
  /\ head[t] < MaxHead
  /\ head' = [head EXCEPT ![t] = @ + 1]
  /\ UNCHANGED <<commit, index, stamp, entries, lock, procs, operator>>

Start(p) == StartPrebuild(p) \/ StartReset(p)

Step(p) ==
  \/ Finish(p)
  \/ CheckLock(p) \/ TruncateLock(p) \/ FillLock(p)
  \/ \E t \in Trees :
       \/ SkipStamped(p, t) \/ PrebuildTree(p, t)
       \/ RefuseTree(p, t) \/ ReadTornStamp(p, t)
       \/ BenchTree(p, t) \/ ResetTree(p, t)
  \/ UseCache(p) \/ RestoreDone(p) \/ StartInit(p) \/ InitDone(p) \/ InitFails(p)
  \/ MakeCache(p) \/ StartCopy(p) \/ CopyDone(p)
  \/ StampBegun(p) \/ StampDone(p) \/ RunAgent(p) \/ LeaveTree(p)
  \/ ResetStamp(p) \/ ResetCache(p) \/ ResetIndex(p) \/ ResetDone(p)

Next ==
  \/ \E p \in Procs : Start(p) \/ StartAtWill(p) \/ Step(p) \/ Kill(p)
  \/ \E t \in Trees : MoveHead(t)

Spec == Init /\ [][Next]_vars

\* A started tool runs on, and the operator goes on prebuilding, and resetting
\* what a prebuild refuses, until nothing is left to build.
FairSpec ==
  /\ Spec
  /\ \A p \in Procs : WF_vars(Step(p))
  /\ WF_vars(\E p \in Procs : Start(p))

-----------------------------------------------------------------------------
(* Properties                                                              *)

\* Once a source repository moves, a tree is cut again and a cache entry of the
\* old commit may be copied into it; and an entry that a reset could not remove,
\* which its message does not tell, counts as a finished build.  Until then:
Trusted(t) == head[t] = 0 /\ t \notin kept

\* A stamp, torn or whole, stands for a complete index of the tree's commit,
\* whatever was killed, failed or reset before ("only AFTER a build exits 0").
StampMeansBuilt ==
  \A t \in Trees : Trusted(t) /\ stamp[t] # "none" => index[t] = commit[t]

\* A prebuild's seconds are those of a build that began with nothing: neither
\* a killed build's residue nor a cache entry went into it.
StampsAreCold == \A t \in Trees : Trusted(t) => stamp[t] # "warm"

\* An agent's index is complete and describes the commit its tree is at.
Fresh(t) == index[t] = commit[t]
AgentIndexBuilt ==
  \A p \in Procs : pc[p] = "agent" /\ Trusted(at[p]) => Fresh(at[p])

Lost == {t \in Trees : ~Trusted(t)}

Builds(p, t) == pc[p] = "init" /\ at[p] = t
Queries(p, t) == pc[p] = "agent" /\ at[p] = t

I == INSTANCE TreeIndex WITH
       Users <- Procs,
       usable <- {t \in Trees \ Lost : Fresh(t)},
       stamped <- {t \in Trees \ Lost : stamp[t] # "none"},
       building <- {t \in Trees \ Lost : \E p \in Procs : Builds(p, t)},
       users <- [t \in Trees |-> {p \in Procs : t \notin Lost /\ Queries(p, t)}],
       lost <- Lost

\* Prebuild, reset and run keep to the protocol of a tree's index that a run's
\* threads keep to among themselves (ArmSetup), from one process to the next: a
\* reset takes the stamp away before the index, a build begins without a stamp.
ImplementsTreeIndex == I!Spec

\* Killed and refused prebuilds do not wedge: in the end every tree is stamped.  The
\* one exception is a kill while a stamp is written: the torn stamp stops every later
\* prebuild, and no message tells the operator what to reset.
Prebuilt ==
  \/ <>[](\A t \in Trees : stamp[t] \in {"cold", "warm"})
  \/ <>[](\E t \in Trees : stamp[t] = "torn")

-----------------------------------------------------------------------------
(* The inductive invariant, for an operator who runs one tool at a time    *)

OneTool == \A p, q \in Procs : tool[p] # "none" /\ tool[q] # "none" => p = q

\* Each step belongs to a tool.
StepsOfTools ==
  \A p \in Procs :
    /\ pc[p] \in {"check", "lock", "filling", "stamping"} => tool[p] = "prebuild"
    /\ pc[p] \in BuildSteps \cup {"built", "failed"} => tool[p] \in {"prebuild", "bench"}
    /\ pc[p] \in {"rstamp", "rcache", "rindex", "rclear"} => tool[p] = "reset"
    /\ pc[p] = "agent" => tool[p] = "bench"

Typed == TypeOK /\ StepsOfTools

\* Of a tree whose source has not moved: a stamp and a cache entry come after
\* the index is complete, and go before it is taken apart.
TreeSound(t) ==
  Trusted(t) =>
    /\ stamp[t] # "none" => index[t] = 0
    /\ cache[t] # Absent => index[t] = 0
    /\ stamp[t] # "warm"

\* What the tool that works on the tree has established so far.
WorkSound(p) ==
  /\ pc[p] \in {"rcache", "rindex", "rclear"} => stamp[at[p]] = "none"
  /\ at[p] # NoTree /\ Trusted(at[p]) =>
    /\ pc[p] # "restore"
    /\ pc[p] \in {"cache", "init"} => stamp[at[p]] = "none"
    /\ pc[p] \in {"init", "rclear"} => cache[at[p]] = Absent
    /\ pc[p] \in {"mkcache", "copy", "copying", "built", "stamping", "agent"}
         => index[at[p]] = 0
    /\ tool[p] = "prebuild" /\ pc[p] = "cache" => index[at[p]] = Absent
    /\ tool[p] = "prebuild" /\ pc[p] \in BuildSteps \cup {"built", "stamping"}
         => pc[p] = "cache" \/ cold[p]

LifeInv ==
  /\ Typed /\ OneTool
  /\ \A t \in Trees : commit[t] <= head[t] /\ TreeSound(t)
  /\ \A p \in Procs : WorkSound(p)

=============================================================================
