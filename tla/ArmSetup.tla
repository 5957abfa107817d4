------------------------------ MODULE ArmSetup ------------------------------
(***************************************************************************)
(* What a cell does before its agent runs, in many pool threads at once    *)
(* (harness/swe_qa_runner.py: run_swe_qa_task, prepare_arm_tree,           *)
(* ensure_arm_index, probe_arm_server; harness/arms.py: arm_tree,          *)
(* scrub_tree, build_index, generate_mcp_config).                          *)
(*                                                                         *)
(* A cell is an (arm, repository) pair.  Each arm works in a worktree of   *)
(* its own, except that a sharing arm uses its owner's tree and index, and *)
(* one with a hand-written config the source checkout as it is.            *)
(* Trees and index builds are serialised by one process-wide lock, and a   *)
(* build is remembered for the life of the process; the MCP config file,   *)
(* one per arm, is written and read without any lock.                      *)
(***************************************************************************)
EXTENDS Integers, FiniteSets

CONSTANTS
  Threads, Arms, Repos,
  Control,     \* the arms without a server (C0)
  Static,      \* the arms with a hand-written MCP config (condition "mcp_server")
  Indexless,   \* the arms whose server needs no index built beforehand
  Owner,       \* Owner[a]: the arm whose tree and index arm a uses
  Plans,       \* the arms a run has, and those it takes as indexed
  Tracked,     \* the repositories with a CLAUDE.md of their own
  NoThread, NoCell,
  MaxTasks,    \* bound: tasks of the run, each on some cell
  MaxHead,     \* bound: commits a source repository moves through
  MaxCrashes,  \* bound: restarts of the process
  MaxFaults    \* bound: calls of git and of servers that answer nothing

ASSUME ArmSetupAssumption ==
  /\ Control \subseteq Arms
  /\ Owner \in [Arms -> Arms]
  /\ \A a \in Arms : Owner[Owner[a]] = Owner[a]
  /\ Static \subseteq Indexless /\ Indexless \subseteq Arms \ Control
  /\ \A a \in Arms \ Control : a \in Indexless <=> Owner[a] \in Indexless
  /\ \A a \in Control \cup Static : Owner[a] = a
  /\ \A a \in Arms \ (Control \cup Static) : Owner[a] \notin Control \cup Static
  /\ \A p \in Plans :
       /\ p.arms \subseteq Arms
       /\ p.assumed \subseteq Arms \ (Control \cup Indexless)
       /\ \A a \in Arms : a \in p.assumed <=> Owner[a] \in p.assumed
  /\ Tracked \subseteq Repos
  /\ NoThread \notin Threads /\ NoCell \notin Arms \X Repos
  /\ MaxTasks \in Nat /\ MaxHead \in Nat /\ MaxCrashes \in Nat
  /\ MaxFaults \in Nat

Cells == Arms \X Repos
Trees == Arms \X Repos
TreeOf(c) == <<Owner[c[1]], c[2]>>

\* An MCP config names the arm's served tools and the tree it points at.  The
\* sentinels are a file that is not there and one that is truncated.
Configs == Cells \cup {NoCell}

\* What a build leaves: half an index, one of mock vectors, one that the embedding
\* proof cannot open, or a good one.
BuildResults == {"partial", "mock", "opaque", "good"}

VARIABLES
  arms, assumed,  \* the plan of the run: repowise.assume_indexed
  \* on disk
  head,     \* head[r]: the commit of source repository r
  commit,   \* commit[t]: the commit of worktree t, -1 when there is none
  index,    \* index[t]: the index in worktree t
  stamp,    \* stamp[t]: the arms under whose names worktree t is stamped as prebuilt
  leak,     \* leak[t]: a CLAUDE.md lies in the control's worktree t
  config,   \* config[a]: the MCP config file of arm a
  \* in the process
  lock,     \* the holder of _ARM_SETUP_LOCK across a build
  memo,     \* _ARM_INDEX_DONE, per (tree owner, tree)
  pc, cell, \* of each thread: the step it is at and the cell it works on
  served,   \* the config the agent of a thread was launched with
  left,     \* tasks not yet taken by a thread
  crashes, faults,
  disturbed \* history: trees taken down though their source had not moved, and
            \* those whose stamp has outlived the index it stands for

plan == <<arms, assumed>>
trees == <<commit, index, stamp, leak>>
mishaps == <<crashes, faults, disturbed>>
vars == <<plan, head, trees, config, lock, memo, pc, cell, served, left, mishaps>>

Steps == {"idle", "prepare", "index", "building", "config", "writing",
          "probe", "scrub", "unlink", "launch", "running", "hung"}

TypeOK ==
  /\ \E p \in Plans : arms = p.arms /\ assumed = p.assumed
  /\ head \in [Repos -> 0..MaxHead]
  /\ commit \in [Trees -> -1..MaxHead]
  /\ index \in [Trees -> {"none"} \cup BuildResults]
  /\ stamp \in [Trees -> SUBSET Arms] /\ leak \in [Trees -> BOOLEAN]
  /\ config \in [Arms -> Configs]
  /\ lock \in Threads \cup {NoThread}
  /\ memo \in [Trees -> {"none", "ok", "failed"}]
  /\ pc \in [Threads -> Steps]
  /\ cell \in [Threads -> Cells \cup {NoCell}]
  /\ served \in [Threads -> Configs]
  /\ left \in 0..MaxTasks
  /\ crashes \in 0..MaxCrashes /\ faults \in 0..MaxFaults
  /\ disturbed \subseteq Trees
  /\ \A th \in Threads : /\ pc[th] = "building" => lock = th
                         /\ lock = th => pc[th] \in {"building", "hung"}
  /\ \A th \in Threads : (cell[th] = NoCell) <=> (pc[th] = "idle")

-----------------------------------------------------------------------------
\* The outcomes ensure_arm_index accepts: the build exited with 0 and
\* index_embedding_proof, if it can open the index, saw real vectors.
Accepted(idx) == idx \in {"opaque", "good"}

\* A tree is stamped under names of the arms that share it.  The owner's stamp lies
\* on an index that no failure was seen of; another sharer's may have been built over.
MayBeStamped(t, a, idx) ==
  Owner[a] = t[1] /\ idx \in BuildResults /\ (a = t[1] => Accepted(idx))

\* A run starts on whatever earlier runs and tools left: no tree, one with nothing
\* built or with an index of any kind, stamped or not; and in the control's tree
\* what it was cut with or somebody's agent wrote.  Trees it does not use are left out.
Init ==
  /\ \E p \in Plans : arms = p.arms /\ assumed = p.assumed
  /\ head = [r \in Repos |-> 0]
  /\ \E state \in [Trees -> {"absent", "none"} \cup BuildResults] :
       /\ \A t \in Trees :
            /\ t[1] \in Static \/ t[1] \notin {Owner[a] : a \in arms} => state[t] = "absent"
            /\ t[1] \in Control \cup Indexless => state[t] \in {"absent", "none"}
       /\ commit = [t \in Trees |-> IF state[t] = "absent" THEN -1 ELSE 0]
       /\ index = [t \in Trees |-> IF state[t] = "absent" THEN "none" ELSE state[t]]
       /\ \E stamps \in SUBSET {s \in Trees \X Arms : MayBeStamped(s[1], s[2], state[s[1]])} :
            stamp = [t \in Trees |-> {a \in Arms : <<t, a>> \in stamps}]
       /\ disturbed = {t \in Trees : stamp[t] # {} /\ ~Accepted(state[t])}
       /\ leak \in [Trees -> BOOLEAN]
       /\ \A t \in Trees : leak[t] => t[1] \in Control /\ state[t] # "absent"
  /\ config = [a \in Arms |-> NoCell]
  /\ lock = NoThread
  /\ memo = [t \in Trees |-> "none"]
  /\ pc = [th \in Threads |-> "idle"]
  /\ cell = [th \in Threads |-> NoCell]
  /\ served = [th \in Threads |-> NoCell]
  /\ left = MaxTasks
  /\ crashes = 0 /\ faults = 0

Goto(th, step) == pc' = [pc EXCEPT ![th] = step]

\* A pool thread takes a task on cell c.
Begin(th, c) ==
  /\ pc[th] = "idle" /\ left > 0 /\ c[1] \in arms
  /\ left' = left - 1
  /\ cell' = [cell EXCEPT ![th] = c]
  /\ Goto(th, "prepare")
  /\ UNCHANGED <<plan, head, trees, config, lock, memo, served, mishaps>>

\* The row is returned, with an answer or with an error, or the task raises.
EndCell(th) ==
  /\ Goto(th, "idle")
  /\ cell' = [cell EXCEPT ![th] = NoCell]
  /\ served' = [served EXCEPT ![th] = NoCell]

\* The tree is torn down with everything untracked in it and cut again, if at all.
Recut(t, to) ==
  /\ commit' = [commit EXCEPT ![t] = to]
  /\ index' = [index EXCEPT ![t] = "none"]
  /\ stamp' = [stamp EXCEPT ![t] = {}]
  /\ leak' = [leak EXCEPT ![t] = to # -1 /\ t[1] \in Control /\ t[2] \in Tracked]

Preparing(th) ==
  /\ pc[th] = "prepare" /\ lock = NoThread
  /\ cell[th][1] \notin Static

Prepared(th) ==
  /\ Goto(th, IF cell[th][1] \in Control THEN "scrub" ELSE "index")
  /\ UNCHANGED <<cell, served>>

\* prepare_arm_tree: a worktree at another commit is cut again.
PrepareTree(th) ==
  LET t == TreeOf(cell[th]) IN
  /\ Preparing(th)
  /\ IF commit[t] = head[t[2]] THEN UNCHANGED trees ELSE Recut(t, head[t[2]])
  /\ Prepared(th)
  /\ UNCHANGED <<plan, head, config, lock, memo, left, mishaps>>

\* git worktree add fails: the old tree is gone and the row is an error.
PrepareFails(th) ==
  LET t == TreeOf(cell[th]) IN
  /\ Preparing(th)
  /\ commit[t] # head[t[2]]
  /\ Recut(t, -1)
  /\ EndCell(th)
  /\ UNCHANGED <<plan, head, config, lock, memo, left, mishaps>>

\* git rev-parse fails, in the source or in the tree; its exit code is not looked
\* at, and no commit is taken for another commit.
Unread(th) ==
  /\ Preparing(th)
  /\ faults < MaxFaults /\ faults' = faults + 1
  /\ disturbed' = disturbed \cup {TreeOf(cell[th])}
  /\ UNCHANGED <<plan, head, config, lock, memo, left, crashes>>

SourceUnread(th) ==
  /\ Unread(th)
  /\ Recut(TreeOf(cell[th]), -1)
  /\ EndCell(th)

TreeUnread(th) ==
  LET t == TreeOf(cell[th]) IN
  /\ Unread(th)
  /\ commit[t] # -1 /\ Recut(t, head[t[2]])
  /\ Prepared(th)

\* A call of git does not return: none has a timeout, and the lock is held.
GitHangs(th) ==
  /\ Preparing(th)
  /\ faults < MaxFaults /\ faults' = faults + 1
  /\ lock' = th
  /\ Goto(th, "hung")
  /\ UNCHANGED <<plan, head, trees, config, memo, cell, served, left, crashes, disturbed>>

\* _arm_from_mcp_server: no tree is needed; the config may be missing.
MountStatic(th) ==
  /\ pc[th] = "prepare" /\ cell[th][1] \in Static
  /\ \/ Goto(th, "index") /\ UNCHANGED <<cell, served>>
     \/ EndCell(th)
  /\ UNCHANGED <<plan, head, trees, config, lock, memo, left, mishaps>>

-----------------------------------------------------------------------------
(* ensure_arm_index                                                        *)

\* mutant: only the arm that owns the tree profits from the memory
RememberedByArm(th) ==
  IF TreeOf(cell[th]) = cell[th] THEN memo[TreeOf(cell[th])] ELSE "none"

\* What the process remembers about a tree, whichever arm asks.
Remembered(th) == memo[TreeOf(cell[th])]

\* ensure_arm_index is entered, unless the arm's index is taken as it is.
Asked(th) ==
  /\ pc[th] = "index" /\ lock = NoThread
  /\ cell[th][1] \notin assumed

\* The arm is indexed or the row is an error.  A hand-written config is there
\* already, any other one is written now.
Answered(th, ok) ==
  IF ok
    THEN /\ Goto(th, IF cell[th][1] \in Static THEN "probe" ELSE "config")
         /\ UNCHANGED <<cell, served>>
    ELSE EndCell(th)

IndexRemembered(th) ==
  /\ Asked(th)
  /\ Remembered(th) # "none"
  /\ Answered(th, Remembered(th) = "ok")
  /\ UNCHANGED <<plan, head, trees, config, lock, memo, left, mishaps>>

\* assume_indexed: whatever lies in the tree is the index, but something must.
Assume(th) ==
  /\ pc[th] = "index" /\ cell[th][1] \in assumed
  /\ Answered(th, index[TreeOf(cell[th])] # "none")
  /\ UNCHANGED <<plan, head, trees, config, lock, memo, left, mishaps>>

\* No index by design.
IndexByDesign(th) ==
  /\ Asked(th) /\ cell[th][1] \in Indexless
  /\ Remembered(th) = "none"
  /\ memo' = [memo EXCEPT ![TreeOf(cell[th])] = "ok"]
  /\ Answered(th, TRUE)
  /\ UNCHANGED <<plan, head, trees, config, lock, left, mishaps>>

\* mutant: a stamp is looked up under the one name the cell was given
RequestedNameOnly(c) == {c[1]}

\* A stamp is looked up under the name of the arm that is asked for and under its
\* owner's, not under those of the other arms that share the tree.
StampNames(c) == {c[1], Owner[c[1]]}
Stamped(th) == stamp[TreeOf(cell[th])] \cap StampNames(cell[th]) # {}

\* What the live embedding proof may say of an index: a half-built one can have
\* all its vectors.
Proofs(idx) ==
  IF idx = "partial" THEN BOOLEAN ELSE {idx # "mock"}

\* A stamp stands for a finished build; the embedding proof is run again.
IndexStamped(th) ==
  LET t == TreeOf(cell[th]) IN
  /\ Asked(th) /\ cell[th][1] \notin Indexless
  /\ Remembered(th) = "none" /\ Stamped(th)
  /\ \E ok \in Proofs(index[t]) :
       /\ memo' = [memo EXCEPT ![t] = IF ok THEN "ok" ELSE "failed"]
       /\ Answered(th, ok)
  /\ UNCHANGED <<plan, head, trees, config, lock, left, mishaps>>

\* A build begins over whatever lies there, another sharer's stamp included.
StartBuild(th) ==
  LET t == TreeOf(cell[th]) IN
  /\ Asked(th) /\ cell[th][1] \notin Indexless
  /\ Remembered(th) = "none" /\ ~Stamped(th)
  /\ lock' = th
  /\ index' = [index EXCEPT ![t] = "partial"]
  /\ Goto(th, "building")
  /\ UNCHANGED <<plan, head, commit, stamp, leak, config, memo, cell, served, left, mishaps>>

\* A build that comes to nothing leaves the stamps it was run over.
Fruitless(ts) ==
  /\ disturbed' = disturbed \cup {t \in ts : stamp[t] # {}}
  /\ UNCHANGED faults

\* mutant: a build's exit code is not looked at
EndBuildUnchecked(th, result) ==
  LET t == TreeOf(cell[th]) IN
  /\ pc[th] = "building"
  /\ index' = [index EXCEPT ![t] = result]
  /\ memo' = [memo EXCEPT ![t] = "ok"]
  /\ lock' = NoThread
  /\ Goto(th, "config")
  /\ UNCHANGED <<plan, head, commit, stamp, leak, config, cell, served, left, mishaps>>

\* The build exits; a half-built or mock-embedded index is a failed build.
EndBuild(th, result) ==
  LET t == TreeOf(cell[th])
      ok == Accepted(result) IN
  /\ pc[th] = "building"
  /\ index' = [index EXCEPT ![t] = result]
  /\ memo' = [memo EXCEPT ![t] = IF ok THEN "ok" ELSE "failed"]
  /\ lock' = NoThread
  /\ Answered(th, ok)
  /\ Fruitless(IF ok THEN {} ELSE {t})
  /\ UNCHANGED <<plan, head, commit, stamp, leak, config, left, crashes>>

\* mutant: the lock is released only when the build returns
BuildRaisesHolding(th) ==
  /\ pc[th] = "building"
  /\ EndCell(th)
  /\ UNCHANGED <<plan, head, trees, config, lock, memo, left, mishaps>>

\* The build times out: an exception, the lock released and nothing remembered.
BuildRaises(th) ==
  /\ pc[th] = "building"
  /\ lock' = NoThread
  /\ EndCell(th)
  /\ Fruitless({TreeOf(cell[th])})
  /\ UNCHANGED <<plan, head, trees, config, memo, left, crashes>>

-----------------------------------------------------------------------------
(* generate_mcp_config, probe_arm_server and the agent's own launch        *)

\* The file is named after the arm alone.
ConfigFileOfOwner(c) == Owner[c[1]]   \* mutant: after the tree's owner
ConfigFile(c) == c[1]

\* It is opened for writing, which empties it, ...
TruncateConfig(th) ==
  /\ pc[th] = "config"
  /\ config' = [config EXCEPT ![ConfigFile(cell[th])] = NoCell]
  /\ Goto(th, "writing")
  /\ UNCHANGED <<plan, head, trees, lock, memo, cell, served, left, mishaps>>

\* ... and filled with this cell's server command.
WriteConfig(th) ==
  /\ pc[th] = "writing"
  /\ config' = [config EXCEPT ![ConfigFile(cell[th])] = cell[th]]
  /\ Goto(th, "probe")
  /\ UNCHANGED <<plan, head, trees, lock, memo, cell, served, left, mishaps>>

\* The config a cell's probe and agent read.  A hand-written one is mounted as
\* it is and names the repository of its run.
Mounted(c) == IF c[1] \in Static THEN c ELSE config[ConfigFile(c)]

\* The probe starts the configured server; on an empty file it crashes.
Probe(th) ==
  /\ pc[th] = "probe" /\ Mounted(cell[th]) # NoCell
  /\ Goto(th, "launch")
  /\ UNCHANGED <<plan, head, trees, config, lock, memo, cell, served, left, mishaps>>

\* The server does not start, an activation step fails or a tool is missing.
ProbeFails(th) ==
  /\ pc[th] = "probe"
  /\ EndCell(th)
  /\ UNCHANGED <<plan, head, trees, config, lock, memo, left, mishaps>>

\* It starts and does not answer initialize or list_tools, or does not go: the
\* timeouts are on its start and on single calls.
ProbeHangs(th) ==
  /\ pc[th] = "probe" /\ Mounted(cell[th]) # NoCell
  /\ faults < MaxFaults /\ faults' = faults + 1
  /\ Goto(th, "hung")
  /\ UNCHANGED <<plan, head, trees, config, lock, memo, cell, served, left, crashes, disturbed>>

\* mutant: the control's tree is taken as it is
ScrubTreeNever(th) ==
  /\ pc[th] = "scrub"
  /\ Goto(th, "launch")
  /\ UNCHANGED <<plan, head, trees, config, lock, memo, cell, served, left, mishaps>>

\* scrub_tree looks for what other arms leave in a tree ...
ScrubTree(th) ==
  /\ pc[th] = "scrub"
  /\ Goto(th, IF leak[TreeOf(cell[th])] THEN "unlink" ELSE "launch")
  /\ UNCHANGED <<plan, head, trees, config, lock, memo, cell, served, left, mishaps>>

\* ... and removes it, outside the lock: unlink raises when another control
\* cell of the repository came first, and the whole task with it.
RemoveLeak(th) ==
  LET t == TreeOf(cell[th]) IN
  /\ pc[th] = "unlink"
  /\ leak' = [leak EXCEPT ![t] = FALSE]
  /\ IF leak[t] THEN Goto(th, "launch") /\ UNCHANGED <<cell, served>>
                ELSE EndCell(th)
  /\ UNCHANGED <<plan, head, commit, index, stamp, config, lock, memo, left, mishaps>>

\* The agent reads the file once more; the control's has none.
LaunchAgent(th) ==
  /\ pc[th] = "launch"
  /\ IF cell[th][1] \in Control
       THEN UNCHANGED served
       ELSE served' = [served EXCEPT ![th] = Mounted(cell[th])]
  /\ Goto(th, "running")
  /\ UNCHANGED <<plan, head, trees, config, lock, memo, cell, left, mishaps>>

AgentEnds(th) ==
  /\ pc[th] = "running"
  /\ EndCell(th)
  /\ UNCHANGED <<plan, head, trees, config, lock, memo, left, mishaps>>

-----------------------------------------------------------------------------
(* The environment                                                         *)

\* Somebody updates a source repository.
MoveHead(r) ==
  /\ head[r] < MaxHead
  /\ head' = [head EXCEPT ![r] = @ + 1]
  /\ UNCHANGED <<plan, trees, config, lock, memo, pc, cell, served, left, mishaps>>

\* The process is killed and started again on the same cells.
Restart ==
  /\ crashes < MaxCrashes
  /\ crashes' = crashes + 1
  /\ lock' = NoThread
  /\ memo' = [t \in Trees |-> "none"]
  /\ pc' = [th \in Threads |-> "idle"]
  /\ cell' = [th \in Threads |-> NoCell]
  /\ served' = [th \in Threads |-> NoCell]
  /\ left' = MaxTasks
  /\ Fruitless({TreeOf(cell[th]) : th \in {builder \in Threads : pc[builder] = "building"}})
  /\ UNCHANGED <<plan, head, trees, config>>

ThreadStep(th) ==
  \/ PrepareTree(th) \/ PrepareFails(th) \/ MountStatic(th)
  \/ SourceUnread(th) \/ TreeUnread(th)
  \/ IndexRemembered(th) \/ Assume(th) \/ IndexByDesign(th) \/ IndexStamped(th)
  \/ StartBuild(th) \/ BuildRaises(th)
  \/ (\E result \in BuildResults : EndBuild(th, result))
  \/ TruncateConfig(th) \/ WriteConfig(th) \/ Probe(th) \/ ProbeFails(th)
  \/ ScrubTree(th) \/ RemoveLeak(th)
  \/ LaunchAgent(th) \/ AgentEnds(th)

Next ==
  \/ \E th \in Threads :
       ThreadStep(th) \/ GitHangs(th) \/ ProbeHangs(th) \/ \E c \in Cells : Begin(th, c)
  \/ \E r \in Repos : MoveHead(r)
  \/ Restart

Spec == Init /\ [][Next]_vars

\* A thread is scheduled again and again.  Builds, a server's start, the tool calls
\* of a probe and agents have timeouts; git and the rest of a probe have none, so a
\* thread may step into "hung" and nothing takes it out.  The tasks of a run are
\* finitely many, so a thread that waits for the lock is in the end the only one.
FairSpec == Spec /\ \A th \in Threads : WF_vars(ThreadStep(th))

-----------------------------------------------------------------------------
(* Properties                                                              *)

WithServer(th) == pc[th] = "running" /\ cell[th][1] \notin Control

\* The agent of a cell is never given the server of another cell: a sharing
\* arm's tools, or another thread's tree (generate_mcp_config: "neither can pick
\* up the other's file").  It may be given a truncated file.
NoForeignServer ==
  \A th \in Threads : WithServer(th) => served[th] \in {cell[th], NoCell}

\* No index is built in a tree while an agent queries it: the lock, the memory
\* and the stamp together keep a build from running beside a cell of its tree.
NoBuildUnderAgent ==
  \A th, other \in Threads :
    pc[th] = "building" /\ WithServer(other) =>
      TreeOf(cell[th]) # TreeOf(cell[other])

\* The tree has not been cut again, its source has not moved and git answered; and
\* no build over another sharer's stamp has come to nothing in it, which leaves the
\* sharer's cells a stamp on half an index.
Settled(t) == head[t[2]] = 0 /\ t \notin disturbed

\* As long as its tree stays, and no stamp in it has outlived its index (a build over
\* another sharer's came to nothing), an agent that is given a server queries a complete
\* index, not one known to be of mock vectors, whatever half-built trees, failed
\* builds and restarts came before; one that is assumed to be there is there.
\* (Once the tree is cut again the memory still calls it built; a stamp on half an
\* index is taken for a build that ended.)
AgentHasIndex ==
  \A th \in Threads :
    LET c == cell[th] IN
    WithServer(th) /\ c[1] \notin Indexless /\ Settled(TreeOf(c)) =>
      IF c[1] \in assumed THEN index[TreeOf(c)] # "none"
                         ELSE Accepted(index[TreeOf(c)])

\* As long as its tree stays, a control's agent finds nothing of another arm's in
\* it, also when several control cells of a repository scrub the tree at once
\* (scrub_tree: the control "is defined by their absence").
ControlClean ==
  \A th \in Threads :
    LET t == TreeOf(cell[th]) IN
    pc[th] = "running" /\ cell[th][1] \in Control /\ Settled(t) => ~leak[t]

\* The trees about which something is promised.
Lost == {t \in Trees : ~Settled(t)}
Usable(t) == IF t[1] \in assumed THEN index[t] # "none" ELSE Accepted(index[t])
Builds(th, t) == pc[th] = "building" /\ TreeOf(cell[th]) = t
Queries(th, t) ==
  WithServer(th) /\ cell[th][1] \notin Indexless /\ TreeOf(cell[th]) = t

I == INSTANCE TreeIndex WITH
       Users <- Threads,
       usable <- {t \in Trees \ Lost : Usable(t)},
       stamped <- {t \in Trees \ Lost : t[1] \in stamp[t]},
       building <- {t \in Trees \ Lost : \E th \in Threads : Builds(th, t)},
       users <- [t \in Trees |-> {th \in Threads : t \notin Lost /\ Queries(th, t)}],
       lost <- Lost

\* The threads of a run keep to the protocol of a tree's index, on which every
\* tool of the harness relies: none builds what is stamped under its owner's name
\* or queried, and none queries what is not usable.
ImplementsTreeIndex == I!Spec

\* A thread that took a task returns its row, whoever holds the lock meanwhile,
\* unless a call without a timeout hangs: its own, or git under the setup lock,
\* which stops every thread that needs the lock.
CellEndsUnlessHung ==
  \A th \in Threads :
    (pc[th] = "prepare") ~>
      (pc[th] \in {"idle", "hung"} \/ (lock # NoThread /\ pc[lock] = "hung"))

-----------------------------------------------------------------------------
(* Inductive invariants                                                    *)

\* A thread past ensure_arm_index works on a remembered tree or an assumed
\* one, and the tree being built is neither: two threads on one tree never stand
\* on the two sides of a build.
MemoInv ==
  /\ TypeOK
  /\ \A th \in Threads :
       /\ pc[th] \in {"index", "building", "config", "writing", "probe"}
            => cell[th][1] \notin Control
       /\ pc[th] \in {"scrub", "unlink"} => cell[th][1] \in Control
       /\ pc[th] \in {"config", "writing"} => cell[th][1] \notin Static
       /\ pc[th] = "building" =>
            cell[th][1] \notin assumed \cup Indexless /\ memo[TreeOf(cell[th])] = "none"
       /\ pc[th] \in {"config", "writing", "probe", "launch", "running"}
            => \/ cell[th][1] \in Control \cup assumed
               \/ memo[TreeOf(cell[th])] = "ok"

\* In a settled tree "ok" in the memory means a good index, a stamp a finished one
\* unless it is being built over, which the owner's name prevents, and a thread past
\* prepare_arm_tree keeps what it found.
IndexInv ==
  /\ MemoInv
  /\ \A t \in Trees :
       /\ t[1] \in Control => memo[t] = "none"
       /\ Settled(t) =>
            /\ index[t] # "none" => commit[t] = 0
            /\ stamp[t] # {} =>
                 /\ commit[t] = 0
                 /\ Accepted(index[t]) \/ \E th \in Threads : Builds(th, t)
            /\ memo[t] = "ok" /\ t[1] \notin Indexless =>
                 Accepted(index[t]) /\ commit[t] = 0
  /\ \A th \in Threads :
       LET c == cell[th]
           t == TreeOf(c) IN
       pc[th] \notin {"idle", "prepare", "hung"} /\ c[1] \notin Static /\ Settled(t) =>
         /\ commit[t] = 0
         /\ pc[th] = "building" => t[1] \notin stamp[t]
         /\ pc[th] \in {"config", "writing", "probe", "launch", "running"} =>
              /\ c[1] \in assumed => index[t] # "none"
              /\ c[1] \in Control => ~leak[t]

\* With a single repository the config file of an arm only ever names it.
ConfigInv ==
  /\ TypeOK
  /\ \A a \in Arms : config[a] # NoCell => config[a][1] = a
  /\ \A th \in Threads :
       served[th] # NoCell => pc[th] = "running" /\ served[th][1] = cell[th][1]

=============================================================================
