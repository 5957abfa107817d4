--------------------------- MODULE ArmSetupProofs ---------------------------
(* Proofs about ArmSetup, for every number of threads, arms, repositories,   *)
(* plans, tasks, restarts and failing calls of git.                          *)
EXTENDS ArmSetup, TLAPS

LEMMA TreeTyped == \A c \in Cells : TreeOf(c) \in Trees /\ c[1] \in Arms
  BY ArmSetupAssumption DEF Cells, Trees, TreeOf

\* A tree is the control's, or of an arm that is mounted, as the cell's arm is.
LEMMA TreeKinds ==
  \A c \in Cells : /\ TreeOf(c)[1] \in Control <=> c[1] \in Control
                   /\ TreeOf(c)[1] \in Static <=> c[1] \in Static
                   /\ TreeOf(c)[1] \in Indexless <=> c[1] \in Indexless
                   /\ c[1] \in Static => c[1] \in Indexless
                   /\ c[1] \in Control \cup Static => TreeOf(c) = c
  BY ArmSetupAssumption DEF Cells, TreeOf

LEMMA SentinelIsNoCell == NoCell \notin Cells /\ NoThread \notin Threads
  BY ArmSetupAssumption DEF Cells

\* Arms that share a tree are assumed to be indexed together, the control never.
LEMMA AssumedTogether ==
  ASSUME TypeOK
  PROVE  /\ \A c, d \in Cells :
              TreeOf(c) = TreeOf(d) => (c[1] \in assumed <=> d[1] \in assumed)
         /\ assumed \cap (Control \cup Indexless) = {}
         /\ arms \subseteq Arms
  <1>1. PICK p \in Plans : arms = p.arms /\ assumed = p.assumed
    BY DEF TypeOK
  <1>2. /\ p.arms \subseteq Arms
        /\ p.assumed \subseteq Arms \ (Control \cup Indexless)
        /\ \A a \in Arms : a \in p.assumed <=> Owner[a] \in p.assumed
    BY ArmSetupAssumption
  <1>3. \A c, d \in Cells : TreeOf(c) = TreeOf(d) => Owner[c[1]] = Owner[d[1]]
    BY DEF TreeOf
  <1> QED BY <1>1, <1>2, <1>3, TreeTyped

-----------------------------------------------------------------------------
(* No build beside an agent                                                  *)

LEMMA NothingStarted ==
  ASSUME Init
  PROVE  /\ \A t \in Trees : memo[t] = "none"
         /\ \A th \in Threads : pc[th] = "idle" /\ served[th] = NoCell
         /\ \A a \in Arms : config[a] = NoCell
  <1>1. /\ memo = [t \in Trees |-> "none"] /\ pc = [th \in Threads |-> "idle"]
        /\ served = [th \in Threads |-> NoCell] /\ config = [a \in Arms |-> NoCell]
    BY Zenon DEF Init
  <1> QED BY <1>1

LEMMA MemoInit == Init => MemoInv
  <1> SUFFICES ASSUME Init PROVE MemoInv
    OBVIOUS
  <1> USE ArmSetupAssumption, SentinelIsNoCell
  <1>1. \E p \in Plans : arms = p.arms /\ assumed = p.assumed
    BY DEF Init
  <1>2. PICK state \in [Trees -> {"absent", "none"} \cup BuildResults] :
          /\ commit = [t \in Trees |-> IF state[t] = "absent" THEN -1 ELSE 0]
          /\ index = [t \in Trees |-> IF state[t] = "absent" THEN "none" ELSE state[t]]
          /\ \E stamps \in SUBSET {s \in Trees \X Arms : MayBeStamped(s[1], s[2], state[s[1]])} :
               stamp = [t \in Trees |-> {a \in Arms : <<t, a>> \in stamps}]
          /\ disturbed = {t \in Trees : stamp[t] # {} /\ ~Accepted(state[t])}
          /\ leak \in [Trees -> BOOLEAN]
    BY Zenon DEF Init
  <1>3. /\ commit \in [Trees -> -1..MaxHead]
        /\ index \in [Trees -> {"none"} \cup BuildResults]
        /\ leak \in [Trees -> BOOLEAN] /\ disturbed \subseteq Trees
    BY <1>2 DEF BuildResults
  <1>5. stamp \in [Trees -> SUBSET Arms]
    <2> DEFINE may == {s \in Trees \X Arms : MayBeStamped(s[1], s[2], state[s[1]])}
    <2>2. \E stamps \in SUBSET may : stamp = [t \in Trees |-> {a \in Arms : <<t, a>> \in stamps}]
      BY <1>2, Zenon
    <2> HIDE DEF may
    <2>1. PICK stamps \in SUBSET may : stamp = [t \in Trees |-> {a \in Arms : <<t, a>> \in stamps}]
      BY <2>2, Zenon
    <2> QED BY <2>1
  <1>6. /\ head = [r \in Repos |-> 0] /\ config = [a \in Arms |-> NoCell]
        /\ lock = NoThread /\ memo = [t \in Trees |-> "none"]
        /\ pc = [th \in Threads |-> "idle"] /\ cell = [th \in Threads |-> NoCell]
        /\ served = [th \in Threads |-> NoCell] /\ left = MaxTasks
        /\ crashes = 0 /\ faults = 0
    BY Zenon DEF Init
  <1>4. TypeOK
    BY <1>1, <1>3, <1>5, <1>6 DEF TypeOK, Configs, Steps
  <1> QED BY <1>4, <1>6 DEF MemoInv

\* A tree that is cut again is well typed.
LEMMA RecutTyped ==
  ASSUME TypeOK, NEW t \in Trees, NEW to \in -1..MaxHead, Recut(t, to)
  PROVE  /\ commit' \in [Trees -> -1..MaxHead]
         /\ index' \in [Trees -> {"none"} \cup BuildResults]
         /\ stamp' \in [Trees -> SUBSET Arms] /\ leak' \in [Trees -> BOOLEAN]
  <1>1. /\ commit' = [commit EXCEPT ![t] = to]
        /\ index' = [index EXCEPT ![t] = "none"]
        /\ stamp' = [stamp EXCEPT ![t] = {}]
    BY DEF Recut
  <1>2. leak' \in [Trees -> BOOLEAN]
    <2> DEFINE left_ == to # -1 /\ t[1] \in Control /\ t[2] \in Tracked
    <2>1. leak' = [leak EXCEPT ![t] = left_] /\ left_ \in BOOLEAN
      BY DEF Recut
    <2> HIDE DEF left_
    <2> QED BY <2>1 DEF TypeOK
  <1> QED BY <1>1, <1>2 DEF TypeOK

\* What prepare_arm_tree does to a thread: it goes on, or its task ends.
Moves(th) ==
  \/ Prepared(th)
  \/ EndCell(th)

\* Whatever prepare_arm_tree does, the memory stays as it is.
LEMMA PrepareMemo ==
  ASSUME MemoInv, NEW th \in Threads, Preparing(th), Moves(th),
         commit' \in [Trees -> -1..MaxHead],
         index' \in [Trees -> {"none"} \cup BuildResults],
         stamp' \in [Trees -> SUBSET Arms], leak' \in [Trees -> BOOLEAN],
         faults' \in 0..MaxFaults, disturbed' \subseteq Trees,
         UNCHANGED <<plan, head, config, lock, memo, left, crashes>>
  PROVE  MemoInv'
  <1> USE SentinelIsNoCell
      DEF MemoInv, TypeOK, Configs, Steps, BuildResults, Preparing, plan
  <1>1. CASE Prepared(th)
    BY <1>1 DEF Prepared, Goto
  <1>2. CASE EndCell(th)
    BY <1>2 DEF EndCell, Goto
  <1> QED BY <1>1, <1>2 DEF Moves

LEMMA MemoStep == MemoInv /\ [Next]_vars => MemoInv'
  <1> SUFFICES ASSUME MemoInv, [Next]_vars PROVE MemoInv'
    OBVIOUS
  <1>0. TypeOK
    BY DEF MemoInv
  <1> USE ArmSetupAssumption, TreeTyped, TreeKinds, SentinelIsNoCell
      DEF MemoInv, TypeOK, Configs, Steps, BuildResults, plan, trees, mishaps
  <1>1. CASE UNCHANGED vars
    BY <1>1 DEF vars
  <1>2. ASSUME NEW th \in Threads, NEW c \in Cells, Begin(th, c) PROVE MemoInv'
    BY <1>2 DEF Begin, Goto
  <1>3. ASSUME NEW th \in Threads, ThreadStep(th) PROVE MemoInv'
    <2> DEFINE t == TreeOf(cell[th])
    <2>0. /\ pc[th] # "idle" => cell[th] \in Cells /\ t \in Trees
          /\ \A u \in Trees : head[u[2]] \in -1..MaxHead
          /\ -1 \in -1..MaxHead
      BY DEF Trees
    <2>1. CASE PrepareTree(th)
      <3>1. /\ commit' \in [Trees -> -1..MaxHead]
            /\ index' \in [Trees -> {"none"} \cup BuildResults]
            /\ stamp' \in [Trees -> SUBSET Arms] /\ leak' \in [Trees -> BOOLEAN]
        <4>1. UNCHANGED trees \/ Recut(t, head[t[2]])
          BY <2>1 DEF PrepareTree
        <4>2. t \in Trees /\ head[t[2]] \in -1..MaxHead
          BY <2>0, <2>1 DEF PrepareTree, Preparing
        <4> QED BY <1>0, <4>1, <4>2, RecutTyped
      <3> QED BY <2>1, <3>1, PrepareMemo DEF PrepareTree, Moves
    <2>2. CASE PrepareFails(th) \/ SourceUnread(th)
      <3>1. t \in Trees /\ Recut(t, -1) /\ Preparing(th) /\ Moves(th)
        BY <2>0, <2>2 DEF PrepareFails, SourceUnread, Unread, Preparing, Moves
      <3>2. /\ faults' \in 0..MaxFaults /\ disturbed' \subseteq Trees
            /\ UNCHANGED <<plan, head, config, lock, memo, left, crashes>>
        BY <2>2, <3>1 DEF PrepareFails, SourceUnread, Unread
      <3> HIDE DEF TypeOK, MemoInv
      <3> QED BY <1>0, <2>0, <3>1, <3>2, RecutTyped, PrepareMemo
    <2>3. CASE TreeUnread(th)
      <3>1. /\ t \in Trees /\ Recut(t, head[t[2]]) /\ Preparing(th) /\ Moves(th)
            /\ head[t[2]] \in -1..MaxHead
        BY <2>0, <2>3 DEF TreeUnread, Unread, Preparing, Moves
      <3>2. /\ faults' \in 0..MaxFaults /\ disturbed' \subseteq Trees
            /\ UNCHANGED <<plan, head, config, lock, memo, left, crashes>>
        BY <2>3, <3>1 DEF TreeUnread, Unread
      <3> HIDE DEF TypeOK, MemoInv
      <3> QED BY <1>0, <3>1, <3>2, RecutTyped, PrepareMemo
    <2>4. CASE MountStatic(th)
      BY <2>0, <2>4 DEF MountStatic, EndCell, Goto
    <2>5. CASE IndexRemembered(th)
      <3>1. /\ pc[th] = "index" /\ lock = NoThread /\ t \in Trees
            /\ UNCHANGED <<plan, head, trees, config, lock, memo, left, mishaps>>
        BY <2>0, <2>5 DEF IndexRemembered, Asked
      <3>2. CASE memo[t] = "ok" /\ Answered(th, TRUE)
        BY <2>0, <3>1, <3>2 DEF Answered, Goto
      <3>3. CASE EndCell(th)
        BY <2>0, <3>1, <3>3 DEF EndCell, Goto
      <3> HIDE DEF MemoInv, TypeOK
      <3> QED BY <2>5, <3>2, <3>3 DEF IndexRemembered, Remembered, Answered
    <2>6. CASE Assume(th)
      <3>1. /\ pc[th] = "index" /\ t \in Trees /\ cell[th][1] \in assumed
            /\ cell[th][1] \notin Static
            /\ UNCHANGED <<plan, head, trees, config, lock, memo, left, mishaps>>
        BY <1>0, <2>0, <2>6, AssumedTogether DEF Assume
      <3>2. CASE pc' = [pc EXCEPT ![th] = "config"] /\ UNCHANGED <<cell, served>>
        BY <2>0, <3>1, <3>2
      <3>3. CASE EndCell(th)
        BY <2>0, <3>1, <3>3 DEF EndCell, Goto
      <3> HIDE DEF MemoInv, TypeOK
      <3> QED BY <2>6, <3>1, <3>2, <3>3 DEF Assume, Answered, Goto
    <2>7. CASE IndexByDesign(th)
      <3>1. /\ pc[th] = "index" /\ lock = NoThread /\ t \in Trees
            /\ cell[th][1] \in Indexless /\ cell[th][1] \notin assumed
            /\ memo' = [memo EXCEPT ![t] = "ok"] /\ Answered(th, TRUE)
            /\ UNCHANGED <<plan, head, trees, config, lock, left, mishaps>>
        BY <2>0, <2>7 DEF IndexByDesign, Asked
      <3>2. /\ pc' = [pc EXCEPT ![th] = IF cell[th][1] \in Static THEN "probe" ELSE "config"]
            /\ UNCHANGED <<cell, served>>
        BY <3>1 DEF Answered, Goto
      <3> QED BY <2>0, <3>1, <3>2
    <2>8. CASE IndexStamped(th)
      <3>1. /\ pc[th] = "index" /\ lock = NoThread /\ t \in Trees
            /\ cell[th][1] \notin Static
            /\ UNCHANGED <<plan, head, trees, config, lock, left, mishaps>>
            /\ \A other \in Threads : pc[other] # "building"
        BY <2>0, <2>8 DEF IndexStamped, Asked
      <3>2. CASE /\ memo' = [memo EXCEPT ![t] = "ok"]
                 /\ pc' = [pc EXCEPT ![th] = "config"]
                 /\ UNCHANGED <<cell, served>>
        BY <2>0, <3>1, <3>2
      <3>3. CASE memo' = [memo EXCEPT ![t] = "failed"] /\ EndCell(th)
        <4>1. memo[t] = "none"
          BY <2>8 DEF IndexStamped, Remembered
        <4> QED BY <2>0, <3>1, <3>3, <4>1 DEF EndCell, Goto
      <3> HIDE DEF MemoInv, TypeOK
      <3> QED BY <2>8, <3>1, <3>2, <3>3 DEF IndexStamped, Answered, Goto
    <2>9. CASE StartBuild(th)
      BY <2>0, <2>9 DEF StartBuild, Remembered, Asked, Goto
    <2>10. ASSUME NEW result \in BuildResults, EndBuild(th, result)
           PROVE  MemoInv'
      <3>1. /\ pc[th] = "building" /\ lock = th /\ lock' = NoThread /\ t \in Trees
            /\ cell[th][1] \notin Static /\ memo[t] = "none"
            /\ \A other \in Threads : pc[other] = "building" => other = th
            /\ index' = [index EXCEPT ![t] = result]
            /\ disturbed' \subseteq Trees
            /\ UNCHANGED <<plan, head, commit, stamp, leak, config, left, crashes, faults>>
        BY <2>0, <2>10 DEF EndBuild, Fruitless
      <3>2. CASE memo' = [memo EXCEPT ![t] = "ok"] /\ Answered(th, TRUE)
        BY <2>0, <3>1, <3>2 DEF Answered, Goto
      <3>3. CASE memo' = [memo EXCEPT ![t] = "failed"] /\ EndCell(th)
        BY <2>0, <3>1, <3>3 DEF EndCell, Goto
      <3> HIDE DEF MemoInv, TypeOK
      <3> QED BY <2>10, <3>2, <3>3 DEF EndBuild, Answered
    <2>11. CASE BuildRaises(th)
      <3>1. /\ lock = th /\ disturbed' \subseteq Trees /\ lock' = NoThread /\ EndCell(th)
            /\ UNCHANGED <<plan, head, trees, config, memo, left, crashes, faults>>
            /\ \A other \in Threads : pc[other] = "building" => other = th
        BY <2>0, <2>11 DEF BuildRaises, Fruitless
      <3> QED BY <2>0, <3>1 DEF EndCell, Goto
    <2>12. CASE TruncateConfig(th)
      BY <2>0, <2>12 DEF TruncateConfig, ConfigFile, Goto
    <2>13. CASE WriteConfig(th)
      BY <2>0, <2>13 DEF WriteConfig, ConfigFile, Goto
    <2>14. CASE Probe(th)
      BY <2>0, <2>14 DEF Probe, Goto
    <2>15. CASE ProbeFails(th)
      BY <2>0, <2>15 DEF ProbeFails, EndCell, Goto
    <2>16. CASE ScrubTree(th)
      BY <2>0, <2>16 DEF ScrubTree, Goto
    <2>17. CASE RemoveLeak(th)
      BY <2>0, <2>17 DEF RemoveLeak, EndCell, Goto
    <2>18. CASE LaunchAgent(th)
      BY <2>0, <2>18 DEF LaunchAgent, Mounted, ConfigFile, Goto
    <2>19. CASE AgentEnds(th)
      BY <2>0, <2>19 DEF AgentEnds, EndCell, Goto
    <2> HIDE DEF MemoInv, TypeOK, Steps, Configs
    <2> QED BY <1>3, <2>1, <2>2, <2>3, <2>4, <2>5, <2>6, <2>7, <2>8, <2>9, <2>10,
               <2>11, <2>12, <2>13, <2>14, <2>15, <2>16, <2>17, <2>18, <2>19
            DEF ThreadStep
  <1>4. ASSUME NEW r \in Repos, MoveHead(r) PROVE MemoInv'
    BY <1>4 DEF MoveHead
  <1>5. CASE Restart
    <2>1. disturbed' \subseteq Trees
      <3>1. \E ts : Fruitless(ts) /\ ts \subseteq Trees
        BY <1>5 DEF Restart
      <3> QED BY <3>1 DEF Fruitless
    <2>2. faults' = faults
      BY <1>5 DEF Restart, Fruitless
    <2> QED BY <1>5, <2>1, <2>2 DEF Restart
  <1>6. ASSUME NEW th \in Threads, GitHangs(th) \/ ProbeHangs(th) PROVE MemoInv'
    BY <1>6 DEF GitHangs, ProbeHangs, Preparing, Goto
  <1> QED BY <1>1, <1>2, <1>3, <1>4, <1>5, <1>6 DEF Next

\* The setup's state is well typed; the setup lock is held by the thread whose build
\* is running, or by one that hangs in git (ensure_arm_index's with-block).
THEOREM SetupTyped == Spec => []TypeOK
  <1>1. MemoInv => TypeOK
    BY DEF MemoInv
  <1> QED BY <1>1, MemoInit, MemoStep, PTL DEF Spec

\* However arms share trees, repositories move, git fails and processes are
\* restarted, no index is built in a tree an agent with a server is working in
\* (ensure_arm_index: the lock, the memory and the stamp).
THEOREM NoBuildBesideAgents == Spec => []NoBuildUnderAgent
  <1>1. MemoInv => NoBuildUnderAgent
    <2> SUFFICES ASSUME MemoInv, NEW th \in Threads, NEW other \in Threads,
                        pc[th] = "building", WithServer(other),
                        TreeOf(cell[th]) = TreeOf(cell[other])
                 PROVE  FALSE
      BY DEF NoBuildUnderAgent
    <2>1. cell[th] \in Cells /\ cell[other] \in Cells /\ TypeOK
      BY DEF MemoInv, TypeOK, WithServer
    <2>2. cell[other][1] \notin assumed
      BY <2>1, AssumedTogether DEF MemoInv
    <2> QED BY <2>2 DEF MemoInv, WithServer
  <1> QED BY <1>1, MemoInit, MemoStep, PTL DEF Spec

-----------------------------------------------------------------------------
(* An agent's index and a clean control                                      *)

\* What lies in the trees when a run starts.
LEMMA FoundAtStart ==
  ASSUME Init
  PROVE  \A t \in Trees :
           /\ index[t] # "none" => commit[t] = 0
           /\ stamp[t] # {} => commit[t] = 0 /\ (Accepted(index[t]) \/ ~Settled(t))
           /\ t[1] \in stamp[t] => Accepted(index[t])
  <1>1. PICK state \in [Trees -> {"absent", "none"} \cup BuildResults] :
          /\ commit = [t \in Trees |-> IF state[t] = "absent" THEN -1 ELSE 0]
          /\ index = [t \in Trees |-> IF state[t] = "absent" THEN "none" ELSE state[t]]
          /\ \E stamps \in SUBSET {s \in Trees \X Arms : MayBeStamped(s[1], s[2], state[s[1]])} :
               stamp = [t \in Trees |-> {a \in Arms : <<t, a>> \in stamps}]
          /\ disturbed = {t \in Trees : stamp[t] # {} /\ ~Accepted(state[t])}
    BY Zenon DEF Init
  <1>2. \A t \in Trees : \A a \in stamp[t] : MayBeStamped(t, a, state[t])
    <2> DEFINE may == {s \in Trees \X Arms : MayBeStamped(s[1], s[2], state[s[1]])}
    <2>1. \E stamps \in SUBSET may : stamp = [t \in Trees |-> {a \in Arms : <<t, a>> \in stamps}]
      BY <1>1, Zenon
    <2>2. \A t \in Trees : \A a \in Arms : <<t, a>> \in may => MayBeStamped(t, a, state[t])
      OBVIOUS
    <2> HIDE DEF may
    <2>3. PICK stamps \in SUBSET may : stamp = [t \in Trees |-> {a \in Arms : <<t, a>> \in stamps}]
      BY <2>1, Zenon
    <2> QED BY <2>2, <2>3
  <1>3. SUFFICES ASSUME NEW t \in Trees
                 PROVE  /\ index[t] # "none" => commit[t] = 0
                        /\ stamp[t] # {} => commit[t] = 0 /\ (Accepted(index[t]) \/ ~Settled(t))
                        /\ t[1] \in stamp[t] => Accepted(index[t])
    OBVIOUS
  <1>4. /\ commit[t] = IF state[t] = "absent" THEN -1 ELSE 0
        /\ index[t] = IF state[t] = "absent" THEN "none" ELSE state[t]
    BY <1>1, Zenon
  <1>5. t \in disturbed <=> stamp[t] # {} /\ ~Accepted(state[t])
    BY <1>1, Zenon
  <1>6. stamp[t] # {} => state[t] \in BuildResults
    BY <1>2 DEF MayBeStamped
  <1>7. t[1] \in stamp[t] => Accepted(state[t])
    BY <1>2 DEF MayBeStamped
  <1> QED BY <1>4, <1>5, <1>6, <1>7 DEF Accepted, BuildResults, Settled

LEMMA IndexInit == Init => IndexInv
  <1> SUFFICES ASSUME Init PROVE IndexInv
    OBVIOUS
  <1>1. /\ \A t \in Trees : memo[t] = "none"
        /\ \A th \in Threads : pc[th] = "idle"
    BY NothingStarted
  <1>2. MemoInv
    BY MemoInit
  <1> HIDE DEF Init
  <1> QED BY <1>1, <1>2, FoundAtStart DEF IndexInv

\* Whoever builds goes on building while other threads take a step.
LEMMA BuildersStay ==
  ASSUME NEW th \in Threads, pc[th] # "building",
         \A other \in Threads \ {th} : pc'[other] = pc[other] /\ cell'[other] = cell[other]
  PROVE  \A t \in Trees :
           (\E x \in Threads : Builds(x, t)) => (\E x \in Threads : Builds(x, t)')
  BY DEF Builds, TreeOf

\* Cutting the tree of a thread again keeps what IndexInv says: as long as the
\* tree is settled nobody has got past prepare_arm_tree in it.
LEMMA RecutIndex ==
  ASSUME IndexInv, MemoInv', NEW th \in Threads, Preparing(th), Moves(th),
         NEW t \in Trees, t = TreeOf(cell[th]),
         NEW to \in -1..MaxHead, Recut(t, to),
         UNCHANGED <<plan, head, memo>>, disturbed \subseteq disturbed',
         \/ t \in disturbed'
         \/ commit[t] # head[t[2]] /\ (Prepared(th) => to = head[t[2]])
  PROVE  IndexInv'
  <1>0. /\ cell[th] \in Cells /\ TypeOK
        /\ cell[th][1] \notin Static /\ pc[th] = "prepare"
    BY SentinelIsNoCell, TreeTyped DEF IndexInv, MemoInv, TypeOK, Preparing
  <1>1. /\ commit' = [commit EXCEPT ![t] = to]
        /\ index' = [index EXCEPT ![t] = "none"]
        /\ stamp' = [stamp EXCEPT ![t] = {}]
        /\ leak' = [leak EXCEPT ![t] =
                      to # -1 /\ t[1] \in Control /\ t[2] \in Tracked]
        /\ assumed' = assumed
    BY DEF Recut, plan
  <1>2. \A u \in Trees : Settled(u)' => Settled(u)
    BY DEF Settled
  <1>3. Settled(t)' => commit[t] # 0 /\ (Prepared(th) => to = 0)
    BY DEF Settled
  <1>4. \A u \in Trees \ {t} : /\ commit'[u] = commit[u] /\ index'[u] = index[u]
                              /\ stamp'[u] = stamp[u] /\ leak'[u] = leak[u]
    BY <1>0, <1>1 DEF TypeOK
  <1>5. commit'[t] = to /\ stamp'[t] = {} /\ index'[t] = "none"
    BY <1>0, <1>1 DEF TypeOK
  <1>8. \A u \in Trees :
          (\E x \in Threads : Builds(x, u)) => (\E x \in Threads : Builds(x, u)')
    <2>1. \A other \in Threads \ {th} : pc'[other] = pc[other] /\ cell'[other] = cell[other]
      BY <1>0 DEF Moves, Prepared, EndCell, Goto, TypeOK
    <2> QED BY <1>0, <2>1, BuildersStay
  <1>6. \A u \in Trees :
          /\ u[1] \in Control => memo'[u] = "none"
          /\ Settled(u)' =>
               /\ index'[u] # "none" => commit'[u] = 0
               /\ stamp'[u] # {} =>
                    /\ commit'[u] = 0
                    /\ Accepted(index'[u]) \/ \E x \in Threads : Builds(x, u)'
               /\ memo'[u] = "ok" /\ u[1] \notin Indexless => Accepted(index'[u]) /\ commit'[u] = 0
    <2> SUFFICES ASSUME NEW u \in Trees
                 PROVE  /\ u[1] \in Control => memo'[u] = "none"
                        /\ Settled(u)' =>
                             /\ index'[u] # "none" => commit'[u] = 0
                             /\ stamp'[u] # {} =>
                                  /\ commit'[u] = 0
                                  /\ Accepted(index'[u]) \/ \E x \in Threads : Builds(x, u)'
                             /\ memo'[u] = "ok" /\ u[1] \notin Indexless => Accepted(index'[u]) /\ commit'[u] = 0
      OBVIOUS
    <2>1. CASE u = t
      BY <1>2, <1>3, <1>5, <2>1 DEF IndexInv
    <2>2. CASE u # t
      BY <1>2, <1>4, <1>8, <2>2 DEF IndexInv
    <2> QED BY <2>1, <2>2
  <1>7. ASSUME NEW other \in Threads,
               pc'[other] \notin {"idle", "prepare", "hung"}, cell'[other][1] \notin Static,
               Settled(TreeOf(cell[other]))'
        PROVE  LET c == cell'[other]
                   u == TreeOf(c) IN
               /\ commit'[u] = 0
               /\ pc'[other] = "building" => u[1] \notin stamp'[u]
               /\ pc'[other] \in {"config", "writing", "probe", "launch", "running"} =>
                    /\ c[1] \in assumed' => index'[u] # "none"
                    /\ c[1] \in Control => ~leak'[u]
    <2>1. CASE other = th
      <3>1. Prepared(th)
        BY <1>0, <1>7, <2>1 DEF Moves, EndCell, Goto, IndexInv, MemoInv, TypeOK
      <3>2. /\ cell'[other] = cell[th]
            /\ pc'[other] \in {"scrub", "index"}
        BY <1>0, <2>1, <3>1 DEF Prepared, Goto, TypeOK
      <3>3. TreeOf(cell'[other]) = t /\ Settled(t)'
        BY <1>7, <3>2 DEF Settled
      <3> QED BY <1>3, <1>5, <3>1, <3>2, <3>3
    <2>2. CASE other # th
      <3>1. /\ pc'[other] = pc[other] /\ cell'[other] = cell[other]
        BY <1>0, <2>2 DEF Moves, Prepared, EndCell, Goto, TypeOK
      <3>2. cell[other] \in Cells /\ TreeOf(cell[other]) \in Trees
        BY <1>0, <1>7, <3>1, TreeTyped, SentinelIsNoCell DEF TypeOK
      <3>3. PICK u \in Trees : u = TreeOf(cell[other])
        BY <3>2
      <3>4. Settled(u) /\ Settled(u)' /\ u = TreeOf(cell'[other])
        BY <1>2, <1>7, <3>1, <3>3 DEF Settled
      <3>5. commit[u] = 0
        BY <1>7, <3>1, <3>3, <3>4 DEF IndexInv
      <3>6. u # t
        BY <1>3, <3>4, <3>5
      <3> QED BY <1>1, <1>4, <1>7, <3>1, <3>3, <3>4, <3>5, <3>6 DEF IndexInv
    <2> QED BY <2>1, <2>2
  <1> QED BY <1>6, <1>7 DEF IndexInv

\* What the steps of the other threads leave alone.
LEMMA OthersSame ==
  ASSUME IndexInv, NEW th \in Threads, ThreadStep(th), NEW other \in Threads, other # th
  PROVE  pc'[other] = pc[other] /\ cell'[other] = cell[other]
  BY DEF IndexInv, MemoInv, TypeOK, ThreadStep, PrepareTree, PrepareFails, MountStatic,
         SourceUnread, TreeUnread, Unread, Prepared, IndexRemembered, Assume,
         IndexByDesign, IndexStamped, Answered, StartBuild, BuildRaises, EndBuild,
         TruncateConfig, WriteConfig, Probe, ProbeFails, ScrubTree, RemoveLeak,
         LaunchAgent, AgentEnds, EndCell, Goto

LEMMA IndexStep == IndexInv /\ [Next]_vars => IndexInv'
  <1> SUFFICES ASSUME IndexInv, [Next]_vars PROVE IndexInv'
    OBVIOUS
  <1>0. MemoInv' /\ TypeOK
    BY MemoStep DEF IndexInv, MemoInv
  <1> USE <1>0, ArmSetupAssumption, TreeTyped, TreeKinds, SentinelIsNoCell
      DEF IndexInv, MemoInv, TypeOK, Settled, Configs, Steps, BuildResults, plan,
          trees, mishaps
  <1>1. CASE UNCHANGED vars
    <2>1. \A x \in Threads : \A u \in Trees : Builds(x, u) => Builds(x, u)'
      BY <1>1 DEF vars, Builds, TreeOf
    <2> QED BY <1>1, <2>1 DEF vars
  <1>2. ASSUME NEW th \in Threads, NEW c \in Cells, Begin(th, c) PROVE IndexInv'
    <2>1. \A u \in Trees :
            (\E x \in Threads : Builds(x, u)) => (\E x \in Threads : Builds(x, u)')
      BY <1>2, BuildersStay DEF Begin, Goto
    <2> QED BY <1>2, <2>1 DEF Begin, Goto
  <1>3. ASSUME NEW th \in Threads, ThreadStep(th) PROVE IndexInv'
    <2> DEFINE t == TreeOf(cell[th])
    <2>0. /\ pc[th] # "idle" => cell[th] \in Cells /\ t \in Trees
          /\ \A u \in Trees : head[u[2]] \in -1..MaxHead
          /\ -1 \in -1..MaxHead
      BY DEF Trees
    <2>1. CASE PrepareTree(th)
      <3>1. PICK u \in Trees : u = t
        BY <2>0, <2>1 DEF PrepareTree, Preparing
      <3>2. /\ Preparing(th) /\ Prepared(th) /\ Moves(th)
            /\ head[u[2]] \in -1..MaxHead /\ disturbed' = disturbed
            /\ UNCHANGED <<plan, head, memo>>
        BY <2>0, <2>1 DEF PrepareTree, Moves
      <3>3. CASE commit[u] # head[u[2]]
        <4>1. Recut(u, head[u[2]])
          BY <2>1, <3>1, <3>3 DEF PrepareTree
        <4> HIDE DEF IndexInv, MemoInv, TypeOK
        <4> QED BY <3>1, <3>2, <3>3, <4>1, RecutIndex
      <3>4. CASE commit[u] = head[u[2]]
        <4>1. \A x \in Threads : \A v \in Trees : Builds(x, v) => Builds(x, v)'
          BY <2>1 DEF PrepareTree, Preparing, Prepared, Goto, Builds, TreeOf
        <4> QED BY <2>0, <2>1, <3>1, <3>2, <3>4, <4>1 DEF PrepareTree, Preparing, Prepared, Goto
      <3> QED BY <3>3, <3>4
    <2>2. CASE PrepareFails(th)
      <3>1. PICK u \in Trees : u = t
        BY <2>0, <2>2 DEF PrepareFails, Preparing
      <3>2. /\ Preparing(th) /\ EndCell(th) /\ Moves(th)
            /\ Recut(u, -1) /\ commit[u] # head[u[2]] /\ disturbed' = disturbed
            /\ UNCHANGED <<plan, head, memo>>
        BY <2>2, <3>1 DEF PrepareFails, Moves
      <3>3. ~Prepared(th)
        BY <2>0, <3>2 DEF Preparing, Prepared, EndCell, Goto
      <3> HIDE DEF IndexInv, MemoInv, TypeOK
      <3> QED BY <2>0, <3>1, <3>2, <3>3, RecutIndex
    <2>3. CASE SourceUnread(th) \/ TreeUnread(th)
      <3>1. PICK u \in Trees : u = t
        BY <2>0, <2>3 DEF SourceUnread, TreeUnread, Unread, Preparing
      <3>2. /\ Preparing(th) /\ Moves(th)
            /\ Recut(u, -1) \/ Recut(u, head[u[2]])
            /\ disturbed' = disturbed \cup {u}
            /\ UNCHANGED <<plan, head, memo>>
        BY <2>3, <3>1 DEF SourceUnread, TreeUnread, Unread, Moves
      <3>3. PICK to \in -1..MaxHead : Recut(u, to)
        BY <2>0, <3>2
      <3> HIDE DEF IndexInv, MemoInv, TypeOK
      <3> QED BY <3>1, <3>2, <3>3, RecutIndex
    <2>40. /\ \A other \in Threads \ {th} : pc'[other] = pc[other] /\ cell'[other] = cell[other]
           /\ pc[th] # "building" => \A u \in Trees :
                (\E x \in Threads : Builds(x, u)) => (\E x \in Threads : Builds(x, u)')
      <3>1. \A other \in Threads \ {th} : pc'[other] = pc[other] /\ cell'[other] = cell[other]
        BY <1>3, OthersSame
      <3> QED BY <3>1, BuildersStay
    <2>4. CASE MountStatic(th)
      BY <2>0, <2>40, <2>4 DEF MountStatic, EndCell, Goto
    <2>5. CASE IndexRemembered(th)
      BY <2>0, <2>40, <2>5, AssumedTogether DEF IndexRemembered, Remembered, Asked, Answered, EndCell, Goto
    <2>6. CASE Assume(th)
      <3>1. /\ pc[th] = "index" /\ t \in Trees /\ cell[th][1] \in assumed
            /\ cell[th][1] \notin Static /\ cell[th][1] \notin Control
            /\ UNCHANGED <<plan, head, trees, memo, disturbed>>
        BY <2>0, <2>6, AssumedTogether DEF Assume
      <3>2. CASE /\ index[t] # "none"
                 /\ pc' = [pc EXCEPT ![th] = "config"] /\ UNCHANGED <<cell, served>>
        BY <2>0, <2>40, <3>1, <3>2
      <3>3. CASE EndCell(th)
        BY <2>0, <2>40, <3>1, <3>3 DEF EndCell, Goto
      <3> HIDE DEF IndexInv, MemoInv, TypeOK
      <3> QED BY <2>6, <3>1, <3>2, <3>3 DEF Assume, Answered, Goto
    <2>7. CASE IndexByDesign(th)
      <3>1. /\ pc[th] = "index" /\ t \in Trees /\ t[1] \in Indexless /\ t[1] \notin Control
            /\ cell[th][1] \notin assumed
            /\ memo' = [memo EXCEPT ![t] = "ok"] /\ Answered(th, TRUE)
            /\ UNCHANGED <<plan, head, trees, disturbed>>
        BY <2>0, <2>7 DEF IndexByDesign, Asked, TreeOf
      <3>2. /\ pc' = [pc EXCEPT ![th] = IF cell[th][1] \in Static THEN "probe" ELSE "config"]
            /\ UNCHANGED <<cell, served>>
        BY <3>1 DEF Answered, Goto
      <3> QED BY <2>0, <2>40, <3>1, <3>2, AssumedTogether, SMTT(20)
    <2>8. CASE IndexStamped(th)
      <3>1. /\ pc[th] = "index" /\ t \in Trees /\ t[1] \notin Indexless /\ t[1] \notin Control
            /\ cell[th][1] \notin assumed /\ memo[t] = "none" /\ stamp[t] # {}
            /\ \A x \in Threads : ~Builds(x, t)
            /\ UNCHANGED <<plan, head, trees, disturbed>>
        BY <2>0, <2>8 DEF IndexStamped, Stamped, Remembered, Asked, Builds
      <3>2. Settled(t) => Accepted(index[t]) /\ commit[t] = 0
        BY <3>1
      <3>3. CASE memo' = [memo EXCEPT ![t] = "ok"] /\ Answered(th, TRUE)
        BY <2>0, <2>40, <3>1, <3>2, <3>3, AssumedTogether DEF Answered, Goto
      <3>4. CASE memo' = [memo EXCEPT ![t] = "failed"] /\ EndCell(th)
        BY <2>0, <2>40, <3>1, <3>2, <3>4, AssumedTogether DEF EndCell, Goto
      <3> HIDE DEF IndexInv, MemoInv, TypeOK
      <3> QED BY <2>8, <3>3, <3>4 DEF IndexStamped, Answered
    <2>9. CASE StartBuild(th)
      <3>1. /\ pc[th] = "index" /\ t \in Trees /\ t[1] \notin Indexless /\ t[1] \notin Control
            /\ cell[th][1] \notin assumed /\ memo[t] = "none" /\ ~Stamped(th)
        BY <2>0, <2>9 DEF StartBuild, Remembered, Asked
      <3>3. t[1] \in StampNames(cell[th])
        BY DEF StampNames, TreeOf
      <3>4. t[1] \notin stamp[t]
        BY <3>1, <3>3 DEF Stamped
      <3>2. Builds(th, t)'
        BY <2>0, <2>9 DEF StartBuild, Asked, Goto, Builds, TreeOf
      <3> QED BY <2>0, <2>9, <2>40, <3>1, <3>2, <3>4, AssumedTogether DEF StartBuild, Goto
    <2>10. ASSUME NEW result \in BuildResults, EndBuild(th, result)
           PROVE  IndexInv'
      <3>1. /\ pc[th] = "building" /\ t \in Trees /\ t[1] \notin Indexless /\ t[1] \notin Control
            /\ cell[th][1] \notin assumed /\ memo[t] = "none"
            /\ \A u \in Trees \ {t} : \A x \in Threads : ~Builds(x, u)
            /\ disturbed \subseteq disturbed'
            /\ ~Accepted(result) /\ stamp[t] # {} => t \in disturbed'
            /\ index' = [index EXCEPT ![t] = result]
            /\ UNCHANGED <<plan, head, commit, stamp, leak>>
        BY <2>0, <2>10 DEF EndBuild, Fruitless, Builds
      <3>2. \A u \in Trees : Settled(u)' => Settled(u)
        BY <3>1
      <3>5. Settled(t) => commit[t] = 0
        BY <2>0, <3>1
      <3>3. CASE memo' = [memo EXCEPT ![t] = "ok"] /\ Answered(th, TRUE) /\ Accepted(result)
        BY <2>0, <2>40, <3>1, <3>2, <3>3, <3>5, AssumedTogether DEF Answered, Goto
      <3>4. CASE memo' = [memo EXCEPT ![t] = "failed"] /\ EndCell(th) /\ ~Accepted(result)
        BY <2>0, <2>40, <3>1, <3>2, <3>4, <3>5, AssumedTogether DEF EndCell, Goto
      <3> HIDE DEF IndexInv, MemoInv, TypeOK
      <3> QED BY <2>10, <3>3, <3>4 DEF EndBuild, Answered
    <2>11. CASE BuildRaises(th)
      <3>1. /\ pc[th] = "building" /\ t \in Trees
            /\ \A u \in Trees \ {t} : \A x \in Threads : ~Builds(x, u)
            /\ disturbed \subseteq disturbed'
            /\ stamp[t] # {} => t \in disturbed'
            /\ UNCHANGED <<plan, head, trees, memo>> /\ EndCell(th)
        BY <2>0, <2>11 DEF BuildRaises, Fruitless, Builds
      <3>2. \A u \in Trees : Settled(u)' => Settled(u)
        BY <3>1
      <3> QED BY <2>0, <2>40, <3>1, <3>2, SMTT(20) DEF EndCell, Goto
    <2>12. CASE TruncateConfig(th)
      <3>1. /\ UNCHANGED <<plan, head, trees, memo, disturbed, cell>>
            /\ pc[th] = "config" /\ pc' = [pc EXCEPT ![th] = "writing"]
        BY <2>12 DEF TruncateConfig, Goto
      <3> QED BY <2>0, <2>40, <3>1
    <2>13. CASE WriteConfig(th)
      BY <2>0, <2>40, <2>13 DEF WriteConfig, ConfigFile, Goto
    <2>14. CASE Probe(th)
      BY <2>0, <2>40, <2>14 DEF Probe, Goto
    <2>15. CASE ProbeFails(th)
      BY <2>0, <2>40, <2>15 DEF ProbeFails, EndCell, Goto
    <2>16. CASE ScrubTree(th)
      BY <2>0, <2>40, <2>16, AssumedTogether DEF ScrubTree, Goto
    <2>17. CASE RemoveLeak(th)
      BY <2>0, <2>40, <2>17, AssumedTogether DEF RemoveLeak, EndCell, Goto
    <2>18. CASE LaunchAgent(th)
      <3>1. /\ UNCHANGED <<plan, head, trees, memo, disturbed, cell>>
            /\ pc[th] = "launch" /\ pc' = [pc EXCEPT ![th] = "running"]
        BY <2>18 DEF LaunchAgent, Goto
      <3> QED BY <2>0, <2>40, <3>1
    <2>19. CASE AgentEnds(th)
      BY <2>0, <2>40, <2>19 DEF AgentEnds, EndCell, Goto
    <2> HIDE DEF IndexInv, MemoInv, TypeOK, Steps, Configs
    <2> QED BY <1>3, <2>1, <2>2, <2>3, <2>4, <2>5, <2>6, <2>7, <2>8, <2>9, <2>10,
               <2>11, <2>12, <2>13, <2>14, <2>15, <2>16, <2>17, <2>18, <2>19
            DEF ThreadStep
  <1>4. ASSUME NEW r \in Repos, MoveHead(r) PROVE IndexInv'
    <2>1. \A u \in Trees : Settled(u)' => Settled(u)
      BY <1>4 DEF MoveHead, Trees
    <2>2. \A th \in Threads : pc[th] # "idle" => TreeOf(cell[th]) \in Trees
      OBVIOUS
    <2>3. UNCHANGED <<plan, trees, memo, pc, cell>>
      BY <1>4 DEF MoveHead
    <2>4. \A u \in Trees :
            (\E x \in Threads : Builds(x, u)) => (\E x \in Threads : Builds(x, u)')
      BY <2>3 DEF Builds, TreeOf
    <2> HIDE DEF Settled
    <2> QED BY <2>1, <2>2, <2>3, <2>4
  <1>5. CASE Restart
    <2>1. \A u \in Trees :
            Settled(u)' =>
              Settled(u) /\ (stamp[u] # {} => \A x \in Threads : ~Builds(x, u))
      BY <1>5 DEF Restart, Fruitless, Builds
    <2>2. /\ UNCHANGED <<plan, trees>>
          /\ \A u \in Trees : memo'[u] = "none"
          /\ \A x \in Threads : pc'[x] = "idle"
      BY <1>5 DEF Restart
    <2>3. ASSUME NEW u \in Trees, Settled(u)'
          PROVE  /\ index'[u] # "none" => commit'[u] = 0
                 /\ stamp'[u] # {} => commit'[u] = 0 /\ Accepted(index'[u])
                 /\ memo'[u] # "ok"
      <3> HIDE DEF Settled, MemoInv, TypeOK
      <3>1. Settled(u) /\ (stamp[u] # {} => ~\E x \in Threads : Builds(x, u))
        BY <2>1, <2>3, Zenon
      <3> QED BY <2>2, <2>3, <3>1
    <2> HIDE DEF Settled, TypeOK, MemoInv
    <2> QED BY <2>2, <2>3
  <1>6. ASSUME NEW th \in Threads, GitHangs(th) \/ ProbeHangs(th) PROVE IndexInv'
    <2>1. \A other \in Threads \ {th} : pc'[other] = pc[other] /\ cell'[other] = cell[other]
      BY <1>6 DEF GitHangs, ProbeHangs, Goto
    <2>2. \A u \in Trees :
            (\E x \in Threads : Builds(x, u)) => (\E x \in Threads : Builds(x, u)')
      BY <1>6, <2>1, BuildersStay DEF GitHangs, ProbeHangs, Preparing
    <2> QED BY <1>6, <2>1, <2>2 DEF GitHangs, ProbeHangs, Preparing, Goto
  <1> QED BY <1>1, <1>2, <1>3, <1>4, <1>5, <1>6 DEF Next

\* As long as its tree stays, an agent that is given a server finds a complete
\* index in it, and not one known to be of mock vectors, whatever was on disk
\* before, whichever builds failed and however often the process restarted; one
\* taken as it is is at least there (ensure_arm_index, arm_tree).
THEOREM AgentsHaveIndex == Spec => []AgentHasIndex
  <1>1. IndexInv => AgentHasIndex
    <2> SUFFICES ASSUME IndexInv, NEW th \in Threads, WithServer(th),
                        cell[th][1] \notin Indexless, Settled(TreeOf(cell[th]))
                 PROVE  IF cell[th][1] \in assumed
                          THEN index[TreeOf(cell[th])] # "none"
                          ELSE Accepted(index[TreeOf(cell[th])])
      BY DEF AgentHasIndex
    <2>1. /\ cell[th] \in Cells /\ pc[th] = "running"
          /\ cell[th][1] \notin Control
      BY SentinelIsNoCell DEF IndexInv, MemoInv, TypeOK, WithServer
    <2>2. /\ TreeOf(cell[th]) \in Trees
          /\ TreeOf(cell[th])[1] \notin Indexless /\ cell[th][1] \notin Static
      BY <2>1, TreeTyped, TreeKinds
    <2> QED BY <2>1, <2>2 DEF IndexInv, MemoInv
  <1> QED BY <1>1, IndexInit, IndexStep, PTL DEF Spec

\* As long as its tree stays, a control's agent finds nothing of another arm's
\* in it, however many control cells scrub it at once (scrub_tree).
THEOREM ControlsAreClean == Spec => []ControlClean
  <1>1. IndexInv => ControlClean
    BY ArmSetupAssumption DEF IndexInv, ControlClean
  <1> QED BY <1>1, IndexInit, IndexStep, PTL DEF Spec

-----------------------------------------------------------------------------
(* The server an agent is given                                              *)

LEMMA ConfigStep == ConfigInv /\ MemoInv /\ [Next]_vars => ConfigInv'
  <1> SUFFICES ASSUME ConfigInv, MemoInv, [Next]_vars PROVE ConfigInv'
    OBVIOUS
  <1>0. TypeOK'
    BY MemoStep DEF MemoInv
  <1> USE <1>0, ArmSetupAssumption, TreeTyped, SentinelIsNoCell
      DEF ConfigInv, TypeOK, Configs, trees
  <1>1. CASE UNCHANGED vars
    BY <1>1 DEF vars
  <1>2. ASSUME NEW th \in Threads, NEW c \in Cells, Begin(th, c) PROVE ConfigInv'
    BY <1>2 DEF Begin, Goto
  <1>3. ASSUME NEW th \in Threads, ThreadStep(th) PROVE ConfigInv'
    <2>1. CASE \/ PrepareTree(th) \/ PrepareFails(th) \/ MountStatic(th)
               \/ SourceUnread(th) \/ TreeUnread(th)
      BY <2>1 DEF PrepareTree, PrepareFails, MountStatic, SourceUnread, TreeUnread,
                  Unread, Preparing, Prepared, EndCell, Goto
    <2>2. CASE \/ IndexRemembered(th) \/ Assume(th) \/ IndexByDesign(th)
               \/ IndexStamped(th) \/ StartBuild(th) \/ BuildRaises(th)
               \/ (\E result \in BuildResults : EndBuild(th, result))
      BY <2>2 DEF IndexRemembered, Assume, IndexByDesign, IndexStamped, StartBuild,
                  BuildRaises, EndBuild, Asked, Answered, EndCell, Goto
    <2>3. CASE \/ TruncateConfig(th) \/ WriteConfig(th) \/ Probe(th)
               \/ ProbeFails(th) \/ ScrubTree(th) \/ RemoveLeak(th)
      BY <2>3 DEF TruncateConfig, WriteConfig, Probe, ProbeFails, ScrubTree,
                  RemoveLeak, ConfigFile, EndCell, Goto
    <2>4. CASE LaunchAgent(th)
      BY <2>4 DEF LaunchAgent, Mounted, ConfigFile, Goto
    <2>5. CASE AgentEnds(th)
      BY <2>5 DEF AgentEnds, EndCell, Goto
    <2> HIDE DEF ConfigInv, TypeOK, Configs
    <2> QED BY <1>3, <2>1, <2>2, <2>3, <2>4, <2>5 DEF ThreadStep
  <1>4. ASSUME NEW r \in Repos, MoveHead(r) PROVE ConfigInv'
    BY <1>4 DEF MoveHead
  <1>5. CASE Restart
    BY <1>5 DEF Restart
  <1>6. ASSUME NEW th \in Threads, GitHangs(th) \/ ProbeHangs(th) PROVE ConfigInv'
    BY <1>6 DEF GitHangs, ProbeHangs, Preparing, Goto
  <1> QED BY <1>1, <1>2, <1>3, <1>4, <1>5, <1>6 DEF Next

\* In a run over one repository no agent is ever given another cell's server,
\* however the threads that share a config file interleave
\* (generate_mcp_config).
THEOREM ServersAreOwn ==
  ASSUME \A r, s \in Repos : r = s PROVE Spec => []NoForeignServer
  <1>1. ConfigInv => NoForeignServer
    <2> SUFFICES ASSUME ConfigInv, NEW th \in Threads, WithServer(th),
                        served[th] # NoCell
                 PROVE  served[th] = cell[th]
      BY DEF NoForeignServer
    <2>1. cell[th] \in Arms \X Repos /\ served[th] \in Arms \X Repos
      BY DEF WithServer, ConfigInv, TypeOK, Configs, Cells
    <2>2. served[th][1] = cell[th][1] /\ served[th][2] = cell[th][2]
      BY <2>1 DEF ConfigInv
    <2> QED BY <2>1, <2>2
  <1>2. Init => ConfigInv
    BY NothingStarted, MemoInit DEF ConfigInv, MemoInv
  <1> QED BY <1>1, <1>2, ConfigStep, MemoInit, MemoStep, PTL DEF Spec

-----------------------------------------------------------------------------
(* The threads keep to the protocol of a tree's index                        *)

\* The tree and the threads look the same from outside after a step.
SameTree(t) ==
  (Usable(t)' <=> Usable(t)) /\ (t[1] \in stamp'[t] <=> t[1] \in stamp[t])
SameUse(th, t) == (Builds(th, t)' <=> Builds(th, t)) /\ (Queries(th, t)' <=> Queries(th, t))
SameThread(th) == \A t \in Trees : SameUse(th, t)

\* A step after which somebody may no longer build or query, and nothing else is
\* seen but in trees that are lost.
LEMMA Losing ==
  ASSUME Lost \subseteq Lost',
         \A t \in Trees : t \notin Lost' =>
           /\ SameTree(t)
           /\ \A th \in Threads :
                (Builds(th, t)' => Builds(th, t)) /\ (Queries(th, t)' => Queries(th, t))
  PROVE  I!Lose
  <1>0. Lost' \subseteq Trees
    BY DEF Lost
  <1>1. {t \in Trees \ Lost : Usable(t)}' = {t \in Trees \ Lost : Usable(t)} \ Lost'
    BY DEF SameTree
  <1>2. {t \in Trees \ Lost : t[1] \in stamp[t]}' =
          {t \in Trees \ Lost : t[1] \in stamp[t]} \ Lost'
    BY DEF SameTree
  <1>3. {t \in Trees \ Lost : \E th \in Threads : Builds(th, t)}' \subseteq
          {t \in Trees \ Lost : \E th \in Threads : Builds(th, t)} \ Lost'
    OBVIOUS
  <1>4. [t \in Trees |-> {th \in Threads : t \notin Lost /\ Queries(th, t)}]'
          \in [Trees -> SUBSET Threads]
    OBVIOUS
  <1>5. \A t \in Trees :
          [u \in Trees |-> {th \in Threads : u \notin Lost /\ Queries(th, u)}]'[t] \subseteq
            IF t \in Lost' THEN {}
            ELSE [u \in Trees |-> {th \in Threads : u \notin Lost /\ Queries(th, u)}][t]
    OBVIOUS
  <1> QED BY <1>0, <1>1, <1>2, <1>3, <1>4, <1>5 DEF I!Lose

\* A step that nobody sees but in trees that are lost.
LEMMA Unseen ==
  ASSUME Lost \subseteq Lost',
         \A t \in Trees : t \notin Lost' =>
           SameTree(t) /\ \A th \in Threads : SameUse(th, t)
  PROVE  I!Lose
  BY Losing DEF SameUse

LEMMA TreeIndexInit == Init => I!Init
  <1> SUFFICES ASSUME Init PROVE I!Init
    OBVIOUS
  <1>1. \A th \in Threads : \A t \in Trees : ~Builds(th, t) /\ ~Queries(th, t)
    BY NothingStarted DEF Builds, Queries, WithServer
  <1>2. \A t \in Trees : t[1] \in stamp[t] => Usable(t)
    BY FoundAtStart DEF Usable, Accepted
  <1> HIDE DEF Init
  <1>3. Lost \subseteq Trees
    BY DEF Lost
  <1> QED BY <1>1, <1>2, <1>3 DEF I!Init, I!Quiet

\* A thread that neither builds nor queries before and after a step.
Outside(th) ==
  /\ pc[th] \notin {"building", "running"}
  /\ pc'[th] \notin {"building", "running"}

LEMMA OutsideSame ==
  ASSUME NEW th \in Threads,
         Outside(th) \/ (pc'[th] = pc[th] /\ cell'[th] = cell[th])
  PROVE  SameThread(th)
  BY DEF Outside, SameThread, SameUse, Builds, Queries, WithServer, TreeOf

\* prepare_arm_tree: nothing is seen of a tree that is cut again.
LEMMA PrepareUnseen ==
  ASSUME IndexInv, NEW th \in Threads,
         PrepareTree(th) \/ PrepareFails(th) \/ SourceUnread(th) \/ TreeUnread(th)
  PROVE  I!Lose
  <1>0. /\ TypeOK /\ cell[th] \in Cells /\ TreeOf(cell[th]) \in Trees
        /\ TreeOf(cell[th])[1] \notin Static /\ pc[th] = "prepare"
        /\ UNCHANGED <<assumed, head>> /\ disturbed \subseteq disturbed'
    BY SentinelIsNoCell, TreeTyped, TreeKinds
    DEF IndexInv, MemoInv, TypeOK, PrepareTree, PrepareFails, SourceUnread, TreeUnread,
        Unread, Preparing, plan, mishaps
  <1>1. PICK u \in Trees : u = TreeOf(cell[th])
    BY <1>0
  <1>2. \A t \in Trees : t # u => index'[t] = index[t] /\ stamp'[t] = stamp[t]
    BY <1>0, <1>1
    DEF PrepareTree, PrepareFails, SourceUnread, TreeUnread, Recut, TypeOK, trees
  <1>3. Settled(u)' => index'[u] = index[u] /\ stamp'[u] = stamp[u]
    <2> SUFFICES ASSUME Settled(u)' PROVE index'[u] = index[u] /\ stamp'[u] = stamp[u]
      OBVIOUS
    <2>1. Settled(u) /\ head[u[2]] = 0 /\ u \notin disturbed'
      BY <1>0 DEF Settled
    <2>2. ~SourceUnread(th) /\ ~TreeUnread(th)
      BY <1>1, <2>1 DEF SourceUnread, TreeUnread, Unread
    <2>3. CASE commit[u] = 0
      BY <1>1, <2>1, <2>2, <2>3 DEF PrepareTree, PrepareFails, trees
    <2>4. CASE commit[u] # 0
      <3>1. index[u] = "none" /\ stamp[u] = {}
        BY <1>0, <1>1, <2>1, <2>4 DEF IndexInv
      <3>2. \E to : Recut(u, to)
        BY <1>1, <2>1, <2>2, <2>4 DEF PrepareTree, PrepareFails
      <3>3. index'[u] = "none" /\ stamp'[u] = {}
        BY <1>0, <3>2 DEF Recut, TypeOK
      <3> QED BY <3>1, <3>3
    <2> QED BY <2>3, <2>4
  <1>4. Lost \subseteq Lost'
    BY <1>0 DEF Lost, Settled
  <1>5. \A t \in Trees : t \notin Lost' => SameTree(t)
    <2> SUFFICES ASSUME NEW t \in Trees, t \notin Lost' PROVE SameTree(t)
      OBVIOUS
    <2>1. t = u => Settled(u)'
      BY DEF Lost
    <2>2. index'[t] = index[t] /\ stamp'[t] = stamp[t]
      BY <1>2, <1>3, <2>1
    <2> QED BY <1>0, <2>2 DEF SameTree, Usable
  <1>6. Outside(th)
    BY <1>0 DEF Outside, PrepareTree, PrepareFails, SourceUnread, TreeUnread, Prepared,
                EndCell, Goto, TypeOK
  <1>7. \A other \in Threads : SameThread(other)
    BY <1>6, OutsideSame, OthersSame DEF ThreadStep
  <1> QED BY <1>4, <1>5, <1>7, Unseen DEF SameThread

\* The steps that touch neither an index nor who builds or queries one.
LEMMA InnerUnseen ==
  ASSUME IndexInv, NEW th \in Threads,
         \/ MountStatic(th) \/ IndexRemembered(th) \/ Assume(th) \/ IndexByDesign(th)
         \/ IndexStamped(th) \/ TruncateConfig(th) \/ WriteConfig(th) \/ Probe(th)
         \/ ProbeFails(th) \/ ScrubTree(th) \/ RemoveLeak(th)
  PROVE  I!Lose
  <1>1. /\ UNCHANGED <<assumed, head, disturbed, index, stamp>>
        /\ Outside(th)
    BY DEF IndexInv, MemoInv, TypeOK, MountStatic, IndexRemembered, Assume,
           IndexByDesign, IndexStamped, Asked, Answered, TruncateConfig, WriteConfig,
           Probe, ProbeFails, ScrubTree, RemoveLeak, EndCell, Goto, Outside, plan, trees,
           mishaps
  <1>2. \A t \in Trees : SameTree(t)
    BY <1>1 DEF SameTree, Usable
  <1>3. Lost' = Lost
    BY <1>1 DEF Lost, Settled
  <1>4. \A other \in Threads : SameThread(other)
    BY <1>1, OutsideSame, OthersSame DEF ThreadStep
  <1> QED BY <1>2, <1>3, <1>4, Unseen DEF SameThread

\* A build and an agent are of an arm with a tree that is not assumed indexed,
\* or of one that is; never both in a tree, and no two threads build.
LEMMA BuilderAlone ==
  ASSUME IndexInv, NEW th \in Threads, pc[th] = "building"
  PROVE  /\ TreeOf(cell[th]) \in Trees /\ cell[th] \in Cells
         /\ TreeOf(cell[th])[1] \notin assumed
         /\ \A other \in Threads : pc[other] = "building" => other = th
         /\ \A other \in Threads : ~Queries(other, TreeOf(cell[th]))
  <1>1. TypeOK /\ MemoInv /\ cell[th] \in Cells /\ cell[th][1] \notin assumed
    BY DEF IndexInv, MemoInv, TypeOK
  <1>2. PICK p \in Plans : arms = p.arms /\ assumed = p.assumed
    BY <1>1 DEF TypeOK
  <1>3. \A a \in Arms : a \in p.assumed <=> Owner[a] \in p.assumed
    BY ArmSetupAssumption
  <1>4. TreeOf(cell[th])[1] \notin assumed
    BY <1>1, <1>2, <1>3 DEF TreeOf, Cells
  <1>5. \A other \in Threads : pc[other] = "building" => other = th
    BY <1>1 DEF TypeOK
  <1>6. \A other \in Threads : ~Queries(other, TreeOf(cell[th]))
    <2> SUFFICES ASSUME NEW other \in Threads, WithServer(other),
                        TreeOf(cell[th]) = TreeOf(cell[other])
                 PROVE  FALSE
      BY DEF Queries
    <2>1. cell[other] \in Cells
      BY <1>1 DEF TypeOK, WithServer
    <2>2. cell[other][1] \notin assumed
      BY <1>1, <2>1, AssumedTogether
    <2> QED BY <1>1, <2>2 DEF MemoInv, WithServer
  <1> QED BY <1>1, <1>4, <1>5, <1>6, TreeTyped

LEMMA BuildBegins ==
  ASSUME IndexInv, NEW th \in Threads, StartBuild(th)
  PROVE  \E t \in Trees : I!StartBuild(t) \/ I!Lose
  <1>1. /\ TypeOK /\ pc[th] = "index" /\ cell[th] \in Cells /\ lock = NoThread
        /\ cell[th][1] \notin Control
        /\ cell[th][1] \notin assumed /\ memo[TreeOf(cell[th])] = "none"
        /\ ~Stamped(th)
        /\ pc' = [pc EXCEPT ![th] = "building"] /\ UNCHANGED cell
        /\ UNCHANGED <<assumed, head, disturbed, stamp>>
        /\ index' = [index EXCEPT ![TreeOf(cell[th])] = "partial"]
    BY SentinelIsNoCell
    DEF StartBuild, Asked, Remembered, Goto, IndexInv, MemoInv, TypeOK, plan, mishaps
  <1>2. PICK u \in Trees : u = TreeOf(cell[th])
    BY <1>1, TreeTyped
  <1>9. u[1] \notin stamp[u]
    BY <1>1, <1>2 DEF Stamped, StampNames, TreeOf
  <1>3. Lost' = Lost
    BY <1>1 DEF Lost, Settled
  <1>4. \A t \in Trees : t # u => SameTree(t)
    BY <1>1, <1>2 DEF SameTree, Usable, TypeOK
  <1>5. \A other \in Threads : other # th => SameThread(other)
    BY OutsideSame, OthersSame DEF ThreadStep
  <1>6. /\ \A t \in Trees : ~Queries(th, t) /\ ~Queries(th, t)' /\ ~Builds(th, t)
        /\ \A t \in Trees : Builds(th, t)' <=> t = u
    BY <1>1, <1>2 DEF Queries, Builds, WithServer, TypeOK, TreeOf
  <1>7. CASE u \in Lost
    BY <1>3, <1>4, <1>5, <1>6, <1>7, Unseen DEF SameThread, SameUse
  <1>8. CASE u \notin Lost
    <2>1. \A x \in Threads : ~Builds(x, u) /\ ~Queries(x, u)
      <3>1. \A x \in Threads : pc[x] # "building"
        BY <1>1, SentinelIsNoCell DEF TypeOK
      <3>2. ASSUME NEW x \in Threads, Queries(x, u) PROVE FALSE
        <4>1. cell[x] \in Cells /\ TreeOf(cell[x]) = TreeOf(cell[th])
          BY <1>1, <1>2, <3>2 DEF TypeOK, Queries, WithServer
        <4>2. cell[x][1] \notin assumed
          BY <1>1, <4>1, AssumedTogether
        <4> QED BY <1>1, <3>2, <4>1, <4>2 DEF IndexInv, MemoInv, Queries, WithServer
      <3> QED BY <3>1, <3>2 DEF Builds
    <2>2. ~Usable(u)'
      <3>1. u[1] \notin assumed'
        <4>1. PICK p \in Plans : arms = p.arms /\ assumed = p.assumed
          BY <1>1 DEF TypeOK
        <4>2. \A a \in Arms : a \in p.assumed <=> Owner[a] \in p.assumed
          BY ArmSetupAssumption
        <4> QED BY <1>1, <1>2, <4>1, <4>2 DEF TreeOf, Cells
      <3>2. index'[u] = "partial"
        BY <1>1, <1>2 DEF TypeOK
      <3> QED BY <3>1, <3>2 DEF Usable, Accepted
    <2>3. {t \in Trees \ Lost : Usable(t)}' = {t \in Trees \ Lost : Usable(t)} \ {u}
      BY <1>3, <1>4, <2>2 DEF SameTree
    <2>4. {t \in Trees \ Lost : t[1] \in stamp[t]}' = {t \in Trees \ Lost : t[1] \in stamp[t]}
      BY <1>1, <1>3
    <2>5. {t \in Trees \ Lost : \E x \in Threads : Builds(x, t)}' =
            {t \in Trees \ Lost : \E x \in Threads : Builds(x, t)} \cup {u}
      BY <1>3, <1>5, <1>6, <1>8 DEF SameThread, SameUse
    <2>6. [t \in Trees |-> {x \in Threads : t \notin Lost /\ Queries(x, t)}]' =
            [t \in Trees |-> {x \in Threads : t \notin Lost /\ Queries(x, t)}]
      BY <1>3, <1>5, <1>6 DEF SameThread, SameUse
    <2>7. I!Unused(u)
      BY <1>1, <1>2, <1>8, <1>9, <2>1 DEF I!Unused
    <2> QED BY <1>3, <2>3, <2>4, <2>5, <2>6, <2>7 DEF I!StartBuild
  <1> QED BY <1>7, <1>8

\* ensure_arm_index: what a build leaves is usable or it is not.
LEMMA BuildEnds ==
  ASSUME IndexInv, NEW th \in Threads, NEW result \in BuildResults, EndBuild(th, result)
  PROVE  \E t \in Trees : I!FinishBuild(t) \/ I!Lose
  <1>1. /\ TypeOK /\ pc[th] = "building" /\ pc'[th] \notin {"building", "running"}
        /\ UNCHANGED <<assumed, head, stamp>>
        /\ disturbed' \in {disturbed, disturbed \cup {TreeOf(cell[th])}}
        /\ index' = [index EXCEPT ![TreeOf(cell[th])] = result]
    BY DEF EndBuild, Fruitless, Answered, EndCell, Goto, IndexInv, MemoInv, TypeOK, plan
  <1>2. PICK u \in Trees : u = TreeOf(cell[th])
    BY <1>1, BuilderAlone
  <1>3. Lost' \in {Lost, Lost \cup {u}}
    BY <1>1, <1>2 DEF Lost, Settled
  <1>4. \A t \in Trees : t # u => SameTree(t)
    BY <1>1, <1>2 DEF SameTree, Usable, TypeOK
  <1>5. \A other \in Threads : other # th => SameThread(other)
    BY OutsideSame, OthersSame DEF ThreadStep
  <1>6. /\ \A t \in Trees : ~Queries(th, t) /\ ~Queries(th, t)' /\ ~Builds(th, t)'
        /\ \A t \in Trees : Builds(th, t) <=> t = u
    BY <1>1, <1>2 DEF Queries, Builds, WithServer
  <1>7. \A other \in Threads : \A t \in Trees : Builds(other, t) => other = th
    BY <1>1, BuilderAlone DEF Builds
  <1>8. CASE u \in Lost'
    BY <1>3, <1>4, <1>5, <1>6, <1>8, Unseen DEF SameThread, SameUse
  <1>9. CASE u \notin Lost'
    <2>6. Lost' = Lost
      BY <1>3, <1>9
    <2>1. {t \in Trees \ Lost : Usable(t)}' \in
            {{t \in Trees \ Lost : Usable(t)} \cup {u}, {t \in Trees \ Lost : Usable(t)} \ {u}}
      <3>1. CASE Usable(u)'
        <4>1. {t \in Trees \ Lost : Usable(t)}' = {t \in Trees \ Lost : Usable(t)} \cup {u}
          BY <2>6, <1>4, <1>9, <3>1 DEF SameTree
        <4> QED BY <4>1
      <3>2. CASE ~Usable(u)'
        <4>1. {t \in Trees \ Lost : Usable(t)}' = {t \in Trees \ Lost : Usable(t)} \ {u}
          BY <2>6, <1>4, <1>9, <3>2 DEF SameTree
        <4> QED BY <4>1
      <3> QED BY <3>1, <3>2
    <2>2. {t \in Trees \ Lost : t[1] \in stamp[t]}' = {t \in Trees \ Lost : t[1] \in stamp[t]}
      BY <1>1, <2>6
    <2>3. {t \in Trees \ Lost : \E x \in Threads : Builds(x, t)}' =
            {t \in Trees \ Lost : \E x \in Threads : Builds(x, t)} \ {u}
      BY <2>6, <1>5, <1>6, <1>7 DEF SameThread, SameUse
    <2>4. [t \in Trees |-> {x \in Threads : t \notin Lost /\ Queries(x, t)}]' =
            [t \in Trees |-> {x \in Threads : t \notin Lost /\ Queries(x, t)}]
      BY <2>6, <1>5, <1>6 DEF SameThread, SameUse
    <2>5. u \in {t \in Trees \ Lost : \E x \in Threads : Builds(x, t)}
      BY <1>6, <1>9, <2>6
    <2> QED BY <2>6, <2>1, <2>2, <2>3, <2>4, <2>5 DEF I!FinishBuild
  <1> QED BY <1>2, <1>8, <1>9

\* run_claude: an agent with a server finds a usable index that nobody builds.
LEMMA AgentBegins ==
  ASSUME IndexInv, NEW th \in Threads, LaunchAgent(th)
  PROVE  \E t \in Trees : I!Admit(th, t) \/ I!Lose
  <1>1. /\ TypeOK /\ MemoInv /\ pc[th] = "launch" /\ cell[th] \in Cells
        /\ pc'[th] = "running" /\ UNCHANGED cell
        /\ UNCHANGED <<assumed, head, disturbed, stamp, index>>
        /\ (cell[th][1] \in Static => cell[th][1] \in Indexless)
    BY TreeKinds DEF LaunchAgent, Goto, IndexInv, MemoInv, TypeOK, plan, trees, mishaps
  <1>2. PICK u \in Trees : u = TreeOf(cell[th])
    BY <1>1, TreeTyped
  <1>3. Lost' = Lost
    BY <1>1 DEF Lost, Settled
  <1>4. \A t \in Trees : SameTree(t)
    BY <1>1 DEF SameTree, Usable
  <1>5. \A other \in Threads : other # th => SameThread(other)
    BY OutsideSame, OthersSame DEF ThreadStep
  <1>6. \A t \in Trees : ~Builds(th, t) /\ ~Builds(th, t)' /\ ~Queries(th, t)
    BY <1>1 DEF Queries, Builds, WithServer
  <1>7. \A t \in Trees : Queries(th, t)' <=> cell[th][1] \notin Control \cup Indexless /\ t = u
    BY <1>1, <1>2 DEF Queries, WithServer, TreeOf
  <1>8. CASE u \in Lost \/ cell[th][1] \in Control \cup Indexless
    BY <1>3, <1>4, <1>5, <1>6, <1>7, <1>8, Unseen DEF SameThread, SameUse
  <1>9. CASE u \notin Lost /\ cell[th][1] \notin Control \cup Indexless
    <2>1. cell[th][1] \in assumed \/ memo[u] = "ok"
      BY <1>1, <1>2, <1>9 DEF MemoInv
    <2>2. cell[th][1] \in assumed <=> u[1] \in assumed
      <3>1. PICK p \in Plans : arms = p.arms /\ assumed = p.assumed
        BY <1>1 DEF TypeOK
      <3>2. \A a \in Arms : a \in p.assumed <=> Owner[a] \in p.assumed
        BY ArmSetupAssumption
      <3> QED BY <1>1, <1>2, <3>1, <3>2 DEF TreeOf, Cells
    <2>3. Settled(u) /\ u[1] \notin Indexless
      BY <1>1, <1>2, <1>9, TreeKinds DEF Lost
    <2>4. Usable(u)
      BY <1>1, <1>2, <1>9, <2>1, <2>2, <2>3 DEF IndexInv, Usable
    <2>5. \A x \in Threads : ~Builds(x, u)
      <3> SUFFICES ASSUME NEW x \in Threads, Builds(x, u) PROVE FALSE
        OBVIOUS
      <3>1. /\ cell[x] \in Cells /\ TreeOf(cell[x]) = TreeOf(cell[th])
            /\ cell[x][1] \notin assumed /\ memo[u] = "none"
        BY <1>1, <1>2 DEF Builds, TypeOK, MemoInv
      <3> QED BY <1>1, <2>1, <3>1, AssumedTogether
    <2>6. /\ {t \in Trees \ Lost : Usable(t)}' = {t \in Trees \ Lost : Usable(t)}
          /\ {t \in Trees \ Lost : t[1] \in stamp[t]}' = {t \in Trees \ Lost : t[1] \in stamp[t]}
      BY <1>3, <1>4 DEF SameTree
    <2>7. {t \in Trees \ Lost : \E x \in Threads : Builds(x, t)}' =
            {t \in Trees \ Lost : \E x \in Threads : Builds(x, t)}
      BY <1>3, <1>5, <1>6 DEF SameThread, SameUse
    <2>8. [t \in Trees |-> {x \in Threads : t \notin Lost /\ Queries(x, t)}]' =
            [[t \in Trees |-> {x \in Threads : t \notin Lost /\ Queries(x, t)}]
               EXCEPT ![u] = @ \cup {th}]
      <3>1. \A t \in Trees :
              {x \in Threads : t \notin Lost /\ Queries(x, t)}' =
                IF t = u THEN {x \in Threads : t \notin Lost /\ Queries(x, t)} \cup {th}
                         ELSE {x \in Threads : t \notin Lost /\ Queries(x, t)}
        BY <1>3, <1>5, <1>6, <1>7, <1>9 DEF SameThread, SameUse
      <3> QED BY <3>1
    <2> QED BY <1>3, <1>9, <2>4, <2>5, <2>6, <2>7, <2>8 DEF I!Admit
  <1> QED BY <1>2, <1>8, <1>9

LEMMA TreeIndexStep == IndexInv /\ [Next]_vars => [I!Next]_(I!vars)
  <1> SUFFICES ASSUME IndexInv, [Next]_vars PROVE I!Next \/ UNCHANGED (I!vars)
    OBVIOUS
  <1>1. CASE UNCHANGED vars
    BY <1>1 DEF I!vars, vars, plan, trees, mishaps, Lost, Settled, Usable, Builds, Queries,
                WithServer
  <1>2. ASSUME NEW th \in Threads, NEW c \in Cells, Begin(th, c) PROVE I!Next
    <2>1. /\ UNCHANGED <<assumed, head, disturbed, index, stamp>> /\ Outside(th)
          /\ \A other \in Threads : other # th =>
               pc'[other] = pc[other] /\ cell'[other] = cell[other]
      BY <1>2 DEF Begin, Outside, Goto, IndexInv, MemoInv, TypeOK, plan, trees, mishaps
    <2>2. Lost' = Lost /\ \A t \in Trees : SameTree(t)
      BY <2>1 DEF Lost, Settled, SameTree, Usable
    <2>3. \A other \in Threads : SameThread(other)
      BY <2>1, OutsideSame
    <2> QED BY <2>2, <2>3, Unseen DEF SameThread, I!Next
  <1>3. ASSUME NEW th \in Threads, BuildRaises(th) \/ AgentEnds(th) PROVE I!Next
    <2>1. /\ UNCHANGED <<assumed, head, index, stamp>>
          /\ disturbed \subseteq disturbed' /\ pc'[th] = "idle"
      BY <1>3 DEF BuildRaises, AgentEnds, Fruitless, EndCell, Goto, IndexInv, MemoInv, TypeOK,
                  plan, trees, mishaps
    <2>2. \A other \in Threads : other # th => SameThread(other)
      BY <1>3, OutsideSame, OthersSame DEF ThreadStep
    <2>3. \A t \in Trees : ~Builds(th, t)' /\ ~Queries(th, t)'
      BY <2>1 DEF Builds, Queries, WithServer
    <2>4. Lost \subseteq Lost' /\ \A t \in Trees : SameTree(t)
      BY <2>1 DEF Lost, Settled, SameTree, Usable
    <2> QED BY <2>2, <2>3, <2>4, Losing DEF SameThread, SameUse, I!Next
  <1>4. ASSUME NEW th \in Threads, ThreadStep(th) PROVE I!Next
    <2>1. CASE PrepareTree(th) \/ PrepareFails(th) \/ SourceUnread(th) \/ TreeUnread(th)
      BY <2>1, PrepareUnseen DEF I!Next
    <2>2. CASE \/ MountStatic(th) \/ IndexRemembered(th) \/ Assume(th) \/ IndexByDesign(th)
               \/ IndexStamped(th) \/ TruncateConfig(th) \/ WriteConfig(th) \/ Probe(th)
               \/ ProbeFails(th) \/ ScrubTree(th) \/ RemoveLeak(th)
      BY <2>2, InnerUnseen DEF I!Next
    <2>3. CASE StartBuild(th)
      BY <2>3, BuildBegins DEF I!Next
    <2>4. ASSUME NEW result \in BuildResults, EndBuild(th, result) PROVE I!Next
      BY <2>4, BuildEnds DEF I!Next
    <2>5. CASE LaunchAgent(th)
      BY <2>5, AgentBegins DEF I!Next
    <2> QED BY <1>3, <1>4, <2>1, <2>2, <2>3, <2>4, <2>5 DEF ThreadStep
  <1>5. ASSUME NEW r \in Repos, MoveHead(r) PROVE I!Next
    <2>1. /\ \A t \in Trees : Settled(t)' => Settled(t)
          /\ UNCHANGED <<assumed, index, stamp, pc, cell>>
      BY <1>5 DEF MoveHead, Settled, Trees, IndexInv, MemoInv, TypeOK, plan, trees, mishaps
    <2>2. Lost \subseteq Lost' /\ \A t \in Trees : SameTree(t)
      BY <2>1 DEF Lost, SameTree, Usable
    <2>3. \A other \in Threads : SameThread(other)
      BY <2>1, OutsideSame
    <2> QED BY <2>2, <2>3, Unseen DEF SameThread, I!Next
  <1>6. CASE Restart
    <2>1. /\ UNCHANGED <<assumed, head, index, stamp>> /\ disturbed \subseteq disturbed'
          /\ \A th \in Threads : pc'[th] = "idle"
      BY <1>6 DEF Restart, Fruitless, plan, trees
    <2>2. \A th \in Threads : \A t \in Trees : ~Builds(th, t)' /\ ~Queries(th, t)'
      BY <2>1 DEF Builds, Queries, WithServer
    <2>3. Lost \subseteq Lost' /\ \A t \in Trees : SameTree(t)
      BY <2>1 DEF Lost, Settled, SameTree, Usable
    <2> QED BY <2>2, <2>3, Losing DEF I!Next
  <1>7. ASSUME NEW th \in Threads, GitHangs(th) \/ ProbeHangs(th) PROVE I!Next
    <2>1. /\ UNCHANGED <<assumed, head, disturbed, index, stamp>> /\ Outside(th)
          /\ \A other \in Threads : other # th =>
               pc'[other] = pc[other] /\ cell'[other] = cell[other]
      BY <1>7 DEF GitHangs, ProbeHangs, Preparing, Outside, Goto, IndexInv, MemoInv, TypeOK,
                  plan, trees
    <2>2. Lost' = Lost /\ \A t \in Trees : SameTree(t)
      BY <2>1 DEF Lost, Settled, SameTree, Usable
    <2>3. \A other \in Threads : SameThread(other)
      BY <2>1, OutsideSame
    <2> QED BY <2>2, <2>3, Unseen DEF SameThread, I!Next
  <1> QED BY <1>1, <1>2, <1>4, <1>5, <1>6, <1>7 DEF Next

\* The threads of a run implement the protocol of a tree's index: they build only
\* what is neither stamped under its owner's name nor queried, stamped indexes stay usable, and an agent
\* is given a usable one that nobody builds (ensure_arm_index, run_swe_qa_task).
THEOREM TreeIndexImplemented == Spec => ImplementsTreeIndex
  <1> QED BY IndexInit, IndexStep, TreeIndexInit, TreeIndexStep, PTL
          DEF Spec, ImplementsTreeIndex, I!Spec

-----------------------------------------------------------------------------
(* A task is finite                                                          *)

\* How far a thread is from the end of its task; one that hangs comes no nearer.
Way == [prepare |-> 9, index |-> 8, building |-> 7, config |-> 6, writing |-> 5, probe |-> 4,
        scrub |-> 4, unlink |-> 3, launch |-> 2, running |-> 1, hung |-> 1, idle |-> 0]
Remaining(th) == Way[pc[th]]

\* Only with a new task does a thread have further to go, each of its steps brings
\* it nearer to the end of the one it has, and one that hangs does not go on in it.
Proceed ==
  \A th \in Threads :
    /\ Remaining(th)' > Remaining(th) => \E c \in Cells : Begin(th, c)
    /\ ThreadStep(th) => Remaining(th)' < Remaining(th)
    /\ pc[th] = "hung" => pc'[th] = "hung" \/ Restart
TasksProceed == [][Proceed]_vars

LEMMA StepProceeds ==
  ASSUME TypeOK, NEW th \in Threads, ThreadStep(th)
  PROVE  /\ Remaining(th)' \in Nat /\ Remaining(th)' < Remaining(th)
         /\ \A other \in Threads \ {th} : pc'[other] = pc[other]
  <1> USE DEF TypeOK, Steps, Remaining, Way, Goto, EndCell
  <1> DEFINE Nearer == /\ Remaining(th)' \in Nat /\ Remaining(th)' < Remaining(th)
                       /\ \A other \in Threads \ {th} : pc'[other] = pc[other]
  <1>1. CASE PrepareTree(th) \/ PrepareFails(th) \/ SourceUnread(th) \/ TreeUnread(th) \/ MountStatic(th)
    BY <1>1 DEF PrepareTree, PrepareFails, SourceUnread, TreeUnread, MountStatic, Preparing,
                Prepared, Unread
  <1>2. CASE IndexRemembered(th) \/ Assume(th) \/ IndexByDesign(th) \/ IndexStamped(th)
    BY <1>2 DEF IndexRemembered, Assume, IndexByDesign, IndexStamped, Asked, Answered
  <1>3. CASE StartBuild(th) \/ BuildRaises(th)
    BY <1>3 DEF StartBuild, BuildRaises, Asked
  <1>4. ASSUME NEW result \in BuildResults, EndBuild(th, result) PROVE Nearer
    BY <1>4 DEF EndBuild, Answered
  <1>5. CASE TruncateConfig(th) \/ WriteConfig(th) \/ Probe(th) \/ ProbeFails(th)
    BY <1>5 DEF TruncateConfig, WriteConfig, Probe, ProbeFails
  <1>6. CASE ScrubTree(th) \/ RemoveLeak(th)
    BY <1>6 DEF ScrubTree, RemoveLeak
  <1>7. CASE LaunchAgent(th) \/ AgentEnds(th)
    BY <1>7 DEF LaunchAgent, AgentEnds
  <1> HIDE DEF TypeOK, Remaining
  <1> QED BY <1>1, <1>2, <1>3, <1>4, <1>5, <1>6, <1>7 DEF ThreadStep

\* A thread that hangs takes no step.
LEMMA HungStays ==
  ASSUME NEW th \in Threads, pc[th] = "hung"
  PROVE  ~ThreadStep(th) /\ ~GitHangs(th) /\ ~ProbeHangs(th) /\ \A c \in Cells : ~Begin(th, c)
  BY DEF ThreadStep, PrepareTree, PrepareFails, MountStatic, SourceUnread, TreeUnread, Unread,
         Preparing, IndexRemembered, Assume, IndexByDesign, IndexStamped, Asked, StartBuild,
         BuildRaises, EndBuild, TruncateConfig, WriteConfig, Probe, ProbeFails, ScrubTree,
         RemoveLeak, LaunchAgent, AgentEnds, GitHangs, ProbeHangs, Begin

LEMMA ProceedStep == TypeOK /\ [Next]_vars => [Proceed]_vars
  <1> SUFFICES ASSUME TypeOK, Next, NEW th \in Threads
               PROVE  /\ Remaining(th)' > Remaining(th) => \E c \in Cells : Begin(th, c)
                      /\ ThreadStep(th) => Remaining(th)' < Remaining(th)
                      /\ pc[th] = "hung" => pc'[th] = "hung" \/ Restart
    BY DEF Proceed
  <1>1. Remaining(th) \in Nat
    BY DEF TypeOK, Steps, Remaining, Way
  <1>2. ThreadStep(th) => Remaining(th)' < Remaining(th)
    BY StepProceeds
  <1>3. pc'[th] = pc[th] => Remaining(th)' = Remaining(th)
    BY DEF Remaining
  <1>4. ASSUME NEW other \in Threads, ThreadStep(other)
        PROVE  ~(Remaining(th)' > Remaining(th))
    <2>1. \/ Remaining(th)' \in Nat /\ Remaining(th)' < Remaining(th)
          \/ Remaining(th)' = Remaining(th)
      BY <1>3, <1>4, StepProceeds
    <2> QED BY <1>1, <2>1
  <1>5. ASSUME NEW other \in Threads, other # th,
               GitHangs(other) \/ ProbeHangs(other) \/ \E c \in Cells : Begin(other, c)
        PROVE  pc'[th] = pc[th]
    BY <1>5 DEF Begin, GitHangs, ProbeHangs, Goto, TypeOK
  <1>6. ASSUME NEW r \in Repos, MoveHead(r) PROVE pc'[th] = pc[th]
    BY <1>6 DEF MoveHead
  <1>7. Restart => ~(Remaining(th)' > Remaining(th))
    <2>1. Restart => Remaining(th)' = 0
      BY DEF Restart, Remaining, Way
    <2> QED BY <1>1, <2>1
  <1>8. GitHangs(th) \/ ProbeHangs(th) => ~(Remaining(th)' > Remaining(th))
    <2>1. GitHangs(th) \/ ProbeHangs(th) => Remaining(th)' = 1 /\ Remaining(th) \in {4, 9}
      BY DEF GitHangs, ProbeHangs, Preparing, Goto, TypeOK, Remaining, Way
    <2> QED BY <2>1
  <1>9. pc[th] = "hung" => pc'[th] = "hung" \/ Restart
    <2> SUFFICES ASSUME pc[th] = "hung" PROVE pc'[th] = pc[th] \/ Restart
      OBVIOUS
    <2>1. ASSUME NEW other \in Threads, ThreadStep(other), other # th PROVE pc'[th] = pc[th]
      BY <2>1, StepProceeds
    <2> QED BY <1>5, <1>6, <2>1, HungStays DEF Next
  <1>10. ~(Remaining(th)' > Remaining(th)) \/ \E c \in Cells : Begin(th, c)
    <2>1. pc'[th] = pc[th] => ~(Remaining(th)' > Remaining(th))
      BY <1>1, <1>3
    <2> QED BY <2>1, <1>4, <1>5, <1>6, <1>7, <1>8 DEF Next
  <1> QED BY <1>2, <1>9, <1>10

\* A task takes at most nine steps and waits for no task that waits: whoever holds
\* the setup lock is building, which needs nobody else, or hangs in git, and only a
\* restart ends that (run_swe_qa_task, prepare_arm_tree, ensure_arm_index).
THEOREM TasksAreFinite ==
  Spec => /\ [](lock # NoThread => pc[lock] \in {"building", "hung"})
          /\ [](\A th \in Threads : Remaining(th) \in 0..9)
          /\ TasksProceed
  <1>1. MemoInv => TypeOK
    BY DEF MemoInv
  <1>2. TypeOK => (lock # NoThread => pc[lock] \in {"building", "hung"})
    BY DEF TypeOK
  <1>3. TypeOK => \A th \in Threads : Remaining(th) \in 0..9
    BY DEF TypeOK, Steps, Remaining, Way
  <1> QED BY <1>1, <1>2, <1>3, ProceedStep, MemoInit, MemoStep, PTL DEF Spec, TasksProceed

=============================================================================
