--------------------------- MODULE CellRunProofs ---------------------------
(* Proofs about CellRun, for every number of cells, retries and tries and   *)
(* every harness and channel to a judge.                                    *)
EXTENDS CellRun, TLAPS

LEMMA TypedStep == TypeOK /\ [Next]_vars => TypeOK'
  <1> SUFFICES ASSUME TypeOK, [Next]_vars PROVE TypeOK'
    OBVIOUS
  <1> USE CellAssumption
      DEF TypeOK, HomeSteps, SetupSteps, Steps, Errors, Harnesses, Channels, Links, Homes,
          configured, disk, shared, judging, row, history, Preparing, AfterHome, Goto,
          AgentRuns, FillRow
  <1>1. CASE UNCHANGED vars
    BY <1>1 DEF vars
  <1>2. ASSUME NEW c \in Cells, Step(c) PROVE TypeOK'
    <2>1. CASE PrepareHome(c)
      <3>1. CASE InspectLink(c)
        BY <3>1 DEF InspectLink, HomeReady, Linked
      <3>2. CASE Relink(c)
        BY <3>2 DEF Relink, Missing
      <3>3. CASE Unlink(c)
        BY <3>3 DEF Unlink, Missing, SetLink
      <3>4. CASE MakeLink(c)
        BY <3>4 DEF MakeLink, HomeReady, Missing, SetLink
      <3>5. CASE CopyLogin(c)
        BY <3>5 DEF CopyLogin, HomeReady, Linked, SetLink
      <3>6. CASE FindHooks(c)
        BY <3>6 DEF FindHooks
      <3>7. CASE RemoveHooks(c)
        BY <3>7 DEF RemoveHooks
      <3>8. CASE OpenConfig(c)
        BY <3>8 DEF OpenConfig
      <3>9. CASE WriteConfig(c)
        BY <3>9 DEF WriteConfig
      <3> HIDE DEF TypeOK
      <3> QED BY <2>1, <3>1, <3>2, <3>3, <3>4, <3>5, <3>6, <3>7, <3>8, <3>9 DEF PrepareHome
    <2>2. CASE RunAgent(c)
      <3>1. CASE LaunchAgent(c)
        BY <3>1 DEF LaunchAgent, Launch, FindsLogin, Credential, Local
      <3>2. CASE LooksAnonymous(c)
        BY <3>2 DEF LooksAnonymous, Spend, Return
      <3>3. CASE TimesOut(c)
        BY <3>3 DEF TimesOut, Spend, Return
      <3>4. CASE Breaks(c)
        BY <3>4 DEF Breaks, Spend, Return
      <3>5. CASE Exhausted(c)
        BY <3>5 DEF Exhausted, Return
      <3>6. ASSUME NEW text \in BOOLEAN, Answers(c, text) PROVE TypeOK'
        BY <3>6 DEF Answers, Spend, Return
      <3>7. ASSUME NEW dollars \in {0, 1}, Limited(c, dollars) PROVE TypeOK'
        BY <3>7 DEF Limited, Spend
      <3>8. ASSUME NEW dollars \in {0, 1}, Fails(c, dollars) PROVE TypeOK'
        BY <3>8 DEF Fails, Spend, Return
      <3> HIDE DEF TypeOK
      <3> QED BY <2>2, <3>1, <3>2, <3>3, <3>4, <3>5, <3>6, <3>7, <3>8 DEF RunAgent
    <2>3. CASE RunOther(c)
      <3>1. ASSUME NEW dollars \in {0, 1}, CodexAnswers(c, dollars) PROVE TypeOK'
        BY <3>1 DEF CodexAnswers, Spend, Return
      <3>2. ASSUME NEW dollars \in {0, 1}, CodexSaysNothing(c, dollars) PROVE TypeOK'
        BY <3>2 DEF CodexSaysNothing, Spend, Return
      <3>3. CASE CannotStart(c)
        BY <3>3 DEF CannotStart, Spend
      <3>4. ASSUME NEW text \in BOOLEAN, NEW calls \in BOOLEAN, LocalAnswers(c, text, calls)
            PROVE TypeOK'
        BY <3>4 DEF LocalAnswers
      <3>5. ASSUME NEW calls \in BOOLEAN, FallsSilent(c, calls) PROVE TypeOK'
        BY <3>5 DEF FallsSilent
      <3>6. ASSUME NEW calls \in BOOLEAN, Recovered(c, calls) PROVE TypeOK'
        BY <3>6 DEF Recovered
      <3>7. CASE StaysSilent(c)
        BY <3>7 DEF StaysSilent
      <3>8. ASSUME NEW err \in {"exit", "timeout", "other"}, LocalFails(c, err) PROVE TypeOK'
        BY <3>8 DEF LocalFails, Return
      <3> HIDE DEF TypeOK
      <3> QED BY <2>3, <3>1, <3>2, <3>3, <3>4, <3>5, <3>6, <3>7, <3>8 DEF RunOther
    <2>4. CASE JudgeRow(c)
      <3>1. CASE Record(c)
        BY <3>1 DEF Record
      <3>2. CASE JudgeRefused(c)
        BY <3>2 DEF JudgeRefused
      <3>3. CASE StartJudge(c)
        BY <3>3 DEF StartJudge
      <3>4. CASE SdkFails(c)
        BY <3>4 DEF SdkFails
      <3>5. ASSUME NEW v \in {"scores", "error"}, AskSdk(c, v) PROVE TypeOK'
        BY <3>5 DEF AskSdk, Verdict
      <3>6. ASSUME NEW v \in {"scores", "error"}, Judged(c, v) PROVE TypeOK'
        BY <3>6 DEF Judged, Ask, Launch, FindsLogin, Credential, Local, Verdict
      <3>7. CASE JudgeLimited(c)
        BY <3>7 DEF JudgeLimited, Retried, TryAgain, Ask, Launch, FindsLogin, Credential, Local
      <3>8. CASE EmptyVerdict(c)
        BY <3>8 DEF EmptyVerdict, Retried, TryAgain, Ask, Launch, FindsLogin, Credential, Local
      <3>9. CASE TemperatureRefused(c)
        BY <3>9 DEF TemperatureRefused, Retried, TryAgain, Ask, Launch, FindsLogin, Credential, Local
      <3>10. CASE JudgeExhausted(c)
        BY <3>10 DEF JudgeExhausted, Verdict
      <3> HIDE DEF TypeOK
      <3> QED BY <2>4, <3>1, <3>2, <3>3, <3>4, <3>5, <3>6, <3>7, <3>8, <3>9, <3>10 DEF JudgeRow
    <2> QED BY <1>2, <2>1, <2>2, <2>3, <2>4 DEF Step
  <1>3. ASSUME NEW h \in Homes, Refresh(h) PROVE TypeOK'
    <2>1. refreshes' \in 0..MaxRefresh /\ links' \in [Homes -> Links]
      BY <1>3 DEF Refresh
    <2>2. calm' \in BOOLEAN
      BY <1>3, Zenon DEF Refresh
    <2>3. UNCHANGED <<configured, hooks, cut, pc, stage, home, login, attempt, judging, row, history>>
      BY <1>3 DEF Refresh
    <2> QED BY <2>1, <2>2, <2>3
  <1> QED BY <1>1, <1>2, <1>3 DEF Next


LEMMA CellStep == CellInv /\ [Next]_vars => CellInv'
  <1> SUFFICES ASSUME CellInv, [Next]_vars PROVE CellInv'
    OBVIOUS
  <1>0. TypeOK'
    BY TypedStep DEF CellInv
  <1> USE <1>0, CellAssumption
      DEF CellInv, TypeOK, HomeInv, HomeUndisturbed, Control, Rows, Running, ToJudge,
          RowsAuthentic, CostHonest, Uncosted, RetriesExact, JudgedIfAnswered,
          Returned, HomeSteps, SetupSteps, Steps, Errors, Harnesses, Channels, Links, Homes,
          configured, disk, shared, judging, row, history, Preparing, AfterHome, Goto,
          AgentRuns, FillRow, ConfigInv, OwnConfiguration, Used
  <1>1. CASE UNCHANGED vars
    BY <1>1 DEF vars
  <1>2. ASSUME NEW c \in Cells, Step(c) PROVE CellInv'
    <2>1. CASE PrepareHome(c)
      <3>1. CASE InspectLink(c)
        BY <3>1 DEF InspectLink, HomeReady, Linked
      <3>2. CASE Relink(c)
        BY <3>2 DEF Relink, Missing
      <3>3. CASE Unlink(c)
        BY <3>3 DEF Unlink, Missing, SetLink
      <3>4. CASE MakeLink(c)
        BY <3>4 DEF MakeLink, HomeReady, Missing, SetLink
      <3>5. CASE CopyLogin(c)
        BY <3>5 DEF CopyLogin, HomeReady, Linked, SetLink
      <3>6. CASE FindHooks(c)
        BY <3>6 DEF FindHooks
      <3>7. CASE RemoveHooks(c)
        BY <3>7 DEF RemoveHooks
      <3>8. CASE OpenConfig(c)
        BY <3>8 DEF OpenConfig
      <3>9. CASE WriteConfig(c)
        BY <3>9 DEF WriteConfig
      <3> HIDE DEF CellInv
      <3> QED BY <2>1, <3>1, <3>2, <3>3, <3>4, <3>5, <3>6, <3>7, <3>8, <3>9 DEF PrepareHome
    <2>2. CASE RunAgent(c)
      <3>1. CASE LaunchAgent(c)
        BY <3>1 DEF LaunchAgent, Launch, FindsLogin, Credential, Local
      <3>2. CASE LooksAnonymous(c)
        BY <3>2 DEF LooksAnonymous, Spend, Return
      <3>3. CASE TimesOut(c)
        BY <3>3 DEF TimesOut, Spend, Return
      <3>4. CASE Breaks(c)
        BY <3>4 DEF Breaks, Spend, Return
      <3>5. CASE Exhausted(c)
        BY <3>5 DEF Exhausted, Return
      <3>6. ASSUME NEW text \in BOOLEAN, Answers(c, text) PROVE CellInv'
        BY <3>6 DEF Answers, Spend, Return
      <3>7. ASSUME NEW dollars \in {0, 1}, Limited(c, dollars) PROVE CellInv'
        <4>1. HomeInv' /\ HomeUndisturbed' /\ ConfigInv' /\ OwnConfiguration'
          BY <3>7 DEF Limited, Spend
        <4>2. ASSUME NEW d \in Cells PROVE Control(d)'
          BY <3>7 DEF Limited, Spend
        <4>3. ASSUME NEW d \in Cells PROVE Rows(d)'
          <5>1. CASE d = c
            BY <3>7, <5>1 DEF Limited, Spend
          <5>2. CASE d # c
            BY <3>7, <5>2 DEF Limited, Spend
          <5> QED BY <5>1, <5>2
        <4>4. RowsAuthentic' /\ CostHonest'
          BY <3>7 DEF Limited, Spend
        <4>5. RetriesExact' /\ JudgedIfAnswered'
          BY <3>7 DEF Limited, Spend
        <4> QED BY <4>1, <4>2, <4>3, <4>4, <4>5
      <3>8. ASSUME NEW dollars \in {0, 1}, Fails(c, dollars) PROVE CellInv'
        BY <3>8 DEF Fails, Spend, Return
      <3> HIDE DEF CellInv
      <3> QED BY <2>2, <3>1, <3>2, <3>3, <3>4, <3>5, <3>6, <3>7, <3>8 DEF RunAgent
    <2>3. CASE RunOther(c)
      <3>1. ASSUME NEW dollars \in {0, 1}, CodexAnswers(c, dollars) PROVE CellInv'
        BY <3>1 DEF CodexAnswers, Spend, Return
      <3>2. ASSUME NEW dollars \in {0, 1}, CodexSaysNothing(c, dollars) PROVE CellInv'
        BY <3>2 DEF CodexSaysNothing, Spend, Return
      <3>3. CASE CannotStart(c)
        BY <3>3 DEF CannotStart, Spend
      <3>4. ASSUME NEW text \in BOOLEAN, NEW calls \in BOOLEAN, LocalAnswers(c, text, calls)
            PROVE CellInv'
        BY <3>4 DEF LocalAnswers
      <3>5. ASSUME NEW calls \in BOOLEAN, FallsSilent(c, calls) PROVE CellInv'
        BY <3>5 DEF FallsSilent
      <3>6. ASSUME NEW calls \in BOOLEAN, Recovered(c, calls) PROVE CellInv'
        BY <3>6 DEF Recovered
      <3>7. CASE StaysSilent(c)
        BY <3>7 DEF StaysSilent
      <3>8. ASSUME NEW err \in {"exit", "timeout", "other"}, LocalFails(c, err) PROVE CellInv'
        BY <3>8 DEF LocalFails, Return
      <3> HIDE DEF CellInv
      <3> QED BY <2>3, <3>1, <3>2, <3>3, <3>4, <3>5, <3>6, <3>7, <3>8 DEF RunOther
    <2>4. CASE JudgeRow(c)
      <3>1. CASE Record(c)
        BY <3>1 DEF Record
      <3>2. CASE JudgeRefused(c)
        BY <3>2 DEF JudgeRefused
      <3>3. CASE StartJudge(c)
        BY <3>3 DEF StartJudge
      <3>4. CASE SdkFails(c)
        BY <3>4 DEF SdkFails
      <3>5. ASSUME NEW v \in {"scores", "error"}, AskSdk(c, v) PROVE CellInv'
        BY <3>5 DEF AskSdk, Verdict
      <3>6. ASSUME NEW v \in {"scores", "error"}, Judged(c, v) PROVE CellInv'
        BY <3>6 DEF Judged, Ask, Launch, FindsLogin, Credential, Local, Verdict
      <3>7. CASE JudgeLimited(c)
        BY <3>7 DEF JudgeLimited, Retried, TryAgain, Ask, Launch, FindsLogin, Credential, Local
      <3>8. CASE EmptyVerdict(c)
        BY <3>8 DEF EmptyVerdict, Retried, TryAgain, Ask, Launch, FindsLogin, Credential, Local
      <3>9. CASE TemperatureRefused(c)
        BY <3>9 DEF TemperatureRefused, Retried, TryAgain, Ask, Launch, FindsLogin, Credential, Local
      <3>10. CASE JudgeExhausted(c)
        BY <3>10 DEF JudgeExhausted, Verdict
      <3> HIDE DEF CellInv
      <3> QED BY <2>4, <3>1, <3>2, <3>3, <3>4, <3>5, <3>6, <3>7, <3>8, <3>9, <3>10 DEF JudgeRow
    <2> QED BY <1>2, <2>1, <2>2, <2>3, <2>4 DEF Step
  <1>3. ASSUME NEW h \in Homes, Refresh(h) PROVE CellInv'
    BY <1>3 DEF Refresh
  <1> HIDE DEF CellInv, Homes
  <1> QED BY <1>1, <1>2, <1>3 DEF Next


LEMMA InitInv == Init => CellInv
  <1> SUFFICES ASSUME Init PROVE CellInv
    OBVIOUS
  <1> USE CellAssumption DEF Init, All, HomeSteps, SetupSteps, Steps, Errors
  <1>0. /\ harness \in Harnesses /\ channel \in Channels
        /\ links \in [Homes -> Links] /\ hooks \in BOOLEAN
    <2>1. PICK s \in Setups : /\ harness = s.harness /\ channel = s.channel
                             /\ links = s.links /\ hooks = s.hooks
      OBVIOUS
    <2> QED BY <2>1
  <1>1. TypeOK
    <2>1. refreshes \in 0..MaxRefresh
      OBVIOUS
    <2>2. /\ login \in [Cells -> BOOLEAN] /\ temperature \in [Cells -> BOOLEAN]
          /\ answer \in [Cells -> BOOLEAN] /\ exercised \in [Cells -> BOOLEAN]
          /\ used \in [Cells -> BOOLEAN] /\ cut \in BOOLEAN /\ calm \in BOOLEAN
      BY Zenon
    <2>3. /\ pc \in [Cells -> Steps] /\ stage \in [Cells -> {"agent", "judge"}]
          /\ home \in [Cells -> {"unset", "bench", "operator"}]
          /\ attempt \in [Cells -> 0..MaxRetries] /\ tries \in [Cells -> 0..JudgeTries]
          /\ room \in [Cells -> 1..MaxRoom]
      OBVIOUS
    <2>4. /\ error \in [Cells -> Errors] /\ cost \in [Cells -> {0, 1}]
          /\ retries \in [Cells -> 0..MaxRetries]
          /\ verdict \in [Cells -> {"none", "scores", "error"}]
          /\ spent \in [Cells -> Nat] /\ last \in [Cells -> {0, 1}]
          /\ limited \in [Cells -> Nat]
          /\ \A c \in Cells : pc[c] = "agent" => attempt[c] < MaxRetries
      OBVIOUS
    <2> QED BY <1>0, <2>1, <2>2, <2>3, <2>4 DEF TypeOK
  <1>2. \A c \in Cells : error[c] = "none" /\ answer[c] = FALSE /\ cost[c] = 0
          /\ verdict[c] = "none" /\ spent[c] = 0 /\ last[c] = 0
          /\ exercised[c] = FALSE /\ used[c] = FALSE
          /\ pc[c] = "home" /\ stage[c] = "agent" /\ home[c] = "unset"
          /\ limited[c] = attempt[c]
    OBVIOUS
  <1>3. cut = FALSE /\ (calm => ~hooks /\ \A h \in Used : links[h] = "current")
    OBVIOUS
  <1>4. HomeInv /\ HomeUndisturbed
    BY <1>2, <1>3 DEF HomeInv, HomeUndisturbed
  <1>5. ConfigInv /\ OwnConfiguration
    BY <1>2, <1>3 DEF ConfigInv, OwnConfiguration
  <1>6. \A c \in Cells : Control(c) /\ Rows(c)
    BY <1>2 DEF Control, Rows, Running, ToJudge
  <1>7. RowsAuthentic /\ CostHonest /\ RetriesExact /\ JudgedIfAnswered
    BY <1>2 DEF RowsAuthentic, CostHonest, Uncosted, RetriesExact, JudgedIfAnswered, Returned
  <1> QED BY <1>1, <1>4, <1>5, <1>6, <1>7 DEF CellInv

LEMMA Invariant == Spec => []CellInv
  BY InitInv, CellStep, PTL DEF Spec

\* The state of every cell and of the shared home keeps its type: no more attempts,
\* tries or room than the code allows.
THEOREM CellTyped == Spec => []TypeOK
  BY Invariant, PTL DEF CellInv

\* Once current, the shared credentials links are never cut by a cell: until a
\* token is refreshed all agents run logged in and isolated (prepare_claude_home,
\* prepare_codex_home).
THEOREM HomeIsUndisturbed == Spec => []HomeUndisturbed
  BY Invariant, PTL DEF CellInv

\* However many cells prepare the Codex home together, none starts its agent over
\* a hooks.json, and a config file is incomplete only while it is being written.
THEOREM ConfigurationIsOwn == Spec => []OwnConfiguration
  BY Invariant, PTL DEF CellInv

\* A process that was not logged in never makes an answer or a score, whatever
\* the other cells do to the link.
THEOREM RowsAreAuthentic == Spec => []RowsAuthentic
  BY Invariant, PTL DEF CellInv

\* A row's cost never exceeds what its agent spent and is, of Claude Code, the last
\* process's own, error or not, except for timeouts and the like (run_claude_code).
THEOREM CostIsHonest == Spec => []CostHonest
  BY Invariant, PTL DEF CellInv

\* A row's retries count the rate limits its agent met, exactly.
THEOREM RetriesAreExact == Spec => []RetriesExact
  BY Invariant, PTL DEF CellInv

\* A recorded row has a verdict if and only if it has an answer and no error.
THEOREM AnswersAreJudged == Spec => []JudgedIfAnswered
  BY Invariant, PTL DEF CellInv

-----------------------------------------------------------------------------
(* A cell is finite                                                          *)

\* The parts of a cell, from its end: the judge's, the agent's attempts, the
\* files, and a home on the way to each of them.
Asking == JudgeTries + 1
Attempting == Asking + 8
Setting == Attempting + 3 * MaxRetries + 3
OnTheWay == [home |-> 5, relink |-> 4, unlink |-> 3, link |-> 2, copy |-> 1]
InFiles == [hooks |-> 9, remove |-> 8, configure |-> 7, configuring |-> 6]

\* What is left of a cell: of the homes on the way to the agent Codex has two,
\* its own the second.
Left(c) ==
  CASE pc[c] \in HomeSteps ->
         OnTheWay[pc[c]] + IF stage[c] = "judge" THEN Asking
                           ELSE IF Preparing(c) = "codex" THEN Setting ELSE Setting + 10
    [] pc[c] \in SetupSteps -> Setting + InFiles[pc[c]]
    [] pc[c] = "attempt" -> Attempting + 3 * (MaxRetries - attempt[c]) + 2
    [] pc[c] = "agent" -> Attempting + 3 * (MaxRetries - attempt[c]) + 1
    [] pc[c] = "recovering" -> Attempting
    [] pc[c] = "row" -> Asking + 7
    [] pc[c] = "asking" -> Asking + 6
    [] pc[c] = "judging" -> 1 + (JudgeTries - tries[c])
    [] OTHER -> 0

\* Left, case by case.
Measured(c) ==
  /\ Left(c) \in Nat
  /\ pc[c] \in HomeSteps =>
       /\ OnTheWay[pc[c]] \in 1..5
       /\ stage[c] = "judge" => Left(c) = OnTheWay[pc[c]] + Asking
       /\ stage[c] = "agent" /\ Preparing(c) = "codex" => Left(c) = OnTheWay[pc[c]] + Setting
       /\ stage[c] = "agent" /\ Preparing(c) = "claude" =>
            Left(c) = OnTheWay[pc[c]] + Setting + 10
  /\ pc[c] \in SetupSteps => Left(c) = Setting + InFiles[pc[c]]
  /\ pc[c] = "attempt" => Left(c) = Attempting + 3 * (MaxRetries - attempt[c]) + 2
  /\ pc[c] = "agent" => Left(c) = Attempting + 3 * (MaxRetries - attempt[c]) + 1
  /\ pc[c] = "recovering" => Left(c) = Attempting
  /\ pc[c] = "row" => Left(c) = Asking + 7
  /\ pc[c] = "asking" => Left(c) = Asking + 6
  /\ pc[c] = "judging" => Left(c) = 1 + (JudgeTries - tries[c])
  /\ pc[c] \in {"recorded", "raised", "not_started"} => Left(c) = 0

LEMMA LeftNow ==
  ASSUME NEW c \in Cells
  PROVE  CellInv => Measured(c)
  <1> SUFFICES ASSUME CellInv PROVE Measured(c)
    OBVIOUS
  <1> USE CellAssumption DEF HomeSteps, SetupSteps, Asking, Attempting, Setting, OnTheWay, InFiles
  <1>1. /\ attempt[c] \in 0..MaxRetries /\ tries[c] \in 0..JudgeTries
        /\ pc[c] \in Steps /\ stage[c] \in {"agent", "judge"}
    BY DEF CellInv, TypeOK
  <1>2. Preparing(c) \in {"claude", "codex"}
    BY DEF Preparing
  <1>3. CASE pc[c] \in HomeSteps
    BY <1>1, <1>2, <1>3 DEF Left, Measured
  <1>4. CASE pc[c] \in SetupSteps
    BY <1>1, <1>4 DEF Left, Measured
  <1>5. CASE pc[c] \in {"attempt", "agent", "recovering", "row", "asking", "judging"}
    BY <1>1, <1>5 DEF Left, Measured
  <1>6. CASE pc[c] \in {"recorded", "raised", "not_started"}
    BY <1>1, <1>6 DEF Left, Measured
  <1> QED BY <1>1, <1>3, <1>4, <1>5, <1>6 DEF Steps

LEMMA LeftThen ==
  ASSUME NEW c \in Cells
  PROVE  CellInv' => Measured(c)'
  BY LeftNow, PTL

\* A cell takes a step, and the others stand where they stood.
Shrinks(c) ==
  /\ Left(c)' < Left(c)
  /\ harness' = harness
  /\ \A d \in Cells \ {c} :
       /\ pc'[d] = pc[d] /\ stage'[d] = stage[d] /\ home'[d] = home[d]
       /\ attempt'[d] = attempt[d] /\ tries'[d] = tries[d]

LEMMA PrepareHomeShrinks ==
  ASSUME CellInv, CellInv', NEW c \in Cells, PrepareHome(c)
  PROVE  Shrinks(c)
  <1>0. /\ TypeOK /\ TypeOK' /\ Control(c)
        /\ Measured(c) /\ Measured(c)'
    BY LeftNow, LeftThen DEF CellInv
  <1> USE <1>0, CellAssumption
      DEF Shrinks, TypeOK, Control, ToJudge, Measured, HomeSteps, SetupSteps, Asking, Attempting,
          Setting, OnTheWay, InFiles, configured, disk, shared, judging, row, history,
          Preparing, AfterHome, Goto, AgentRuns, FillRow
  <1>1. CASE InspectLink(c)
    BY <1>1 DEF InspectLink, HomeReady, Linked
  <1>2. CASE Relink(c)
    BY <1>2 DEF Relink, Missing
  <1>3. CASE Unlink(c)
    BY <1>3 DEF Unlink, Missing, SetLink
  <1>4. CASE MakeLink(c)
    BY <1>4 DEF MakeLink, HomeReady, Missing, SetLink
  <1>5. CASE CopyLogin(c)
    BY <1>5 DEF CopyLogin, HomeReady, Linked, SetLink
  <1>6. CASE FindHooks(c)
    BY <1>6 DEF FindHooks
  <1>7. CASE RemoveHooks(c)
    BY <1>7 DEF RemoveHooks
  <1>8. CASE OpenConfig(c)
    BY <1>8 DEF OpenConfig
  <1>9. CASE WriteConfig(c)
    BY <1>9 DEF WriteConfig
  <1> HIDE DEF Shrinks
  <1> QED BY <1>1, <1>2, <1>3, <1>4, <1>5, <1>6, <1>7, <1>8, <1>9 DEF PrepareHome

LEMMA RunAgentShrinks ==
  ASSUME CellInv, CellInv', NEW c \in Cells, RunAgent(c)
  PROVE  Shrinks(c)
  <1>0. /\ TypeOK /\ TypeOK' /\ Control(c)
        /\ Measured(c) /\ Measured(c)'
    BY LeftNow, LeftThen DEF CellInv
  <1> USE <1>0, CellAssumption
      DEF Shrinks, TypeOK, Control, ToJudge, Measured, HomeSteps, SetupSteps, Asking, Attempting,
          Setting, OnTheWay, InFiles, configured, disk, shared, judging, row, history,
          Preparing, AfterHome, Goto, AgentRuns, FillRow
  <1>1. CASE LaunchAgent(c)
    BY <1>1 DEF LaunchAgent
  <1>2. CASE LooksAnonymous(c)
    BY <1>2 DEF LooksAnonymous, Return
  <1>3. CASE TimesOut(c)
    BY <1>3 DEF TimesOut, Return
  <1>4. CASE Breaks(c)
    BY <1>4 DEF Breaks, Return
  <1>5. CASE Exhausted(c)
    BY <1>5 DEF Exhausted, Return
  <1>6. ASSUME NEW text \in BOOLEAN, Answers(c, text) PROVE Shrinks(c)
    BY <1>6 DEF Answers, Return
  <1>7. ASSUME NEW dollars \in {0, 1}, Limited(c, dollars) PROVE Shrinks(c)
    BY <1>7 DEF Limited
  <1>8. ASSUME NEW dollars \in {0, 1}, Fails(c, dollars) PROVE Shrinks(c)
    BY <1>8 DEF Fails, Return
  <1> HIDE DEF Shrinks
  <1> QED BY <1>1, <1>2, <1>3, <1>4, <1>5, <1>6, <1>7, <1>8 DEF RunAgent

LEMMA RunOtherShrinks ==
  ASSUME CellInv, CellInv', NEW c \in Cells, RunOther(c)
  PROVE  Shrinks(c)
  <1>0. /\ TypeOK /\ TypeOK' /\ Control(c)
        /\ Measured(c) /\ Measured(c)'
    BY LeftNow, LeftThen DEF CellInv
  <1> USE <1>0, CellAssumption
      DEF Shrinks, TypeOK, Control, ToJudge, Measured, HomeSteps, SetupSteps, Asking, Attempting,
          Setting, OnTheWay, InFiles, configured, disk, shared, judging, row, history,
          Preparing, AfterHome, Goto, AgentRuns, FillRow
  <1>1. ASSUME NEW dollars \in {0, 1}, CodexAnswers(c, dollars) PROVE Shrinks(c)
    BY <1>1 DEF CodexAnswers, Return
  <1>2. ASSUME NEW dollars \in {0, 1}, CodexSaysNothing(c, dollars) PROVE Shrinks(c)
    BY <1>2 DEF CodexSaysNothing, Return
  <1>3. CASE CannotStart(c)
    BY <1>3 DEF CannotStart
  <1>4. ASSUME NEW text \in BOOLEAN, NEW calls \in BOOLEAN, LocalAnswers(c, text, calls)
        PROVE  Shrinks(c)
    BY <1>4 DEF LocalAnswers
  <1>5. ASSUME NEW calls \in BOOLEAN, FallsSilent(c, calls) PROVE Shrinks(c)
    BY <1>5 DEF FallsSilent
  <1>6. ASSUME NEW calls \in BOOLEAN, Recovered(c, calls) PROVE Shrinks(c)
    BY <1>6 DEF Recovered
  <1>7. CASE StaysSilent(c)
    BY <1>7 DEF StaysSilent
  <1>8. ASSUME NEW err \in {"exit", "timeout", "other"}, LocalFails(c, err) PROVE Shrinks(c)
    BY <1>8 DEF LocalFails, Return
  <1> HIDE DEF Shrinks
  <1> QED BY <1>1, <1>2, <1>3, <1>4, <1>5, <1>6, <1>7, <1>8 DEF RunOther

LEMMA JudgeRowShrinks ==
  ASSUME CellInv, CellInv', NEW c \in Cells, JudgeRow(c)
  PROVE  Shrinks(c)
  <1>0. /\ TypeOK /\ TypeOK' /\ Control(c)
        /\ Measured(c) /\ Measured(c)'
    BY LeftNow, LeftThen DEF CellInv
  <1> USE <1>0, CellAssumption
      DEF Shrinks, TypeOK, Control, ToJudge, Measured, HomeSteps, SetupSteps, Asking, Attempting,
          Setting, OnTheWay, InFiles, configured, disk, shared, judging, row, history,
          Preparing, AfterHome, Goto, AgentRuns, FillRow
  <1>1. CASE Record(c)
    BY <1>1 DEF Record
  <1>2. CASE JudgeRefused(c)
    BY <1>2 DEF JudgeRefused
  <1>3. CASE StartJudge(c)
    BY <1>3 DEF StartJudge
  <1>4. CASE SdkFails(c)
    BY <1>4 DEF SdkFails
  <1>5. ASSUME NEW v \in {"scores", "error"}, AskSdk(c, v) PROVE Shrinks(c)
    BY <1>5 DEF AskSdk, Verdict
  <1>6. ASSUME NEW v \in {"scores", "error"}, Judged(c, v) PROVE Shrinks(c)
    BY <1>6 DEF Judged, Ask, Verdict
  <1>7. CASE JudgeLimited(c)
    BY <1>7 DEF JudgeLimited, Retried, TryAgain, Ask
  <1>8. CASE EmptyVerdict(c)
    BY <1>8 DEF EmptyVerdict, Retried, TryAgain, Ask
  <1>9. CASE TemperatureRefused(c)
    BY <1>9 DEF TemperatureRefused, Retried, TryAgain, Ask
  <1>10. CASE JudgeExhausted(c)
    BY <1>10 DEF JudgeExhausted, Verdict
  <1> HIDE DEF Shrinks
  <1> QED BY <1>1, <1>2, <1>3, <1>4, <1>5, <1>6, <1>7, <1>8, <1>9, <1>10 DEF JudgeRow

LEMMA StepShrinks ==
  ASSUME CellInv, CellInv', NEW c \in Cells, Step(c)
  PROVE  Shrinks(c)
  BY PrepareHomeShrinks, RunAgentShrinks, RunOtherShrinks, JudgeRowShrinks DEF Step

\* What is left of a cell depends on nothing else of the state.
LEMMA LeftStays ==
  ASSUME NEW d \in Cells, harness' = harness, pc'[d] = pc[d], stage'[d] = stage[d],
         home'[d] = home[d], attempt'[d] = attempt[d], tries'[d] = tries[d]
  PROVE  Left(d)' = Left(d)
  <1>1. Preparing(d)' = Preparing(d)
    BY DEF Preparing
  <1> QED BY <1>1 DEF Left

\* No step of the system prolongs a cell, and each of a cell's own shortens it.
Shorten == \A c \in Cells : Left(c)' <= Left(c) /\ (Step(c) => Left(c)' < Left(c))
CellsShorten == [][Shorten]_vars

LEMMA ShortenStep ==
  ASSUME CellInv, CellInv', [Next]_vars, NEW c \in Cells
  PROVE  /\ Left(c)' <= Left(c)
         /\ Step(c) => Left(c)' < Left(c)
  <1>1. Left(c) \in Nat /\ Left(c)' \in Nat
    BY LeftNow, LeftThen DEF Measured
  <1>2. Step(c) => Left(c)' < Left(c)
    BY StepShrinks DEF Shrinks
  <1>3. ASSUME NEW d \in Cells, Step(d) PROVE Left(c)' <= Left(c)
    <2>1. CASE d = c
      BY <1>1, <1>2, <1>3, <2>1
    <2>2. CASE d # c
      <3>1. Left(c)' = Left(c)
        BY <1>3, <2>2, StepShrinks, LeftStays DEF Shrinks
      <3> QED BY <1>1, <3>1
    <2> QED BY <2>1, <2>2
  <1>4. ASSUME UNCHANGED <<harness, pc, stage, home, attempt, tries>>
        PROVE  Left(c)' <= Left(c)
    <2>1. Left(c)' = Left(c)
      BY <1>4, LeftStays
    <2> QED BY <1>1, <2>1
  <1>5. ASSUME NEW h \in Homes, Refresh(h)
        PROVE  UNCHANGED <<harness, pc, stage, home, attempt, tries>>
    BY <1>5 DEF Refresh, configured, judging
  <1>6. CASE UNCHANGED vars
    BY <1>2, <1>4, <1>6 DEF vars, shared, configured, judging
  <1> QED BY <1>2, <1>3, <1>4, <1>5, <1>6 DEF Next

\* The most a cell can have left, before its first home.
Longest == JudgeTries + 3 * MaxRetries + 27

LEMMA LeftIsBounded ==
  ASSUME CellInv, NEW c \in Cells
  PROVE  Left(c) \in 0..Longest
  <1>1. /\ attempt[c] \in 0..MaxRetries /\ tries[c] \in 0..JudgeTries
        /\ pc[c] \in Steps /\ stage[c] \in {"agent", "judge"}
        /\ Preparing(c) \in {"claude", "codex"}
    BY DEF CellInv, TypeOK, Preparing
  <1>2. Measured(c)
    BY LeftNow
  <1> QED BY <1>1, <1>2, CellAssumption
          DEF Measured, Steps, HomeSteps, SetupSteps, Asking, Attempting, Setting, InFiles, Longest

\* Whatever the harness, the logins it finds and what the other cells do to the
\* shared homes, a cell is finite: with the attempts of run_claude_code and the
\* tries of judge_answer bounded, it takes at most JudgeTries + 3 * MaxRetries + 27
\* steps, and nobody else's steps lengthen it.
THEOREM CellsAreFinite ==
  Spec => /\ [](\A c \in Cells : Left(c) \in 0..Longest)
          /\ CellsShorten
  <1>1. CellInv => \A c \in Cells : Left(c) \in 0..Longest
    BY LeftIsBounded, Zenon
  <1>2. CellInv /\ CellInv' /\ [Next]_vars => Shorten
    BY ShortenStep, Zenon DEF Shorten
  <1> QED BY <1>1, <1>2, Invariant, PTL DEF Spec, CellsShorten

=============================================================================
