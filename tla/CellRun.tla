------------------------------ MODULE CellRun ------------------------------
(***************************************************************************)
(* What a cell does once its arm is set up (harness/swe_qa_runner.py:      *)
(* run_swe_qa_task from the agent on, run_claude_code with its retries,    *)
(* judge_answer; harness/codex_runner.py: run_codex;                       *)
(* harness/opencode_runner.py: run_opencode), and the homes all cells      *)
(* share (prepare_claude_home, prepare_codex_home).  Each cell runs in a   *)
(* thread of the pool; what they share here is the credentials link of     *)
(* each home, its hooks.json and the agent's config file, which each of    *)
(* them may remove and write again while the others' agents and judges are *)
(* being launched.                                                         *)
(***************************************************************************)
EXTENDS Integers

CONSTANTS
  Cells,
  Setups,      \* what a run may be configured for and find in the homes
  MaxRetries,  \* MAX_RETRIES
  JudgeTries,  \* range(3)
  MaxRoom,     \* the judge's largest allowance, in units of the first
  MaxRefresh   \* bound: refreshes of the operator's tokens

Harnesses == {"claude_code", "codex", "opencode"}
Channels == {"openai", "sdk", "claude", "unusable"}  \* to a judge; "sdk": a
             \* key for the Anthropic SDK is set, "claude" comes second
\* The login in a bench home: none, a link to the operator's file as it is now,
\* one from before a refresh, or a copy of it as it is now.
Links == {"none", "current", "stale", "copy"}
Homes == {"claude", "codex"}

ASSUME CellAssumption ==
  /\ Setups \subseteq [harness : Harnesses, channel : Channels,
                       links : [Homes -> Links], hooks : BOOLEAN]
  /\ MaxRetries \in Nat \ {0} /\ JudgeTries \in Nat \ {0}
  /\ MaxRoom \in Nat \ {0} /\ MaxRefresh \in Nat

VARIABLES
  harness, channel,  \* of the run, by its configuration
  links,       \* the login in each bench home
  hooks,       \* hooks.json lies in the Codex home
  cut,         \* the agent's config file (Codex: config.toml of its home,
               \* OpenCode: opencode.json of the tree) is emptied, not yet written
  refreshes,
  calm,        \* history: the homes in use began with current links and no
               \* hooks, and no token was refreshed
  pc, stage,   \* of each cell; whether the agent or its judge is at work
  home,        \* the config root of its next process
  login,       \* that process found a valid login there
  attempt,     \* of the agent
  tries, room, temperature,  \* of the judge
  \* the row
  error, answer, cost, retries, verdict, exercised,
  \* history: dollars spent by all agent processes, by the last one, processes
  \* that were rate limited; and (followed for OpenCode, whose row is put
  \* together from two streams) whether the arm's server answered a call
  spent, last, limited, used

configured == <<harness, channel>>
disk == <<links, hooks, cut>>
shared == <<configured, disk, refreshes, calm>>
row == <<error, answer, cost, retries, verdict, exercised>>
judging == <<tries, room, temperature>>
history == <<spent, last, limited, used>>
vars == <<shared, pc, stage, home, login, attempt, judging, row, history>>

HomeSteps == {"home", "relink", "unlink", "link", "copy"}
SetupSteps == {"hooks", "remove", "configure", "configuring"}
Steps == HomeSteps \cup SetupSteps \cup
           {"attempt", "agent", "recovering", "row", "asking", "judging",
            "recorded", "raised", "not_started"}
Errors == {"none", "not_authenticated", "no_answer", "exit", "timeout", "other",
           "max_retries_exhausted"}

\* The homes a run of this harness prepares.
Used == IF harness = "codex" THEN Homes ELSE {"claude"}

TypeOK ==
  /\ harness \in Harnesses /\ channel \in Channels
  /\ links \in [Homes -> Links]
  /\ hooks \in BOOLEAN /\ cut \in BOOLEAN
  /\ refreshes \in 0..MaxRefresh
  /\ calm \in BOOLEAN
  /\ pc \in [Cells -> Steps]
  /\ stage \in [Cells -> {"agent", "judge"}]
  /\ home \in [Cells -> {"unset", "bench", "operator"}]
  /\ login \in [Cells -> BOOLEAN]
  /\ attempt \in [Cells -> 0..MaxRetries]
  /\ tries \in [Cells -> 0..JudgeTries]
  /\ room \in [Cells -> 1..MaxRoom]
  /\ temperature \in [Cells -> BOOLEAN]
  /\ error \in [Cells -> Errors]
  /\ answer \in [Cells -> BOOLEAN]
  /\ cost \in [Cells -> {0, 1}]
  /\ retries \in [Cells -> 0..MaxRetries]
  /\ verdict \in [Cells -> {"none", "scores", "error"}]
  /\ exercised \in [Cells -> BOOLEAN]
  /\ spent \in [Cells -> Nat]
  /\ last \in [Cells -> {0, 1}]
  /\ limited \in [Cells -> Nat]
  /\ used \in [Cells -> BOOLEAN]
  /\ \A c \in Cells : pc[c] = "agent" => attempt[c] < MaxRetries

All(value) == [c \in Cells |-> value]

\* Any leftover of an earlier run in the bench homes.
Init ==
  /\ \E s \in Setups : /\ harness = s.harness /\ channel = s.channel
                       /\ links = s.links /\ hooks = s.hooks
  /\ cut = FALSE
  /\ refreshes = 0
  /\ calm = (~hooks /\ \A h \in Used : links[h] = "current")
  /\ pc = All("home") /\ stage = All("agent")
  /\ home = All("unset") /\ login = All(FALSE)
  /\ attempt = All(0)
  /\ tries = All(0) /\ room = All(1) /\ temperature = All(TRUE)
  /\ error = All("none") /\ answer = All(FALSE) /\ cost = All(0)
  /\ retries = All(0) /\ verdict = All("none") /\ exercised = All(FALSE)
  /\ spent = All(0) /\ last = All(0) /\ limited = All(0) /\ used = All(FALSE)

Goto(c, step) == pc' = [pc EXCEPT ![c] = step]

-----------------------------------------------------------------------------
(* prepare_claude_home, for the agent and again for a judge's command line; *)
(* prepare_codex_home, which links its login in the same way                *)

\* Every cell prepares the Claude home first, whatever its harness.
Preparing(c) ==
  IF harness = "codex" /\ stage[c] = "agent" /\ home[c] # "unset"
    THEN "codex" ELSE "claude"

AfterHome(c) ==
  IF stage[c] = "judge" THEN "judging"
  ELSE IF harness = "opencode" THEN "configure"
  ELSE IF harness = "codex" /\ Preparing(c) = "claude" THEN "hooks"
  ELSE "attempt"

HomeReady(c, dir) ==
  /\ home' = [home EXCEPT ![c] = dir]
  /\ Goto(c, AfterHome(c))

SetLink(c, link) == links' = [links EXCEPT ![Preparing(c)] = link]

\* mutant: any link is made again
LinkedNever(c) == FALSE

\* dst is the operator's file: the same inode.
Linked(c) == links[Preparing(c)] = "current"
Missing(c) == links[Preparing(c)] = "none"

InspectLink(c) ==
  /\ pc[c] = "home"
  /\ IF Linked(c) THEN HomeReady(c, "bench")
                  ELSE Goto(c, "relink") /\ UNCHANGED home
  /\ UNCHANGED <<shared, stage, login, attempt, judging, row, history>>

\* The second dst.exists().
Relink(c) ==
  /\ pc[c] = "relink"
  /\ Goto(c, IF Missing(c) THEN "link" ELSE "unlink")
  /\ UNCHANGED <<shared, stage, home, login, attempt, judging, row, history>>

\* unlink raises when another thread was faster, and nothing catches that.
Unlink(c) ==
  /\ pc[c] = "unlink"
  /\ IF Missing(c) THEN Goto(c, "raised") /\ UNCHANGED links
                   ELSE Goto(c, "link") /\ SetLink(c, "none")
  /\ UNCHANGED <<configured, hooks, cut, refreshes, calm, stage, home, login,
                 attempt, judging, row, history>>

\* link fails when another thread was faster: then the operator's own Claude
\* home is used instead, or Codex's login is copied.
MakeLink(c) ==
  /\ pc[c] = "link"
  /\ \/ Missing(c) /\ HomeReady(c, "bench") /\ SetLink(c, "current")
     \/ /\ ~Missing(c) /\ Preparing(c) = "claude"
        /\ HomeReady(c, "operator") /\ UNCHANGED links
     \/ /\ ~Missing(c) /\ Preparing(c) = "codex"
        /\ Goto(c, "copy") /\ UNCHANGED <<home, links>>
  /\ UNCHANGED <<configured, hooks, cut, refreshes, calm, stage, login,
                 attempt, judging, row, history>>

\* copyfile raises when the faster thread's link is the very file to copy.
CopyLogin(c) ==
  /\ pc[c] = "copy"
  /\ IF Linked(c) THEN Goto(c, "raised") /\ UNCHANGED <<home, links>>
                  ELSE HomeReady(c, "bench") /\ SetLink(c, "copy")
  /\ UNCHANGED <<configured, hooks, cut, refreshes, calm, stage, login,
                 attempt, judging, row, history>>

\* A token of the operator is refreshed: what is in the home is the old file.
Refresh(h) ==
  /\ h \in Used
  /\ refreshes < MaxRefresh /\ refreshes' = refreshes + 1
  /\ links' = [links EXCEPT ![h] = IF @ = "none" THEN "none" ELSE "stale"]
  /\ calm' = FALSE
  /\ UNCHANGED <<configured, hooks, cut, pc, stage, home, login, attempt,
                 judging, row, history>>

\* What a process launched now finds: an old file may still do.  OpenCode's
\* model is a local one.
Credential(c) == IF stage[c] = "agent" /\ harness = "codex" THEN "codex" ELSE "claude"
Local(c) == stage[c] = "agent" /\ harness = "opencode"
FindsLogin(c, found) ==
  LET own == Local(c) \/ home[c] = "operator"
      seen == links[Credential(c)]
  IN /\ own \/ seen \in {"current", "copy"} => found = TRUE
     /\ ~own /\ seen = "none" => found = FALSE

Launch(c) ==
  \E found \in BOOLEAN : FindsLogin(c, found) /\ login' = [login EXCEPT ![c] = found]

-----------------------------------------------------------------------------
(* What Codex and OpenCode are given in files                              *)

\* mutant: an old hooks.json is not looked for
FindHooksNever(c) ==
  /\ pc[c] = "hooks"
  /\ Goto(c, "configure")
  /\ UNCHANGED <<shared, stage, home, login, attempt, judging, row, history>>

\* prepare_codex_home: stale_hooks.exists().
FindHooks(c) ==
  /\ pc[c] = "hooks"
  /\ Goto(c, IF hooks THEN "remove" ELSE "configure")
  /\ UNCHANGED <<shared, stage, home, login, attempt, judging, row, history>>

\* unlink raises when another thread was faster.
RemoveHooks(c) ==
  /\ pc[c] = "remove"
  /\ hooks' = FALSE
  /\ Goto(c, IF hooks THEN "configure" ELSE "raised")
  /\ UNCHANGED <<configured, links, cut, refreshes, calm, stage, home, login,
                 attempt, judging, row, history>>

\* write_text empties the file and then writes it.
OpenConfig(c) ==
  /\ pc[c] = "configure"
  /\ cut' = TRUE
  /\ Goto(c, "configuring")
  /\ UNCHANGED <<configured, links, hooks, refreshes, calm, stage, home, login,
                 attempt, judging, row, history>>

\* Codex's login is next.
WriteConfig(c) ==
  /\ pc[c] = "configuring"
  /\ cut' = FALSE
  /\ Goto(c, IF harness = "codex" THEN "home" ELSE "attempt")
  /\ UNCHANGED <<configured, links, hooks, refreshes, calm, stage, home, login,
                 attempt, judging, row, history>>

-----------------------------------------------------------------------------
(* The agent: run_claude_code, run_codex, run_opencode                     *)

LaunchAgent(c) ==
  /\ pc[c] = "attempt" /\ attempt[c] < MaxRetries
  /\ Launch(c)
  /\ Goto(c, "agent")
  /\ UNCHANGED <<shared, stage, home, attempt, judging, row, history>>

AgentRuns(c, h) == pc[c] = "agent" /\ harness = h

Spend(c, dollars) ==
  /\ last' = [last EXCEPT ![c] = dollars]
  /\ spent' = [spent EXCEPT ![c] = @ + dollars]

\* The agent's run returns, and run_swe_qa_task fills the row.
FillRow(c, err, text, dollars) ==
  /\ error' = [error EXCEPT ![c] = err]
  /\ answer' = [answer EXCEPT ![c] = text]
  /\ cost' = [cost EXCEPT ![c] = dollars]
  /\ retries' = [retries EXCEPT ![c] = attempt[c]]
  /\ Goto(c, "row")
  /\ UNCHANGED <<shared, stage, home, login, attempt, judging, verdict, limited>>

Return(c, err, text, dollars) ==
  FillRow(c, err, text, dollars) /\ UNCHANGED <<exercised, used>>

\* mutant: the text is not looked at
AnonymousUnseen(c) ==
  /\ AgentRuns(c, "claude_code") /\ Spend(c, IF login[c] THEN 1 ELSE 0)
  /\ Return(c, "none", TRUE, last'[c])

\* Exit 0, and the text holds a marker of _NOT_LOGGED_IN: the process was not
\* logged in, or its answer is about programs that say such things.
LooksAnonymous(c) ==
  /\ AgentRuns(c, "claude_code") /\ Spend(c, IF login[c] THEN 1 ELSE 0)
  /\ Return(c, "not_authenticated", FALSE, 0)

\* Exit 0 with an answer, or without one and nothing of a rate limit in stderr.
Answers(c, text) ==
  /\ AgentRuns(c, "claude_code") /\ login[c] /\ Spend(c, 1)
  /\ Return(c, "none", text, 1)

\* A rate limit: exit 0 and nothing but stderr, another exit, or an exception.
\* After the backoff the next attempt starts anew.
Limited(c, dollars) ==
  /\ AgentRuns(c, "claude_code") /\ login[c] /\ Spend(c, dollars)
  /\ limited' = [limited EXCEPT ![c] = @ + 1]
  /\ attempt' = [attempt EXCEPT ![c] = @ + 1]
  /\ Goto(c, "attempt")
  /\ UNCHANGED <<shared, stage, home, login, judging, row, used>>

\* mutant: what a failed agent spent is left out of its row
FailsUncosted(c, dollars) ==
  /\ AgentRuns(c, "claude_code") /\ login[c] /\ Spend(c, dollars)
  /\ Return(c, "exit", FALSE, 0)

\* Another exit code: the usage of the result event is kept.
Fails(c, dollars) ==
  /\ AgentRuns(c, "claude_code") /\ login[c] /\ Spend(c, dollars)
  /\ Return(c, "exit", FALSE, dollars)

\* Killed at the timeout: what it had spent is not read from the stream.
TimesOut(c) ==
  /\ pc[c] = "agent" /\ harness # "opencode" /\ login[c] /\ Spend(c, 1)
  /\ Return(c, "timeout", FALSE, 0)

\* The process could not be started.
Breaks(c) ==
  /\ AgentRuns(c, "claude_code") /\ Spend(c, 0)
  /\ Return(c, "other", FALSE, 0)

Exhausted(c) ==
  /\ pc[c] = "attempt" /\ attempt[c] = MaxRetries
  /\ Return(c, "max_retries_exhausted", FALSE, 0)
  /\ UNCHANGED <<spent, last>>

\* Codex has one attempt.  Any agent_message is an answer, of an exit in error
\* too; without a turn.completed event it has cost nothing.
CodexAnswers(c, dollars) ==
  /\ AgentRuns(c, "codex") /\ login[c] /\ Spend(c, 1)
  /\ Return(c, "none", TRUE, dollars)

\* No output, or none of JSON, or no agent_message: the usage is dropped.
CodexSaysNothing(c, dollars) ==
  /\ AgentRuns(c, "codex") /\ Spend(c, dollars)
  /\ dollars > 0 => login[c]
  /\ Return(c, "no_answer", FALSE, 0)

\* run_codex catches nothing but the timeout.
CannotStart(c) ==
  /\ AgentRuns(c, "codex") /\ Spend(c, 0)
  /\ Goto(c, "not_started")
  /\ UNCHANGED <<shared, stage, home, login, attempt, judging, row, limited, used>>

\* OpenCode: a local model, one attempt.  Without a session in the stream
\* nothing is asked again, and no call was made.
LocalAnswers(c, text, calls) ==
  /\ AgentRuns(c, "opencode")
  /\ calls => text
  /\ FillRow(c, "none", text, 0)
  /\ used' = [used EXCEPT ![c] = calls]
  /\ exercised' = [exercised EXCEPT ![c] = calls]
  /\ UNCHANGED <<spent, last>>

\* The agent's turn ends without an answer: it is asked again in the session.
FallsSilent(c, calls) ==
  /\ AgentRuns(c, "opencode")
  /\ used' = [used EXCEPT ![c] = calls]
  /\ Goto(c, "recovering")
  /\ UNCHANGED <<shared, stage, home, login, attempt, judging, row, spent, last, limited>>

\* The row's answer is the second turn's.  The first one's successful calls are
\* added, but those issued and their outcome per server, which arm_exercised
\* is made of, are the second one's.
Recovered(c, calls) ==
  /\ pc[c] = "recovering"
  /\ FillRow(c, "none", TRUE, 0)
  /\ used' = [used EXCEPT ![c] = @ \/ calls]
  /\ exercised' = [exercised EXCEPT ![c] = calls]
  /\ UNCHANGED <<spent, last>>

\* The first turn makes the row.
StaysSilent(c) ==
  /\ pc[c] = "recovering"
  /\ FillRow(c, "none", FALSE, 0)
  /\ exercised' = [exercised EXCEPT ![c] = used[c]]
  /\ UNCHANGED <<spent, last, used>>

\* Another exit without an answer (the second time that is not looked at), the
\* timeout, an exception.
LocalFails(c, err) ==
  /\ \/ AgentRuns(c, "opencode")
     \/ pc[c] = "recovering" /\ err # "exit"
  /\ Return(c, err, FALSE, 0)
  /\ UNCHANGED <<spent, last>>

-----------------------------------------------------------------------------
(* The judge, and the end of the cell                                      *)

ToJudge(c) == answer[c] /\ error[c] = "none"

\* budget.record, and the row is handed to the loop.
Record(c) ==
  /\ pc[c] = "row" /\ ~ToJudge(c)
  /\ Goto(c, "recorded")
  /\ UNCHANGED <<shared, stage, home, login, attempt, judging, row, history>>

\* A judge of the agent's family, of no known one, or without a key: raised
\* after the agent was paid.
JudgeRefused(c) ==
  /\ pc[c] = "row" /\ ToJudge(c) /\ channel = "unusable"
  /\ Goto(c, "raised")
  /\ UNCHANGED <<shared, stage, home, login, attempt, judging, row, history>>

StartJudge(c) ==
  /\ pc[c] = "row" /\ ToJudge(c) /\ channel # "unusable"
  /\ stage' = [stage EXCEPT ![c] = "judge"]
  /\ Goto(c, IF channel = "openai" THEN "judging"
             ELSE IF channel = "sdk" THEN "asking" ELSE "home")
  /\ UNCHANGED <<shared, home, login, attempt, judging, row, history>>

Verdict(c, v) ==
  /\ verdict' = [verdict EXCEPT ![c] = v]
  /\ Goto(c, "recorded")
  /\ UNCHANGED <<shared, stage, home, attempt, error, answer, cost, retries,
                 exercised, history>>

\* The Anthropic SDK: no text, or any exception, falls through.
AskSdk(c, v) ==
  /\ pc[c] = "asking"
  /\ Verdict(c, v)
  /\ UNCHANGED <<login, judging>>

SdkFails(c) ==
  /\ pc[c] = "asking"
  /\ Goto(c, "home")
  /\ UNCHANGED <<shared, stage, home, login, attempt, judging, row, history>>

\* One round of either loop: a launch and what comes of it.
Ask(c) ==
  /\ pc[c] = "judging" /\ tries[c] < JudgeTries
  /\ IF channel = "openai" THEN UNCHANGED login ELSE Launch(c)

\* Scores, or a reply that does not parse, or one that says it is not logged
\* in, or a failure that is not a rate limit.
Judged(c, v) ==
  /\ Ask(c)
  /\ channel # "openai" /\ v = "scores" => login'[c]
  /\ Verdict(c, v)
  /\ UNCHANGED judging

\* mutant: the wait for a rate limit is not one of the tries
TryAgainUncounted(c) == UNCHANGED tries

TryAgain(c) == tries' = [tries EXCEPT ![c] = @ + 1]

Retried(c) ==
  /\ Ask(c) /\ TryAgain(c)
  /\ UNCHANGED <<shared, pc, stage, home, attempt, row, history>>

JudgeLimited(c) == Retried(c) /\ UNCHANGED <<room, temperature>>

\* Empty content: the allowance went into reasoning.
EmptyVerdict(c) ==
  /\ channel = "openai" /\ Retried(c)
  /\ room' = [room EXCEPT ![c] = IF 2 * @ > MaxRoom THEN MaxRoom ELSE 2 * @]
  /\ UNCHANGED temperature

TemperatureRefused(c) ==
  /\ channel = "openai" /\ temperature[c] /\ Retried(c)
  /\ temperature' = [temperature EXCEPT ![c] = FALSE]
  /\ UNCHANGED room

JudgeExhausted(c) ==
  /\ pc[c] = "judging" /\ tries[c] = JudgeTries
  /\ Verdict(c, "error")
  /\ UNCHANGED <<login, judging>>

-----------------------------------------------------------------------------
PrepareHome(c) ==
  \/ InspectLink(c) \/ Relink(c) \/ Unlink(c) \/ MakeLink(c) \/ CopyLogin(c)
  \/ FindHooks(c) \/ RemoveHooks(c) \/ OpenConfig(c) \/ WriteConfig(c)

RunAgent(c) ==
  \/ LaunchAgent(c) \/ LooksAnonymous(c) \/ TimesOut(c) \/ Breaks(c) \/ Exhausted(c)
  \/ \E text \in BOOLEAN : Answers(c, text)
  \/ \E dollars \in {0, 1} : Limited(c, dollars) \/ Fails(c, dollars)

RunOther(c) ==
  \/ \E dollars \in {0, 1} : CodexAnswers(c, dollars) \/ CodexSaysNothing(c, dollars)
  \/ CannotStart(c)
  \/ \E text, calls \in BOOLEAN : LocalAnswers(c, text, calls)
  \/ \E calls \in BOOLEAN : FallsSilent(c, calls) \/ Recovered(c, calls)
  \/ StaysSilent(c)
  \/ \E err \in {"exit", "timeout", "other"} : LocalFails(c, err)

JudgeRow(c) ==
  \/ Record(c) \/ JudgeRefused(c) \/ StartJudge(c) \/ SdkFails(c)
  \/ \E v \in {"scores", "error"} : AskSdk(c, v) \/ Judged(c, v)
  \/ JudgeLimited(c) \/ EmptyVerdict(c) \/ TemperatureRefused(c) \/ JudgeExhausted(c)

Step(c) == PrepareHome(c) \/ RunAgent(c) \/ RunOther(c) \/ JudgeRow(c)

Next == (\E h \in Homes : Refresh(h)) \/ \E c \in Cells : Step(c)

Spec == Init /\ [][Next]_vars

\* Every process has a timeout and every backoff an end, so each thread runs on.
FairSpec == Spec /\ \A c \in Cells : WF_vars(Step(c))

-----------------------------------------------------------------------------
(* Properties                                                              *)

Returned(c) == stage[c] = "judge" \/ pc[c] \in {"row", "recorded"}

\* Once the links are current no cell takes one from the others: every agent
\* runs in the bench home and logged in, and preparing the homes raises nothing.
HomeUndisturbed ==
  calm => \A c \in Cells :
            /\ home[c] # "operator"
            /\ pc[c] = "agent" => login[c]
            /\ pc[c] = "raised" => channel = "unusable"

\* An agent runs on what the bench has written for it: whichever cells prepare
\* the home together, no hooks.json is left once any agent of Codex is started
\* ("a stale one from a probe run is the whole failure mode"), and the config
\* file is incomplete only while some cell is writing it.
OwnConfiguration ==
  /\ hooks => \A c \in Cells : pc[c] = "agent" => harness # "codex"
  /\ cut => \E c \in Cells : pc[c] = "configuring"

\* No process without a login makes a row: an answer was paid for ("$0 wrong
\* answer"), a score is that of a judge that was logged in; and no row says its
\* arm was exercised when the arm's server has answered nothing.
RowsAuthentic ==
  \A c \in Cells :
    /\ answer[c] /\ harness # "opencode" => last[c] = 1
    /\ verdict[c] = "scores" /\ channel = "claude" => login[c]
    /\ exercised[c] => used[c]

\* Never more than was spent is entered.  Claude Code's row has the cost of its
\* last process, error or not; what a timeout or a mistaken answer cost is lost.
Uncosted == {"timeout", "not_authenticated", "max_retries_exhausted"}
CostHonest ==
  \A c \in Cells : Returned(c) =>
    /\ cost[c] <= spent[c]
    /\ harness = "claude_code" /\ error[c] \notin Uncosted =>
         /\ cost[c] = last[c]
         /\ retries[c] = 0 => cost[c] = spent[c]

\* A row's retries are the rate limits its agent met, and a rate limit is met
\* at most MaxRetries times.
RetriesExact == \A c \in Cells : Returned(c) => retries[c] = limited[c]

\* A row carries a verdict exactly when it has an answer, and then always.
JudgedIfAnswered ==
  \A c \in Cells : pc[c] = "recorded" =>
    ((verdict[c] # "none") <=> (answer[c] /\ error[c] = "none"))

\* Every cell ends, by its row or by an exception.
CellEnds == \A c \in Cells : <>(pc[c] \in {"recorded", "raised", "not_started"})

\* "Keep the FIRST turn's tool/token accounting and add the retry's, so a
\* recovered cell is not recorded as a zero-tool one.  Adoption is the headline
\* this run reports." (run_opencode): an answered row whose arm's server has
\* answered the agent says so.
AdoptionKept == \A c \in Cells : answer[c] /\ used[c] => exercised[c]

-----------------------------------------------------------------------------
(* The inductive invariant                                                 *)

\* Until its agent has returned, a cell has nothing in its row.
Running(c) ==
  stage[c] = "agent" /\ pc[c] \in HomeSteps \cup SetupSteps \cup {"attempt", "agent", "recovering"}

\* Current links are only ever looked at, as long as they stay current.
HomeInv ==
  calm => /\ ~hooks /\ \A h \in Used : links[h] = "current"
          /\ \A c \in Cells : pc[c] \notin (HomeSteps \ {"home"}) \cup {"remove"}

\* A Codex cell past the hooks has seen none or removed them, and nobody brings
\* them back.
ConfigInv ==
  /\ cut => \E c \in Cells : pc[c] = "configuring"
  /\ hooks /\ harness = "codex" => \A c \in Cells :
       /\ pc[c] \in (HomeSteps \ {"copy"}) \cup {"hooks", "remove", "raised"}
       /\ stage[c] = "agent"
       /\ pc[c] \in HomeSteps => home[c] = "unset"

Control(c) ==
  /\ pc[c] \in SetupSteps \cup {"attempt", "agent", "recovering", "row"} => stage[c] = "agent"
  /\ pc[c] \in SetupSteps \cup {"attempt", "agent"} => home[c] # "unset"
  /\ pc[c] \in {"asking", "judging"} => stage[c] = "judge"
  /\ pc[c] = "asking" => channel = "sdk"
  /\ pc[c] \in SetupSteps => harness # "claude_code"
  /\ pc[c] \in {"hooks", "remove"} => harness = "codex"
  /\ pc[c] = "copy" => Preparing(c) = "codex"
  /\ pc[c] = "recovering" => harness = "opencode"
  /\ pc[c] # "recorded" => verdict[c] = "none"
  /\ stage[c] = "judge" => ToJudge(c)

Rows(c) ==
  /\ limited[c] = attempt[c]
  /\ Running(c) => /\ error[c] = "none" /\ answer[c] = FALSE /\ cost[c] = 0
                   /\ exercised[c] = FALSE
                   /\ attempt[c] = 0 => spent[c] = 0

CellInv ==
  /\ TypeOK /\ HomeInv /\ HomeUndisturbed /\ ConfigInv /\ OwnConfiguration
  /\ \A c \in Cells : Control(c) /\ Rows(c)
  /\ RowsAuthentic /\ CostHonest /\ RetriesExact /\ JudgedIfAnswered

=============================================================================
