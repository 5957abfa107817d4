--------------------------- MODULE SessionRunner ---------------------------
(***************************************************************************)
(* A session of several tasks in one agent conversation over one tree      *)
(* (harness/session_runner.py: main).  The runner goes through the tasks   *)
(* in the order of the config, appends a row for each to its out file and  *)
(* a summary at the end; a later run over the same file skips the recorded *)
(* tasks and takes the conversation's id from them.  Runs over different   *)
(* out files of one directory (a repeated arm) share that directory's      *)
(* transcripts.  One runner at a time; any of them may be killed.          *)
(***************************************************************************)
EXTENDS Integers

CONSTANTS
  Outs,         \* out files of one directory, each of a run with its own tree
  NTasks,       \* tasks of the config, or of the slice --task-ids names, which
                \* is the same for every run over a file
  MaxLaunches,  \* bound: launches of the runner
  MaxTears      \* bound: launches killed inside an append

ASSUME SessionAssumption ==
  /\ NTasks \in Nat \ {0}
  /\ MaxLaunches \in Nat /\ MaxTears \in Nat

VARIABLES
  \* on disk
  rows,       \* of an out file: its readable rows
  unended,    \* its last line has no newline
  loose,      \* the row on that line, when the newline is all that is missing
  log,        \* the transcript of a task: the launch it is of, 0 while it is
              \* absent or incomplete
  \* of the process
  launches,
  pc, out, limit,
  session,    \* session_id
  done,       \* tasks with a row when it started
  task,       \* the loop's place
  outcome,    \* what parse_stream makes of the agent's output
  \* history
  given,      \* to a conversation: the last task it was given
  answered,   \* tasks a conversation answered, by out file
  tears

file == <<rows, unended, loose>>
disk == <<file, log>>
process == <<out, limit, session, done>>
history == <<given, answered, tears>>
vars == <<disk, launches, pc, process, task, outcome, history>>

Tasks == 1..NTasks
Launches == 1..MaxLaunches
Sessions == Launches   \* a conversation is named by the launch that began it
NoTask == 0            \* in the task field of a summary, which has none

\* `upto` is the number of tasks a summary reports.
Rows == [task : Tasks \cup {NoTask}, session : Sessions, run : Launches, upto : 0..NTasks]
Steps == {"down", "loop", "spawn", "reading", "waiting", "draining", "parsed", "oracle", "append"}
Outcomes == {"none", "result", "dead", "anonymous"}

TypeOK ==
  /\ rows \in [Outs -> SUBSET Rows]
  /\ unended \in [Outs -> BOOLEAN]
  /\ loose \in [Outs -> SUBSET Rows]
  /\ log \in [Sessions -> [Tasks -> 0..MaxLaunches]]
  /\ launches \in 0..MaxLaunches
  /\ pc \in Steps
  /\ out \in Outs /\ limit \in Tasks
  /\ session \in 0..MaxLaunches
  /\ done \subseteq Tasks
  /\ task \in 1..(NTasks + 1)
  /\ outcome \in Outcomes
  /\ given \in [Sessions -> 0..NTasks]
  /\ answered \in [Outs -> [Sessions -> SUBSET Tasks]]
  /\ tears \in 0..MaxTears
  /\ pc # "down" => launches # 0 /\ session # 0 /\ task - 1 <= limit
  /\ pc \notin {"down", "loop"} => task <= limit

Init ==
  /\ rows = [o \in Outs |-> {}]
  /\ unended = [o \in Outs |-> FALSE]
  /\ loose = [o \in Outs |-> {}]
  /\ log = [s \in Sessions |-> [t \in Tasks |-> 0]]
  /\ launches = 0
  /\ pc = "down"
  /\ out \in Outs /\ limit = NTasks
  /\ session = 0 /\ done = {} /\ task = 1 /\ outcome = "none"
  /\ given = [s \in Sessions |-> 0]
  /\ answered = [o \in Outs |-> [s \in Sessions |-> {}]]
  /\ tears = 0

-----------------------------------------------------------------------------
(* Start *)

\* mutant: a file that ends in half a line is not resumed
RecordedAllOrNothing(o) == IF unended[o] THEN {} ELSE rows[o]

\* The rows a start reads: a line that does not parse is passed over.
Recorded(o) == rows[o]

\* mutant: only the last row read counts as done
DoneOfLastRun(o) ==
  {r.task : r \in {x \in Recorded(o) : \A y \in Recorded(o) : y.run <= x.run}} \ {NoTask}

DoneIn(o) == {r.task : r \in Recorded(o)} \ {NoTask}

\* A fresh id, or the last row's: all rows of a file name one conversation
\* (OneConversation), so that is any row's.
ConversationOf(o) ==
  IF Recorded(o) = {} THEN {launches + 1} ELSE {r.session : r \in Recorded(o)}

\* --tree, --out and --limit-tasks are the operator's.
Launch ==
  /\ pc = "down" /\ launches < MaxLaunches
  /\ launches' = launches + 1
  /\ out' \in Outs /\ limit' \in Tasks
  /\ session' \in ConversationOf(out')
  /\ done' = DoneIn(out')
  /\ task' = 1 /\ outcome' = "none"
  /\ pc' = "loop"
  /\ UNCHANGED <<disk, history>>

\* No isolated home, an unknown task id, a missing file or tree.
Refuse ==
  /\ pc = "down" /\ launches < MaxLaunches
  /\ launches' = launches + 1
  /\ UNCHANGED <<disk, pc, process, task, outcome, history>>

-----------------------------------------------------------------------------
(* One task *)

Goto(step) == pc' = step /\ UNCHANGED <<launches, process>>

\* mutant: transcripts of all runs of an arm under one name
ScratchOfArm(s) == 1

\* The directory of a run's transcripts, named for its conversation.
Scratch(s) == s

SkipRecorded ==
  /\ pc = "loop" /\ task <= limit /\ task \in done
  /\ task' = task + 1
  /\ Goto("loop")
  /\ UNCHANGED <<disk, outcome, history>>

\* The transcript is opened, and emptied, before the agent is spawned.
OpenTranscript ==
  /\ pc = "loop" /\ task <= limit /\ task \notin done
  /\ log' = [log EXCEPT ![Scratch(session)][task] = 0]
  /\ Goto("spawn")
  /\ UNCHANGED <<file, task, outcome, history>>

Spawn ==
  /\ pc = "spawn"
  /\ given' = [given EXCEPT ![session] = task]
  /\ Goto("reading")
  /\ UNCHANGED <<disk, task, outcome, answered, tears>>

SpawnFails ==
  /\ pc = "spawn"
  /\ Goto("down")
  /\ UNCHANGED <<disk, task, outcome, history>>

\* The agent's output ends: with a result event, with one that says it is not
\* logged in, or without any.  Nothing limits how long that takes.
CloseOutput ==
  /\ pc = "reading"
  /\ outcome' \in Outcomes \ {"none"}
  /\ answered' = IF outcome' # "result" THEN answered
                 ELSE [answered EXCEPT ![out][session] = @ \cup {task}]
  /\ Goto("waiting")
  /\ UNCHANGED <<disk, task, given, tears>>

\* proc.wait returns, and the error pipe is read to its end.
AgentExits ==
  /\ pc = "waiting"
  /\ Goto("draining")
  /\ UNCHANGED <<disk, task, outcome, history>>

\* The with-block is left: the transcript is complete.
CloseTranscript ==
  /\ log' = [log EXCEPT ![Scratch(session)][task] = launches]
  /\ Goto("parsed")
  /\ UNCHANGED <<file, task, outcome, history>>

\* Nothing limits this read either: whoever inherited the pipe keeps it open.
DrainErrors == pc = "draining" /\ CloseTranscript

\* mutant: proc.wait without its timeout
TimesOutNever == FALSE /\ CloseTranscript

\* The agent is killed; the error pipe is not read.
TimesOut == pc = "waiting" /\ CloseTranscript

\* mutant: a task without a result is passed over instead of ending the run
RefuseAndGoOn ==
  /\ pc = "parsed" /\ outcome # "result"
  /\ task' = task + 1
  /\ Goto("loop")
  /\ UNCHANGED <<disk, outcome, history>>

\* NO RESULT EVENT and NOT AUTHENTICATED: no row, and the run ends.
RefuseRow ==
  /\ pc = "parsed" /\ outcome # "result"
  /\ Goto("down")
  /\ UNCHANGED <<disk, task, outcome, history>>

AcceptResult ==
  /\ pc = "parsed" /\ outcome = "result"
  /\ Goto("oracle")
  /\ UNCHANGED <<disk, task, outcome, history>>

RunOracle ==
  /\ pc = "oracle"
  /\ Goto("append")
  /\ UNCHANGED <<disk, task, outcome, history>>

\* run_oracle's timeout is raised outside every try.
OracleTimesOut ==
  /\ pc = "oracle"
  /\ Goto("down")
  /\ UNCHANGED <<disk, task, outcome, history>>

-----------------------------------------------------------------------------
(* The out file *)

\* What an append makes of what the file ended with: it joins the unfinished
\* line, and neither parses any more.
Kept(o) == rows[o] \ loose[o]

\* mutant: the file is opened to be written, not appended to
Rewritten(o, row) ==
  /\ rows' = [rows EXCEPT ![o] = {row}]
  /\ unended' = [unended EXCEPT ![o] = FALSE]
  /\ loose' = [loose EXCEPT ![o] = {}]

Appended(o, row) ==
  /\ rows' = [rows EXCEPT ![o] = IF unended[o] THEN Kept(o) ELSE Kept(o) \cup {row}]
  /\ unended' = [unended EXCEPT ![o] = FALSE]
  /\ loose' = [loose EXCEPT ![o] = {}]

\* Killed inside the append: half the row is written, or all but its newline.
Torn(o, row) ==
  /\ unended' = [unended EXCEPT ![o] = TRUE]
  /\ \/ /\ rows' = [rows EXCEPT ![o] = Kept(o)]
        /\ loose' = [loose EXCEPT ![o] = {}]
     \/ /\ ~unended[o]
        /\ rows' = [rows EXCEPT ![o] = @ \cup {row}]
        /\ loose' = [loose EXCEPT ![o] = {row}]

TaskRow == [task |-> task, session |-> session, run |-> launches, upto |-> 0]
SummaryRow == [task |-> NoTask, session |-> session, run |-> launches, upto |-> limit]

AppendRow ==
  /\ pc = "append"
  /\ Appended(out, TaskRow)
  /\ task' = task + 1
  /\ Goto("loop")
  /\ UNCHANGED <<log, outcome, history>>

Summarise ==
  /\ pc = "loop" /\ task > limit
  /\ Appended(out, SummaryRow)
  /\ Goto("down")
  /\ UNCHANGED <<log, task, outcome, history>>

\* Any of the process's steps may be its last; its agent ends with it.
Kill ==
  /\ pc # "down"
  /\ Goto("down")
  /\ UNCHANGED <<disk, task, outcome, history>>

TearAppend ==
  /\ tears < MaxTears
  /\ \/ pc = "append" /\ Torn(out, TaskRow)
     \/ pc = "loop" /\ task > limit /\ Torn(out, SummaryRow)
  /\ tears' = tears + 1
  /\ Goto("down")
  /\ UNCHANGED <<log, task, outcome, given, answered>>

\* What the runner does by itself, without waiting for its agent.
Progress ==
  \/ SkipRecorded \/ OpenTranscript \/ Spawn \/ SpawnFails
  \/ TimesOut \/ RefuseRow \/ AcceptResult \/ RunOracle \/ OracleTimesOut
  \/ AppendRow \/ Summarise

Agent == CloseOutput \/ AgentExits \/ DrainErrors

Next == Launch \/ Refuse \/ Progress \/ Agent \/ Kill \/ TearAppend

Spec == Init /\ [][Next]_vars

\* The runner is scheduled; its agent owes it nothing.  (The git status before a
\* task, which has no limit either, is taken to return.)
FairSpec == Spec /\ WF_vars(Progress)

-----------------------------------------------------------------------------
(* Properties *)

\* All that an out file records is of one conversation, whatever was killed,
\* torn or refused between its rows, and a run over it is in that one
\* (the resume key and the id read back from the rows).
OneConversation ==
  \A o \in Outs :
    /\ \A r, q \in rows[o] : r.session = q.session
    /\ pc # "down" /\ out = o => \A r \in rows[o] : r.session = session

\* A summary speaks for a whole session: each task it reports was answered in
\* the conversation it names, in its own run or in an earlier one
\* (session_runner.py: refusals end a run before its summary).
SummaryAnswered ==
  \A o \in Outs : \A r \in rows[o] :
    r.task = NoTask => 1..r.upto \subseteq answered[o][r.session]

\* The transcript that lies beside a row is that of the agent the row
\* describes, and is complete, whatever was run since in the same directory
\* (the scratch directory is keyed by the conversation).
TranscriptOfRow ==
  \A o \in Outs : \A r \in rows[o] :
    r.task # NoTask => log[Scratch(r.session)][r.task] = r.run

\* Until an append is torn, a conversation is never given a task that comes
\* before one it was given: killed and resumed runs keep the config's order.
FrozenOrder == [][tears = 0 => \A s \in Sessions : given'[s] >= given[s]]_vars

\* A run ends, or it waits without end for the agent's output or for its error
\* pipe; the agent's timeout and the oracle's cover every other wait.
EndsOrReads == []<>(pc \in {"down", "reading", "draining"})

\* "the resumed process rejoins the same conversation rather than starting a
\* new one": the tasks of one out file are answered in one conversation.
ResumeRejoins ==
  \A o \in Outs : \A s, t \in Sessions :
    answered[o][s] # {} /\ answered[o][t] # {} => s = t

-----------------------------------------------------------------------------
(* The out files as a ledger *)

Live == pc # "down"

\* The tasks a run has still to come to.
Todo == IF Live THEN {t \in task..limit : t \notin done} ELSE {}

L == INSTANCE SessionLedger WITH
       Files <- Outs, Conversations <- Sessions, Entries <- Rows,
       ledger <- rows, doubt <- loose, open <- Live, file <- out,
       conversation <- session, todo <- Todo

\* Rows are appended and nothing else: whatever ends a run, no row is ever
\* lost but the one it was writing, no task is recorded that has a row, tasks
\* are recorded in their order once answered, and a summary closes the run.
ImplementsLedger == L!Spec

-----------------------------------------------------------------------------
(* The inductive invariant *)

\* Ids are drawn in the order of the launches.
Drawn ==
  /\ session <= launches
  /\ \A o \in Outs : \A r \in rows[o] : r.session <= launches
  /\ \A s \in Sessions : s > launches => given[s] = 0

\* A conversation belongs to one out file.
Owned ==
  /\ \A o, p \in Outs : \A r \in rows[o], q \in rows[p] : r.session = q.session => o = p
  /\ Live => \A o \in Outs \ {out} : \A r \in rows[o] : r.session # session

\* What is recorded, skipped or passed was answered.
Earned ==
  /\ \A o \in Outs : \A r \in rows[o] : r.task # NoTask => r.task \in answered[o][r.session]
  /\ Live => done \cup 1..(task - 1) \subseteq answered[out][session]
  /\ pc \in {"waiting", "draining", "parsed", "oracle", "append"} /\ outcome = "result"
       => task \in answered[out][session]
  /\ pc \in {"oracle", "append"} => outcome = "result"

\* The task at hand has no row, and its transcript is written once.
Fresh ==
  /\ Live => \A r \in rows[out] : r.task \in done \/ r.task < task
  /\ pc \notin {"down", "loop"} => task \notin done
  /\ pc \in {"parsed", "oracle", "append"} => log[Scratch(session)][task] = launches

\* Without a torn append nothing recorded is lost, so whatever comes before
\* the last task a conversation was given is recorded.
Ordered == tears = 0 =>
  /\ \A o \in Outs : unended[o] = FALSE /\ loose[o] = {}
  /\ \A o \in Outs : \A r \in rows[o] : \A t \in Tasks :
       t < given[r.session] => \E q \in rows[o] : q.task = t
  /\ Live => \A t \in Tasks : t < given[session] => t \in done \/ t < task
  /\ Live => \A t \in Tasks : t \in done \/ t < task => \E q \in rows[out] : q.task = t

SessionInv ==
  /\ TypeOK /\ Drawn /\ Owned /\ Earned /\ Fresh /\ Ordered
  /\ OneConversation /\ SummaryAnswered /\ TranscriptOfRow

=============================================================================
