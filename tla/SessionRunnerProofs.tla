------------------------- MODULE SessionRunnerProofs -------------------------
(* Proofs about SessionRunner, for any out files and every number of tasks,   *)
(* launches and torn appends.                                                 *)
EXTENDS SessionRunner, TLAPS

-----------------------------------------------------------------------------
(* What the steps on the out file do to it *)

\* The file stays one, and none but `row` is added to it.
Wrote(row) ==
  /\ rows' \in [Outs -> SUBSET Rows]
  /\ unended' \in [Outs -> BOOLEAN]
  /\ loose' \in [Outs -> SUBSET Rows]
  /\ \A o \in Outs \ {out} : rows'[o] = rows[o]
  /\ rows'[out] \subseteq rows[out] \cup {row}

LEMMA AppendedWrites ==
  ASSUME TypeOK, NEW row \in Rows, Appended(out, row)
  PROVE Wrote(row)
  BY DEF TypeOK, Appended, Kept, Wrote

LEMMA TornWrites ==
  ASSUME TypeOK, NEW row \in Rows, Torn(out, row)
  PROVE Wrote(row)
  BY DEF TypeOK, Torn, Kept, Wrote

LEMMA RowsTyped ==
  ASSUME TypeOK
  PROVE /\ pc = "append" => TaskRow \in Rows
        /\ pc # "down" => SummaryRow \in Rows
  <1>1. /\ session \in 0..MaxLaunches /\ launches \in 0..MaxLaunches
        /\ limit \in 1..NTasks /\ task \in 1..(NTasks + 1)
        /\ pc # "down" => launches # 0 /\ session # 0
        /\ pc = "append" => task <= limit
    BY DEF TypeOK, Tasks
  <1>2. ASSUME pc # "down" PROVE session \in Sessions /\ launches \in Launches
    BY <1>1, <1>2, SessionAssumption DEF Sessions, Launches
  <1>3. ASSUME pc = "append" PROVE task \in Tasks
    BY <1>1, <1>3, SessionAssumption DEF Tasks
  <1>4. limit \in 0..NTasks /\ 0 \in 0..NTasks
    BY <1>1, SessionAssumption
  <1> QED
    BY <1>2, <1>3, <1>4 DEF Rows, TaskRow, SummaryRow

LEMMA AppendWrites == ASSUME TypeOK, AppendRow PROVE Wrote(TaskRow)
  BY RowsTyped, AppendedWrites DEF AppendRow

LEMMA SummaryWrites == ASSUME TypeOK, Summarise PROVE Wrote(SummaryRow)
  BY RowsTyped, AppendedWrites DEF Summarise

TornWrite ==
  \/ pc = "append" /\ Wrote(TaskRow)
  \/ pc = "loop" /\ task > limit /\ Wrote(SummaryRow)

LEMMA TearWrites == ASSUME TypeOK, TearAppend PROVE TornWrite
  BY RowsTyped, TornWrites DEF TearAppend, TornWrite

\* What a start learns from the file.
Read ==
  /\ done' \subseteq Tasks
  /\ \A t \in Tasks : t \in done' <=> \E r \in rows[out'] : r.task = t
  /\ session' \in Sessions
  /\ \/ rows[out'] = {} /\ session' = launches + 1
     \/ \E r \in rows[out'] : session' = r.session

LEMMA Reads == ASSUME TypeOK, Launch PROVE Read
  <1>1. /\ out' \in Outs /\ rows[out'] \subseteq Rows
        /\ launches \in 0..MaxLaunches /\ launches < MaxLaunches
    BY DEF TypeOK, Launch
  <1>2. \A r \in rows[out'] : r.task \in Tasks \cup {NoTask} /\ r.session \in Sessions
    BY <1>1 DEF Rows
  <1>3. done' = {r.task : r \in rows[out']} \ {NoTask}
    BY DEF Launch, DoneIn, Recorded
  <1>4. NoTask \notin Tasks
    BY DEF NoTask, Tasks
  <1>5. launches + 1 \in Sessions
    BY <1>1, SessionAssumption DEF Sessions, Launches
  <1>6. session' \in IF rows[out'] = {} THEN {launches + 1} ELSE {r.session : r \in rows[out']}
    BY DEF Launch, ConversationOf, Recorded
  <1>7. \/ rows[out'] = {} /\ session' = launches + 1
        \/ \E r \in rows[out'] : session' = r.session
    BY <1>6
  <1>8. session' \in Sessions
    BY <1>2, <1>5, <1>7
  <1> QED
    BY <1>2, <1>3, <1>4, <1>7, <1>8 DEF Read

LEMMA FileSteps ==
  ASSUME TypeOK
  PROVE /\ Launch => Read
        /\ AppendRow => Wrote(TaskRow)
        /\ Summarise => Wrote(SummaryRow)
        /\ TearAppend => TornWrite
  BY Reads, AppendWrites, SummaryWrites, TearWrites

-----------------------------------------------------------------------------
(* Types *)


FileTyped ==
  /\ rows \in [Outs -> SUBSET Rows]
  /\ unended \in [Outs -> BOOLEAN]
  /\ loose \in [Outs -> SUBSET Rows]
  /\ log \in [Sessions -> [Tasks -> 0..MaxLaunches]]

RunTyped ==
  /\ launches \in 0..MaxLaunches
  /\ pc \in Steps
  /\ out \in Outs /\ limit \in Tasks
  /\ session \in 0..MaxLaunches
  /\ done \subseteq Tasks
  /\ task \in 1..(NTasks + 1)
  /\ outcome \in Outcomes
  /\ pc # "down" => launches # 0 /\ session # 0 /\ task - 1 <= limit
  /\ pc \notin {"down", "loop"} => task <= limit

HistoryTyped ==
  /\ given \in [Sessions -> 0..NTasks]
  /\ answered \in [Outs -> [Sessions -> SUBSET Tasks]]
  /\ tears \in 0..MaxTears

LEMMA Typed == TypeOK <=> FileTyped /\ RunTyped /\ HistoryTyped
  BY DEF TypeOK, FileTyped, RunTyped, HistoryTyped

LEMMA Here ==
  ASSUME RunTyped
  PROVE /\ launches \in 0..MaxLaunches /\ 0 \in 0..MaxLaunches
        /\ pc # "down" => session \in Sessions /\ launches \in Launches
        /\ pc \notin {"down", "loop"} \/ task <= limit => task \in Tasks
  BY SessionAssumption DEF RunTyped, Sessions, Launches, Tasks

\* The steps that write neither the out file nor a transcript.
LEMMA DiskKept ==
  ASSUME [Next]_vars
  PROVE \/ UNCHANGED disk
        \/ OpenTranscript \/ TimesOut \/ DrainErrors
        \/ AppendRow \/ Summarise \/ TearAppend
  BY DEF Next, vars, Launch, Refuse, Progress, SkipRecorded, Spawn, SpawnFails, RefuseRow,
         AcceptResult, RunOracle, OracleTimesOut, Agent, CloseOutput, AgentExits, Kill

LEMMA HistoryKept ==
  ASSUME [Next]_vars
  PROVE UNCHANGED history \/ Spawn \/ CloseOutput \/ TearAppend
  BY DEF Next, vars, Launch, Refuse, Progress, SkipRecorded, OpenTranscript, SpawnFails,
         TimesOut, RefuseRow, AcceptResult, RunOracle, OracleTimesOut, AppendRow, Summarise,
         Agent, AgentExits, DrainErrors, CloseTranscript, Kill

LEMMA FileTypedStep == TypeOK /\ [Next]_vars => FileTyped'
  <1> SUFFICES ASSUME TypeOK, [Next]_vars PROVE FileTyped'
    OBVIOUS
  <1>1. /\ launches \in 0..MaxLaunches /\ 0 \in 0..MaxLaunches
        /\ pc # "down" => session \in Sessions
        /\ pc \notin {"down", "loop"} \/ task <= limit => task \in Tasks
    BY Typed, Here
  <1>2. FileTyped
    BY Typed
  <1>3. CASE UNCHANGED disk
    BY <1>2, <1>3 DEF FileTyped, disk, file
  <1>4. CASE OpenTranscript \/ TimesOut \/ DrainErrors
    <2>1. /\ UNCHANGED file /\ session \in Sessions /\ task \in Tasks
          /\ \E n \in 0..MaxLaunches : log' = [log EXCEPT ![session][task] = n]
      BY <1>1, <1>4 DEF OpenTranscript, TimesOut, DrainErrors, CloseTranscript, Scratch
    <2> QED BY <1>2, <2>1 DEF FileTyped, file
  <1>5. CASE AppendRow \/ Summarise \/ TearAppend
    <2>1. UNCHANGED log
      BY <1>5 DEF AppendRow, Summarise, TearAppend
    <2> QED BY <1>2, <1>5, <2>1, FileSteps DEF FileTyped, Wrote, TornWrite
  <1> QED BY <1>3, <1>4, <1>5, DiskKept

LEMMA HistoryTypedStep == TypeOK /\ [Next]_vars => HistoryTyped'
  <1> SUFFICES ASSUME TypeOK, [Next]_vars PROVE HistoryTyped'
    OBVIOUS
  <1>1. /\ pc # "down" => session \in Sessions
        /\ pc \notin {"down", "loop"} => task \in Tasks
    BY Typed, Here
  <1>2. HistoryTyped
    BY Typed
  <1>3. CASE UNCHANGED history
    BY <1>2, <1>3 DEF HistoryTyped, history
  <1>4. CASE Spawn
    BY <1>1, <1>2, <1>4, SessionAssumption DEF Spawn, HistoryTyped, Tasks
  <1>5. CASE CloseOutput
    <2>1. answered' \in [Outs -> [Sessions -> SUBSET Tasks]]
      BY <1>1, <1>2, <1>5 DEF CloseOutput, HistoryTyped
    <2> QED BY <1>2, <1>5, <2>1 DEF CloseOutput, HistoryTyped
  <1>6. CASE TearAppend
    BY <1>2, <1>6, SessionAssumption DEF TearAppend, HistoryTyped
  <1> QED BY <1>3, <1>4, <1>5, <1>6, HistoryKept

LEMMA RunTypedStep == TypeOK /\ [Next]_vars => RunTyped'
  <1> SUFFICES ASSUME TypeOK, [Next]_vars PROVE RunTyped'
    OBVIOUS
  <1>1. RunTyped
    BY Typed
  <1>2. CASE Launch
    <2>1. done' \subseteq Tasks /\ session' \in Sessions
      BY <1>2, FileSteps DEF Read
    <2>2. /\ launches' = launches + 1 /\ launches < MaxLaunches
          /\ launches \in 0..MaxLaunches
          /\ out' \in Outs /\ limit' \in Tasks
          /\ task' = 1 /\ outcome' = "none" /\ pc' = "loop"
      BY <1>1, <1>2 DEF Launch, RunTyped
    <2>3. session' \in 0..MaxLaunches /\ session' # 0
      BY <2>1, SessionAssumption DEF Sessions, Launches
    <2>4. launches' \in 0..MaxLaunches /\ launches' # 0
      BY <2>2, SessionAssumption
    <2>5. task' \in 1..(NTasks + 1) /\ task' - 1 <= limit'
      BY <2>2, SessionAssumption DEF Tasks
    <2> QED BY <2>1, <2>2, <2>3, <2>4, <2>5 DEF RunTyped, Steps, Outcomes
  <1> USE <1>1, SessionAssumption DEF RunTyped, Tasks, Steps, Outcomes, process, Goto
  <1>3. CASE UNCHANGED vars
    BY <1>3 DEF vars
  <1>9. CASE Refuse
    BY <1>9 DEF Refuse
  <1>10. CASE Kill
    BY <1>10 DEF Kill
  <1>4. CASE SkipRecorded \/ OpenTranscript
    BY <1>4 DEF SkipRecorded, OpenTranscript
  <1>5. CASE Spawn \/ SpawnFails \/ CloseOutput \/ AgentExits
    BY <1>5 DEF Spawn, SpawnFails, CloseOutput, AgentExits
  <1>6. CASE TimesOut \/ DrainErrors
    BY <1>6 DEF TimesOut, DrainErrors, CloseTranscript
  <1>7. CASE RefuseRow \/ AcceptResult \/ RunOracle \/ OracleTimesOut
    BY <1>7 DEF RefuseRow, AcceptResult, RunOracle, OracleTimesOut
  <1>8. CASE AppendRow
    BY <1>8 DEF AppendRow
  <1>11. CASE Summarise \/ TearAppend
    BY <1>11 DEF Summarise, TearAppend
  <1> HIDE DEF RunTyped
  <1> QED BY <1>2, <1>3, <1>4, <1>5, <1>6, <1>7, <1>8, <1>9, <1>10, <1>11
     DEF Next, Progress, Agent

LEMMA TypedStep == TypeOK /\ [Next]_vars => TypeOK'
  <1> SUFFICES ASSUME TypeOK, [Next]_vars PROVE FileTyped' /\ RunTyped' /\ HistoryTyped'
    BY DEF TypeOK, FileTyped, RunTyped, HistoryTyped
  <1> QED BY FileTypedStep, RunTypedStep, HistoryTypedStep

-----------------------------------------------------------------------------
(* A start, and a write to the out file, and the invariant *)

RowOf(row) ==
  /\ row.session = session /\ row.run = launches
  /\ \/ pc = "append" /\ row.task = task
     \/ pc = "loop" /\ task > limit /\ row.task = NoTask /\ row.upto = limit

\* What AppendRow, Summarise and TearAppend have in common.
Writes(row) ==
  /\ Wrote(row) /\ RowOf(row) /\ Live
  /\ UNCHANGED <<launches, out, limit, session, done, log, given, answered>>

LEMMA WriteStep ==
  ASSUME TypeOK, AppendRow \/ Summarise \/ TearAppend
  PROVE \E row \in Rows : Writes(row)
  <1>1. CASE pc = "append"
    <2>1. Wrote(TaskRow) /\ TaskRow \in Rows
      BY <1>1, FileSteps, RowsTyped DEF Summarise, TornWrite
    <2>2. RowOf(TaskRow)
      BY <1>1 DEF RowOf, TaskRow
    <2>3. UNCHANGED <<launches, out, limit, session, done, log, given, answered>>
      BY DEF AppendRow, Summarise, TearAppend, Goto, process, history
    <2> QED BY <1>1, <2>1, <2>2, <2>3 DEF Writes, Live
  <1>2. CASE pc # "append"
    <2>1. pc = "loop" /\ task > limit
      BY <1>2 DEF AppendRow, Summarise, TearAppend
    <2>2. Wrote(SummaryRow) /\ SummaryRow \in Rows
      BY <1>2, <2>1, FileSteps, RowsTyped DEF AppendRow, TornWrite
    <2>3. RowOf(SummaryRow)
      BY <2>1 DEF RowOf, SummaryRow
    <2>4. UNCHANGED <<launches, out, limit, session, done, log, given, answered>>
      BY DEF AppendRow, Summarise, TearAppend, Goto, process, history
    <2> QED BY <2>1, <2>2, <2>3, <2>4 DEF Writes, Live
  <1> QED BY <1>1, <1>2

\* A row that is written is of the conversation at hand, and earned.
LEMMA WriteKeeps ==
  ASSUME SessionInv, NEW row \in Rows, Writes(row)
  PROVE /\ Drawn' /\ Owned' /\ OneConversation' /\ SummaryAnswered' /\ TranscriptOfRow'
        /\ \A o \in Outs : \A r \in rows'[o] :
             r.task # NoTask => r.task \in answered'[o][r.session]
  <1>1. \A o \in Outs : \A r \in rows'[o] : r \in rows[o] \/ (o = out /\ r = row)
    <2>1. /\ \A o \in Outs \ {out} : rows'[o] = rows[o]
          /\ rows'[out] \subseteq rows[out] \cup {row}
      BY DEF Writes, Wrote
    <2> QED BY <2>1
  <1>0. out \in Outs
    BY DEF SessionInv, TypeOK
  <1>2. /\ row.session = session /\ row.run = launches /\ Live
        /\ UNCHANGED <<launches, out, limit, session, done, log, given, answered>>
    BY DEF Writes, RowOf
  <1>3. Drawn'
    BY <1>1, <1>2 DEF SessionInv, Drawn
  <1>4. \A r \in rows[out] : r.session = session
    BY <1>0, <1>2 DEF SessionInv, OneConversation, Live
  <1>5. \A o \in Outs : \A r \in rows[o] : r.session = session => o = out
    BY <1>2 DEF SessionInv, Owned
  <1>6. Owned'
    <2>1. \A o, p \in Outs : \A r \in rows'[o], q \in rows'[p] : r.session = q.session => o = p
      BY <1>1, <1>2, <1>5 DEF SessionInv, Owned
    <2>2. \A o \in Outs \ {out} : \A r \in rows'[o] : r.session # session
      BY <1>1, <1>5
    <2> QED BY <1>2, <2>1, <2>2 DEF Owned
  <1>7. OneConversation'
    <2>1. \A r \in rows'[out] : r.session = session
      BY <1>0, <1>1, <1>2, <1>4
    <2>2. \A o \in Outs : \A r, q \in rows'[o] : r.session = q.session
      BY <1>1, <2>1 DEF SessionInv, OneConversation
    <2> QED BY <1>2, <2>1, <2>2 DEF OneConversation
  <1>8. row.task # NoTask => row.task = task /\ pc = "append"
    BY DEF Writes, RowOf
  <1>9. \A o \in Outs : \A r \in rows'[o] :
             r.task # NoTask => r.task \in answered'[o][r.session]
    <2>1. pc = "append" => task \in answered[out][session]
      BY DEF SessionInv, Earned
    <2> QED BY <1>1, <1>2, <1>8, <2>1 DEF SessionInv, Earned
  <1>10. SummaryAnswered'
    <2>1. ASSUME row.task = NoTask PROVE 1..row.upto \subseteq answered[out][session]
      <3>1. CASE pc = "append"
        <4>1. row.task = task /\ task \in 1..(NTasks + 1)
          BY <3>1 DEF Writes, RowOf, SessionInv, TypeOK
        <4> QED BY <2>1, <4>1, SessionAssumption DEF NoTask
      <3>2. CASE pc # "append"
        <4>1. /\ row.upto = limit /\ task > limit
              /\ limit \in 1..NTasks /\ task \in 1..(NTasks + 1)
          BY <3>2 DEF Writes, RowOf, SessionInv, TypeOK, Tasks
        <4>2. 1..limit \subseteq 1..(task - 1)
          BY <4>1, SessionAssumption
        <4>3. 1..(task - 1) \subseteq answered[out][session]
          BY <1>2 DEF SessionInv, Earned
        <4> QED BY <4>1, <4>2, <4>3
      <3> QED BY <3>1, <3>2
    <2>2. \A o \in Outs : \A r \in rows'[o] :
            r.task = NoTask => 1..r.upto \subseteq answered[o][r.session]
      BY <1>1, <1>2, <2>1 DEF SessionInv, SummaryAnswered
    <2> QED BY <1>2, <2>2 DEF SummaryAnswered
  <1>11. TranscriptOfRow'
    <2>1. pc = "append" => log[Scratch(session)][task] = launches
      BY DEF SessionInv, Fresh
    <2>2. \A o \in Outs : \A r \in rows'[o] :
            r.task # NoTask => log[Scratch(r.session)][r.task] = r.run
      BY <1>1, <1>2, <1>8, <2>1 DEF SessionInv, TranscriptOfRow
    <2> QED BY <1>2, <2>2 DEF TranscriptOfRow, Scratch
  <1> QED BY <1>3, <1>6, <1>7, <1>9, <1>10, <1>11

\* A start takes up its file's conversation, or a new one.
LEMMA LaunchKeeps ==
  ASSUME SessionInv, Launch
  PROVE Drawn' /\ Owned' /\ Earned' /\ OneConversation' /\ Fresh' /\ Ordered'
  <1>1. /\ done' \subseteq Tasks
        /\ \A t \in Tasks : t \in done' <=> \E r \in rows[out'] : r.task = t
        /\ session' \in Sessions
        /\ \/ rows[out'] = {} /\ session' = launches + 1
           \/ \E r \in rows[out'] : session' = r.session
    BY Reads DEF Read, SessionInv
  <1>2. /\ UNCHANGED <<rows, unended, loose, log, given, answered, tears>>
        /\ launches' = launches + 1 /\ out' \in Outs /\ task' = 1 /\ pc' = "loop"
        /\ outcome' = "none" /\ launches \in Nat
    BY SessionAssumption DEF Launch, disk, file, history, SessionInv, TypeOK
  <1>3. \A o \in Outs : rows[o] \subseteq Rows
    BY DEF SessionInv, TypeOK
  <1>4. \A o \in Outs : \A r \in rows[o] :
          /\ r.session \in Sessions /\ r.task \in Tasks \cup {NoTask}
          /\ r.session <= launches
    BY <1>3 DEF Rows, SessionInv, Drawn
  <1>5. \A s \in Sessions : s \in Nat
    BY DEF Sessions, Launches
  <1>6. session' <= launches'
    BY <1>1, <1>2, <1>4, <1>5
  <1>7. Drawn'
    <2>1. \A o \in Outs : \A r \in rows[o] : r.session <= launches'
      BY <1>2, <1>4, <1>5
    <2>2. \A s \in Sessions : s > launches' => given[s] = 0
      BY <1>2, <1>5 DEF SessionInv, Drawn
    <2> QED BY <1>2, <1>6, <2>1, <2>2 DEF Drawn
  <1>8. \A o \in Outs \ {out'} : \A r \in rows[o] : r.session # session'
    <2>1. CASE session' = launches + 1
      BY <1>2, <1>4, <1>5, <2>1
    <2>2. CASE \E r \in rows[out'] : session' = r.session
      BY <1>2, <2>2 DEF SessionInv, Owned
    <2> QED BY <1>1, <2>1, <2>2
  <1>9. Owned'
    BY <1>2, <1>8 DEF SessionInv, Owned
  <1>10. \A r \in rows[out'] : r.session = session'
    BY <1>1, <1>2 DEF SessionInv, OneConversation
  <1>11. OneConversation'
    BY <1>2, <1>10 DEF SessionInv, OneConversation
  <1>12. Earned'
    <2>1. done' \subseteq answered[out'][session']
      <3>1. ASSUME NEW t \in done' PROVE t \in answered[out'][session']
        <4>1. PICK r \in rows[out'] : r.task = t
          BY <1>1, <3>1
        <4>2. t # NoTask
          BY <1>1, <3>1 DEF Tasks, NoTask
        <4> QED BY <1>2, <1>10, <4>1, <4>2 DEF SessionInv, Earned
      <3> QED BY <3>1
    <2>2. 1..(task' - 1) = {}
      BY <1>2
    <2> QED BY <1>2, <2>1, <2>2 DEF SessionInv, Earned
  <1>13. Fresh'
    <2>1. \A r \in rows[out'] : r.task \in done' \/ r.task < task'
      BY <1>1, <1>2, <1>4 DEF NoTask
    <2> QED BY <1>2, <2>1 DEF Fresh
  <1>14. Ordered'
    <2>1. ASSUME tears = 0, NEW t \in Tasks, t < given[session'] PROVE t \in done'
      <3>1. CASE session' = launches + 1
        <4>1. given[session'] = 0
          BY <1>1, <1>2, <1>5, <3>1 DEF SessionInv, Drawn
        <4> QED BY <2>1, <4>1 DEF Tasks
      <3>2. CASE \E r \in rows[out'] : session' = r.session
        BY <1>1, <1>2, <2>1, <3>2 DEF SessionInv, Ordered
      <3> QED BY <1>1, <3>1, <3>2
    <2>2. \A t \in Tasks : t \in done' \/ t < task' => \E q \in rows[out'] : q.task = t
      BY <1>1, <1>2 DEF Tasks
    <2> QED BY <1>2, <2>1, <2>2 DEF SessionInv, Ordered
  <1> QED BY <1>7, <1>9, <1>11, <1>12, <1>13, <1>14

\* No row tells of the task at hand.
LEMMA Unrecorded ==
  ASSUME SessionInv, Live, task \notin done, NEW o \in Outs, NEW r \in rows[o]
  PROVE ~(r.session = session /\ r.task = task)
  <1>1. r.session = session => o = out
    BY DEF SessionInv, Owned
  <1>2. o = out => r.task \in done \/ r.task < task
    BY DEF SessionInv, Fresh
  <1>3. task \in Nat
    BY SessionAssumption DEF SessionInv, TypeOK
  <1> QED BY <1>1, <1>2, <1>3

\* A transcript is only ever written where no row points.
LEMMA TranscriptWritten ==
  ASSUME SessionInv, Live, task \notin done, task \in Tasks, UNCHANGED rows,
         NEW n \in Nat, log' = [log EXCEPT ![Scratch(session)][task] = n]
  PROVE TranscriptOfRow'
  <1>1. ASSUME NEW o \in Outs, NEW r \in rows[o], r.task # NoTask
        PROVE log'[r.session][r.task] = r.run
    <2>1. log[r.session][r.task] = r.run
      BY <1>1 DEF SessionInv, TranscriptOfRow, Scratch
    <2>2. r.session \in Sessions /\ r.task \in Tasks
      BY <1>1 DEF SessionInv, TypeOK, Rows
    <2>3. session \in Sessions
      BY Typed, Here DEF SessionInv, Live
    <2>4. ~(r.session = session /\ r.task = task)
      BY Unrecorded
    <2>5. log \in [Sessions -> [Tasks -> 0..MaxLaunches]]
      BY DEF SessionInv, TypeOK
    <2> QED BY <2>1, <2>2, <2>3, <2>4, <2>5 DEF Scratch
  <1> QED BY <1>1 DEF TranscriptOfRow, Scratch

-----------------------------------------------------------------------------
(* Every step keeps the invariant *)

Facts ==
  /\ Drawn /\ Owned /\ Earned /\ Fresh /\ Ordered
  /\ OneConversation /\ SummaryAnswered /\ TranscriptOfRow

\* Nothing but the place in the program changes, and that as the code goes on.
Quiet ==
  /\ UNCHANGED <<rows, unended, loose, log, out, session, done, task, outcome,
                 given, answered, tears>>
  /\ \/ UNCHANGED launches
     \/ launches' = launches + 1 /\ pc = "down"
  /\ \/ pc' = pc \/ pc' = "down"
     \/ pc = "waiting" /\ pc' = "draining"
     \/ pc = "parsed" /\ outcome = "result" /\ pc' = "oracle"
     \/ pc = "oracle" /\ pc' = "append"

LEMMA QuietKeeps == ASSUME SessionInv, Quiet PROVE Facts'
  <1>1. launches \in Nat /\ \A s \in Sessions : s \in Nat
    BY DEF SessionInv, TypeOK, Sessions, Launches
  <1>2. session \in Nat /\ \A o \in Outs : \A r \in rows[o] : r.session \in Nat
    BY <1>1 DEF SessionInv, TypeOK, Rows, Sessions, Launches
  <1>3. Drawn'
    BY <1>1, <1>2 DEF Quiet, SessionInv, Drawn
  <1>4. Owned' /\ OneConversation'
    BY DEF Quiet, SessionInv, Owned, OneConversation, Live
  <1>5. Earned' /\ SummaryAnswered'
    BY DEF Quiet, SessionInv, Earned, SummaryAnswered, Live
  <1>6. Fresh' /\ TranscriptOfRow'
    BY DEF Quiet, SessionInv, Fresh, TranscriptOfRow, Live, Scratch
  <1>7. Ordered'
    BY DEF Quiet, SessionInv, Ordered, Live
  <1> QED BY <1>3, <1>4, <1>5, <1>6, <1>7 DEF Facts

LEMMA QuietSteps ==
  ASSUME \/ UNCHANGED vars \/ Refuse \/ SpawnFails \/ AgentExits \/ RefuseRow
         \/ AcceptResult \/ RunOracle \/ OracleTimesOut \/ Kill
  PROVE Quiet
  BY DEF vars, Refuse, SpawnFails, AgentExits, RefuseRow, AcceptResult, RunOracle,
         OracleTimesOut, Kill, Goto, disk, file, process, history, Quiet

LEMMA SkipKeeps == ASSUME SessionInv, SkipRecorded PROVE Facts'
  <1>1. /\ task' = task + 1 /\ task \in 1..(NTasks + 1)
        /\ pc = "loop" /\ pc' = "loop" /\ Live /\ task \in done
        /\ UNCHANGED <<rows, unended, loose, log, launches, out, session, done,
                       given, answered, tears>>
    BY DEF SkipRecorded, Goto, disk, file, process, history, SessionInv, TypeOK, Live
  <1>2. task \in Nat /\ 1..(task' - 1) \subseteq 1..(task - 1) \cup {task}
    BY <1>1, SessionAssumption
  <1>3. /\ \A r \in rows[out] : r.task \in Nat
        /\ \A t \in Tasks : t \in Nat
    BY DEF SessionInv, TypeOK, Rows, Tasks, NoTask
  <1>4. Drawn' /\ Owned' /\ OneConversation' /\ SummaryAnswered' /\ TranscriptOfRow'
    BY <1>1
    DEF SessionInv, Drawn, Owned, OneConversation, SummaryAnswered, TranscriptOfRow,
        Live, Scratch
  <1>5. Earned'
    BY <1>1, <1>2 DEF SessionInv, Earned
  <1>6. Fresh'
    BY <1>1, <1>2, <1>3 DEF SessionInv, Fresh
  <1>7. Ordered'
    BY <1>1, <1>2, <1>3 DEF SessionInv, Ordered
  <1> QED BY <1>4, <1>5, <1>6, <1>7 DEF Facts

LEMMA TranscriptKeeps ==
  ASSUME SessionInv, OpenTranscript \/ TimesOut \/ DrainErrors PROVE Facts'
  <1>1. /\ Live /\ Live' /\ task \notin done /\ task \in Tasks /\ session \in Sessions
        /\ launches \in Nat
    BY Typed, Here
    DEF OpenTranscript, TimesOut, DrainErrors, CloseTranscript, Goto, SessionInv, Live,
        Fresh
  <1>2. /\ UNCHANGED <<rows, unended, loose, launches, out, session, done, task,
                       outcome, given, answered, tears>>
        /\ \/ log' = [log EXCEPT ![Scratch(session)][task] = 0] /\ pc' = "spawn"
           \/ /\ log' = [log EXCEPT ![Scratch(session)][task] = launches]
              /\ pc \in {"waiting", "draining"} /\ pc' = "parsed"
    BY DEF OpenTranscript, TimesOut, DrainErrors, CloseTranscript, Goto, file, process,
           history
  <1>3. TranscriptOfRow'
    BY <1>1, <1>2, TranscriptWritten
  <1>4. Drawn' /\ Owned' /\ OneConversation' /\ SummaryAnswered'
    BY <1>1, <1>2 DEF SessionInv, Drawn, Owned, OneConversation, SummaryAnswered, Live
  <1>5. Earned' /\ Ordered'
    BY <1>1, <1>2 DEF SessionInv, Earned, Ordered
  <1>6. Fresh'
    <2>1. pc' = "parsed" => log'[Scratch(session)][task] = launches
      BY <1>1, <1>2 DEF SessionInv, TypeOK, Scratch
    <2> QED BY <1>1, <1>2, <2>1 DEF SessionInv, Fresh, Scratch
  <1> QED BY <1>3, <1>4, <1>5, <1>6 DEF Facts

LEMMA SpawnKeeps == ASSUME SessionInv, Spawn PROVE Facts'
  <1>1. /\ UNCHANGED <<rows, unended, loose, log, launches, out, session, done, task,
                       outcome, answered, tears>>
        /\ Live /\ pc' = "reading" /\ given' = [given EXCEPT ![session] = task]
    BY DEF Spawn, Goto, disk, file, process, Live
  <1>2. /\ task \in Tasks /\ task \notin done /\ session \in Sessions
        /\ given \in [Sessions -> 0..NTasks]
    BY Typed, Here DEF Spawn, SessionInv, TypeOK, Fresh
  <1>3. \A o \in Outs : \A r \in rows[o] : r.session \in Sessions
    BY DEF SessionInv, TypeOK, Rows
  <1>4. \A o \in Outs : \A r \in rows[o] : r.session = session => o = out
    BY <1>1 DEF SessionInv, Owned
  <1>5. given'[session] = task /\ \A s \in Sessions : s # session => given'[s] = given[s]
    BY <1>1, <1>2
  <1>6. Ordered'
    <2>1. ASSUME tears = 0, NEW o \in Outs, NEW r \in rows[o], NEW t \in Tasks,
                 t < given'[r.session]
          PROVE \E q \in rows[o] : q.task = t
      <3>1. CASE r.session = session
        <4>1. o = out /\ t < task
          BY <1>4, <1>5, <2>1, <3>1
        <4> QED BY <1>1, <2>1, <4>1 DEF SessionInv, Ordered
      <3>2. CASE r.session # session
        BY <1>3, <1>5, <2>1, <3>2 DEF SessionInv, Ordered
      <3> QED BY <3>1, <3>2
    <2> QED BY <1>1, <1>5, <2>1 DEF SessionInv, Ordered
  <1>7. Drawn'
    <2>1. session <= launches
      BY DEF SessionInv, Drawn
    <2>2. session \in Nat /\ launches \in Nat
      BY DEF SessionInv, TypeOK
    <2>3. \A s \in Sessions : s > launches => given'[s] = 0
      BY <1>5, <2>1, <2>2 DEF SessionInv, Drawn
    <2> QED BY <1>1, <2>3 DEF SessionInv, Drawn
  <1>8. Owned' /\ OneConversation' /\ SummaryAnswered' /\ TranscriptOfRow'
    BY <1>1 DEF SessionInv, Owned, OneConversation, SummaryAnswered, TranscriptOfRow,
                Live, Scratch
  <1>9. Earned' /\ Fresh'
    BY <1>1, <1>2 DEF SessionInv, Earned, Fresh, Live
  <1> QED BY <1>6, <1>7, <1>8, <1>9 DEF Facts

LEMMA CloseOutputKeeps == ASSUME SessionInv, CloseOutput PROVE Facts'
  <1>1. /\ UNCHANGED <<rows, unended, loose, log, launches, out, session, done, task,
                       given, tears>>
        /\ pc = "reading" /\ pc' = "waiting" /\ Live
    BY DEF CloseOutput, Goto, process, disk, file, Live
  <1>2. \A o \in Outs : \A s \in Sessions : answered[o][s] \subseteq answered'[o][s]
    BY DEF CloseOutput, SessionInv, TypeOK
  <1>3. outcome' = "result" => task \in answered'[out][session]
    BY Typed, Here DEF CloseOutput, SessionInv, TypeOK
  <1>4. session \in Sessions /\ out \in Outs
    BY <1>1, Typed, Here DEF SessionInv, TypeOK
  <1>5. \A o \in Outs : \A r \in rows[o] : r.session \in Sessions
    BY DEF SessionInv, TypeOK, Rows
  <1>6. Earned' /\ SummaryAnswered'
    BY <1>1, <1>2, <1>3, <1>4, <1>5 DEF SessionInv, Earned, SummaryAnswered, Live
  <1>7. Drawn' /\ Owned' /\ OneConversation' /\ TranscriptOfRow'
    BY <1>1 DEF SessionInv, Drawn, Owned, OneConversation, TranscriptOfRow, Live, Scratch
  <1>8. Fresh' /\ Ordered'
    BY <1>1 DEF SessionInv, Fresh, Ordered, Live
  <1> QED BY <1>6, <1>7, <1>8 DEF Facts

LEMMA AppendKeeps == ASSUME SessionInv, AppendRow PROVE Facts'
  <1>1. /\ task' = task + 1 /\ task \in 1..(NTasks + 1) /\ out \in Outs
        /\ pc = "append" /\ pc' = "loop" /\ Live
        /\ UNCHANGED <<answered, done, out, session, given, tears>>
    BY DEF AppendRow, Goto, process, history, SessionInv, TypeOK, Live
  <1>2. task \in Nat /\ 1..(task' - 1) \subseteq 1..(task - 1) \cup {task}
    BY <1>1, SessionAssumption
  <1>3. PICK row \in Rows : Writes(row)
    BY WriteStep DEF SessionInv
  <1>4. /\ Drawn' /\ Owned' /\ OneConversation' /\ SummaryAnswered' /\ TranscriptOfRow'
        /\ \A o \in Outs : \A r \in rows'[o] :
             r.task # NoTask => r.task \in answered'[o][r.session]
    BY <1>3, WriteKeeps
  <1>5. Earned'
    BY <1>1, <1>2, <1>4 DEF SessionInv, Earned
  <1>6. TaskRow.task = task /\ TaskRow.session = session
    BY DEF TaskRow
  <1>7. Fresh'
    <2>1. \A r \in rows'[out] : r \in rows[out] \/ r = TaskRow
      BY FileSteps DEF Wrote, SessionInv
    <2>2. \A r \in rows[out] : r.task \in Nat
      BY <1>1 DEF SessionInv, TypeOK, Rows, Tasks, NoTask
    <2>3. \A r \in rows'[out] : r.task \in done \/ r.task < task + 1
      BY <1>1, <1>2, <1>6, <2>1, <2>2 DEF SessionInv, Fresh
    <2> QED BY <1>1, <2>3 DEF Fresh
  <1>8. Ordered'
    <2> SUFFICES ASSUME tears = 0 PROVE Ordered'
      BY <1>1 DEF Ordered
    <2>1. \A o \in Outs : unended[o] = FALSE /\ loose[o] = {}
      BY DEF SessionInv, Ordered
    <2>2. /\ rows' = [rows EXCEPT ![out] = rows[out] \cup {TaskRow}]
          /\ \A o \in Outs : unended'[o] = FALSE /\ loose'[o] = {}
          /\ rows \in [Outs -> SUBSET Rows]
      BY <1>1, <2>1 DEF AppendRow, Appended, Kept, SessionInv, TypeOK
    <2>3. TaskRow \in rows'[out] /\ \A o \in Outs : rows[o] \subseteq rows'[o]
      BY <1>1, <2>2
    <2>4. /\ \A t \in Tasks : t < given[session] => t \in done \/ t < task
          /\ \A t \in Tasks : t \in done \/ t < task => \E q \in rows[out] : q.task = t
      BY <1>1 DEF SessionInv, Ordered
    <2>5. ASSUME NEW o \in Outs, NEW r \in rows'[o], NEW t \in Tasks, t < given[r.session]
          PROVE \E q \in rows'[o] : q.task = t
      <3>1. CASE r \in rows[o]
        BY <2>3, <2>5, <3>1 DEF SessionInv, Ordered
      <3>2. CASE r \notin rows[o]
        <4>1. o = out /\ r = TaskRow
          BY <1>1, <2>2, <2>5, <3>2
        <4> QED BY <1>6, <2>3, <2>4, <2>5, <4>1
      <3> QED BY <3>1, <3>2
    <2>6. \A t \in Tasks : t < task + 1 => t < task \/ t = task
      BY <1>2 DEF Tasks
    <2>7. \A t \in Tasks : t < task => t < task + 1
      BY <1>2 DEF Tasks
    <2> QED BY <1>1, <1>6, <2>2, <2>3, <2>4, <2>5, <2>6, <2>7 DEF Ordered
  <1> QED BY <1>4, <1>5, <1>7, <1>8 DEF Facts

LEMMA EndKeeps == ASSUME SessionInv, Summarise \/ TearAppend PROVE Facts'
  <1>1. pc' = "down" /\ UNCHANGED <<answered, out, given>>
    BY DEF Summarise, TearAppend, Goto, process, history
  <1>2. PICK row \in Rows : Writes(row)
    BY WriteStep DEF SessionInv
  <1>3. /\ Drawn' /\ Owned' /\ OneConversation' /\ SummaryAnswered' /\ TranscriptOfRow'
        /\ \A o \in Outs : \A r \in rows'[o] :
             r.task # NoTask => r.task \in answered'[o][r.session]
    BY <1>2, WriteKeeps
  <1>4. Earned' /\ Fresh'
    BY <1>1, <1>3 DEF Earned, Fresh, Live
  <1>5. Ordered'
    <2>1. CASE TearAppend
      <3>1. tears' # 0
        BY <2>1, SessionAssumption DEF TearAppend, SessionInv, TypeOK
      <3> QED BY <3>1 DEF Ordered
    <2>2. CASE Summarise
      <3> SUFFICES ASSUME tears = 0 PROVE Ordered'
        BY <2>2 DEF Summarise, history, Ordered
      <3>1. \A o \in Outs : unended[o] = FALSE /\ loose[o] = {}
        BY DEF SessionInv, Ordered
      <3>2. /\ rows' = [rows EXCEPT ![out] = rows[out] \cup {SummaryRow}] /\ out \in Outs
            /\ \A o \in Outs : unended'[o] = FALSE /\ loose'[o] = {}
            /\ rows \in [Outs -> SUBSET Rows]
        BY <2>2, <3>1 DEF Summarise, Appended, Kept, SessionInv, TypeOK
      <3>3. \A t \in Tasks : t < given[session] => \E q \in rows[out] : q.task = t
        BY <2>2 DEF Summarise, SessionInv, Ordered, Live
      <3>4. ASSUME NEW o \in Outs, NEW r \in rows'[o], NEW t \in Tasks,
                   t < given[r.session]
            PROVE \E q \in rows[o] : q.task = t
        <4>1. CASE r \in rows[o]
          BY <3>4, <4>1 DEF SessionInv, Ordered
        <4>2. CASE r \notin rows[o]
          <5>1. o = out /\ r.session = session
            BY <3>2, <3>4, <4>2 DEF SummaryRow
          <5> QED BY <3>3, <3>4, <5>1
        <4> QED BY <4>1, <4>2
      <3>5. \A o \in Outs : rows[o] \subseteq rows'[o]
        BY <3>2
      <3> QED BY <1>1, <3>2, <3>4, <3>5 DEF Ordered, Live
    <2> QED BY <2>1, <2>2
  <1> QED BY <1>3, <1>4, <1>5 DEF Facts

LEMMA LaunchStep == ASSUME SessionInv, Launch PROVE Facts'
  <1>1. UNCHANGED <<rows, log, answered>>
    BY DEF Launch, disk, file, history
  <1>2. SummaryAnswered' /\ TranscriptOfRow'
    BY <1>1 DEF SessionInv, SummaryAnswered, TranscriptOfRow, Scratch
  <1> QED BY <1>2, LaunchKeeps DEF Facts

LEMMA SessionStep == SessionInv /\ [Next]_vars => SessionInv'
  <1> SUFFICES ASSUME SessionInv, [Next]_vars PROVE Facts' /\ TypeOK'
    BY DEF SessionInv, Facts
  <1>1. TypeOK'
    BY TypedStep DEF SessionInv
  <1>2. Facts'
    BY QuietSteps, QuietKeeps, LaunchStep, SkipKeeps, TranscriptKeeps, SpawnKeeps,
       CloseOutputKeeps, AppendKeeps, EndKeeps
    DEF Next, Progress, Agent
  <1> QED BY <1>1, <1>2

-----------------------------------------------------------------------------
(* The theorems *)

LEMMA InitInv == Init => SessionInv
  <1> SUFFICES ASSUME Init PROVE SessionInv
    OBVIOUS
  <1>1. TypeOK
    BY SessionAssumption
    DEF Init, TypeOK, Tasks, Launches, Sessions, Steps, Outcomes
  <1>2. /\ pc = "down" /\ session = 0 /\ launches = 0
        /\ \A o \in Outs : rows[o] = {} /\ unended[o] = FALSE /\ loose[o] = {}
        /\ \A s \in Sessions : given[s] = 0
    BY DEF Init
  <1> QED
    BY <1>1, <1>2
    DEF SessionInv, Live, Drawn, Owned, Earned, Fresh, Ordered, OneConversation,
        SummaryAnswered, TranscriptOfRow

LEMMA Invariant == Spec => []SessionInv
  BY InitInv, SessionStep, PTL DEF Spec

\* The files, the process and what is remembered of both keep their types.
THEOREM SessionTyped == Spec => []TypeOK
  BY Invariant, PTL DEF SessionInv

\* All that is recorded in an out file is of one conversation, whatever was
\* killed, torn or refused, and a run over the file is in that conversation.
THEOREM ConversationIsOne == Spec => []OneConversation
  BY Invariant, PTL DEF SessionInv

\* A summary reports tasks that were all answered in the conversation it names.
THEOREM SummaryIsAnswered == Spec => []SummaryAnswered
  BY Invariant, PTL DEF SessionInv

\* The transcript beside a row is its own and whole, whatever ran since.
THEOREM TranscriptIsOfRow == Spec => []TranscriptOfRow
  BY Invariant, PTL DEF SessionInv

\* While no append was torn, no conversation goes back to an earlier task.
THEOREM OrderIsFrozen == Spec => FrozenOrder
  <1>1. SessionInv /\ [Next]_vars => [tears = 0 => \A s \in Sessions : given'[s] >= given[s]]_vars
    <2> SUFFICES ASSUME SessionInv, Next, tears = 0, NEW s \in Sessions
                 PROVE given'[s] >= given[s]
      OBVIOUS
    <2>0. tears = 0
      OBVIOUS
    <2>1. given \in [Sessions -> 0..NTasks]
      BY DEF SessionInv, TypeOK
    <2>2. CASE Spawn
      <3>1. /\ given' = [given EXCEPT ![session] = task] /\ Live
            /\ task \in Tasks /\ task \notin done
        BY <2>2, Typed, Here DEF Spawn, SessionInv, Live, Fresh
      <3>2. given[session] <= task
        <4>1. session \in Sessions
          BY <3>1, Typed, Here DEF SessionInv, Live
        <4>2. given[session] \in 0..NTasks /\ task \in 1..NTasks
          BY <2>1, <3>1, <4>1 DEF Tasks
        <4>3. ~(task < given[session])
          <5>1. task < given[session] => task \in done \/ task < task
            BY <2>0, <3>1 DEF SessionInv, Ordered
          <5> QED BY <3>1, <4>2, <5>1
        <4> QED BY <4>2, <4>3, SessionAssumption
      <3>3. given[s] \in Nat /\ task \in Nat
        BY <2>1, <3>1, SessionAssumption DEF Tasks
      <3> QED BY <2>1, <3>1, <3>2, <3>3
    <2>3. CASE ~Spawn
      <3>1. UNCHANGED given
        BY <2>3, HistoryKept DEF history, CloseOutput, TearAppend
      <3>2. given[s] \in Int
        BY <2>1
      <3> QED BY <3>1, <3>2
    <2> QED BY <2>2, <2>3
  <1> QED BY <1>1, Invariant, PTL DEF Spec, FrozenOrder

-----------------------------------------------------------------------------
(* The out files implement the ledger *)

\* A row in doubt is on an unfinished line.
LooseLast == \A o \in Outs : loose[o] # {} => unended[o]

\* A conversation no launch began has answered nothing.
Heard == \A o \in Outs : \A s \in Sessions : answered[o][s] # {} => s <= launches

LedgerInv == SessionInv /\ LooseLast /\ Heard

LEMMA LooseStep == ASSUME SessionInv, LooseLast, [Next]_vars PROVE LooseLast'
  <1>1. /\ unended \in [Outs -> BOOLEAN] /\ loose \in [Outs -> SUBSET Rows]
        /\ out \in Outs
    BY DEF SessionInv, TypeOK
  <1>2. CASE UNCHANGED file
    BY <1>2 DEF file, LooseLast
  <1>3. CASE AppendRow \/ Summarise
    <2>1. \E row : Appended(out, row)
      BY <1>3 DEF AppendRow, Summarise
    <2> QED BY <1>1, <2>1 DEF Appended, LooseLast
  <1>4. CASE TearAppend
    <2>1. \E row : Torn(out, row)
      BY <1>4 DEF TearAppend
    <2> QED BY <1>1, <2>1 DEF Torn, LooseLast
  <1> QED BY <1>2, <1>3, <1>4, DiskKept
     DEF disk, OpenTranscript, TimesOut, DrainErrors, CloseTranscript

LEMMA HeardStep == ASSUME SessionInv, Heard, [Next]_vars PROVE Heard'
  <1>1. launches \in Nat /\ launches' \in {launches, launches + 1}
    BY DEF SessionInv, TypeOK, Next, vars, Launch, Refuse, Progress, SkipRecorded,
           OpenTranscript, Spawn, SpawnFails, TimesOut, CloseTranscript, RefuseRow,
           AcceptResult, RunOracle, OracleTimesOut, AppendRow, Summarise, Agent,
           CloseOutput, AgentExits, DrainErrors, Kill, TearAppend, Goto
  <1>2. \A s \in Sessions : s \in Nat
    BY DEF Sessions, Launches
  <1>3. CASE UNCHANGED answered
    BY <1>1, <1>2, <1>3 DEF Heard
  <1>4. CASE CloseOutput
    <2>1. session <= launches /\ UNCHANGED launches
      BY <1>4 DEF CloseOutput, Goto, SessionInv, Drawn
    <2>2. answered \in [Outs -> [Sessions -> SUBSET Tasks]]
      BY DEF SessionInv, TypeOK
    <2>3. \A o \in Outs : \A s \in Sessions :
            s # session => answered'[o][s] = answered[o][s]
      BY <1>4, <2>2 DEF CloseOutput
    <2> QED BY <2>1, <2>3 DEF Heard
  <1> QED BY <1>3, <1>4, HistoryKept DEF history, Spawn, TearAppend

LEMMA LedgerInvariant == Spec => []LedgerInv
  <1>1. Init => LooseLast /\ Heard
    BY DEF Init, LooseLast, Heard
  <1>2. LedgerInv /\ [Next]_vars => LedgerInv'
    BY SessionStep, LooseStep, HeardStep DEF LedgerInv
  <1> QED BY <1>1, <1>2, InitInv, PTL DEF Spec, LedgerInv

\* The rows a run writes are due when it writes them.
LEMMA TaskRowDue == ASSUME SessionInv, pc = "append" PROVE L!Due(TaskRow)
  <1>1. /\ task \in Nat /\ limit \in Nat /\ task <= limit /\ task \notin done
        /\ task \in answered[out][session]
    BY SessionAssumption DEF SessionInv, TypeOK, Tasks, Earned, Fresh
  <1>2. task \in Todo /\ \A u \in Todo : task <= u
    BY <1>1 DEF Todo, Live
  <1> QED BY <1>1, <1>2 DEF L!Due, L!First, TaskRow, Live

LEMMA SummaryRowDue ==
  ASSUME SessionInv, pc = "loop", task > limit PROVE L!Due(SummaryRow)
  <1>1. /\ task \in Nat /\ limit \in Nat
        /\ 1..(task - 1) \subseteq answered[out][session]
    BY SessionAssumption DEF SessionInv, TypeOK, Tasks, Earned, Live
  <1>2. Todo = {} /\ 1..limit \subseteq answered[out][session]
    BY <1>1 DEF Todo
  <1> QED BY <1>2 DEF L!Due, SummaryRow, Live, Tasks, NoTask

LEMMA AppendedImplements ==
  ASSUME LedgerInv, NEW row \in Rows, L!Due(row), Appended(out, row), L!Advance,
         Live' = (row.task \in Tasks), row.task \notin Todo'
  PROVE L!Commit(row) \/ L!Drop \/ L!Lose
  <1>1. out \in Outs /\ rows \in [Outs -> SUBSET Rows] /\ loose \in [Outs -> SUBSET Rows]
    BY DEF LedgerInv, SessionInv, TypeOK
  <1>2. CASE ~unended[out]
    <2>1. loose[out] = {}
      BY <1>1, <1>2 DEF LedgerInv, LooseLast
    <2>2. rows' = [rows EXCEPT ![out] = @ \cup {row}] /\ loose' = loose
      BY <1>1, <1>2, <2>1 DEF Appended, Kept
    <2> QED BY <2>1, <2>2 DEF L!Commit, L!Enter
  <1>3. CASE unended[out] /\ loose[out] = {}
    <2>1. rows' = rows /\ loose' = loose
      BY <1>1, <1>3 DEF Appended, Kept
    <2> QED BY <2>1 DEF L!Drop
  <1>4. CASE unended[out] /\ loose[out] # {}
    <2>1. /\ rows' = [rows EXCEPT ![out] = @ \ loose[out]]
          /\ loose' = [loose EXCEPT ![out] = {}]
      BY <1>1, <1>4 DEF Appended, Kept
    <2> QED BY <1>4, <2>1 DEF L!Lose, L!Due
  <1> QED BY <1>2, <1>3, <1>4

LEMMA TornImplements ==
  ASSUME LedgerInv, NEW row \in Rows, L!Due(row), Torn(out, row), L!Advance, ~Live'
  PROVE L!HalfCommit(row) \/ L!Drop \/ L!Lose
  <1>1. out \in Outs /\ rows \in [Outs -> SUBSET Rows] /\ loose \in [Outs -> SUBSET Rows]
    BY DEF LedgerInv, SessionInv, TypeOK
  <1>2. CASE loose[out] # {}
    <2>1. /\ rows' = [rows EXCEPT ![out] = @ \ loose[out]]
          /\ loose' = [loose EXCEPT ![out] = {}]
      BY <1>1, <1>2 DEF Torn, Kept, LedgerInv, LooseLast
    <2> QED BY <1>2, <2>1 DEF L!Lose, L!Due
  <1>3. CASE loose[out] = {}
    <2>1. \/ rows' = rows /\ loose' = loose
          \/ /\ rows' = [rows EXCEPT ![out] = @ \cup {row}]
             /\ loose' = [loose EXCEPT ![out] = {row}]
      BY <1>1, <1>3 DEF Torn, Kept
    <2> QED BY <1>3, <2>1 DEF L!HalfCommit, L!Drop, L!Enter
  <1> QED BY <1>2, <1>3

LEMMA AppendImplements ==
  ASSUME LedgerInv, AppendRow PROVE L!Commit(TaskRow) \/ L!Drop \/ L!Lose
  <1>1. /\ pc = "append" /\ pc' = "loop" /\ task' = task + 1
        /\ UNCHANGED <<out, session, limit, done, answered>>
        /\ Appended(out, TaskRow)
    BY DEF AppendRow, Goto, process, history
  <1>2. task \in Nat /\ limit \in Nat /\ task \in Tasks
    BY <1>1, Typed, Here, SessionAssumption DEF LedgerInv, SessionInv, TypeOK, Tasks
  <1>3. Live /\ Live' /\ Todo' \subseteq Todo /\ task \notin Todo'
    BY <1>1, <1>2 DEF Todo, Live
  <1>4. L!Advance
    BY <1>1, <1>3 DEF L!Advance, L!place
  <1>5. TaskRow \in Rows /\ L!Due(TaskRow)
    BY <1>1, TaskRowDue, RowsTyped DEF LedgerInv, SessionInv
  <1>6. TaskRow.task = task
    BY DEF TaskRow
  <1> QED BY <1>1, <1>2, <1>3, <1>4, <1>5, <1>6, AppendedImplements

LEMMA SummariseImplements ==
  ASSUME LedgerInv, Summarise PROVE L!Commit(SummaryRow) \/ L!Drop \/ L!Lose
  <1>1. /\ pc = "loop" /\ pc' = "down" /\ task > limit
        /\ UNCHANGED <<out, session, answered>>
        /\ Appended(out, SummaryRow)
    BY DEF Summarise, Goto, process, history
  <1>2. Live /\ ~Live' /\ Todo' = {}
    BY <1>1 DEF Todo, Live
  <1>3. L!Advance
    BY <1>1, <1>2 DEF L!Advance, L!place
  <1>4. SummaryRow \in Rows /\ L!Due(SummaryRow)
    BY <1>1, SummaryRowDue, RowsTyped DEF LedgerInv, SessionInv
  <1>5. SummaryRow.task \notin Tasks
    BY DEF SummaryRow, NoTask, Tasks
  <1>6. Live' = (SummaryRow.task \in Tasks)
    BY <1>2, <1>5 DEF Live
  <1> QED BY <1>1, <1>2, <1>3, <1>4, <1>6, AppendedImplements

LEMMA TearImplements ==
  ASSUME LedgerInv, TearAppend
  PROVE (\E row \in Rows : L!HalfCommit(row)) \/ L!Drop \/ L!Lose
  <1>1. pc' = "down" /\ UNCHANGED <<out, session, answered>>
    BY DEF TearAppend, Goto, process
  <1>2. ~Live' /\ Todo' = {}
    BY <1>1 DEF Todo, Live
  <1>3. L!Advance
    BY <1>1, <1>2 DEF L!Advance, L!place
  <1>4. \E row \in Rows : L!Due(row) /\ Torn(out, row)
    BY TaskRowDue, SummaryRowDue, RowsTyped DEF TearAppend, LedgerInv, SessionInv
  <1> QED BY <1>2, <1>3, <1>4, TornImplements

LEMMA LaunchImplements == ASSUME LedgerInv, Launch PROVE L!Open
  <1>1. /\ pc = "down" /\ pc' = "loop" /\ out' \in Outs /\ task' = 1 /\ limit' \in Tasks
        /\ session' \in ConversationOf(out') /\ done' = DoneIn(out')
        /\ UNCHANGED <<rows, loose, answered>>
    BY DEF Launch, disk, file, history
  <1>2. launches \in Nat /\ launches + 1 \in Sessions
    BY SessionAssumption DEF Launch, LedgerInv, SessionInv, TypeOK, Sessions, Launches
  <1>3. launches + 1 \in L!Free
    <2>1. ASSUME NEW o \in Outs, NEW r \in rows[o] PROVE r.session # launches + 1
      <3>1. r.session <= launches
        BY DEF LedgerInv, SessionInv, Drawn
      <3>2. r.session \in Nat
        BY DEF LedgerInv, SessionInv, TypeOK, Rows, Sessions, Launches
      <3> QED BY <1>2, <3>1, <3>2
    <2>2. ASSUME NEW o \in Outs PROVE answered[o][launches + 1] = {}
      <3>1. ~(launches + 1 <= launches)
        BY <1>2
      <3> QED BY <1>2, <3>1 DEF LedgerInv, Heard
    <2> QED BY <1>2, <2>1, <2>2 DEF L!Free
  <1>4. session' \in IF rows[out'] = {} THEN L!Free ELSE {e.session : e \in rows[out']}
    BY <1>1, <1>3 DEF ConversationOf, Recorded
  <1>5. Todo' \subseteq {t \in Tasks : \A e \in rows[out'] : e.task # t}
    <2>1. \A t \in Todo' : t \in 1..limit' /\ t \notin done'
      BY <1>1 DEF Todo
    <2>2. 1..limit' \subseteq Tasks
      BY <1>1, SessionAssumption DEF Tasks
    <2>3. \A t \in Tasks : t \notin done' => \A e \in rows[out'] : e.task # t
      BY <1>1 DEF DoneIn, Recorded, Tasks, NoTask
    <2> QED BY <2>1, <2>2, <2>3
  <1> QED BY <1>1, <1>4, <1>5 DEF L!Open, Live

LEMMA AnswerImplements ==
  ASSUME LedgerInv, CloseOutput
  PROVE UNCHANGED L!vars \/ \E t \in Tasks : L!Answer(t)
  <1>1. /\ pc = "reading" /\ pc' = "waiting"
        /\ UNCHANGED <<rows, loose, out, session, task, limit, done>>
    BY DEF CloseOutput, Goto, disk, file, process
  <1>2. Live /\ Live' /\ UNCHANGED Todo
    BY <1>1 DEF Live, Todo
  <1>3. /\ task \in Tasks /\ task \in Nat /\ limit \in Nat /\ task <= limit
        /\ task \notin done
    BY <1>1, Typed, Here, SessionAssumption DEF LedgerInv, SessionInv, TypeOK, Tasks, Fresh
  <1>4. L!First(task)
    BY <1>2, <1>3 DEF L!First, Todo
  <1>5. CASE outcome' = "result"
    <2>1. answered' = [answered EXCEPT ![out][session] = @ \cup {task}]
      BY <1>5 DEF CloseOutput
    <2>2. L!Answer(task)
      BY <1>1, <1>2, <1>4, <2>1 DEF L!Answer, L!place
    <2> QED BY <1>3, <2>2
  <1>6. CASE outcome' # "result"
    BY <1>1, <1>2, <1>6 DEF CloseOutput, L!vars, L!place
  <1> QED BY <1>5, <1>6

\* The steps inside a run that the ledger does not see.
LEMMA InsideImplements ==
  ASSUME LedgerInv,
         \/ UNCHANGED vars \/ Refuse \/ SkipRecorded \/ OpenTranscript \/ Spawn \/ AgentExits
         \/ DrainErrors \/ TimesOut \/ AcceptResult \/ RunOracle
  PROVE UNCHANGED L!vars
  <1>1. /\ UNCHANGED <<rows, loose, answered, out, session, limit, done>>
        /\ Live' <=> Live
        /\ UNCHANGED task \/ (SkipRecorded /\ task' = task + 1)
    BY DEF vars, Refuse, SkipRecorded, OpenTranscript, Spawn, AgentExits, DrainErrors,
           TimesOut, CloseTranscript, AcceptResult, RunOracle, Goto, disk, file, process,
           history, Live
  <1>2. task \in Nat /\ limit \in Nat
    BY SessionAssumption DEF LedgerInv, SessionInv, TypeOK, Tasks
  <1>3. Todo' = Todo
    <2>1. CASE UNCHANGED task
      BY <1>1, <2>1 DEF Todo
    <2>2. CASE SkipRecorded /\ task' = task + 1
      <3>1. Live /\ task \in done
        BY <2>2 DEF SkipRecorded, Live
      <3> QED BY <1>1, <1>2, <2>2, <3>1 DEF Todo
    <2> QED BY <1>1, <2>1, <2>2
  <1>4. Live' = Live
    BY <1>1 DEF Live
  <1> QED BY <1>1, <1>3, <1>4 DEF L!vars, L!place

LEMMA EndImplements ==
  ASSUME SpawnFails \/ RefuseRow \/ OracleTimesOut \/ Kill PROVE L!Drop
  <1>1. pc' = "down" /\ UNCHANGED <<rows, loose, answered, out, session>>
    BY DEF SpawnFails, RefuseRow, OracleTimesOut, Kill, Goto, disk, file, process, history
  <1> QED BY <1>1 DEF L!Drop, L!Advance, L!place, Todo, Live

LEMMA LedgerStep == LedgerInv /\ [Next]_vars => [L!Next]_(L!vars)
  <1> SUFFICES ASSUME LedgerInv, [Next]_vars PROVE L!Next \/ UNCHANGED L!vars
    OBVIOUS
  <1>1. /\ pc = "append" => TaskRow \in Rows
        /\ pc # "down" => SummaryRow \in Rows
    BY RowsTyped DEF LedgerInv, SessionInv
  <1>2. CASE AppendRow
    <2>1. TaskRow \in Rows
      BY <1>1, <1>2 DEF AppendRow
    <2> QED BY <1>2, <2>1, AppendImplements DEF L!Next
  <1>3. CASE Summarise
    <2>1. SummaryRow \in Rows
      BY <1>1, <1>3 DEF Summarise
    <2> QED BY <1>3, <2>1, SummariseImplements DEF L!Next
  <1>4. CASE TearAppend
    BY <1>4, TearImplements DEF L!Next
  <1>5. CASE Launch
    BY <1>5, LaunchImplements DEF L!Next
  <1>6. CASE CloseOutput
    BY <1>6, AnswerImplements DEF L!Next
  <1>7. CASE SpawnFails \/ RefuseRow \/ OracleTimesOut \/ Kill
    BY <1>7, EndImplements DEF L!Next
  <1> QED BY <1>2, <1>3, <1>4, <1>5, <1>6, <1>7, InsideImplements
     DEF Next, Progress, Agent

\* The out files keep the ledger's promise, whatever is killed, torn or refused:
\* of what was recorded only the row a run died writing is ever lost.
THEOREM SessionLedgerImplemented == Spec => ImplementsLedger
  <1>1. Init => L!Init
    BY SessionAssumption DEF Init, L!Init, Todo, Live, Sessions, Launches
  <1> QED BY <1>1, LedgerInvariant, LedgerStep, PTL DEF Spec, ImplementsLedger, L!Spec

-----------------------------------------------------------------------------
(* A run is finite *)

Place == [down |-> 0, append |-> 1, oracle |-> 2, parsed |-> 3, draining |-> 4,
          waiting |-> 5, reading |-> 6, spawn |-> 7, loop |-> 8]

\* What is left of a run: the tasks up to its limit, and the steps of this one.
Left == IF Live THEN 9 * (limit + 1 - task) + Place[pc] ELSE 0

LEMMA LeftTyped ==
  ASSUME TypeOK
  PROVE /\ task \in Nat /\ limit \in Nat /\ (Live => limit + 1 - task \in Nat)
        /\ Place[pc] \in 0..8 /\ (Live => Place[pc] >= 1)
        /\ Left \in Nat
  BY SessionAssumption DEF TypeOK, Tasks, Steps, Place, Live, Left

\* Whatever a run does next, its agent's moves and a kill included, less of it
\* is left: no way through the code returns to where it was, so a run has at
\* most 9 * NTasks + 8 steps, and ends unless it waits for ever in one of them.
RunShrinks == [][Live => Left' < Left]_vars

LEMMA LeftStep == ASSUME TypeOK, Next, Live PROVE Left' < Left
  <1>1. /\ task \in Nat /\ limit \in Nat /\ limit + 1 - task \in Nat
        /\ Left = 9 * (limit + 1 - task) + Place[pc] /\ Place[pc] >= 1
        /\ Place[pc] \in Nat /\ pc \in Steps
    BY LeftTyped DEF Left, TypeOK
  <1>2. CASE SkipRecorded \/ AppendRow
    <2>1. /\ task' = task + 1 /\ limit' = limit /\ task <= limit
          /\ pc' = "loop" /\ Place[pc'] = 8
      BY <1>2 DEF SkipRecorded, AppendRow, Goto, process, Place, TypeOK
    <2>2. Left' = 9 * (limit + 1 - (task + 1)) + 8
      BY <2>1 DEF Left, Live
    <2> QED BY <1>1, <2>2
  <1>3. CASE Summarise \/ SpawnFails \/ RefuseRow \/ OracleTimesOut \/ Kill \/ TearAppend
    <2>1. pc' = "down"
      BY <1>3 DEF Summarise, SpawnFails, RefuseRow, OracleTimesOut, Kill, TearAppend, Goto
    <2> QED BY <1>1, <2>1 DEF Left, Live
  <1>4. CASE \/ OpenTranscript \/ Spawn \/ CloseOutput \/ AgentExits \/ DrainErrors
             \/ TimesOut \/ AcceptResult \/ RunOracle
    <2>1. UNCHANGED <<task, limit>> /\ pc' # "down"
      BY <1>4 DEF OpenTranscript, Spawn, CloseOutput, AgentExits, DrainErrors, TimesOut,
                  CloseTranscript, AcceptResult, RunOracle, Goto, process
    <2>2. Place[pc'] < Place[pc] /\ Place[pc'] \in Nat
      BY <1>4 DEF OpenTranscript, Spawn, CloseOutput, AgentExits, DrainErrors, TimesOut,
                  CloseTranscript, AcceptResult, RunOracle, Goto, Place
    <2> QED BY <1>1, <2>1, <2>2 DEF Left, Live
  <1> QED BY <1>2, <1>3, <1>4 DEF Next, Launch, Refuse, Progress, Agent, Live

\* Every step of a run, its agent's and a kill included, leaves less of it to do.
THEOREM RunsAreFinite == Spec => [](Left \in Nat) /\ RunShrinks
  <1>1. TypeOK => Left \in Nat
    BY LeftTyped
  <1>2. TypeOK /\ [Next]_vars => [Live => Left' < Left]_vars
    BY LeftStep
  <1> QED BY <1>1, <1>2, SessionTyped, PTL DEF Spec, RunShrinks

==============================================================================
