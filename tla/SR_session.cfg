SPECIFICATION FairSpec
CONSTANTS
  Outs = {o1, o2}
  NTasks = 3
  MaxLaunches = 3
  MaxTears = 2
CHECK_DEADLOCK FALSE
INVARIANTS OneConversation SummaryAnswered TranscriptOfRow
PROPERTIES ImplementsLedger FrozenOrder EndsOrReads
