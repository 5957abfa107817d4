---------------------------- MODULE SessionLedger ----------------------------
(***************************************************************************)
(* What a session's out file promises, without transcripts, half-written   *)
(* lines, agents or signals: a ledger of entries for each file, all of one *)
(* conversation, which no other file shares.  A process goes through the   *)
(* tasks its file has no entry for, in their order; it enters a task once  *)
(* it is answered, and closes with a summary of answered tasks.  An entry  *)
(* is never lost, but for the one a process was writing when it died and   *)
(* the one that is written onto it.                                        *)
(***************************************************************************)
EXTENDS Integers

CONSTANTS
  Files, Tasks, Conversations,
  Entries      \* with a task, or none and `upto` for a summary; and a session

VARIABLES
  ledger,        \* the entries of a file
  doubt,         \* those that may yet be lost
  answered,      \* by file and conversation: the tasks that were answered
  open,          \* is a process at work,
  file, conversation,   \* and where,
  todo           \* with which tasks still to be dealt with

place == <<file, conversation>>
vars == <<ledger, doubt, answered, open, place, todo>>

Init ==
  /\ ledger = [f \in Files |-> {}]
  /\ doubt = [f \in Files |-> {}]
  /\ answered = [f \in Files |-> [c \in Conversations |-> {}]]
  /\ open = FALSE /\ todo = {}
  /\ file \in Files /\ conversation \notin Conversations

\* Conversations that no file has heard of.
Free == {c \in Conversations : \A f \in Files :
           answered[f][c] = {} /\ \A e \in ledger[f] : e.session # c}

\* A process starts over a file, in its conversation or in a new one, with
\* none of the tasks that have an entry.
Open ==
  /\ ~open /\ open'
  /\ file' \in Files
  /\ conversation' \in IF ledger[file'] = {} THEN Free
                       ELSE {e.session : e \in ledger[file']}
  /\ todo' \subseteq {t \in Tasks : \A e \in ledger[file'] : e.task # t}
  /\ UNCHANGED <<ledger, doubt, answered>>

First(t) == t \in todo /\ \A u \in todo : t <= u

\* The agent answers the task at hand.
Answer(t) ==
  /\ open /\ First(t)
  /\ answered' = [answered EXCEPT ![file][conversation] = @ \cup {t}]
  /\ UNCHANGED <<ledger, doubt, open, place, todo>>

\* An entry that may be made now.
Due(e) ==
  /\ open /\ e.session = conversation
  /\ \/ First(e.task) /\ e.task \in answered[file][conversation]
     \/ /\ todo = {} /\ e.task \notin Tasks
        /\ 1..e.upto \subseteq answered[file][conversation]

Enter(e) == ledger' = [ledger EXCEPT ![file] = @ \cup {e}]

\* The process gives tasks up, or ends.
Advance == (open' => open) /\ todo' \subseteq todo /\ UNCHANGED <<place, answered>>

\* An entry is made for good.
Commit(e) ==
  /\ Due(e) /\ doubt[file] = {}
  /\ Enter(e)
  /\ Advance /\ open' = (e.task \in Tasks) /\ e.task \notin todo'
  /\ UNCHANGED doubt

\* The process dies making it.
HalfCommit(e) ==
  /\ Due(e) /\ doubt[file] = {}
  /\ Enter(e)
  /\ doubt' = [doubt EXCEPT ![file] = {e}]
  /\ Advance /\ ~open'

Drop == Advance /\ UNCHANGED <<ledger, doubt>>

\* What comes next in the file takes the entry in doubt with it.
Lose ==
  /\ open /\ doubt[file] # {}
  /\ ledger' = [ledger EXCEPT ![file] = @ \ doubt[file]]
  /\ doubt' = [doubt EXCEPT ![file] = {}]
  /\ Advance

Next ==
  \/ Open
  \/ \E t \in Tasks : Answer(t)
  \/ \E e \in Entries : Commit(e) \/ HalfCommit(e)
  \/ Drop \/ Lose

Spec == Init /\ [][Next]_vars

=============================================================================
