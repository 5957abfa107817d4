------------------------------ MODULE TreeIndex ------------------------------
(***************************************************************************)
(* How everything in the harness treats the index of a worktree, the tools *)
(* that prebuild and reset it as well as the threads of a run: whoever     *)
(* builds it has it alone and finds no stamp on it, what is stamped or     *)
(* given to an agent is usable, and what is usable stays so as long as it  *)
(* is stamped or an agent queries it.  A tree may be lost to this, when it *)
(* is cut again or its remains could not be removed: then nothing is       *)
(* promised of it.                                                         *)
(***************************************************************************)
CONSTANTS
  Trees,
  Users        \* who queries an index

VARIABLES
  usable,      \* trees with an index that will do
  stamped,     \* trees with a stamp that says so
  building,    \* trees whose index is being built
  users,       \* of a tree: who queries its index
  lost

vars == <<usable, stamped, building, users, lost>>

\* What a tool or a run starts on.
Quiet ==
  /\ stamped \subseteq usable
  /\ building = {}
  /\ users = [t \in Trees |-> {}]

Init == Quiet /\ lost \subseteq Trees /\ usable \cap lost = {}

\* Only a build or a removal takes a tree that nobody relies on.
Unused(t) == t \notin lost \cup stamped \cup building /\ users[t] = {}

StartBuild(t) ==
  /\ Unused(t)
  /\ building' = building \cup {t}
  /\ usable' = usable \ {t}
  /\ UNCHANGED <<stamped, users, lost>>

\* A build ends, with a usable index or with none.
FinishBuild(t) ==
  /\ t \in building
  /\ building' = building \ {t}
  /\ usable' \in {usable \cup {t}, usable \ {t}}
  /\ UNCHANGED <<stamped, users, lost>>

Remove(t) ==
  /\ Unused(t)
  /\ usable' = usable \ {t}
  /\ UNCHANGED <<stamped, building, users, lost>>

Stamp(t) ==
  /\ t \in usable \ building
  /\ stamped' = stamped \cup {t}
  /\ UNCHANGED <<usable, building, users, lost>>

Unstamp(t) ==
  /\ stamped' = stamped \ {t}
  /\ UNCHANGED <<usable, building, users, lost>>

Admit(u, t) ==
  /\ t \in usable \ building
  /\ users' = [users EXCEPT ![t] = @ \cup {u}]
  /\ UNCHANGED <<usable, stamped, building, lost>>

\* Builders and users go, at their end or when their process is killed.
Release ==
  /\ building' \subseteq building
  /\ users' \in [Trees -> SUBSET Users]
  /\ \A t \in Trees : users'[t] \subseteq users[t]
  /\ UNCHANGED <<usable, stamped, lost>>

\* Nothing is known of lost trees; the others are as they were, but for builders
\* and users that go with them.
Lose ==
  /\ lost \subseteq lost' /\ lost' \subseteq Trees
  /\ usable' = usable \ lost' /\ stamped' = stamped \ lost'
  /\ building' \subseteq building \ lost'
  /\ users' \in [Trees -> SUBSET Users]
  /\ \A t \in Trees : users'[t] \subseteq IF t \in lost' THEN {} ELSE users[t]

\* A lost tree counts again once its remains are gone.
Regain(t) ==
  /\ lost' = lost \ {t}
  /\ t \notin usable
  /\ UNCHANGED <<usable, stamped, building, users>>

Next ==
  \/ \E t \in Trees :
       \/ StartBuild(t) \/ FinishBuild(t) \/ Remove(t) \/ Stamp(t) \/ Unstamp(t)
       \/ Regain(t)
       \/ \E u \in Users : Admit(u, t)
  \/ Release \/ Lose

Spec == Init /\ [][Next]_vars

=============================================================================
