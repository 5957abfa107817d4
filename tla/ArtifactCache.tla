--------------------------- MODULE ArtifactCache ---------------------------
(***************************************************************************)
(* The artifact cache of the graph benchmark: lookup and store             *)
(* (graph/lib/artifact_cache.py), build_cached (graph/lib/arms.py) and the *)
(* sweeps that call it for one artifact after another                      *)
(* (graph/experiments/prebuild_artifacts.py and run_corpus.py).  A store   *)
(* works in a sibling directory, removes what is in the slot and renames.  *)
(* Processes may sweep at once and may be killed; any call on the file     *)
(* system may fail.                                                        *)
(***************************************************************************)
EXTENDS Integers

CONSTANTS
  Procs,       \* processes that sweep
  Files,       \* slots whose payload is one file
  Unnamed,     \* those of them stored as a directory: their metadata name no file
  Trees,       \* slots whose payload is a directory of several files
  Attempts,    \* how often a rename is tried
  MaxSweeps,   \* bound: sweeps
  MaxFaults    \* bound: calls that fail, and kills

ASSUME CacheAssumption ==
  /\ Files \cap Trees = {} /\ Unnamed \subseteq Files
  /\ Attempts \in Nat \ {0} /\ MaxSweeps \in Nat /\ MaxFaults \in Nat

Slots == Files \cup Trees

VARIABLES
  \* on disk, for each slot
  slot,      \* its directory
  staging,   \* the .partial directory beside it
  \* of the processes
  pc, at,    \* where each is, with which slot
  todo,      \* the slots its sweep has not come to
  tries,     \* renames it has tried
  \* history
  clean,     \* whether no call has failed, and nothing been killed, since its sweep began
  doubtful,  \* slots whose stores overlapped, or whose tree was taken for missing
  sweeps, faults

disk == <<slot, staging>>
vars == <<disk, pc, at, todo, tries, clean, doubtful, sweeps, faults>>

\* A directory: meta.json, and how much of the artifact is in payload/ (none
\* when there is no payload/, empty when nothing is in it).
Bodies == {"none", "empty", "part", "whole"}
Directories == [meta : {"none", "torn", "good"}, body : Bodies]
Absent == [meta |-> "absent", body |-> "none"]
Complete == [meta |-> "good", body |-> "whole"]

\* Whether a lookup finds a directory: the file its metadata name, or, when they
\* name none, anything at all in payload/.
\* mutant: a payload directory with nothing in it counts.
HitAny(d) == d.meta = "good" /\ d.body # "none"

Hit(d) == d.meta = "good" /\ d.body \in {"part", "whole"}

\* What it then hands out.  A payload without a name that has one file in it is
\* taken for an old entry: the reader is given that file, not the directory
\* that was stored, and cannot open it.
Handed(k, d) == IF k \in Unnamed /\ d.body = "whole" THEN "inner" ELSE d.body

\* What a removal that is cut short leaves of a directory: a file is there or
\* not, a tree goes one file after another.
Less(k, body) ==
  CASE body = "whole" -> {"whole", "empty", "none"} \cup (IF k \in Trees THEN {"part"} ELSE {})
    [] body = "part"  -> {"part", "empty", "none"}
    [] body = "empty" -> {"empty", "none"}
    [] body = "none"  -> {"none"}
Remains(k, d) ==
  {Absent} \cup
    IF d = Absent THEN {} ELSE {r \in Directories : r.meta \in {d.meta, "none"} /\ r.body \in Less(k, d.body)}

Looking == {"look", "read", "list"}
Storing == {"build", "clear", "stage", "copy", "rest", "meta", "date", "drop", "rename"}
Steps == {"idle", "next", "swept"} \cup Looking \cup Storing

TypeOK ==
  /\ slot \in [Slots -> Directories \cup {Absent}]
  /\ staging \in [Slots -> Directories \cup {Absent}]
  /\ pc \in [Procs -> Steps]
  /\ at \in [Procs -> Slots]
  /\ todo \in [Procs -> SUBSET Slots]
  /\ tries \in [Procs -> 0..Attempts]
  /\ clean \in [Procs -> {"no", "yes"}]
  /\ doubtful \subseteq Slots
  /\ sweeps \in 0..MaxSweeps /\ faults \in 0..MaxFaults

Init ==
  /\ slot \in [Slots -> {Absent, Complete}]
  /\ staging = [k \in Slots |-> Absent]
  /\ pc = [p \in Procs |-> "idle"] /\ at \in [Procs -> Slots]
  /\ todo = [p \in Procs |-> {}] /\ tries = [p \in Procs |-> 0]
  /\ clean = [p \in Procs |-> "yes"]
  /\ doubtful = {} /\ sweeps = 0 /\ faults = 0

-----------------------------------------------------------------------------
(* A sweep                                                                 *)

Goto(p, step) == pc' = [pc EXCEPT ![p] = step]
OnDisk == UNCHANGED disk
Sweeping == UNCHANGED <<at, todo, sweeps>>
Fine == UNCHANGED <<clean, doubtful, faults>>

\* A call fails: the failure is recorded, and the sweep goes on.
Failed ==
  /\ faults < MaxFaults
  /\ faults' = faults + 1
  /\ clean' = [q \in Procs |-> "no"]
Raises(p) == Failed /\ Goto(p, "next")

Begin(p) ==
  /\ pc[p] \in {"idle", "swept"} /\ sweeps < MaxSweeps
  /\ Goto(p, "next")
  /\ todo' = [todo EXCEPT ![p] = Slots]
  /\ clean' = [clean EXCEPT ![p] = "yes"]
  /\ sweeps' = sweeps + 1
  /\ OnDisk /\ UNCHANGED <<at, tries, doubtful, faults>>

BuildCached(p, k) ==
  /\ pc[p] = "next" /\ k \in todo[p]
  /\ Goto(p, "look")
  /\ at' = [at EXCEPT ![p] = k]
  /\ todo' = [todo EXCEPT ![p] = @ \ {k}]
  /\ OnDisk /\ Fine /\ UNCHANGED <<tries, sweeps>>

EndSweep(p) ==
  /\ pc[p] = "next" /\ todo[p] = {}
  /\ Goto(p, "swept")
  /\ OnDisk /\ Sweeping /\ Fine /\ UNCHANGED tries

-----------------------------------------------------------------------------
(* lookup                                                                  *)

\* Another process is at work on the slot of this one.
Contended(p) == \E q \in Procs \ {p} : at[q] = at[p] /\ pc[q] \in Storing

Miss(p) ==
  /\ Goto(p, "build")
  /\ doubtful' = doubtful \cup IF Contended(p) THEN {at[p]} ELSE {}

Look(p) ==
  /\ pc[p] = "look"
  /\ IF slot[at[p]].meta \in {"torn", "good"} /\ slot[at[p]].body # "none"
     THEN Goto(p, "read") /\ UNCHANGED doubtful
     ELSE Miss(p)
  /\ OnDisk /\ Sweeping /\ UNCHANGED <<tries, clean, faults>>

ReadMeta(p) ==
  /\ pc[p] = "read"
  /\ IF slot[at[p]].meta = "good" THEN Goto(p, "list") /\ UNCHANGED doubtful ELSE Miss(p)
  /\ OnDisk /\ Sweeping /\ UNCHANGED <<tries, clean, faults>>

\* Metadata that cannot be read count as missing, whatever lies beside them.
ReadFails(p) ==
  /\ pc[p] = "read" /\ Failed
  /\ Goto(p, "build")
  /\ doubtful' = doubtful \cup
       IF Contended(p) \/ (at[p] \in Trees /\ Hit(slot[at[p]])) THEN {at[p]} ELSE {}
  /\ OnDisk /\ Sweeping /\ UNCHANGED tries

List(p) ==
  /\ pc[p] = "list" /\ slot[at[p]].body # "none"
  /\ IF slot[at[p]].body = "empty" THEN Miss(p) ELSE Goto(p, "next") /\ UNCHANGED doubtful
  /\ OnDisk /\ Sweeping /\ UNCHANGED <<tries, clean, faults>>

\* The listing raises, payload/ being gone or for any other reason.  Under
\* build_cached that is recorded; the prebuild script's own lookup is outside
\* its try, and ends the sweep.
ListRaises(p) ==
  /\ pc[p] = "list"
  /\ Goto(p, "next") \/ Goto(p, "idle")
  /\ \/ slot[at[p]].body = "none" /\ Fine
     \/ Failed /\ UNCHANGED doubtful
  /\ OnDisk /\ Sweeping /\ UNCHANGED tries

-----------------------------------------------------------------------------
(* store                                                                   *)

Build(p) ==
  /\ pc[p] = "build"
  /\ Goto(p, "clear")
  /\ OnDisk /\ Sweeping /\ Fine /\ UNCHANGED tries

BuildFails(p) ==
  /\ pc[p] = "build" /\ Raises(p)
  /\ OnDisk /\ Sweeping /\ UNCHANGED <<tries, doubtful>>

\* mutant: what an interrupted store has left is not removed.
ClearStale(p) ==
  /\ pc[p] = "clear"
  /\ Goto(p, IF staging[at[p]] = Absent THEN "stage" ELSE "next")
  /\ OnDisk /\ Sweeping /\ Fine /\ UNCHANGED tries

Clear(p) ==
  /\ pc[p] = "clear"
  /\ staging' = [staging EXCEPT ![at[p]] = Absent]
  /\ Goto(p, "stage")
  /\ Sweeping /\ Fine /\ UNCHANGED <<slot, tries>>

\* Something of the stale staging directory cannot be removed.
ClearFails(p) ==
  /\ pc[p] = "clear" /\ Raises(p)
  /\ \E left \in Remains(at[p], staging[at[p]]) \ {Absent} :
       staging' = [staging EXCEPT ![at[p]] = left]
  /\ Sweeping /\ UNCHANGED <<slot, tries, doubtful>>

\* A step inside the staging directory.  What another process has removed
\* under this one makes the call raise.
Write(p, from, d, to) ==
  /\ pc[p] = from
  /\ staging' = [staging EXCEPT ![at[p]] = d]
  /\ Goto(p, to)
  /\ Sweeping /\ Fine /\ UNCHANGED <<slot, tries>>
staged(p) == staging[at[p]]

Stage(p) ==
  \* mkdir, which finds the directory of an overlapping store as it is
  Write(p, "stage", IF staged(p) = Absent THEN [meta |-> "none", body |-> "empty"]
                    ELSE [staged(p) EXCEPT !.body = IF @ = "none" THEN "empty" ELSE @], "copy")
CopySome(p) ==
  staged(p).body # "none" /\ Write(p, "copy", [staged(p) EXCEPT !.body = "part"], "rest")
CopyRest(p) ==
  staged(p).body # "none" /\ Write(p, "rest", [staged(p) EXCEPT !.body = "whole"], "meta")
OpenMeta(p) ==
  staged(p) # Absent /\ Write(p, "meta", [staged(p) EXCEPT !.meta = "torn"], "date")
WriteMeta(p) ==
  staged(p) # Absent /\ Write(p, "date", [staged(p) EXCEPT !.meta = "good"], "drop")

WriteFails(p) ==
  /\ pc[p] \in {"stage", "copy", "rest", "meta", "date"} /\ Raises(p)
  /\ OnDisk /\ Sweeping /\ UNCHANGED <<tries, doubtful>>

\* rmtree of what is in the slot, its errors ignored.
Drop(p) ==
  /\ pc[p] = "drop"
  /\ slot' = [slot EXCEPT ![at[p]] = Absent]
  /\ tries' = [tries EXCEPT ![p] = 0]
  /\ Goto(p, "rename")
  /\ Sweeping /\ Fine /\ UNCHANGED staging

DropIgnores(p) ==
  /\ pc[p] = "drop" /\ Failed
  /\ \E left \in Remains(at[p], slot[at[p]]) : slot' = [slot EXCEPT ![at[p]] = left]
  /\ tries' = [tries EXCEPT ![p] = 0]
  /\ Goto(p, "rename")
  /\ Sweeping /\ UNCHANGED <<staging, doubtful>>

Rename(p) ==
  /\ pc[p] = "rename"
  /\ slot[at[p]] = Absent /\ staged(p) # Absent
  /\ slot' = [slot EXCEPT ![at[p]] = staged(p)]
  /\ staging' = [staging EXCEPT ![at[p]] = Absent]
  /\ Goto(p, "next")
  /\ Sweeping /\ Fine /\ UNCHANGED tries

\* Something is at the destination, nothing at the source, or a handle is open.
\* The destination is removed before the next try, and the last one raises.
Unrenamed(p) == slot[at[p]] # Absent \/ staged(p) = Absent
RenameAgain(p) ==
  /\ pc[p] = "rename" /\ tries[p] + 1 < Attempts
  /\ tries' = [tries EXCEPT ![p] = @ + 1]
  /\ \/ Unrenamed(p) /\ Fine /\ slot' = [slot EXCEPT ![at[p]] = Absent]
     \/ /\ Failed /\ UNCHANGED doubtful
        /\ \E left \in Remains(at[p], slot[at[p]]) : slot' = [slot EXCEPT ![at[p]] = left]
  /\ Sweeping /\ UNCHANGED <<staging, pc>>

RenameFails(p) ==
  /\ pc[p] = "rename" /\ tries[p] + 1 = Attempts
  /\ \/ Unrenamed(p) /\ Fine /\ Goto(p, "next")
     \/ Raises(p) /\ UNCHANGED doubtful
  /\ OnDisk /\ Sweeping /\ UNCHANGED tries

\* A kill, which may fall inside a removal.  An exception between two slots, out
\* of the tool's version or of the counts of a new artifact, ends a sweep too.
Kill(p) ==
  /\ pc[p] \notin {"idle", "swept"} /\ Failed
  /\ Goto(p, "idle")
  /\ \E left \in IF pc[p] \in {"drop", "rename"} THEN Remains(at[p], slot[at[p]]) ELSE {slot[at[p]]} :
       slot' = [slot EXCEPT ![at[p]] = left]
  /\ \E left \in IF pc[p] = "clear" THEN Remains(at[p], staged(p)) ELSE {staged(p)} :
       staging' = [staging EXCEPT ![at[p]] = left]
  /\ Sweeping /\ UNCHANGED <<tries, doubtful>>

Next ==
  \E p \in Procs :
    \/ Begin(p) \/ (\E k \in Slots : BuildCached(p, k)) \/ EndSweep(p)
    \/ Look(p) \/ ReadMeta(p) \/ ReadFails(p) \/ List(p) \/ ListRaises(p)
    \/ Build(p) \/ BuildFails(p) \/ Clear(p) \/ ClearFails(p)
    \/ Stage(p) \/ CopySome(p) \/ CopyRest(p) \/ OpenMeta(p) \/ WriteMeta(p) \/ WriteFails(p)
    \/ Drop(p) \/ DropIgnores(p) \/ Rename(p) \/ RenameAgain(p) \/ RenameFails(p)
    \/ Kill(p)

Spec == Init /\ [][Next]_vars

-----------------------------------------------------------------------------
(* Properties                                                              *)

\* What the next reader of a slot will be given.
Entry(k) ==
  CASE k \in doubtful -> "doubtful"
    [] k \notin doubtful /\ Hit(slot[k]) -> Handed(k, slot[k])
    [] OTHER -> "nothing"

\* The cache implements slots that offer nothing or a whole artifact: "an
\* interrupted store cannot leave a slot that looks complete", wherever it is
\* interrupted and whichever removals fail.  In doubt are the slots two
\* processes stored at once, and those where metadata that could not be read
\* made a store remove a complete tree.  A directory that holds one file never
\* offers what was stored ("a directory payload, which is returned whole"), at
\* any time: its readers are given the file.
Promised ==
  INSTANCE ArtifactSlots WITH Stripped <- Unnamed, entry <- [k \in Slots |-> Entry(k)]
ImplementsSlots == Promised!Spec

\* "An interrupted store leaves exactly that, and the cure is to build again":
\* whatever earlier sweeps left behind, when no call has failed since one began
\* and it comes to its end, it leaves every slot with its artifact on disk, or
\* with a process that is storing one.  A sweep that a listing of another's
\* slot has ended says nothing.
SweepFills ==
  \A p \in Procs : pc[p] = "swept" /\ clean[p] = "yes" =>
    \A k \in Slots \ doubtful :
      slot[k] = Complete \/ \E q \in Procs : at[q] = k /\ pc[q] \in Storing

-----------------------------------------------------------------------------
(* The inductive invariant, of slots that are not in doubt                 *)

\* A named file is whole or not there; a tree is whole, or there is no slot.
SlotInv(k) ==
  k \notin doubtful =>
    /\ k \in Files => slot[k].body # "part"
    /\ k \in Trees => slot[k] \in {Absent, Complete}

\* Who stores works alone, over no complete tree, and has staged what its place
\* in the store says.
StoreInv(p) ==
  pc[p] \in Storing /\ at[p] \notin doubtful =>
    /\ ~Contended(p)
    /\ at[p] \in Trees => slot[at[p]] = Absent
    /\ pc[p] = "stage" => staged(p) = Absent
    /\ pc[p] = "copy" => staged(p) = [meta |-> "none", body |-> "empty"]
    /\ pc[p] = "rest" => staged(p) = [meta |-> "none", body |-> "part"]
    /\ pc[p] = "meta" => staged(p) = [meta |-> "none", body |-> "whole"]
    /\ pc[p] = "date" => staged(p) = [meta |-> "torn", body |-> "whole"]
    /\ pc[p] \in {"drop", "rename"} => staged(p) = Complete

\* A slot that has its artifact, or will, unless a call fails.
Filled(k) ==
  \/ slot[k] = Complete
  \/ \E q \in Procs : at[q] = k /\ pc[q] \in Storing /\ (pc[q] = "rename" => slot[k] = Absent)

\* A slot the sweep of p has dealt with.
Passed(p, k) ==
  \/ pc[p] = "swept"
  \/ pc[p] # "idle" /\ k \notin todo[p] /\ ~(at[p] = k /\ pc[p] \in Looking \cup Storing)

SweepInv(p) ==
  clean[p] = "yes" =>
    /\ \A k \in Slots \ doubtful : Passed(p, k) => Filled(k)
    /\ at[p] \notin doubtful =>
         /\ pc[p] = "read" => slot[at[p]].body # "none" \/ Filled(at[p])
         /\ pc[p] = "list" => slot[at[p]].body = "empty" \/ Filled(at[p])
         /\ pc[p] = "rename" => slot[at[p]] = Absent

CacheInv ==
  /\ TypeOK
  /\ \A k \in Slots : SlotInv(k)
  /\ \A p \in Procs : StoreInv(p) /\ SweepInv(p)

=============================================================================
