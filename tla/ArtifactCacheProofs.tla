------------------------- MODULE ArtifactCacheProofs -------------------------
(* Proofs about ArtifactCache: for any processes, slots and number of renames, *)
(* the cache implements ArtifactSlots, and a sweep in which nothing fails      *)
(* leaves every slot with its artifact.                                        *)
EXTENDS ArtifactCache, TLAPS

-----------------------------------------------------------------------------
(* Types                                                                   *)

LEMMA Values ==
  /\ Absent \in Directories \cup {Absent} /\ Complete \in Directories
  /\ Complete # Absent /\ Absent.meta = "absent" /\ Absent.body = "none"
  /\ Complete.meta = "good" /\ Complete.body = "whole"
  BY DEF Absent, Complete, Directories, Bodies

LEMMA RemainsTyped ==
  ASSUME NEW k, NEW d
  PROVE Remains(k, d) \subseteq Directories \cup {Absent}
  BY DEF Remains

LEMMA StagedTyped ==
  ASSUME TypeOK, NEW p \in Procs
  PROVE /\ at[p] \in Slots /\ slot[at[p]] \in Directories \cup {Absent}
        /\ staged(p) \in Directories \cup {Absent}
  BY DEF TypeOK, staged

\* What a step inside the staging directory leaves there is a directory.
LEMMA StagedAnew ==
  ASSUME NEW d \in Directories \cup {Absent}, NEW body \in Bodies, NEW meta \in {"none", "torn",
     "good"}
  PROVE /\ [meta |-> "none", body |-> "empty"] \in Directories
        /\ d # Absent => [d EXCEPT !.body = body] \in Directories
        /\ d # Absent => [d EXCEPT !.meta = meta] \in Directories
  BY DEF Directories, Bodies

LEMMA TypesInit == Init => TypeOK
  BY Values, CacheAssumption DEF Init, TypeOK, Steps

LEMMA TypesKept ==
  ASSUME TypeOK, [Next]_vars
  PROVE TypeOK'
<1> USE StagedTyped
<1>0. CASE UNCHANGED vars
  BY <1>0 DEF TypeOK, vars, disk
<1>1. ASSUME NEW p \in Procs, Begin(p) PROVE TypeOK'
  BY <1>1, Values, CacheAssumption DEF TypeOK, Steps, Looking, Storing, Begin, Goto, OnDisk,
                                       Sweeping, Fine, Failed, Raises, disk
<1>2. ASSUME NEW p \in Procs, EndSweep(p) PROVE TypeOK'
  BY <1>2, Values, CacheAssumption DEF TypeOK, Steps, Looking, Storing, EndSweep, Goto, OnDisk,
                                       Sweeping, Fine, Failed, Raises, disk
<1>3. ASSUME NEW p \in Procs, Look(p) PROVE TypeOK'
  BY <1>3, Values, CacheAssumption DEF TypeOK, Steps, Looking, Storing, Look, Miss, Goto, OnDisk,
                                       Sweeping, Fine, Failed, Raises, disk
<1>4. ASSUME NEW p \in Procs, ReadMeta(p) PROVE TypeOK'
  BY <1>4, Values, CacheAssumption DEF TypeOK, Steps, Looking, Storing, ReadMeta, Miss, Goto,
                                       OnDisk, Sweeping, Fine, Failed, Raises, disk
<1>5. ASSUME NEW p \in Procs, ReadFails(p) PROVE TypeOK'
  BY <1>5, Values, CacheAssumption DEF TypeOK, Steps, Looking, Storing, ReadFails, Goto, OnDisk,
                                       Sweeping, Fine, Failed, Raises, disk
<1>6. ASSUME NEW p \in Procs, List(p) PROVE TypeOK'
  BY <1>6, Values, CacheAssumption DEF TypeOK, Steps, Looking, Storing, List, Miss, Goto, OnDisk,
                                       Sweeping, Fine, Failed, Raises, disk
<1>7. ASSUME NEW p \in Procs, Build(p) PROVE TypeOK'
  BY <1>7, Values, CacheAssumption DEF TypeOK, Steps, Looking, Storing, Build, Goto, OnDisk,
                                       Sweeping, Fine, Failed, Raises, disk
<1>8. ASSUME NEW p \in Procs, BuildFails(p) PROVE TypeOK'
  BY <1>8, Values, CacheAssumption DEF TypeOK, Steps, Looking, Storing, BuildFails, Goto, OnDisk,
                                       Sweeping, Fine, Failed, Raises, disk
<1>9. ASSUME NEW p \in Procs, Clear(p) PROVE TypeOK'
  BY <1>9, Values, CacheAssumption DEF TypeOK, Steps, Looking, Storing, Clear, Goto, OnDisk,
                                       Sweeping, Fine, Failed, Raises, disk
<1>10. ASSUME NEW p \in Procs, ClearFails(p) PROVE TypeOK'
  <2>1. PICK left \in Remains(at[p], staging[at[p]]) : staging' = [staging EXCEPT ![at[p]] = left]
    BY <1>10 DEF ClearFails
  <2>2. left \in Directories \cup {Absent}
    BY <2>1, RemainsTyped
  <2> QED BY <1>10, <2>1, <2>2, CacheAssumption DEF TypeOK, Steps, Storing, ClearFails, Goto,
                                                    OnDisk, Sweeping, Fine, Failed, Raises, disk
<1>11. ASSUME NEW p \in Procs, Stage(p) PROVE TypeOK'
  <2>1. staged(p) # Absent => staged(p) \in Directories
    BY StagedTyped
  <2> DEFINE d == IF staged(p) = Absent THEN [meta |-> "none", body |-> "empty"]
                  ELSE [staged(p) EXCEPT !.body = IF @ = "none" THEN "empty" ELSE @]
  <2>2. d \in Directories
    BY <2>1 DEF Directories, Bodies
  <2>3. staging' = [staging EXCEPT ![at[p]] = d]
    BY <1>11 DEF Stage, Write
  <2> HIDE DEF d
  <2> QED BY <1>11, <2>2, <2>3 DEF TypeOK, Steps, Storing, Stage, Write, Goto, OnDisk, Sweeping,
                                   Fine, Failed, Raises, disk
<1>12. ASSUME NEW p \in Procs, CopySome(p) PROVE TypeOK'
  <2>1. staged(p) \in Directories
    BY <1>12, StagedTyped, Values DEF CopySome
  <2> DEFINE d == [staged(p) EXCEPT !.body = "part"]
  <2>2. d \in Directories
    BY <2>1 DEF Directories, Bodies
  <2>3. staging' = [staging EXCEPT ![at[p]] = d]
    BY <1>12 DEF CopySome, Write
  <2> HIDE DEF d
  <2> QED BY <1>12, <2>2, <2>3 DEF TypeOK, Steps, Storing, CopySome, Write, Goto, OnDisk, Sweeping,
                                   Fine, Failed, Raises, disk
<1>13. ASSUME NEW p \in Procs, CopyRest(p) PROVE TypeOK'
  <2>1. staged(p) \in Directories
    BY <1>13, StagedTyped, Values DEF CopyRest
  <2> DEFINE d == [staged(p) EXCEPT !.body = "whole"]
  <2>2. d \in Directories
    BY <2>1 DEF Directories, Bodies
  <2>3. staging' = [staging EXCEPT ![at[p]] = d]
    BY <1>13 DEF CopyRest, Write
  <2> HIDE DEF d
  <2> QED BY <1>13, <2>2, <2>3 DEF TypeOK, Steps, Storing, CopyRest, Write, Goto, OnDisk, Sweeping,
                                   Fine, Failed, Raises, disk
<1>14. ASSUME NEW p \in Procs, OpenMeta(p) PROVE TypeOK'
  <2>1. staged(p) \in Directories
    BY <1>14, StagedTyped, Values DEF OpenMeta
  <2> DEFINE d == [staged(p) EXCEPT !.meta = "torn"]
  <2>2. d \in Directories
    BY <2>1 DEF Directories, Bodies
  <2>3. staging' = [staging EXCEPT ![at[p]] = d]
    BY <1>14 DEF OpenMeta, Write
  <2> HIDE DEF d
  <2> QED BY <1>14, <2>2, <2>3 DEF TypeOK, Steps, Storing, OpenMeta, Write, Goto, OnDisk, Sweeping,
                                   Fine, Failed, Raises, disk
<1>15. ASSUME NEW p \in Procs, WriteMeta(p) PROVE TypeOK'
  <2>1. staged(p) \in Directories
    BY <1>15, StagedTyped, Values DEF WriteMeta
  <2> DEFINE d == [staged(p) EXCEPT !.meta = "good"]
  <2>2. d \in Directories
    BY <2>1 DEF Directories, Bodies
  <2>3. staging' = [staging EXCEPT ![at[p]] = d]
    BY <1>15 DEF WriteMeta, Write
  <2> HIDE DEF d
  <2> QED BY <1>15, <2>2, <2>3 DEF TypeOK, Steps, Storing, WriteMeta, Write, Goto, OnDisk,
                                   Sweeping, Fine, Failed, Raises, disk
<1>16. ASSUME NEW p \in Procs, WriteFails(p) PROVE TypeOK'
  BY <1>16, Values, CacheAssumption DEF TypeOK, Steps, Looking, Storing, WriteFails, Goto, OnDisk,
                                        Sweeping, Fine, Failed, Raises, disk
<1>17. ASSUME NEW p \in Procs, Drop(p) PROVE TypeOK'
  BY <1>17, Values, CacheAssumption DEF TypeOK, Steps, Looking, Storing, Drop, Goto, OnDisk,
                                        Sweeping, Fine, Failed, Raises, disk
<1>18. ASSUME NEW p \in Procs, DropIgnores(p) PROVE TypeOK'
  <2>1. PICK left \in Remains(at[p], slot[at[p]]) : slot' = [slot EXCEPT ![at[p]] = left]
    BY <1>18 DEF DropIgnores
  <2>2. left \in Directories \cup {Absent}
    BY <2>1, RemainsTyped
  <2> QED BY <1>18, <2>1, <2>2, CacheAssumption DEF TypeOK, Steps, Storing, DropIgnores, Goto,
                                                    OnDisk, Sweeping, Fine, Failed, Raises, disk
<1>19. ASSUME NEW p \in Procs, Rename(p) PROVE TypeOK'
  BY <1>19, Values, CacheAssumption DEF TypeOK, Steps, Looking, Storing, Rename, Goto, OnDisk,
                                        Sweeping, Fine, Failed, Raises, disk
<1>20. ASSUME NEW p \in Procs, RenameAgain(p) PROVE TypeOK'
  <2>1. slot' \in [Slots -> Directories \cup {Absent}]
    BY <1>20, RemainsTyped, StagedTyped, Values DEF RenameAgain, TypeOK
  <2> QED BY <1>20, <2>1, CacheAssumption DEF TypeOK, Steps, Storing, RenameAgain, Goto, OnDisk,
                                              Sweeping, Fine, Failed, Raises, disk
<1>21. ASSUME NEW p \in Procs, RenameFails(p) PROVE TypeOK'
  BY <1>21, Values, CacheAssumption DEF TypeOK, Steps, Looking, Storing, RenameFails, Goto, OnDisk,
                                        Sweeping, Fine, Failed, Raises, disk
<1>22. ASSUME NEW p \in Procs, Kill(p) PROVE TypeOK'
  <2>1. PICK left \in IF pc[p] \in {"drop", "rename"} THEN Remains(at[p], slot[at[p]])
                      ELSE {slot[at[p]]} : slot' = [slot EXCEPT ![at[p]] = left]
    BY <1>22 DEF Kill
  <2>2. PICK rest \in IF pc[p] = "clear" THEN Remains(at[p], staged(p)) ELSE {staged(p)} :
          staging' = [staging EXCEPT ![at[p]] = rest]
    BY <1>22 DEF Kill
  <2>3. left \in Directories \cup {Absent} /\ rest \in Directories \cup {Absent}
    BY <2>1, <2>2, RemainsTyped, StagedTyped
  <2> QED BY <1>22, <2>1, <2>2, <2>3, CacheAssumption DEF TypeOK, Steps, Storing, Kill, Goto,
                                                          OnDisk, Sweeping, Fine, Failed, Raises,
                                                            disk
<1>24. ASSUME NEW p \in Procs, ListRaises(p) PROVE TypeOK'
  BY <1>24, Values, CacheAssumption DEF TypeOK, Steps, Looking, Storing, ListRaises, Goto, OnDisk,
                                        Sweeping, Fine, Failed, Raises, disk
<1>23. ASSUME NEW p \in Procs, NEW k \in Slots, BuildCached(p, k) PROVE TypeOK'
  BY <1>23, CacheAssumption DEF TypeOK, Steps, Looking, BuildCached, Goto, OnDisk, Sweeping, Fine,
                                Failed, Raises, disk
<1> QED BY <1>0, <1>1, <1>2, <1>3, <1>4, <1>5, <1>6, <1>7, <1>8, <1>9, <1>10, <1>11, <1>12, <1>13,
           <1>14, <1>15, <1>16, <1>17, <1>18, <1>19, <1>20, <1>21, <1>22, <1>23, <1>24 DEF Next

-----------------------------------------------------------------------------
(* What a step of one process leaves alone                                 *)

Local(p) ==
  /\ \A q \in Procs \ {p} : pc'[q] = pc[q] /\ at'[q] = at[q] /\ todo'[q] = todo[q]
  /\ \A k \in Slots \ {at[p]} : slot'[k] = slot[k] /\ staging'[k] = staging[k]
  /\ doubtful \subseteq doubtful' /\ doubtful' \subseteq doubtful \cup {at[p]}
  /\ pc[p] \notin Storing => \A k \in Slots : slot'[k] = slot[k] /\ staging'[k] = staging[k]
  /\ pc[p] \notin Storing /\ pc'[p] \in Storing /\ at[p] \notin doubtful' => ~Contended(p)
  /\ at'[p] = at[p] \/ (pc[p] = "next" /\ pc'[p] = "look")

LEMMA BeginLocal ==
  ASSUME TypeOK, NEW p \in Procs, Begin(p)
  PROVE Local(p)
  BY StagedTyped DEF TypeOK, Local, Looking, Storing, Begin, Goto, OnDisk, Sweeping, Fine, Failed,
                     Raises, disk

LEMMA EndSweepLocal ==
  ASSUME TypeOK, NEW p \in Procs, EndSweep(p)
  PROVE Local(p)
  BY StagedTyped DEF TypeOK, Local, Looking, Storing, EndSweep, Goto, OnDisk, Sweeping, Fine,
                     Failed, Raises, disk

LEMMA LookLocal ==
  ASSUME TypeOK, NEW p \in Procs, Look(p)
  PROVE Local(p)
  BY StagedTyped DEF TypeOK, Local, Looking, Storing, Look, Miss, Goto, OnDisk, Sweeping, Fine,
                     Failed, Raises, disk

LEMMA ReadMetaLocal ==
  ASSUME TypeOK, NEW p \in Procs, ReadMeta(p)
  PROVE Local(p)
  BY StagedTyped DEF TypeOK, Local, Looking, Storing, ReadMeta, Miss, Goto, OnDisk, Sweeping, Fine,
                     Failed, Raises, disk

LEMMA ReadFailsLocal ==
  ASSUME TypeOK, NEW p \in Procs, ReadFails(p)
  PROVE Local(p)
  BY StagedTyped DEF TypeOK, Local, Looking, Storing, ReadFails, Goto, OnDisk, Sweeping, Fine,
                     Failed, Raises, disk

LEMMA ListLocal ==
  ASSUME TypeOK, NEW p \in Procs, List(p)
  PROVE Local(p)
  BY StagedTyped DEF TypeOK, Local, Looking, Storing, List, Miss, Goto, OnDisk, Sweeping, Fine,
                     Failed, Raises, disk

LEMMA ListRaisesLocal ==
  ASSUME TypeOK, NEW p \in Procs, ListRaises(p)
  PROVE Local(p)
  BY StagedTyped DEF TypeOK, Local, Looking, Storing, ListRaises, Goto, OnDisk, Sweeping, Fine,
                     Failed, Raises, disk

LEMMA BuildLocal ==
  ASSUME TypeOK, NEW p \in Procs, Build(p)
  PROVE Local(p)
  BY StagedTyped DEF TypeOK, Local, Looking, Storing, Build, Goto, OnDisk, Sweeping, Fine, Failed,
                     Raises, disk

LEMMA BuildFailsLocal ==
  ASSUME TypeOK, NEW p \in Procs, BuildFails(p)
  PROVE Local(p)
  BY StagedTyped DEF TypeOK, Local, Looking, Storing, BuildFails, Goto, OnDisk, Sweeping, Fine,
                     Failed, Raises, disk

LEMMA ClearLocal ==
  ASSUME TypeOK, NEW p \in Procs, Clear(p)
  PROVE Local(p)
  BY StagedTyped DEF TypeOK, Local, Looking, Storing, Clear, Goto, OnDisk, Sweeping, Fine, Failed,
                     Raises, disk

LEMMA ClearFailsLocal ==
  ASSUME TypeOK, NEW p \in Procs, ClearFails(p)
  PROVE Local(p)
  BY StagedTyped DEF TypeOK, Local, Looking, Storing, ClearFails, Goto, OnDisk, Sweeping, Fine,
                     Failed, Raises, disk

LEMMA StageLocal ==
  ASSUME TypeOK, NEW p \in Procs, Stage(p)
  PROVE Local(p)
  BY StagedTyped DEF TypeOK, Local, Looking, Storing, Stage, Write, Goto, OnDisk, Sweeping, Fine,
                     Failed, Raises, disk

LEMMA CopySomeLocal ==
  ASSUME TypeOK, NEW p \in Procs, CopySome(p)
  PROVE Local(p)
  BY StagedTyped DEF TypeOK, Local, Looking, Storing, CopySome, Write, Goto, OnDisk, Sweeping,
                     Fine, Failed, Raises, disk

LEMMA CopyRestLocal ==
  ASSUME TypeOK, NEW p \in Procs, CopyRest(p)
  PROVE Local(p)
  BY StagedTyped DEF TypeOK, Local, Looking, Storing, CopyRest, Write, Goto, OnDisk, Sweeping,
                     Fine, Failed, Raises, disk

LEMMA OpenMetaLocal ==
  ASSUME TypeOK, NEW p \in Procs, OpenMeta(p)
  PROVE Local(p)
  BY StagedTyped DEF TypeOK, Local, Looking, Storing, OpenMeta, Write, Goto, OnDisk, Sweeping,
                     Fine, Failed, Raises, disk

LEMMA WriteMetaLocal ==
  ASSUME TypeOK, NEW p \in Procs, WriteMeta(p)
  PROVE Local(p)
  BY StagedTyped DEF TypeOK, Local, Looking, Storing, WriteMeta, Write, Goto, OnDisk, Sweeping,
                     Fine, Failed, Raises, disk

LEMMA WriteFailsLocal ==
  ASSUME TypeOK, NEW p \in Procs, WriteFails(p)
  PROVE Local(p)
  BY StagedTyped DEF TypeOK, Local, Looking, Storing, WriteFails, Goto, OnDisk, Sweeping, Fine,
                     Failed, Raises, disk

LEMMA DropLocal ==
  ASSUME TypeOK, NEW p \in Procs, Drop(p)
  PROVE Local(p)
  BY StagedTyped DEF TypeOK, Local, Looking, Storing, Drop, Goto, OnDisk, Sweeping, Fine, Failed,
                     Raises, disk

LEMMA DropIgnoresLocal ==
  ASSUME TypeOK, NEW p \in Procs, DropIgnores(p)
  PROVE Local(p)
  BY StagedTyped DEF TypeOK, Local, Looking, Storing, DropIgnores, Goto, OnDisk, Sweeping, Fine,
                     Failed, Raises, disk

LEMMA RenameLocal ==
  ASSUME TypeOK, NEW p \in Procs, Rename(p)
  PROVE Local(p)
  BY StagedTyped DEF TypeOK, Local, Looking, Storing, Rename, Goto, OnDisk, Sweeping, Fine, Failed,
                     Raises, disk

LEMMA RenameAgainLocal ==
  ASSUME TypeOK, NEW p \in Procs, RenameAgain(p)
  PROVE Local(p)
  BY StagedTyped DEF TypeOK, Local, Looking, Storing, RenameAgain, Goto, OnDisk, Sweeping, Fine,
                     Failed, Raises, disk

LEMMA RenameFailsLocal ==
  ASSUME TypeOK, NEW p \in Procs, RenameFails(p)
  PROVE Local(p)
  BY StagedTyped DEF TypeOK, Local, Looking, Storing, RenameFails, Goto, OnDisk, Sweeping, Fine,
                     Failed, Raises, disk

LEMMA KillLocal ==
  ASSUME TypeOK, NEW p \in Procs, Kill(p)
  PROVE Local(p)
  BY StagedTyped DEF TypeOK, Local, Looking, Storing, Kill, Goto, OnDisk, Sweeping, Fine, Failed,
                     Raises, disk, staged

LEMMA BuildCachedLocal ==
  ASSUME TypeOK, NEW p \in Procs, NEW k \in Slots, BuildCached(p, k)
  PROVE Local(p)
  BY DEF TypeOK, Local, Looking, Storing, BuildCached, Goto, OnDisk, Sweeping, Fine, Failed,
         Raises, disk

LEMMA SlotsElsewhere ==
  ASSUME NEW p \in Procs, Local(p), NEW k \in Slots \ {at[p]}, SlotInv(k)
  PROVE SlotInv(k)'
  BY DEF Local, SlotInv

\* Whoever else stores in an undoubted slot is not touched.
LEMMA StoresElsewhere ==
  ASSUME TypeOK, NEW p \in Procs, Local(p), NEW q \in Procs \ {p}, StoreInv(q), StoreInv(p)
  PROVE StoreInv(q)'
<1> SUFFICES ASSUME pc[q] \in Storing, at[q] \notin doubtful' PROVE StoreInv(q)'
  BY DEF Local, StoreInv
<1>1. at[q] \notin doubtful /\ at[q] \in Slots /\ at[p] \in Slots
  BY DEF Local, TypeOK
<1>2. slot'[at[q]] = slot[at[q]] /\ staging'[at[q]] = staging[at[q]]
  <2>1. CASE at[q] = at[p]
    <3>1. pc[p] \notin Storing
      BY <1>1, <2>1 DEF StoreInv, Contended
    <3> QED BY <1>1, <3>1 DEF Local
  <2>2. CASE at[q] # at[p]
    BY <1>1, <2>2 DEF Local
  <2> QED BY <2>1, <2>2
<1>3. ~Contended(q)'
  <2> SUFFICES ASSUME NEW r \in Procs \ {q}, at'[r] = at'[q], pc'[r] \in Storing PROVE FALSE
    BY DEF Contended
  <2>1. r = p /\ at'[q] = at[q]
    BY <1>1 DEF Local, StoreInv, Contended
  <2>2. at'[p] = at[p]
    BY <2>1 DEF Local, Storing
  <2>3. pc[p] \notin Storing
    BY <1>1, <2>1, <2>2 DEF StoreInv, Contended
  <2>4. ~Contended(p)
    BY <2>1, <2>2, <2>3 DEF Local
  <2> QED BY <2>1, <2>2, <2>4 DEF Contended
<1> QED BY <1>1, <1>2, <1>3 DEF Local, StoreInv, staged

-----------------------------------------------------------------------------
(* Half an artifact is never offered                                       *)

\* Where the process is after its step, in its slot.
Own(p) == (\A k \in {at[p]} : SlotInv(k)') /\ StoreInv(p)'

LEMMA Alone ==
  ASSUME TypeOK, NEW p \in Procs, Local(p), StoreInv(p), at'[p] = at[p],
         at[p] \notin doubtful', pc'[p] \in Storing
  PROVE ~Contended(p)' /\ at[p] \notin doubtful /\ at[p] \in Slots
  BY DEF TypeOK, Local, StoreInv, Contended

LEMMA FileRemains ==
  ASSUME NEW k \in Files, NEW d \in Directories \cup {Absent}, d.body # "part",
     NEW r \in Remains(k, d)
  PROVE r.body # "part"
<1>1. CASE r = Absent
  BY <1>1, Values
<1>2. CASE r # Absent
  <2>1. d \in Directories /\ r.body \in Less(k, d.body)
    BY <1>2 DEF Remains
  <2>2. d.body \in {"none", "empty", "whole"} /\ k \notin Trees
    BY <2>1, CacheAssumption DEF Directories, Bodies
  <2>3. Less(k, d.body) \subseteq {"none", "empty", "whole"}
    BY <2>2 DEF Less
  <2> QED BY <2>1, <2>3
<1> QED BY <1>1, <1>2

LEMMA AbsentRemains == ASSUME NEW k PROVE Remains(k, Absent) = {Absent}
  BY DEF Remains

LEMMA TreeOrFile == ASSUME NEW k \in Slots PROVE (k \in Files) # (k \in Trees)
  BY CacheAssumption DEF Slots

LEMMA BeginOwn ==
  ASSUME TypeOK, NEW p \in Procs, SlotInv(at[p]), StoreInv(p), Begin(p)
  PROVE Own(p)
  BY Alone, BeginLocal, StagedTyped, Values, FileRemains, AbsentRemains, TreeOrFile
     DEF TypeOK, Own, SlotInv, StoreInv, Storing, Looking, Hit, staged, Begin, Goto, OnDisk,
         Sweeping, Fine, Failed, Raises, disk

LEMMA EndSweepOwn ==
  ASSUME TypeOK, NEW p \in Procs, SlotInv(at[p]), StoreInv(p), EndSweep(p)
  PROVE Own(p)
  BY Alone, EndSweepLocal, StagedTyped, Values, FileRemains, AbsentRemains, TreeOrFile
     DEF TypeOK, Own, SlotInv, StoreInv, Storing, Looking, Hit, staged, EndSweep, Goto, OnDisk,
         Sweeping, Fine, Failed, Raises, disk

LEMMA LookOwn ==
  ASSUME TypeOK, NEW p \in Procs, SlotInv(at[p]), StoreInv(p), Look(p)
  PROVE Own(p)
  BY Alone, LookLocal, StagedTyped, Values, FileRemains, AbsentRemains, TreeOrFile
     DEF TypeOK, Own, SlotInv, StoreInv, Storing, Looking, Hit, staged, Look, Miss, Goto, OnDisk,
         Sweeping, Fine, Failed, Raises, disk

LEMMA ReadMetaOwn ==
  ASSUME TypeOK, NEW p \in Procs, SlotInv(at[p]), StoreInv(p), ReadMeta(p)
  PROVE Own(p)
  BY Alone, ReadMetaLocal, StagedTyped, Values, FileRemains, AbsentRemains, TreeOrFile
     DEF TypeOK, Own, SlotInv, StoreInv, Storing, Looking, Hit, staged, ReadMeta, Miss, Goto,
         OnDisk, Sweeping, Fine, Failed, Raises, disk

LEMMA ReadFailsOwn ==
  ASSUME TypeOK, NEW p \in Procs, SlotInv(at[p]), StoreInv(p), ReadFails(p)
  PROVE Own(p)
  BY Alone, ReadFailsLocal, StagedTyped, Values, FileRemains, AbsentRemains, TreeOrFile
     DEF TypeOK, Own, SlotInv, StoreInv, Storing, Looking, Hit, staged, ReadFails, Goto, OnDisk,
         Sweeping, Fine, Failed, Raises, disk

LEMMA ListOwn ==
  ASSUME TypeOK, NEW p \in Procs, SlotInv(at[p]), StoreInv(p), List(p)
  PROVE Own(p)
  BY Alone, ListLocal, StagedTyped, Values, FileRemains, AbsentRemains, TreeOrFile
     DEF TypeOK, Own, SlotInv, StoreInv, Storing, Looking, Hit, staged, List, Miss, Goto, OnDisk,
         Sweeping, Fine, Failed, Raises, disk

LEMMA ListRaisesOwn ==
  ASSUME TypeOK, NEW p \in Procs, SlotInv(at[p]), StoreInv(p), ListRaises(p)
  PROVE Own(p)
  BY Alone, ListRaisesLocal, StagedTyped, Values, FileRemains, AbsentRemains, TreeOrFile
     DEF TypeOK, Own, SlotInv, StoreInv, Storing, Looking, Hit, staged, ListRaises, Goto, OnDisk,
         Sweeping, Fine, Failed, Raises, disk

LEMMA BuildOwn ==
  ASSUME TypeOK, NEW p \in Procs, SlotInv(at[p]), StoreInv(p), Build(p)
  PROVE Own(p)
  BY Alone, BuildLocal, StagedTyped, Values, FileRemains, AbsentRemains, TreeOrFile
     DEF TypeOK, Own, SlotInv, StoreInv, Storing, Looking, Hit, staged, Build, Goto, OnDisk,
         Sweeping, Fine, Failed, Raises, disk

LEMMA BuildFailsOwn ==
  ASSUME TypeOK, NEW p \in Procs, SlotInv(at[p]), StoreInv(p), BuildFails(p)
  PROVE Own(p)
  BY Alone, BuildFailsLocal, StagedTyped, Values, FileRemains, AbsentRemains, TreeOrFile
     DEF TypeOK, Own, SlotInv, StoreInv, Storing, Looking, Hit, staged, BuildFails, Goto, OnDisk,
         Sweeping, Fine, Failed, Raises, disk

LEMMA ClearOwn ==
  ASSUME TypeOK, NEW p \in Procs, SlotInv(at[p]), StoreInv(p), Clear(p)
  PROVE Own(p)
  BY Alone, ClearLocal, StagedTyped, Values, FileRemains, AbsentRemains, TreeOrFile
     DEF TypeOK, Own, SlotInv, StoreInv, Storing, Looking, Hit, staged, Clear, Goto, OnDisk,
         Sweeping, Fine, Failed, Raises, disk

LEMMA ClearFailsOwn ==
  ASSUME TypeOK, NEW p \in Procs, SlotInv(at[p]), StoreInv(p), ClearFails(p)
  PROVE Own(p)
  BY Alone, ClearFailsLocal, StagedTyped, Values, FileRemains, AbsentRemains, TreeOrFile
     DEF TypeOK, Own, SlotInv, StoreInv, Storing, Looking, Hit, staged, ClearFails, Goto, OnDisk,
         Sweeping, Fine, Failed, Raises, disk

LEMMA StageOwn ==
  ASSUME TypeOK, NEW p \in Procs, SlotInv(at[p]), StoreInv(p), Stage(p)
  PROVE Own(p)
  BY Alone, StageLocal, StagedTyped, Values, FileRemains, AbsentRemains, TreeOrFile
     DEF TypeOK, Own, SlotInv, StoreInv, Storing, Looking, Hit, staged, Stage, Write, Goto, OnDisk,
         Sweeping, Fine, Failed, Raises, disk

LEMMA CopySomeOwn ==
  ASSUME TypeOK, NEW p \in Procs, SlotInv(at[p]), StoreInv(p), CopySome(p)
  PROVE Own(p)
<1>1. /\ at' = at /\ slot' = slot /\ doubtful' = doubtful /\ pc[p] \in Storing
      /\ staging' = [staging EXCEPT ![at[p]] = [staged(p) EXCEPT !.body = "part"]]
  BY DEF Storing, CopySome, Write, Goto, OnDisk, Sweeping, Fine, Failed, Raises, disk
<1>2. at[p] \notin doubtful => staged(p)' = [meta |-> "none", body |-> "part"]
  BY <1>1 DEF CopySome, Write, StoreInv, staged, TypeOK, Complete
<1>3. SlotInv(at[p])'
  BY <1>1 DEF SlotInv
<1>4. StoreInv(p)'
  BY <1>1, <1>2, Alone, CopySomeLocal, StagedTyped DEF TypeOK, StoreInv, staged, CopySome, Write,
                                                       Goto, OnDisk, Sweeping, Fine, Failed,
                                                         Raises, disk
<1> QED BY <1>1, <1>3, <1>4 DEF Own

LEMMA CopyRestOwn ==
  ASSUME TypeOK, NEW p \in Procs, SlotInv(at[p]), StoreInv(p), CopyRest(p)
  PROVE Own(p)
<1>1. /\ at' = at /\ slot' = slot /\ doubtful' = doubtful /\ pc[p] \in Storing
      /\ staging' = [staging EXCEPT ![at[p]] = [staged(p) EXCEPT !.body = "whole"]]
  BY DEF Storing, CopyRest, Write, Goto, OnDisk, Sweeping, Fine, Failed, Raises, disk
<1>2. at[p] \notin doubtful => staged(p)' = [meta |-> "none", body |-> "whole"]
  BY <1>1 DEF CopyRest, Write, StoreInv, staged, TypeOK, Complete
<1>3. SlotInv(at[p])'
  BY <1>1 DEF SlotInv
<1>4. StoreInv(p)'
  BY <1>1, <1>2, Alone, CopyRestLocal, StagedTyped DEF TypeOK, StoreInv, staged, CopyRest, Write,
                                                       Goto, OnDisk, Sweeping, Fine, Failed,
                                                         Raises, disk
<1> QED BY <1>1, <1>3, <1>4 DEF Own

LEMMA OpenMetaOwn ==
  ASSUME TypeOK, NEW p \in Procs, SlotInv(at[p]), StoreInv(p), OpenMeta(p)
  PROVE Own(p)
<1>1. /\ at' = at /\ slot' = slot /\ doubtful' = doubtful /\ pc[p] \in Storing
      /\ staging' = [staging EXCEPT ![at[p]] = [staged(p) EXCEPT !.meta = "torn"]]
  BY DEF Storing, OpenMeta, Write, Goto, OnDisk, Sweeping, Fine, Failed, Raises, disk
<1>2. at[p] \notin doubtful => staged(p)' = [meta |-> "torn", body |-> "whole"]
  BY <1>1 DEF OpenMeta, Write, StoreInv, staged, TypeOK, Complete
<1>3. SlotInv(at[p])'
  BY <1>1 DEF SlotInv
<1>4. StoreInv(p)'
  BY <1>1, <1>2, Alone, OpenMetaLocal, StagedTyped DEF TypeOK, StoreInv, staged, OpenMeta, Write,
                                                       Goto, OnDisk, Sweeping, Fine, Failed,
                                                         Raises, disk
<1> QED BY <1>1, <1>3, <1>4 DEF Own

LEMMA WriteMetaOwn ==
  ASSUME TypeOK, NEW p \in Procs, SlotInv(at[p]), StoreInv(p), WriteMeta(p)
  PROVE Own(p)
<1>1. /\ at' = at /\ slot' = slot /\ doubtful' = doubtful /\ pc[p] \in Storing
      /\ staging' = [staging EXCEPT ![at[p]] = [staged(p) EXCEPT !.meta = "good"]]
  BY DEF Storing, WriteMeta, Write, Goto, OnDisk, Sweeping, Fine, Failed, Raises, disk
<1>2. at[p] \notin doubtful => staged(p)' = Complete
  BY <1>1 DEF WriteMeta, Write, StoreInv, staged, TypeOK, Complete
<1>3. SlotInv(at[p])'
  BY <1>1 DEF SlotInv
<1>4. StoreInv(p)'
  BY <1>1, <1>2, Alone, WriteMetaLocal, StagedTyped DEF TypeOK, StoreInv, staged, WriteMeta, Write,
                                                        Goto, OnDisk, Sweeping, Fine, Failed,
                                                          Raises, disk
<1> QED BY <1>1, <1>3, <1>4 DEF Own

LEMMA WriteFailsOwn ==
  ASSUME TypeOK, NEW p \in Procs, SlotInv(at[p]), StoreInv(p), WriteFails(p)
  PROVE Own(p)
  BY Alone, WriteFailsLocal, StagedTyped, Values, FileRemains, AbsentRemains, TreeOrFile
     DEF TypeOK, Own, SlotInv, StoreInv, Storing, Looking, Hit, staged, WriteFails, Goto, OnDisk,
         Sweeping, Fine, Failed, Raises, disk

LEMMA DropOwn ==
  ASSUME TypeOK, NEW p \in Procs, SlotInv(at[p]), StoreInv(p), Drop(p)
  PROVE Own(p)
  BY Alone, DropLocal, StagedTyped, Values, FileRemains, AbsentRemains, TreeOrFile
     DEF TypeOK, Own, SlotInv, StoreInv, Storing, Looking, Hit, staged, Drop, Goto, OnDisk,
         Sweeping, Fine, Failed, Raises, disk

LEMMA DropIgnoresOwn ==
  ASSUME TypeOK, NEW p \in Procs, SlotInv(at[p]), StoreInv(p), DropIgnores(p)
  PROVE Own(p)
<1>1. /\ at' = at /\ staging' = staging /\ doubtful' = doubtful /\ pc[p] \in Storing
      /\ pc'[p] = "rename"
  BY DEF TypeOK, Storing, DropIgnores, Goto, OnDisk, Sweeping, Fine, Failed, Raises, disk
<1>2. slot'[at[p]] = Absent \/ slot'[at[p]] \in Remains(at[p], slot[at[p]])
  BY StagedTyped DEF TypeOK, DropIgnores
<1>3. SlotInv(at[p])' /\ (at[p] \notin doubtful /\ at[p] \in Trees => slot'[at[p]] = Absent)
  BY <1>1, <1>2, FileRemains, AbsentRemains, StagedTyped, Values, TreeOrFile DEF SlotInv, StoreInv
<1>4. StoreInv(p)'
  BY <1>1, <1>3, Alone, DropIgnoresLocal, StagedTyped DEF StoreInv, staged, Storing, DropIgnores,
                                                          Goto, OnDisk, Sweeping, Fine, Failed,
                                                            Raises, disk
<1> QED BY <1>1, <1>3, <1>4 DEF Own

LEMMA RenameOwn ==
  ASSUME TypeOK, NEW p \in Procs, SlotInv(at[p]), StoreInv(p), Rename(p)
  PROVE Own(p)
  BY Alone, RenameLocal, StagedTyped, Values, FileRemains, AbsentRemains, TreeOrFile
     DEF TypeOK, Own, SlotInv, StoreInv, Storing, Looking, Hit, staged, Rename, Goto, OnDisk,
         Sweeping, Fine, Failed, Raises, disk

LEMMA RenameAgainOwn ==
  ASSUME TypeOK, NEW p \in Procs, SlotInv(at[p]), StoreInv(p), RenameAgain(p)
  PROVE Own(p)
<1>1. /\ at' = at /\ staging' = staging /\ doubtful' = doubtful /\ pc[p] \in Storing
      /\ pc'[p] = "rename"
  BY DEF TypeOK, Storing, RenameAgain, Goto, OnDisk, Sweeping, Fine, Failed, Raises, disk
<1>2. slot'[at[p]] = Absent \/ slot'[at[p]] \in Remains(at[p], slot[at[p]])
  BY StagedTyped DEF TypeOK, RenameAgain
<1>3. SlotInv(at[p])' /\ (at[p] \notin doubtful /\ at[p] \in Trees => slot'[at[p]] = Absent)
  BY <1>1, <1>2, FileRemains, AbsentRemains, StagedTyped, Values, TreeOrFile DEF SlotInv, StoreInv
<1>4. StoreInv(p)'
  BY <1>1, <1>3, Alone, RenameAgainLocal, StagedTyped DEF StoreInv, staged, Storing, RenameAgain,
                                                          Goto, OnDisk, Sweeping, Fine, Failed,
                                                            Raises, disk
<1> QED BY <1>1, <1>3, <1>4 DEF Own

LEMMA RenameFailsOwn ==
  ASSUME TypeOK, NEW p \in Procs, SlotInv(at[p]), StoreInv(p), RenameFails(p)
  PROVE Own(p)
  BY Alone, RenameFailsLocal, StagedTyped, Values, FileRemains, AbsentRemains, TreeOrFile
     DEF TypeOK, Own, SlotInv, StoreInv, Storing, Looking, Hit, staged, RenameFails, Goto, OnDisk,
         Sweeping, Fine, Failed, Raises, disk

LEMMA KillOwn ==
  ASSUME TypeOK, NEW p \in Procs, SlotInv(at[p]), StoreInv(p), Kill(p)
  PROVE Own(p)
  BY Alone, KillLocal, StagedTyped, Values, FileRemains, AbsentRemains, TreeOrFile
     DEF TypeOK, Own, SlotInv, StoreInv, Storing, Looking, Hit, staged, Kill, Goto, OnDisk,
         Sweeping, Fine, Failed, Raises, disk

LEMMA StepHalfKept ==
  ASSUME TypeOK, \A k \in Slots : SlotInv(k), \A q \in Procs : StoreInv(q),
         NEW p \in Procs, Local(p), Own(p)
  PROVE (\A k \in Slots : SlotInv(k)') /\ (\A q \in Procs : StoreInv(q)')
<1>1. ASSUME NEW k \in Slots PROVE SlotInv(k)'
  <2>1. CASE k = at[p]
    BY <2>1 DEF Own
  <2>2. CASE k # at[p]
    <3>1. k \in Slots \ {at[p]} /\ SlotInv(k)
      BY <2>2
    <3> QED BY <3>1, SlotsElsewhere
  <2> QED BY <2>1, <2>2
<1>2. ASSUME NEW q \in Procs PROVE StoreInv(q)'
  BY StoresElsewhere DEF Own
<1> QED BY <1>1, <1>2

LEMMA HalfKept ==
  ASSUME TypeOK, \A k \in Slots : SlotInv(k), \A q \in Procs : StoreInv(q), [Next]_vars
  PROVE (\A k \in Slots : SlotInv(k)') /\ (\A q \in Procs : StoreInv(q)')
<1>0. CASE UNCHANGED vars
  BY <1>0 DEF vars, disk, SlotInv, StoreInv, Contended, staged
<1>a. \A p \in Procs : SlotInv(at[p])
  BY StagedTyped
<1>1. ASSUME NEW p \in Procs, Begin(p) PROVE Local(p) /\ Own(p)
  BY <1>a, <1>1, BeginLocal, BeginOwn
<1>2. ASSUME NEW p \in Procs, EndSweep(p) PROVE Local(p) /\ Own(p)
  BY <1>a, <1>2, EndSweepLocal, EndSweepOwn
<1>3. ASSUME NEW p \in Procs, Look(p) PROVE Local(p) /\ Own(p)
  BY <1>a, <1>3, LookLocal, LookOwn
<1>4. ASSUME NEW p \in Procs, ReadMeta(p) PROVE Local(p) /\ Own(p)
  BY <1>a, <1>4, ReadMetaLocal, ReadMetaOwn
<1>5. ASSUME NEW p \in Procs, ReadFails(p) PROVE Local(p) /\ Own(p)
  BY <1>a, <1>5, ReadFailsLocal, ReadFailsOwn
<1>6. ASSUME NEW p \in Procs, List(p) PROVE Local(p) /\ Own(p)
  BY <1>a, <1>6, ListLocal, ListOwn
<1>7. ASSUME NEW p \in Procs, Build(p) PROVE Local(p) /\ Own(p)
  BY <1>a, <1>7, BuildLocal, BuildOwn
<1>8. ASSUME NEW p \in Procs, BuildFails(p) PROVE Local(p) /\ Own(p)
  BY <1>a, <1>8, BuildFailsLocal, BuildFailsOwn
<1>9. ASSUME NEW p \in Procs, Clear(p) PROVE Local(p) /\ Own(p)
  BY <1>a, <1>9, ClearLocal, ClearOwn
<1>10. ASSUME NEW p \in Procs, ClearFails(p) PROVE Local(p) /\ Own(p)
  BY <1>a, <1>10, ClearFailsLocal, ClearFailsOwn
<1>11. ASSUME NEW p \in Procs, Stage(p) PROVE Local(p) /\ Own(p)
  BY <1>a, <1>11, StageLocal, StageOwn
<1>12. ASSUME NEW p \in Procs, CopySome(p) PROVE Local(p) /\ Own(p)
  BY <1>a, <1>12, CopySomeLocal, CopySomeOwn
<1>13. ASSUME NEW p \in Procs, CopyRest(p) PROVE Local(p) /\ Own(p)
  BY <1>a, <1>13, CopyRestLocal, CopyRestOwn
<1>14. ASSUME NEW p \in Procs, OpenMeta(p) PROVE Local(p) /\ Own(p)
  BY <1>a, <1>14, OpenMetaLocal, OpenMetaOwn
<1>15. ASSUME NEW p \in Procs, WriteMeta(p) PROVE Local(p) /\ Own(p)
  BY <1>a, <1>15, WriteMetaLocal, WriteMetaOwn
<1>16. ASSUME NEW p \in Procs, WriteFails(p) PROVE Local(p) /\ Own(p)
  BY <1>a, <1>16, WriteFailsLocal, WriteFailsOwn
<1>17. ASSUME NEW p \in Procs, Drop(p) PROVE Local(p) /\ Own(p)
  BY <1>a, <1>17, DropLocal, DropOwn
<1>18. ASSUME NEW p \in Procs, DropIgnores(p) PROVE Local(p) /\ Own(p)
  BY <1>a, <1>18, DropIgnoresLocal, DropIgnoresOwn
<1>19. ASSUME NEW p \in Procs, Rename(p) PROVE Local(p) /\ Own(p)
  BY <1>a, <1>19, RenameLocal, RenameOwn
<1>20. ASSUME NEW p \in Procs, RenameAgain(p) PROVE Local(p) /\ Own(p)
  BY <1>a, <1>20, RenameAgainLocal, RenameAgainOwn
<1>21. ASSUME NEW p \in Procs, RenameFails(p) PROVE Local(p) /\ Own(p)
  BY <1>a, <1>21, RenameFailsLocal, RenameFailsOwn
<1>22. ASSUME NEW p \in Procs, Kill(p) PROVE Local(p) /\ Own(p)
  BY <1>a, <1>22, KillLocal, KillOwn
<1>23. ASSUME NEW p \in Procs, NEW j \in Slots, BuildCached(p, j) PROVE Local(p) /\ Own(p)
  BY <1>a, <1>23, BuildCachedLocal DEF Own, SlotInv, StoreInv, Storing, TypeOK, BuildCached, Goto,
                                       OnDisk, Sweeping, Fine, Failed, Raises, disk
<1>25. ASSUME NEW p \in Procs, ListRaises(p) PROVE Local(p) /\ Own(p)
  BY <1>a, <1>25, ListRaisesLocal, ListRaisesOwn
<1>24. ASSUME NEW p \in Procs, Local(p) /\ Own(p)
      PROVE (\A k \in Slots : SlotInv(k)') /\ (\A q \in Procs : StoreInv(q)')
  BY <1>24, StepHalfKept
<1> QED BY <1>0, <1>1, <1>2, <1>3, <1>4, <1>5, <1>6, <1>7, <1>8, <1>9, <1>10, <1>11, <1>12, <1>13,
           <1>14, <1>15, <1>16, <1>17, <1>18, <1>19, <1>20, <1>21, <1>22, <1>23,<1>24,
           <1>25 DEF Next

-----------------------------------------------------------------------------
(* A sweep fills the slots                                                 *)

\* No call fails in the step: whatever has its artifact, or will, keeps it.
Keeps(p) ==
  \A k \in Slots \ doubtful' : (Filled(k) => Filled(k)') /\ (slot'[k] = slot[k] \/ Filled(k)')

LEMMA KeepsOwn ==
  ASSUME TypeOK, NEW p \in Procs, Local(p),
         pc[p] \in Storing =>
           \A k \in {at[p]} \ doubtful' :
             Filled(k)' \/ (slot'[k] = slot[k] /\ (Filled(k) => Filled(k)'))
  PROVE Keeps(p)
<1> SUFFICES ASSUME NEW k \in Slots \ doubtful'
             PROVE (Filled(k) => Filled(k)') /\ (slot'[k] = slot[k] \/ Filled(k)')
  BY DEF Keeps
<1>1. CASE k = at[p] /\ pc[p] \in Storing
  <2>1. k \in {at[p]} \ doubtful'
    BY <1>1
  <2> QED BY <1>1, <2>1
<1>2. CASE k # at[p] \/ pc[p] \notin Storing
  <2>1. slot'[k] = slot[k]
    BY <1>2 DEF Local
  <2>2. ASSUME Filled(k) PROVE Filled(k)'
    <3>1. CASE slot[k] = Complete
      BY <2>1, <3>1 DEF Filled
    <3>2. ASSUME NEW q \in Procs, at[q] = k, pc[q] \in Storing, pc[q] = "rename" => slot[k] = Absent
          PROVE Filled(k)'
      <4>1. q # p
        BY <1>2, <3>2
      <4>2. at'[q] = k /\ pc'[q] = pc[q]
        BY <3>2, <4>1 DEF Local
      <4> QED BY <2>1, <3>2, <4>2 DEF Filled
    <3> QED BY <2>2, <3>1, <3>2 DEF Filled
  <2> QED BY <2>1, <2>2
<1> QED BY <1>1, <1>2

LEMMA SweepsElsewhere ==
  ASSUME TypeOK, NEW p \in Procs, Local(p), Keeps(p), NEW q \in Procs \ {p},
         clean'[q] = clean[q], StoreInv(q), SweepInv(q)
  PROVE SweepInv(q)'
<1> SUFFICES ASSUME clean[q] = "yes"
             PROVE SweepInv(q)'
  BY DEF SweepInv
<1>1. pc'[q] = pc[q] /\ at'[q] = at[q] /\ todo'[q] = todo[q] /\ at[q] \in Slots
  BY DEF Local, TypeOK
<1>2. ASSUME NEW k \in Slots \ doubtful', Passed(q, k)' PROVE Filled(k)'
  <2>1. Passed(q, k) /\ k \in Slots \ doubtful
    BY <1>1, <1>2 DEF Passed, Local
  <2> QED BY <1>2, <2>1 DEF SweepInv, Keeps
<1>3. ASSUME at[q] \notin doubtful'
      PROVE /\ pc[q] = "read" => slot'[at[q]].body # "none" \/ Filled(at[q])'
            /\ pc[q] = "list" => slot'[at[q]].body = "empty" \/ Filled(at[q])'
  <2>1. at[q] \in Slots \ doubtful' /\ at[q] \notin doubtful
    BY <1>1, <1>3 DEF Local
  <2>2. /\ pc[q] = "read" => slot[at[q]].body # "none" \/ Filled(at[q])
        /\ pc[q] = "list" => slot[at[q]].body = "empty" \/ Filled(at[q])
    BY <2>1 DEF SweepInv
  <2>3. /\ Filled(at[q]) => \A k \in {at[q]} : Filled(k)'
        /\ slot'[at[q]] = slot[at[q]] \/ \A k \in {at[q]} : Filled(k)'
    BY <2>1 DEF Keeps
  <2>4. (\A k \in {at[q]} : Filled(k)') => Filled(at[q])'
    BY <1>1
  <2> QED BY <2>2, <2>3, <2>4
<1>4. ASSUME at[q] \notin doubtful', pc[q] = "rename" PROVE slot'[at[q]] = Absent
  <2>1. slot[at[q]] = Absent /\ ~Contended(q)
    BY <1>4 DEF Local, SweepInv, StoreInv, Storing
  <2>2. CASE at[q] = at[p]
    <3>1. pc[p] \notin Storing
      BY <2>1, <2>2 DEF Contended
    <3> QED BY <1>1, <2>1, <3>1 DEF Local
  <2>3. CASE at[q] # at[p]
    BY <1>1, <2>1, <2>3 DEF Local
  <2> QED BY <2>2, <2>3
<1> QED BY <1>1, <1>2, <1>3, <1>4 DEF SweepInv

\* Steps that fail no call.
LEMMA OwnPassed ==
  ASSUME TypeOK, NEW p \in Procs, Keeps(p), SweepInv(p), clean[p] = "yes",
     doubtful \subseteq doubtful',
         at' = at, todo'[p] = todo[p], pc[p] # "idle",
           pc'[p] = "swept" => pc[p] = "next" /\ todo[p] = {},
         NEW k \in Slots \ doubtful', k # at[p] \/ pc[p] \notin Looking \cup Storing, Passed(p, k)'
  PROVE Filled(k)'
<1>1. Passed(p, k) /\ k \in Slots \ doubtful
  BY DEF Passed, Looking, Storing
<1> QED BY <1>1 DEF SweepInv, Keeps

LEMMA BeginSweep ==
  ASSUME TypeOK, NEW p \in Procs, SlotInv(at[p]), StoreInv(p), SweepInv(p), Begin(p)
  PROVE Keeps(p) /\ SweepInv(p)'
<1>1. Local(p) /\ at[p] \in Slots
  BY BeginLocal, StagedTyped
<1>2. Keeps(p)
  BY <1>1, KeepsOwn, Values DEF TypeOK, Storing, Filled, StoreInv, staged, Begin, Goto, OnDisk,
                                Sweeping, Fine, Failed, Raises, disk
<1>3. ASSUME clean'[p] = "yes", NEW k \in Slots \ doubtful', Passed(p, k)' PROVE Filled(k)'
  BY <1>1, <1>2, <1>3, OwnPassed DEF TypeOK, Local, Passed, Looking, Storing, SweepInv, Keeps,
                                     Filled, StoreInv, staged, Begin, Goto, OnDisk, Sweeping, Fine,
                                       Failed, Raises, disk
<1>4. ASSUME clean'[p] = "yes", at'[p] \notin doubtful'
      PROVE /\ pc'[p] = "read" => slot'[at'[p]].body # "none" \/ Filled(at[p])'
            /\ pc'[p] = "list" => slot'[at'[p]].body = "empty" \/ Filled(at[p])'
            /\ pc'[p] = "rename" => slot'[at'[p]] = Absent
  BY <1>1, <1>4, TreeOrFile, Values DEF TypeOK, Local, SlotInv, SweepInv, Filled, Complete,
                                        Directories, Bodies, Begin, Goto, OnDisk, Sweeping, Fine,
                                          Failed, Raises, disk
<1> QED BY <1>2, <1>3, <1>4 DEF SweepInv

LEMMA EndSweepSweep ==
  ASSUME TypeOK, NEW p \in Procs, SlotInv(at[p]), StoreInv(p), SweepInv(p), EndSweep(p)
  PROVE Keeps(p) /\ SweepInv(p)'
<1>1. Local(p) /\ at[p] \in Slots
  BY EndSweepLocal, StagedTyped
<1>2. Keeps(p)
  BY <1>1, KeepsOwn, Values DEF TypeOK, Storing, Filled, StoreInv, staged, EndSweep, Goto, OnDisk,
                                Sweeping, Fine, Failed, Raises, disk
<1>3. ASSUME clean'[p] = "yes", NEW k \in Slots \ doubtful', Passed(p, k)' PROVE Filled(k)'
  BY <1>1, <1>2, <1>3, OwnPassed DEF TypeOK, Local, Passed, Looking, Storing, SweepInv, Keeps,
                                     Filled, StoreInv, staged, EndSweep, Goto, OnDisk, Sweeping,
                                       Fine, Failed, Raises, disk
<1>4. ASSUME clean'[p] = "yes", at'[p] \notin doubtful'
      PROVE /\ pc'[p] = "read" => slot'[at'[p]].body # "none" \/ Filled(at[p])'
            /\ pc'[p] = "list" => slot'[at'[p]].body = "empty" \/ Filled(at[p])'
            /\ pc'[p] = "rename" => slot'[at'[p]] = Absent
  BY <1>1, <1>4, TreeOrFile, Values DEF TypeOK, Local, SlotInv, SweepInv, Filled, Complete,
                                        Directories, Bodies, EndSweep, Goto, OnDisk, Sweeping,
                                          Fine, Failed, Raises, disk
<1> QED BY <1>2, <1>3, <1>4 DEF SweepInv

LEMMA LookSweep ==
  ASSUME TypeOK, NEW p \in Procs, SlotInv(at[p]), StoreInv(p), SweepInv(p), Look(p)
  PROVE Keeps(p) /\ SweepInv(p)'
<1>1. Local(p) /\ at[p] \in Slots
  BY LookLocal, StagedTyped
<1>2. Keeps(p)
  BY <1>1, KeepsOwn, Values DEF TypeOK, Storing, Filled, StoreInv, staged, Look, Miss, Goto,
                                OnDisk, Sweeping, Fine, Failed, Raises, disk
<1>3. ASSUME clean'[p] = "yes", NEW k \in Slots \ doubtful', Passed(p, k)' PROVE Filled(k)'
  BY <1>1, <1>2, <1>3, OwnPassed DEF TypeOK, Local, Passed, Looking, Storing, SweepInv, Keeps,
                                     Filled, StoreInv, staged, Look, Miss, Goto, OnDisk, Sweeping,
                                       Fine, Failed, Raises, disk
<1>4. ASSUME clean'[p] = "yes", at'[p] \notin doubtful'
      PROVE /\ pc'[p] = "read" => slot'[at'[p]].body # "none" \/ Filled(at[p])'
            /\ pc'[p] = "list" => slot'[at'[p]].body = "empty" \/ Filled(at[p])'
            /\ pc'[p] = "rename" => slot'[at'[p]] = Absent
  BY <1>1, <1>4, TreeOrFile, Values DEF TypeOK, Local, SlotInv, SweepInv, Filled, Complete,
                                        Directories, Bodies, Look, Miss, Goto, OnDisk, Sweeping,
                                          Fine, Failed, Raises, disk
<1> QED BY <1>2, <1>3, <1>4 DEF SweepInv

LEMMA ReadMetaSweep ==
  ASSUME TypeOK, NEW p \in Procs, SlotInv(at[p]), StoreInv(p), SweepInv(p), ReadMeta(p)
  PROVE Keeps(p) /\ SweepInv(p)'
<1>1. Local(p) /\ at[p] \in Slots
  BY ReadMetaLocal, StagedTyped
<1>2. Keeps(p)
  BY <1>1, KeepsOwn, Values DEF TypeOK, Storing, Filled, StoreInv, staged, ReadMeta, Miss, Goto,
                                OnDisk, Sweeping, Fine, Failed, Raises, disk
<1>3. ASSUME clean'[p] = "yes", NEW k \in Slots \ doubtful', Passed(p, k)' PROVE Filled(k)'
  BY <1>1, <1>2, <1>3, OwnPassed DEF TypeOK, Local, Passed, Looking, Storing, SweepInv, Keeps,
                                     Filled, StoreInv, staged, ReadMeta, Miss, Goto, OnDisk,
                                       Sweeping, Fine, Failed, Raises, disk
<1>4. ASSUME clean'[p] = "yes", at'[p] \notin doubtful'
      PROVE /\ pc'[p] = "read" => slot'[at'[p]].body # "none" \/ Filled(at[p])'
            /\ pc'[p] = "list" => slot'[at'[p]].body = "empty" \/ Filled(at[p])'
            /\ pc'[p] = "rename" => slot'[at'[p]] = Absent
  <2>1. CASE pc'[p] # "list"
    BY <1>4, <2>1 DEF TypeOK, ReadMeta, Miss, Goto, OnDisk, Sweeping, Fine, Failed, Raises, disk
  <2>2. CASE pc'[p] = "list"
    <3>1. /\ at' = at /\ slot' = slot /\ slot[at[p]].meta = "good" /\ pc[p] = "read"
          /\ doubtful' = doubtful /\ clean[p] = "yes" /\ pc' = [pc EXCEPT ![p] = "list"]
      BY <1>4, <2>2 DEF TypeOK, ReadMeta, Miss, Goto, OnDisk, Sweeping, Fine, Failed, Raises, disk
    <3>2. slot[at[p]] \in Directories
      BY <1>1, <3>1, Values DEF TypeOK
    <3>3. slot[at[p]].body # "part"
      BY <1>1, <1>4, <3>1, TreeOrFile, Values DEF SlotInv
    <3>4. slot[at[p]].body = "whole" => slot[at[p]] = Complete
      BY <3>1, <3>2 DEF Complete, Directories
    <3>5. slot[at[p]].body \in {"none", "empty", "whole"}
      BY <3>2, <3>3 DEF Directories, Bodies
    <3>6. slot[at[p]].body = "empty" \/ Filled(at[p])
      BY <1>4, <3>1, <3>4, <3>5 DEF SweepInv, Filled
    <3>7. Filled(at[p]) => Filled(at[p])'
      BY <1>1, <1>2, <1>4, <3>1 DEF Keeps
    <3> QED BY <2>2, <3>1, <3>6, <3>7 DEF TypeOK
  <2> QED BY <2>1, <2>2
<1> QED BY <1>2, <1>3, <1>4 DEF SweepInv

LEMMA ListSweep ==
  ASSUME TypeOK, NEW p \in Procs, SlotInv(at[p]), StoreInv(p), SweepInv(p), List(p)
  PROVE Keeps(p) /\ SweepInv(p)'
<1>1. Local(p) /\ at[p] \in Slots
  BY ListLocal, StagedTyped
<1>2. Keeps(p)
  BY <1>1, KeepsOwn, Values DEF TypeOK, Storing, Filled, StoreInv, staged, List, Miss, Goto,
                                OnDisk, Sweeping, Fine, Failed, Raises, disk
<1>3. ASSUME clean'[p] = "yes", NEW k \in Slots \ doubtful', Passed(p, k)' PROVE Filled(k)'
  BY <1>1, <1>2, <1>3, OwnPassed DEF TypeOK, Local, Passed, Looking, Storing, SweepInv, Keeps,
                                     Filled, StoreInv, staged, List, Miss, Goto, OnDisk, Sweeping,
                                       Fine, Failed, Raises, disk
<1>4. ASSUME clean'[p] = "yes", at'[p] \notin doubtful'
      PROVE /\ pc'[p] = "read" => slot'[at'[p]].body # "none" \/ Filled(at[p])'
            /\ pc'[p] = "list" => slot'[at'[p]].body = "empty" \/ Filled(at[p])'
            /\ pc'[p] = "rename" => slot'[at'[p]] = Absent
  BY <1>1, <1>4, TreeOrFile, Values DEF TypeOK, Local, SlotInv, SweepInv, Filled, Complete,
                                        Directories, Bodies, List, Miss, Goto, OnDisk, Sweeping,
                                          Fine, Failed, Raises, disk
<1> QED BY <1>2, <1>3, <1>4 DEF SweepInv

LEMMA ListRaisesSweep ==
  ASSUME TypeOK, NEW p \in Procs, SlotInv(at[p]), StoreInv(p), SweepInv(p),
         ListRaises(p), Fine
  PROVE Keeps(p) /\ SweepInv(p)'
<1>1. Local(p) /\ at[p] \in Slots
  BY ListRaisesLocal, StagedTyped
<1>2. Keeps(p)
  BY <1>1, KeepsOwn, Values DEF TypeOK, Storing, Filled, StoreInv, staged, ListRaises, Goto,
                                OnDisk, Sweeping, Fine, Failed, Raises, disk
<1>3. ASSUME clean'[p] = "yes", NEW k \in Slots \ doubtful', Passed(p, k)' PROVE Filled(k)'
  BY <1>1, <1>2, <1>3, OwnPassed DEF TypeOK, Local, Passed, Looking, Storing, SweepInv, Keeps,
                                     Filled, StoreInv, staged, ListRaises, Goto, OnDisk, Sweeping,
                                       Fine, Failed, Raises, disk
<1>4. ASSUME clean'[p] = "yes", at'[p] \notin doubtful'
      PROVE /\ pc'[p] = "read" => slot'[at'[p]].body # "none" \/ Filled(at[p])'
            /\ pc'[p] = "list" => slot'[at'[p]].body = "empty" \/ Filled(at[p])'
            /\ pc'[p] = "rename" => slot'[at'[p]] = Absent
  BY <1>1, <1>4, TreeOrFile, Values DEF TypeOK, Local, SlotInv, SweepInv, Filled, Complete,
                                        Directories, Bodies, ListRaises, Goto, OnDisk, Sweeping,
                                          Fine, Failed, Raises, disk
<1> QED BY <1>2, <1>3, <1>4 DEF SweepInv

LEMMA BuildSweep ==
  ASSUME TypeOK, NEW p \in Procs, SlotInv(at[p]), StoreInv(p), SweepInv(p), Build(p)
  PROVE Keeps(p) /\ SweepInv(p)'
<1>1. Local(p) /\ at[p] \in Slots
  BY BuildLocal, StagedTyped
<1>2. Keeps(p)
  BY <1>1, KeepsOwn, Values DEF TypeOK, Storing, Filled, StoreInv, staged, Build, Goto, OnDisk,
                                Sweeping, Fine, Failed, Raises, disk
<1>3. ASSUME clean'[p] = "yes", NEW k \in Slots \ doubtful', Passed(p, k)' PROVE Filled(k)'
  BY <1>1, <1>2, <1>3, OwnPassed DEF TypeOK, Local, Passed, Looking, Storing, SweepInv, Keeps,
                                     Filled, StoreInv, staged, Build, Goto, OnDisk, Sweeping, Fine,
                                       Failed, Raises, disk
<1>4. ASSUME clean'[p] = "yes", at'[p] \notin doubtful'
      PROVE /\ pc'[p] = "read" => slot'[at'[p]].body # "none" \/ Filled(at[p])'
            /\ pc'[p] = "list" => slot'[at'[p]].body = "empty" \/ Filled(at[p])'
            /\ pc'[p] = "rename" => slot'[at'[p]] = Absent
  BY <1>1, <1>4, TreeOrFile, Values DEF TypeOK, Local, SlotInv, SweepInv, Filled, Complete,
                                        Directories, Bodies, Build, Goto, OnDisk, Sweeping, Fine,
                                          Failed, Raises, disk
<1> QED BY <1>2, <1>3, <1>4 DEF SweepInv

LEMMA ClearSweep ==
  ASSUME TypeOK, NEW p \in Procs, SlotInv(at[p]), StoreInv(p), SweepInv(p), Clear(p)
  PROVE Keeps(p) /\ SweepInv(p)'
<1>1. Local(p) /\ at[p] \in Slots
  BY ClearLocal, StagedTyped
<1>2. Keeps(p)
  BY <1>1, KeepsOwn, Values DEF TypeOK, Storing, Filled, StoreInv, staged, Clear, Goto, OnDisk,
                                Sweeping, Fine, Failed, Raises, disk
<1>3. ASSUME clean'[p] = "yes", NEW k \in Slots \ doubtful', Passed(p, k)' PROVE Filled(k)'
  BY <1>1, <1>2, <1>3, OwnPassed DEF TypeOK, Local, Passed, Looking, Storing, SweepInv, Keeps,
                                     Filled, StoreInv, staged, Clear, Goto, OnDisk, Sweeping, Fine,
                                       Failed, Raises, disk
<1>4. ASSUME clean'[p] = "yes", at'[p] \notin doubtful'
      PROVE /\ pc'[p] = "read" => slot'[at'[p]].body # "none" \/ Filled(at[p])'
            /\ pc'[p] = "list" => slot'[at'[p]].body = "empty" \/ Filled(at[p])'
            /\ pc'[p] = "rename" => slot'[at'[p]] = Absent
  BY <1>1, <1>4, TreeOrFile, Values DEF TypeOK, Local, SlotInv, SweepInv, Filled, Complete,
                                        Directories, Bodies, Clear, Goto, OnDisk, Sweeping, Fine,
                                          Failed, Raises, disk
<1> QED BY <1>2, <1>3, <1>4 DEF SweepInv

LEMMA StageSweep ==
  ASSUME TypeOK, NEW p \in Procs, SlotInv(at[p]), StoreInv(p), SweepInv(p), Stage(p)
  PROVE Keeps(p) /\ SweepInv(p)'
<1>1. Local(p) /\ at[p] \in Slots
  BY StageLocal, StagedTyped
<1>2. Keeps(p)
  BY <1>1, KeepsOwn, Values DEF TypeOK, Storing, Filled, StoreInv, staged, Stage, Write, Goto,
                                OnDisk, Sweeping, Fine, Failed, Raises, disk
<1>3. ASSUME clean'[p] = "yes", NEW k \in Slots \ doubtful', Passed(p, k)' PROVE Filled(k)'
  BY <1>1, <1>2, <1>3, OwnPassed DEF TypeOK, Local, Passed, Looking, Storing, SweepInv, Keeps,
                                     Filled, StoreInv, staged, Stage, Write, Goto, OnDisk,
                                       Sweeping, Fine, Failed, Raises, disk
<1>4. ASSUME clean'[p] = "yes", at'[p] \notin doubtful'
      PROVE /\ pc'[p] = "read" => slot'[at'[p]].body # "none" \/ Filled(at[p])'
            /\ pc'[p] = "list" => slot'[at'[p]].body = "empty" \/ Filled(at[p])'
            /\ pc'[p] = "rename" => slot'[at'[p]] = Absent
  BY <1>1, <1>4, TreeOrFile, Values DEF TypeOK, Local, SlotInv, SweepInv, Filled, Complete,
                                        Directories, Bodies, Stage, Write, Goto, OnDisk, Sweeping,
                                          Fine, Failed, Raises, disk
<1> QED BY <1>2, <1>3, <1>4 DEF SweepInv

LEMMA CopySomeSweep ==
  ASSUME TypeOK, NEW p \in Procs, SlotInv(at[p]), StoreInv(p), SweepInv(p), CopySome(p)
  PROVE Keeps(p) /\ SweepInv(p)'
<1>1. Local(p) /\ at[p] \in Slots
  BY CopySomeLocal, StagedTyped
<1>2. Keeps(p)
  BY <1>1, KeepsOwn, Values DEF TypeOK, Storing, Filled, StoreInv, staged, CopySome, Write, Goto,
                                OnDisk, Sweeping, Fine, Failed, Raises, disk
<1>3. ASSUME clean'[p] = "yes", NEW k \in Slots \ doubtful', Passed(p, k)' PROVE Filled(k)'
  BY <1>1, <1>2, <1>3, OwnPassed DEF TypeOK, Local, Passed, Looking, Storing, SweepInv, Keeps,
                                     Filled, StoreInv, staged, CopySome, Write, Goto, OnDisk,
                                       Sweeping, Fine, Failed, Raises, disk
<1>4. ASSUME clean'[p] = "yes", at'[p] \notin doubtful'
      PROVE /\ pc'[p] = "read" => slot'[at'[p]].body # "none" \/ Filled(at[p])'
            /\ pc'[p] = "list" => slot'[at'[p]].body = "empty" \/ Filled(at[p])'
            /\ pc'[p] = "rename" => slot'[at'[p]] = Absent
  BY <1>1, <1>4, TreeOrFile, Values DEF TypeOK, Local, SlotInv, SweepInv, Filled, Complete,
                                        Directories, Bodies, CopySome, Write, Goto, OnDisk,
                                          Sweeping, Fine, Failed, Raises, disk
<1> QED BY <1>2, <1>3, <1>4 DEF SweepInv

LEMMA CopyRestSweep ==
  ASSUME TypeOK, NEW p \in Procs, SlotInv(at[p]), StoreInv(p), SweepInv(p), CopyRest(p)
  PROVE Keeps(p) /\ SweepInv(p)'
<1>1. Local(p) /\ at[p] \in Slots
  BY CopyRestLocal, StagedTyped
<1>2. Keeps(p)
  BY <1>1, KeepsOwn, Values DEF TypeOK, Storing, Filled, StoreInv, staged, CopyRest, Write, Goto,
                                OnDisk, Sweeping, Fine, Failed, Raises, disk
<1>3. ASSUME clean'[p] = "yes", NEW k \in Slots \ doubtful', Passed(p, k)' PROVE Filled(k)'
  BY <1>1, <1>2, <1>3, OwnPassed DEF TypeOK, Local, Passed, Looking, Storing, SweepInv, Keeps,
                                     Filled, StoreInv, staged, CopyRest, Write, Goto, OnDisk,
                                       Sweeping, Fine, Failed, Raises, disk
<1>4. ASSUME clean'[p] = "yes", at'[p] \notin doubtful'
      PROVE /\ pc'[p] = "read" => slot'[at'[p]].body # "none" \/ Filled(at[p])'
            /\ pc'[p] = "list" => slot'[at'[p]].body = "empty" \/ Filled(at[p])'
            /\ pc'[p] = "rename" => slot'[at'[p]] = Absent
  BY <1>1, <1>4, TreeOrFile, Values DEF TypeOK, Local, SlotInv, SweepInv, Filled, Complete,
                                        Directories, Bodies, CopyRest, Write, Goto, OnDisk,
                                          Sweeping, Fine, Failed, Raises, disk
<1> QED BY <1>2, <1>3, <1>4 DEF SweepInv

LEMMA OpenMetaSweep ==
  ASSUME TypeOK, NEW p \in Procs, SlotInv(at[p]), StoreInv(p), SweepInv(p), OpenMeta(p)
  PROVE Keeps(p) /\ SweepInv(p)'
<1>1. Local(p) /\ at[p] \in Slots
  BY OpenMetaLocal, StagedTyped
<1>2. Keeps(p)
  BY <1>1, KeepsOwn, Values DEF TypeOK, Storing, Filled, StoreInv, staged, OpenMeta, Write, Goto,
                                OnDisk, Sweeping, Fine, Failed, Raises, disk
<1>3. ASSUME clean'[p] = "yes", NEW k \in Slots \ doubtful', Passed(p, k)' PROVE Filled(k)'
  BY <1>1, <1>2, <1>3, OwnPassed DEF TypeOK, Local, Passed, Looking, Storing, SweepInv, Keeps,
                                     Filled, StoreInv, staged, OpenMeta, Write, Goto, OnDisk,
                                       Sweeping, Fine, Failed, Raises, disk
<1>4. ASSUME clean'[p] = "yes", at'[p] \notin doubtful'
      PROVE /\ pc'[p] = "read" => slot'[at'[p]].body # "none" \/ Filled(at[p])'
            /\ pc'[p] = "list" => slot'[at'[p]].body = "empty" \/ Filled(at[p])'
            /\ pc'[p] = "rename" => slot'[at'[p]] = Absent
  BY <1>1, <1>4, TreeOrFile, Values DEF TypeOK, Local, SlotInv, SweepInv, Filled, Complete,
                                        Directories, Bodies, OpenMeta, Write, Goto, OnDisk,
                                          Sweeping, Fine, Failed, Raises, disk
<1> QED BY <1>2, <1>3, <1>4 DEF SweepInv

LEMMA WriteMetaSweep ==
  ASSUME TypeOK, NEW p \in Procs, SlotInv(at[p]), StoreInv(p), SweepInv(p), WriteMeta(p)
  PROVE Keeps(p) /\ SweepInv(p)'
<1>1. Local(p) /\ at[p] \in Slots
  BY WriteMetaLocal, StagedTyped
<1>2. Keeps(p)
  BY <1>1, KeepsOwn, Values DEF TypeOK, Storing, Filled, StoreInv, staged, WriteMeta, Write, Goto,
                                OnDisk, Sweeping, Fine, Failed, Raises, disk
<1>3. ASSUME clean'[p] = "yes", NEW k \in Slots \ doubtful', Passed(p, k)' PROVE Filled(k)'
  BY <1>1, <1>2, <1>3, OwnPassed DEF TypeOK, Local, Passed, Looking, Storing, SweepInv, Keeps,
                                     Filled, StoreInv, staged, WriteMeta, Write, Goto, OnDisk,
                                       Sweeping, Fine, Failed, Raises, disk
<1>4. ASSUME clean'[p] = "yes", at'[p] \notin doubtful'
      PROVE /\ pc'[p] = "read" => slot'[at'[p]].body # "none" \/ Filled(at[p])'
            /\ pc'[p] = "list" => slot'[at'[p]].body = "empty" \/ Filled(at[p])'
            /\ pc'[p] = "rename" => slot'[at'[p]] = Absent
  BY <1>1, <1>4, TreeOrFile, Values DEF TypeOK, Local, SlotInv, SweepInv, Filled, Complete,
                                        Directories, Bodies, WriteMeta, Write, Goto, OnDisk,
                                          Sweeping, Fine, Failed, Raises, disk
<1> QED BY <1>2, <1>3, <1>4 DEF SweepInv

LEMMA DropSweep ==
  ASSUME TypeOK, NEW p \in Procs, SlotInv(at[p]), StoreInv(p), SweepInv(p), Drop(p)
  PROVE Keeps(p) /\ SweepInv(p)'
<1>1. Local(p) /\ at[p] \in Slots
  BY DropLocal, StagedTyped
<1>2. Keeps(p)
  BY <1>1, KeepsOwn, Values DEF TypeOK, Storing, Filled, StoreInv, staged, Drop, Goto, OnDisk,
                                Sweeping, Fine, Failed, Raises, disk
<1>3. ASSUME clean'[p] = "yes", NEW k \in Slots \ doubtful', Passed(p, k)' PROVE Filled(k)'
  BY <1>1, <1>2, <1>3, OwnPassed DEF TypeOK, Local, Passed, Looking, Storing, SweepInv, Keeps,
                                     Filled, StoreInv, staged, Drop, Goto, OnDisk, Sweeping, Fine,
                                       Failed, Raises, disk
<1>4. ASSUME clean'[p] = "yes", at'[p] \notin doubtful'
      PROVE /\ pc'[p] = "read" => slot'[at'[p]].body # "none" \/ Filled(at[p])'
            /\ pc'[p] = "list" => slot'[at'[p]].body = "empty" \/ Filled(at[p])'
            /\ pc'[p] = "rename" => slot'[at'[p]] = Absent
  BY <1>1, <1>4, TreeOrFile, Values DEF TypeOK, Local, SlotInv, SweepInv, Filled, Complete,
                                        Directories, Bodies, Drop, Goto, OnDisk, Sweeping, Fine,
                                          Failed, Raises, disk
<1> QED BY <1>2, <1>3, <1>4 DEF SweepInv

LEMMA RenameSweep ==
  ASSUME TypeOK, NEW p \in Procs, SlotInv(at[p]), StoreInv(p), SweepInv(p), Rename(p)
  PROVE Keeps(p) /\ SweepInv(p)'
<1>1. Local(p) /\ at[p] \in Slots
  BY RenameLocal, StagedTyped
<1>2. Keeps(p)
  BY <1>1, KeepsOwn, Values DEF TypeOK, Storing, Filled, StoreInv, staged, Rename, Goto, OnDisk,
                                Sweeping, Fine, Failed, Raises, disk
<1>3. ASSUME clean'[p] = "yes", NEW k \in Slots \ doubtful', Passed(p, k)' PROVE Filled(k)'
  BY <1>1, <1>2, <1>3, OwnPassed DEF TypeOK, Local, Passed, Looking, Storing, SweepInv, Keeps,
                                     Filled, StoreInv, staged, Rename, Goto, OnDisk, Sweeping,
                                       Fine, Failed, Raises, disk
<1>4. ASSUME clean'[p] = "yes", at'[p] \notin doubtful'
      PROVE /\ pc'[p] = "read" => slot'[at'[p]].body # "none" \/ Filled(at[p])'
            /\ pc'[p] = "list" => slot'[at'[p]].body = "empty" \/ Filled(at[p])'
            /\ pc'[p] = "rename" => slot'[at'[p]] = Absent
  BY <1>1, <1>4, TreeOrFile, Values DEF TypeOK, Local, SlotInv, SweepInv, Filled, Complete,
                                        Directories, Bodies, Rename, Goto, OnDisk, Sweeping, Fine,
                                          Failed, Raises, disk
<1> QED BY <1>2, <1>3, <1>4 DEF SweepInv

LEMMA BuildCachedSweep ==
  ASSUME TypeOK, NEW p \in Procs, NEW k \in Slots, SweepInv(p), BuildCached(p, k)
  PROVE Keeps(p) /\ SweepInv(p)'
<1>1. Local(p) /\ at'[p] = k /\ pc'[p] = "look" /\ pc[p] = "next"
  BY BuildCachedLocal DEF TypeOK, BuildCached, Goto
<1>2. Keeps(p)
  BY <1>1, KeepsOwn DEF Storing
<1>3. ASSUME clean'[p] = "yes", NEW j \in Slots \ doubtful', Passed(p, j)' PROVE Filled(j)'
  <2>1. Passed(p, j) /\ j \in Slots \ doubtful /\ clean[p] = "yes"
    BY <1>1, <1>3 DEF Passed, Looking, Storing, TypeOK, BuildCached, Fine
  <2> QED BY <1>2, <1>3, <2>1 DEF SweepInv, Keeps
<1> QED BY <1>1, <1>2, <1>3 DEF SweepInv

LEMMA AllUnclean ==
  ASSUME clean' = [q \in Procs |-> "no"]
  PROVE \A q \in Procs : SweepInv(q)'
  BY DEF SweepInv

\* A rename that something stands in the way of, though no call fails.
LEMMA RenameAgainSweep ==
  ASSUME TypeOK, NEW p \in Procs, StoreInv(p), SweepInv(p), RenameAgain(p), Unrenamed(p), Fine,
         slot' = [slot EXCEPT ![at[p]] = Absent]
  PROVE Keeps(p) /\ SweepInv(p)'
<1>1. /\ Local(p) /\ at[p] \in Slots /\ pc[p] = "rename" /\ pc' = pc /\ at' = at /\ todo' = todo
      /\ doubtful' = doubtful /\ clean' = clean /\ slot'[at[p]] = Absent
  BY RenameAgainLocal, StagedTyped DEF TypeOK, RenameAgain, Sweeping, Fine
<1>2. Keeps(p)
  BY <1>1, KeepsOwn DEF Filled, Storing
<1>3. ASSUME clean[p] = "yes", NEW k \in Slots \ doubtful', Passed(p, k)' PROVE Filled(k)'
  BY <1>1, <1>2, <1>3, OwnPassed DEF Passed, Storing
<1> QED BY <1>1, <1>2, <1>3 DEF SweepInv

LEMMA RenameFailsSweep ==
  ASSUME TypeOK, NEW p \in Procs, StoreInv(p), SweepInv(p), RenameFails(p), Unrenamed(p), Fine
  PROVE Keeps(p) /\ SweepInv(p)'
<1>1. /\ Local(p) /\ at[p] \in Slots /\ pc[p] = "rename" /\ pc'[p] = "next" /\ at' = at
      /\ todo' = todo /\ doubtful' = doubtful /\ clean' = clean /\ slot' = slot
  BY RenameFailsLocal, StagedTyped DEF TypeOK, RenameFails, Sweeping, Fine, OnDisk, disk, Goto,
                                       Raises
<1>2. at[p] \notin doubtful => slot[at[p]] # Absent /\ ~Contended(p)
  BY <1>1, Values DEF Unrenamed, StoreInv, Storing
<1>3. ASSUME at[p] \notin doubtful, Filled(at[p]) PROVE slot[at[p]] = Complete
  BY <1>1, <1>2, <1>3 DEF Filled, Contended
<1>4. Keeps(p)
  BY <1>1, <1>3, KeepsOwn DEF Filled
<1>5. ASSUME clean[p] = "yes", NEW k \in Slots \ doubtful', Passed(p, k)' PROVE Filled(k)'
  <2>1. k # at[p]
    BY <1>1, <1>2, <1>5 DEF SweepInv
  <2> QED BY <1>1, <1>4, <1>5, <2>1, OwnPassed
<1> QED BY <1>1, <1>4, <1>5 DEF SweepInv

LEMMA StepSweepKept ==
  ASSUME TypeOK, \A q \in Procs : StoreInv(q) /\ SweepInv(q),
         NEW p \in Procs, Local(p), Keeps(p), SweepInv(p)',
         \A q \in Procs \ {p} : clean'[q] = clean[q]
  PROVE \A q \in Procs : SweepInv(q)'
<1> SUFFICES ASSUME NEW q \in Procs PROVE SweepInv(q)'
  OBVIOUS
<1>1. CASE q = p
  BY <1>1
<1>2. CASE q # p
  <2>1. q \in Procs \ {p} /\ clean'[q] = clean[q] /\ StoreInv(q) /\ SweepInv(q)
    BY <1>2
  <2> QED BY <2>1, SweepsElsewhere
<1> QED BY <1>1, <1>2

LEMMA SweepsKept ==
  ASSUME TypeOK, \A k \in Slots : SlotInv(k), \A q \in Procs : StoreInv(q) /\ SweepInv(q),
     [Next]_vars
  PROVE \A q \in Procs : SweepInv(q)'
<1>0. CASE UNCHANGED vars
  BY <1>0 DEF vars, disk, SweepInv, Passed, Filled
<1> DEFINE Quiet(p) == Local(p) /\ Keeps(p) /\ SweepInv(p)' /\ \A q \in Procs \ {p} : clean'[q] = clean[q]
<1>a. \A p \in Procs : SlotInv(at[p])
  BY StagedTyped
<1>b. ASSUME NEW p \in Procs, Quiet(p) PROVE \A q \in Procs : SweepInv(q)'
  BY <1>b, StepSweepKept
<1>1. ASSUME NEW p \in Procs, Begin(p) PROVE Quiet(p)
  BY <1>a, <1>1, BeginLocal, BeginSweep DEF TypeOK, Begin, Goto, OnDisk, Sweeping, Fine, Failed,
                                            Raises, disk
<1>2. ASSUME NEW p \in Procs, EndSweep(p) PROVE Quiet(p)
  BY <1>a, <1>2, EndSweepLocal, EndSweepSweep DEF TypeOK, EndSweep, Goto, OnDisk, Sweeping, Fine,
                                                  Failed, Raises, disk
<1>3. ASSUME NEW p \in Procs, Look(p) PROVE Quiet(p)
  BY <1>a, <1>3, LookLocal, LookSweep DEF TypeOK, Look, Miss, Goto, OnDisk, Sweeping, Fine, Failed,
                                          Raises, disk
<1>4. ASSUME NEW p \in Procs, ReadMeta(p) PROVE Quiet(p)
  BY <1>a, <1>4, ReadMetaLocal, ReadMetaSweep DEF TypeOK, ReadMeta, Miss, Goto, OnDisk, Sweeping,
                                                  Fine, Failed, Raises, disk
<1>5. ASSUME NEW p \in Procs, List(p) PROVE Quiet(p)
  BY <1>a, <1>5, ListLocal, ListSweep DEF TypeOK, List, Miss, Goto, OnDisk, Sweeping, Fine, Failed,
                                          Raises, disk
<1>6. ASSUME NEW p \in Procs, Build(p) PROVE Quiet(p)
  BY <1>a, <1>6, BuildLocal, BuildSweep DEF TypeOK, Build, Goto, OnDisk, Sweeping, Fine, Failed,
                                            Raises, disk
<1>7. ASSUME NEW p \in Procs, Clear(p) PROVE Quiet(p)
  BY <1>a, <1>7, ClearLocal, ClearSweep DEF TypeOK, Clear, Goto, OnDisk, Sweeping, Fine, Failed,
                                            Raises, disk
<1>8. ASSUME NEW p \in Procs, Stage(p) PROVE Quiet(p)
  BY <1>a, <1>8, StageLocal, StageSweep DEF TypeOK, Stage, Write, Goto, OnDisk, Sweeping, Fine,
                                            Failed, Raises, disk
<1>9. ASSUME NEW p \in Procs, CopySome(p) PROVE Quiet(p)
  BY <1>a, <1>9, CopySomeLocal, CopySomeSweep DEF TypeOK, CopySome, Write, Goto, OnDisk, Sweeping,
                                                  Fine, Failed, Raises, disk
<1>10. ASSUME NEW p \in Procs, CopyRest(p) PROVE Quiet(p)
  BY <1>a, <1>10, CopyRestLocal, CopyRestSweep DEF TypeOK, CopyRest, Write, Goto, OnDisk, Sweeping,
                                                   Fine, Failed, Raises, disk
<1>11. ASSUME NEW p \in Procs, OpenMeta(p) PROVE Quiet(p)
  BY <1>a, <1>11, OpenMetaLocal, OpenMetaSweep DEF TypeOK, OpenMeta, Write, Goto, OnDisk, Sweeping,
                                                   Fine, Failed, Raises, disk
<1>12. ASSUME NEW p \in Procs, WriteMeta(p) PROVE Quiet(p)
  BY <1>a, <1>12, WriteMetaLocal, WriteMetaSweep DEF TypeOK, WriteMeta, Write, Goto, OnDisk,
                                                     Sweeping, Fine, Failed, Raises, disk
<1>13. ASSUME NEW p \in Procs, Drop(p) PROVE Quiet(p)
  BY <1>a, <1>13, DropLocal, DropSweep DEF TypeOK, Drop, Goto, OnDisk, Sweeping, Fine, Failed,
                                           Raises, disk
<1>14. ASSUME NEW p \in Procs, Rename(p) PROVE Quiet(p)
  BY <1>a, <1>14, RenameLocal, RenameSweep DEF TypeOK, Rename, Goto, OnDisk, Sweeping, Fine,
                                               Failed, Raises, disk
<1>15. ASSUME NEW p \in Procs, NEW k \in Slots, BuildCached(p, k) PROVE Quiet(p)
  BY <1>15, BuildCachedLocal, BuildCachedSweep DEF BuildCached, Fine
<1>16. ASSUME NEW p \in Procs,
             ReadFails(p) \/ BuildFails(p) \/ ClearFails(p) \/ WriteFails(p) \/ DropIgnores(p) \/ Kill(p)
       PROVE \A q \in Procs : SweepInv(q)'
  BY <1>16, AllUnclean DEF ReadFails, BuildFails, ClearFails, WriteFails, DropIgnores, Kill,
                           Failed, Raises
<1>17. ASSUME NEW p \in Procs, RenameAgain(p) PROVE \A q \in Procs : SweepInv(q)'
  <2>1. CASE clean' = [q \in Procs |-> "no"]
    BY <2>1, AllUnclean
  <2>2. CASE ~(clean' = [q \in Procs |-> "no"])
    <3>1. Unrenamed(p) /\ Fine /\ slot' = [slot EXCEPT ![at[p]] = Absent]
      BY <1>17, <2>2 DEF RenameAgain, Failed, Raises
    <3>2. Quiet(p)
      BY <1>17, <3>1, RenameAgainLocal, RenameAgainSweep DEF Fine
    <3> QED BY <1>b, <3>2
  <2> QED BY <2>1, <2>2
<1>18. ASSUME NEW p \in Procs, RenameFails(p) PROVE \A q \in Procs : SweepInv(q)'
  <2>1. CASE clean' = [q \in Procs |-> "no"]
    BY <2>1, AllUnclean
  <2>2. CASE ~(clean' = [q \in Procs |-> "no"])
    <3>1. Unrenamed(p) /\ Fine
      BY <1>18, <2>2 DEF RenameFails, Failed, Raises
    <3>2. Quiet(p)
      BY <1>18, <3>1, RenameFailsLocal, RenameFailsSweep DEF Fine
    <3> QED BY <1>b, <3>2
  <2> QED BY <2>1, <2>2
<1>19. ASSUME NEW p \in Procs, ListRaises(p) PROVE \A q \in Procs : SweepInv(q)'
  <2>1. CASE clean' = [q \in Procs |-> "no"]
    BY <2>1, AllUnclean
  <2>2. CASE ~(clean' = [q \in Procs |-> "no"])
    <3>1. Fine
      BY <1>19, <2>2 DEF ListRaises, Failed
    <3>2. Quiet(p)
      BY <1>a, <1>19, <3>1, ListRaisesLocal, ListRaisesSweep DEF Fine
    <3> QED BY <1>b, <3>2
  <2> QED BY <2>1, <2>2
<1> HIDE DEF Quiet
<1> QED BY <1>b, <1>0, <1>1, <1>2, <1>3, <1>4, <1>5, <1>6, <1>7, <1>8, <1>9, <1>10, <1>11, <1>12,
           <1>13, <1>14, <1>15, <1>16, <1>17, <1>18, <1>19 DEF Next

-----------------------------------------------------------------------------
(* The theorems                                                            *)

LEMMA InitInv == Init => CacheInv
<1> SUFFICES ASSUME Init PROVE CacheInv
  OBVIOUS
<1>1. \A k \in Slots : SlotInv(k)
  BY Values DEF Init, SlotInv
<1>2. \A p \in Procs : StoreInv(p) /\ SweepInv(p)
  BY DEF Init, StoreInv, SweepInv, Storing, Passed
<1> QED BY <1>1, <1>2, TypesInit DEF CacheInv

\* The inductive invariant holds of every behaviour of the cache and its sweeps.
THEOREM Invariance == Spec => []CacheInv
<1>1. CacheInv /\ [Next]_vars => CacheInv'
  BY TypesKept, HalfKept, SweepsKept DEF CacheInv
<1> QED BY <1>1, InitInv, PTL DEF Spec

\* Every variable of the cache (artifact_cache.py) and its callers keeps its type.
THEOREM CacheTyped == Spec => []TypeOK
<1>1. CacheInv => TypeOK
  BY DEF CacheInv
<1> QED BY <1>1, Invariance, PTL

\* A sweep of build_cached calls in which nothing fails leaves every slot with
\* its artifact, whatever the ones before it were killed in or failed at.
THEOREM SweepsFill == Spec => []SweepFills
<1>1. CacheInv => SweepFills
  <2> SUFFICES ASSUME CacheInv, NEW p \in Procs, pc[p] = "swept", clean[p] = "yes",
                      NEW k \in Slots \ doubtful
               PROVE slot[k] = Complete \/ \E q \in Procs : at[q] = k /\ pc[q] \in Storing
    BY DEF SweepFills
  <2>1. Passed(p, k)
    BY DEF CacheInv, Passed
  <2> QED BY <2>1 DEF CacheInv, SweepInv, Filled
<1> QED BY <1>1, Invariance, PTL

LEMMA EntryNow ==
  CacheInv => \A k \in Slots :
                /\ k \in doubtful => Entry(k) = "doubtful"
                /\ k \notin doubtful => Entry(k) \in {"nothing", Promised!Offer(k)}
<1> SUFFICES ASSUME CacheInv, NEW k \in Slots
             PROVE /\ k \in doubtful => Entry(k) = "doubtful"
                   /\ k \notin doubtful => Entry(k) \in {"nothing", Promised!Offer(k)}
  OBVIOUS
<1>1. ASSUME k \notin doubtful, Hit(slot[k]) PROVE slot[k].body = "whole"
  BY <1>1, TreeOrFile, Values DEF CacheInv, SlotInv, Hit
<1> QED BY <1>1 DEF Entry, Handed, Promised!Offer

LEMMA EntryNext ==
  CacheInv' => \A k \in Slots :
                 /\ k \in doubtful' => Entry(k)' = "doubtful"
                 /\ k \notin doubtful' => Entry(k)' \in {"nothing", Promised!Offer(k)}
<1>1. (CacheInv => \A k \in Slots :
                     /\ k \in doubtful => Entry(k) = "doubtful"
                     /\ k \notin doubtful => Entry(k) \in {"nothing", Promised!Offer(k)})'
  BY EntryNow, PTL
<1> QED BY <1>1

LEMMA EntryStep ==
  ASSUME CacheInv, CacheInv', NEW p \in Procs, Local(p)
  PROVE [Promised!Next]_([k \in Slots |-> Entry(k)])
<1> DEFINE entries == [k \in Slots |-> Entry(k)]
<1>1. PICK h \in Slots : h = at[p]
  BY StagedTyped DEF CacheInv
<1>2. ASSUME NEW k \in Slots \ {h} PROVE Entry(k)' = Entry(k)
  BY <1>1, <1>2 DEF Local, Entry, Handed
<1>3. /\ h \in doubtful => Entry(h) = "doubtful" /\ Entry(h)' = "doubtful"
      /\ h \notin doubtful => Entry(h) \in {"nothing", Promised!Offer(h)}
      /\ Entry(h)' \in {"nothing", Promised!Offer(h), "doubtful"}
  BY EntryNow, EntryNext DEF Local
<1>4. entries' = [entries EXCEPT ![h] = Entry(h)']
  BY <1>2
<1>5. entries[h] = Entry(h)
  OBVIOUS
<1> HIDE DEF entries
<1>6. \/ entries' = entries
      \/ entries[h] = "nothing" /\ entries' = [entries EXCEPT ![h] = Promised!Offer(h)]
      \/ entries[h] = Promised!Offer(h) /\ entries' = [entries EXCEPT ![h] = "nothing"]
      \/ entries[h] # "doubtful" /\ entries' = [entries EXCEPT ![h] = "doubtful"]
  <2>1. CASE Entry(h)' = Entry(h)
    BY <1>4, <1>5, <2>1 DEF entries
  <2>2. CASE Entry(h)' # Entry(h)
    BY <1>3, <1>4, <1>5, <2>2
  <2> QED BY <2>1, <2>2
<1>7. entries' = entries \/ Promised!Publish(h) \/ Promised!Lose(h) \/ Promised!Doubt(h)
  BY <1>6 DEF Promised!Publish, Promised!Lose, Promised!Doubt, entries
<1>8. entries' = entries \/ Promised!Next
  BY <1>7 DEF Promised!Next
<1> QED BY <1>8 DEF entries

LEMMA StepLocal ==
  ASSUME TypeOK, Next
  PROVE \E p \in Procs : Local(p)
<1>1. ASSUME NEW p \in Procs, Begin(p) PROVE Local(p)
  BY <1>1, BeginLocal
<1>2. ASSUME NEW p \in Procs, EndSweep(p) PROVE Local(p)
  BY <1>2, EndSweepLocal
<1>3. ASSUME NEW p \in Procs, Look(p) PROVE Local(p)
  BY <1>3, LookLocal
<1>4. ASSUME NEW p \in Procs, ReadMeta(p) PROVE Local(p)
  BY <1>4, ReadMetaLocal
<1>5. ASSUME NEW p \in Procs, ReadFails(p) PROVE Local(p)
  BY <1>5, ReadFailsLocal
<1>6. ASSUME NEW p \in Procs, List(p) PROVE Local(p)
  BY <1>6, ListLocal
<1>7. ASSUME NEW p \in Procs, Build(p) PROVE Local(p)
  BY <1>7, BuildLocal
<1>8. ASSUME NEW p \in Procs, BuildFails(p) PROVE Local(p)
  BY <1>8, BuildFailsLocal
<1>9. ASSUME NEW p \in Procs, Clear(p) PROVE Local(p)
  BY <1>9, ClearLocal
<1>10. ASSUME NEW p \in Procs, ClearFails(p) PROVE Local(p)
  BY <1>10, ClearFailsLocal
<1>11. ASSUME NEW p \in Procs, Stage(p) PROVE Local(p)
  BY <1>11, StageLocal
<1>12. ASSUME NEW p \in Procs, CopySome(p) PROVE Local(p)
  BY <1>12, CopySomeLocal
<1>13. ASSUME NEW p \in Procs, CopyRest(p) PROVE Local(p)
  BY <1>13, CopyRestLocal
<1>14. ASSUME NEW p \in Procs, OpenMeta(p) PROVE Local(p)
  BY <1>14, OpenMetaLocal
<1>15. ASSUME NEW p \in Procs, WriteMeta(p) PROVE Local(p)
  BY <1>15, WriteMetaLocal
<1>16. ASSUME NEW p \in Procs, WriteFails(p) PROVE Local(p)
  BY <1>16, WriteFailsLocal
<1>17. ASSUME NEW p \in Procs, Drop(p) PROVE Local(p)
  BY <1>17, DropLocal
<1>18. ASSUME NEW p \in Procs, DropIgnores(p) PROVE Local(p)
  BY <1>18, DropIgnoresLocal
<1>19. ASSUME NEW p \in Procs, Rename(p) PROVE Local(p)
  BY <1>19, RenameLocal
<1>20. ASSUME NEW p \in Procs, RenameAgain(p) PROVE Local(p)
  BY <1>20, RenameAgainLocal
<1>21. ASSUME NEW p \in Procs, RenameFails(p) PROVE Local(p)
  BY <1>21, RenameFailsLocal
<1>22. ASSUME NEW p \in Procs, Kill(p) PROVE Local(p)
  BY <1>22, KillLocal
<1>23. ASSUME NEW p \in Procs, NEW k \in Slots, BuildCached(p, k) PROVE Local(p)
  BY <1>23, BuildCachedLocal
<1>24. ASSUME NEW p \in Procs, ListRaises(p) PROVE Local(p)
  BY <1>24, ListRaisesLocal
<1> QED BY <1>1, <1>2, <1>3, <1>4, <1>5, <1>6, <1>7, <1>8, <1>9, <1>10, <1>11, <1>12, <1>13, <1>14,
           <1>15, <1>16, <1>17, <1>18, <1>19, <1>20, <1>21, <1>22, <1>23, <1>24 DEF Next

\* The cache implements slots that offer nothing or a whole artifact: no store,
\* wherever it is interrupted, leaves half of one for lookup to hand out.  Those
\* of directories with one file offer nothing or that file, never the directory.
THEOREM SlotsImplemented == Spec => ImplementsSlots
<1>1. Init => Promised!Init
  <2> SUFFICES ASSUME Init PROVE \A k \in Slots : Entry(k) \in {"nothing", Promised!Offer(k)}
    BY DEF Promised!Init, Promised!Offer
  <2> QED BY EntryNow, InitInv DEF Init
<1>2. CacheInv /\ CacheInv' /\ [Next]_vars => [Promised!Next]_([k \in Slots |-> Entry(k)])
  <2>1. CASE UNCHANGED vars
    BY <2>1 DEF vars, disk, Entry, Handed
  <2>2. ASSUME CacheInv, CacheInv', Next PROVE [Promised!Next]_([k \in Slots |-> Entry(k)])
    BY <2>2, StepLocal, EntryStep DEF CacheInv
  <2> QED BY <2>1, <2>2
<1> QED BY <1>1, <1>2, Invariance, PTL DEF Spec, ImplementsSlots, Promised!Spec

=============================================================================
