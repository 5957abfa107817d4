------------------------- MODULE AnswerIndexProofs -------------------------
(* Proofs about AnswerIndex: a blob describes the index it was measured on, *)
(* and a rebuild measures what it has built, whatever the command lines,    *)
(* and however often a run fails, is killed or stops in a removal.          *)
EXTENDS AnswerIndex, TLAPS

-----------------------------------------------------------------------------
(* Facts about the data                                                    *)

LEMMA DbIsNotNoDb == ASSUME NEW d \in Databases PROVE d # NoDb
<1>1. "rows" \in DOMAIN d
  BY DEF Databases
<1>2. "rows" \notin DOMAIN NoDb
  BY DEF NoDb
<1> QED
  BY <1>1, <1>2

LEMMA EmptyDbIsOne == EmptyDb \in Databases
  BY DEF EmptyDb, Databases

LEMMA ReportIsReadable == ASSUME NEW r \in Reports PROVE r \notin {NoReport, TornReport}
<1>1. "pages" \in DOMAIN r
  BY DEF Reports
<1>2. "pages" \notin DOMAIN NoReport /\ "pages" \notin DOMAIN TornReport
  BY DEF NoReport, TornReport
<1> QED
  BY <1>1, <1>2

\* An index under a snapshot's own id is no checkout's, and no other snapshot's.
LEMMA OwnPlace ==
  ASSUME NEW a \in Asks, NEW b \in Asks, PlaceOf(a) = PlaceOf(b), a.checkout = "none"
  PROVE b.checkout = "none" /\ a.index = b.index
<1>1. b.checkout = "none"
  BY DEF PlaceOf
<1> QED
  BY <1>1 DEF PlaceOf

LEMMA AskFields ==
  ASSUME NEW a \in Asks
  PROVE a.index \in Snapshots /\ a.embedder \in Embedders /\ PlaceOf(a) \in Places
  BY AnswerAssumption DEF Places

-----------------------------------------------------------------------------
(* The invariant                                                           *)

LEMMA Ready ==
  ASSUME IndexInv
  PROVE /\ ask \in Asks /\ here \in Places
        /\ ask.index \in Snapshots /\ ask.embedder \in Embedders
        /\ db[here] \in Databases \cup {NoDb}
        /\ vecs[here] \in SUBSET Vectors
        /\ report[here] \in Reports \cup {NoReport, TornReport}
        /\ SymbolsFor(ask) \in Commits \cup {"none"}
        /\ Pages[ask.index] \in Nat \ {0}
  BY AnswerAssumption, AskFields DEF IndexInv, TypeOK, here, SymbolsFor

\* Nothing changes at a place no step of this run is about.
Same(p) ==
  /\ db'[p] = db[p] /\ vecs'[p] = vecs[p] /\ report'[p] = report[p]
  /\ p \in cut <=> p \in cut'

LEMMA Elsewhere ==
  ASSUME NEW p, PlaceInv(p), Same(p)
  PROVE PlaceInv(p)'
  BY DEF PlaceInv, Same, Readable, Told, Bare

LEMMA InitInv == Init => IndexInv
<1> SUFFICES ASSUME Init PROVE IndexInv
  OBVIOUS
<1>1. PICK older \in SUBSET Asks :
        LET At(p) == {a \in older : PlaceOf(a) = p} IN
        /\ \A a, b \in older : PlaceOf(a) = PlaceOf(b) => a = b
        /\ db = [p \in Places |-> IF At(p) = {} THEN NoDb
                   ELSE LET a == CHOOSE x \in At(p) : TRUE IN
                        [corpus |-> a.index, rows |-> 0, symbols |-> SymbolsFor(a)]]
        /\ vecs = [p \in Places |-> {AllOf(a.index, a.embedder) : a \in At(p)}]
        /\ report = [p \in Places |-> IF At(p) = {} THEN NoReport
                       ELSE LET a == CHOOSE x \in At(p) : TRUE IN
                            [embedder |-> a.embedder, pages |-> Pages[a.index], rows |-> 0]]
  BY DEF Init
<1> DEFINE At(p) == {a \in older : PlaceOf(a) = p}
<1>2. ASSUME NEW p \in Places, At(p) = {}
      PROVE db[p] = NoDb /\ vecs[p] = {} /\ report[p] = NoReport
  BY <1>1, <1>2
<1>3. ASSUME NEW p \in Places, At(p) # {}
      PROVE \E a \in older :
              /\ PlaceOf(a) = p
              /\ db[p] = [corpus |-> a.index, rows |-> 0, symbols |-> SymbolsFor(a)]
              /\ vecs[p] = {AllOf(a.index, a.embedder)}
              /\ report[p] = [embedder |-> a.embedder, pages |-> Pages[a.index], rows |-> 0]
  <2> DEFINE a == CHOOSE x \in At(p) : TRUE
  <2>1. a \in At(p)
    BY <1>3
  <2>2. At(p) = {a}
    BY <1>1, <2>1
  <2>3. db[p] = [corpus |-> a.index, rows |-> 0, symbols |-> SymbolsFor(a)]
    BY <1>1, <1>3
  <2>4. vecs[p] = {AllOf(x.index, x.embedder) : x \in At(p)}
    BY <1>1
  <2>5. vecs[p] = {AllOf(a.index, a.embedder)}
    <3> HIDE DEF a
    <3> QED BY <2>2, <2>4
  <2>6. report[p] = [embedder |-> a.embedder, pages |-> Pages[a.index], rows |-> 0]
    BY <1>1, <1>3
  <2> HIDE DEF a
  <2> QED BY <2>1, <2>3, <2>5, <2>6
<1> HIDE DEF At
<1>4. ASSUME NEW a \in Asks
      PROVE /\ [corpus |-> a.index, rows |-> 0, symbols |-> SymbolsFor(a)] \in Databases
            /\ {AllOf(a.index, a.embedder)} \in SUBSET Vectors
            /\ [embedder |-> a.embedder, pages |-> Pages[a.index], rows |-> 0] \in Reports
            /\ Pages[a.index] \in Nat \ {0}
  BY AnswerAssumption, AskFields DEF Init, SymbolsFor, Databases, Vectors, AllOf, Reports
<1>5. TypeOK
  <2>1. ASSUME NEW p \in Places
        PROVE /\ db[p] \in Databases \cup {NoDb} /\ vecs[p] \in SUBSET Vectors
              /\ report[p] \in Reports \cup {NoReport, TornReport}
    BY <1>2, <1>3, <1>4
  <2>2. /\ db = [p \in Places |-> db[p]] /\ vecs = [p \in Places |-> vecs[p]]
        /\ report = [p \in Places |-> report[p]]
    BY <1>1
  <2>3. /\ db \in [Places -> Databases \cup {NoDb}] /\ vecs \in [Places -> SUBSET Vectors]
        /\ report \in [Places -> Reports \cup {NoReport, TornReport}]
    BY <2>1, <2>2
  <2>4. /\ head \in [Checkouts -> Commits] /\ pc = "idle" /\ ask \in Asks
        /\ cut = {} /\ built = "no" /\ runs \in 0..MaxRuns /\ faults \in 0..MaxFaults
    BY AnswerAssumption DEF Init
  <2> QED BY <2>3, <2>4 DEF TypeOK, Steps
<1>6. BuildInv /\ ReuseInv /\ BlobInv
  BY DEF Init, BuildInv, ReuseInv, BlobInv
<1>7. ASSUME NEW p \in Places PROVE PlaceInv(p)
  <2>1. CASE At(p) = {}
    BY <1>2, <2>1 DEF PlaceInv, Readable, Bare
  <2>2. CASE At(p) # {}
    <3>1. PICK a \in older :
              /\ PlaceOf(a) = p
              /\ db[p] = [corpus |-> a.index, rows |-> 0, symbols |-> SymbolsFor(a)]
              /\ vecs[p] = {AllOf(a.index, a.embedder)}
              /\ report[p] = [embedder |-> a.embedder, pages |-> Pages[a.index], rows |-> 0]
      BY <1>3, <2>2
    <3>2. db[p] # NoDb /\ a.index \in Snapshots
      BY <1>4, <3>1, DbIsNotNoDb, AskFields
    <3>3. \A b \in Asks : PlaceOf(b) = p /\ b.checkout = "none" => a.index = b.index
      BY <3>1, OwnPlace
    <3> QED BY <1>4, <3>1, <3>2, <3>3 DEF PlaceInv, Told
  <2> QED BY <2>1, <2>2
<1> QED BY <1>5, <1>6, <1>7 DEF IndexInv

-----------------------------------------------------------------------------
(* The steps                                                               *)

LEMMA RemoveKeeps ==
  ASSUME IndexInv, Remove
  PROVE IndexInv'
<1> USE Ready
<1>h. here' = here /\ SymbolsFor(ask)' = SymbolsFor(ask)
  BY DEF here, SymbolsFor, Remove, Goto, Put, Frame
<1>1. TypeOK'
  BY AnswerAssumption DEF IndexInv, TypeOK, Steps, Remove, Goto, Put, Frame
<1>2. BuildInv'
  BY <1>h DEF IndexInv, TypeOK, BuildInv, ReuseInv, PlaceInv, Bare, PagesIn, Remove, Goto, Put, Frame
<1>3. ReuseInv'
  BY <1>h DEF IndexInv, TypeOK, BuildInv, ReuseInv, Readable, Remove, Goto, Put, Frame
<1>4. BlobInv'
  BY <1>h DEF IndexInv, TypeOK, BuildInv, ReuseInv, BlobInv, PlaceInv, Told, PagesIn, Remove, Goto, Put, Frame
<1>5. ASSUME NEW p \in Places PROVE PlaceInv(p)'
  <2>1. CASE p # here
    BY <2>1, Elsewhere DEF Same, IndexInv, Remove, Goto, Put, Frame
  <2>2. CASE p = here
    BY <2>2, DbIsNotNoDb, ReportIsReadable, OwnPlace
       DEF IndexInv, TypeOK, PlaceInv, BuildInv, ReuseInv, BlobInv, Readable, Told, Bare, PagesIn,
           Remove, Goto, Put, Frame
  <2> QED BY <2>1, <2>2
<1> QED BY <1>1, <1>2, <1>3, <1>4, <1>5 DEF IndexInv

LEMMA RemoveStopsKeeps ==
  ASSUME IndexInv, RemoveStops
  PROVE IndexInv'
<1> USE Ready
<1>h. here' = here /\ SymbolsFor(ask)' = SymbolsFor(ask)
  BY DEF here, SymbolsFor, RemoveStops, Goto, Put, Frame
<1>d. /\ db'[here] \in {db[here], NoDb}
      /\ db' \in [Places -> Databases \cup {NoDb}]
      /\ report'[here] \in {report[here], NoReport}
      /\ report' \in [Places -> Reports \cup {NoReport, TornReport}]
      /\ vecs' \in [Places -> SUBSET Vectors]
  <2>1. PICK d \in {db[here], NoDb}, r \in {report[here], NoReport} :
          db' = [db EXCEPT ![here] = d] /\ report' = [report EXCEPT ![here] = r]
    BY DEF RemoveStops, Put
  <2>2. PICK left \in {vecs[here], {}, {PartOf(v.of, v.by) : v \in vecs[here]}} :
          vecs' = [vecs EXCEPT ![here] = left]
    BY DEF RemoveStops
  <2>3. \A v \in vecs[here] : PartOf(v.of, v.by) \in Vectors
    BY DEF PartOf, Vectors
  <2>4. left \in SUBSET Vectors
    BY <2>3
  <2> QED BY <2>1, <2>2, <2>4 DEF IndexInv, TypeOK
<1>1. TypeOK'
  BY <1>d, AnswerAssumption DEF IndexInv, TypeOK, Steps, RemoveStops, Goto, Put, Frame
<1>2. BuildInv'
  BY <1>h, <1>d DEF IndexInv, TypeOK, BuildInv, ReuseInv, PlaceInv, Bare, PagesIn, RemoveStops, Goto, Put, Frame
<1>3. ReuseInv'
  BY <1>h, <1>d DEF IndexInv, TypeOK, BuildInv, ReuseInv, Readable, RemoveStops, Goto, Put, Frame
<1>4. BlobInv'
  BY <1>h, <1>d DEF IndexInv, TypeOK, BuildInv, ReuseInv, BlobInv, PlaceInv, Told, PagesIn, RemoveStops, Goto, Put, Frame
<1>5. ASSUME NEW p \in Places PROVE PlaceInv(p)'
  <2>1. CASE p # here
    BY <2>1, Elsewhere DEF Same, IndexInv, RemoveStops, Goto, Put, Frame
  <2>2. CASE p = here
    BY <2>2, <1>d, DbIsNotNoDb, ReportIsReadable, OwnPlace
       DEF IndexInv, TypeOK, PlaceInv, BuildInv, ReuseInv, BlobInv, Readable, Told, Bare, PagesIn,
           RemoveStops, Goto, Put, Frame
  <2> QED BY <2>1, <2>2
<1> QED BY <1>1, <1>2, <1>3, <1>4, <1>5 DEF IndexInv

LEMMA ReuseKeeps ==
  ASSUME IndexInv, Reuse
  PROVE IndexInv'
<1> USE Ready
<1>h. here' = here /\ SymbolsFor(ask)' = SymbolsFor(ask)
  BY DEF here, SymbolsFor, Reuse, Goto, Frame, disk
<1>d. report[here] \in Reports /\ ask.rebuild = "no" /\ db[here] # NoDb
  <2>1. report[here] \in Reports /\ db[here] # NoDb
    BY DEF Reuse, Readable
  <2>2. ask.rebuild \in {"no", "yes"}
    BY AnswerAssumption
  <2> QED BY <2>1, <2>2 DEF Reuse, IndexInv, ReuseInv
<1>1. TypeOK'
  BY <1>d, AnswerAssumption DEF IndexInv, TypeOK, Steps, Reuse, Goto, Frame, disk
<1>2. BuildInv'
  BY <1>h, <1>d DEF IndexInv, TypeOK, BuildInv, ReuseInv, PlaceInv, Bare, PagesIn, Reuse, Goto, Frame, disk
<1>3. ReuseInv'
  BY <1>h, <1>d DEF IndexInv, TypeOK, BuildInv, ReuseInv, Readable, Reuse, Goto, Frame, disk
<1>4. BlobInv'
  BY <1>h, <1>d DEF IndexInv, TypeOK, BuildInv, ReuseInv, BlobInv, PlaceInv, Told, PagesIn, Reuse, Goto, Frame, disk
<1>5. ASSUME NEW p \in Places PROVE PlaceInv(p)'
  <2>1. CASE p # here
    BY <2>1, Elsewhere DEF Same, IndexInv, Reuse, Goto, Frame, disk
  <2>2. CASE p = here
    BY <2>2, <1>d, DbIsNotNoDb, ReportIsReadable, OwnPlace
       DEF IndexInv, TypeOK, PlaceInv, BuildInv, ReuseInv, BlobInv, Readable, Told, Bare, PagesIn,
           Reuse, Goto, Frame, disk
  <2> QED BY <2>1, <2>2
<1> QED BY <1>1, <1>2, <1>3, <1>4, <1>5 DEF IndexInv

LEMMA AddRowKeeps ==
  ASSUME IndexInv, AddRow
  PROVE IndexInv'
<1> USE Ready
<1>h. here' = here /\ SymbolsFor(ask)' = SymbolsFor(ask)
  BY DEF here, SymbolsFor, AddRow, Put, Frame
<1>d. /\ db' \in [Places -> Databases \cup {NoDb}] /\ db'[here] # NoDb
      /\ db'[here].corpus = db[here].corpus /\ db'[here].symbols = db[here].symbols
      /\ db'[here].rows = db[here].rows + 1 /\ db[here] # NoDb /\ db[here].rows \in Nat
      /\ db[here].corpus \in Snapshots /\ db[here].corpus # "none"
  <2>1. db[here] # NoDb /\ db[here] \in Databases
    BY DEF IndexInv, BuildInv, ReuseInv, AddRow
  <2> DEFINE d == [db[here] EXCEPT !.rows = @ + 1]
  <2>2. d \in Databases /\ d.rows = db[here].rows + 1 /\ d.corpus = db[here].corpus
        /\ d.symbols = db[here].symbols
    BY <2>1 DEF Databases
  <2>3. d # NoDb
    BY <2>2, DbIsNotNoDb
  <2>4. db' = [db EXCEPT ![here] = d]
    BY DEF AddRow, Put
  <2>5. db[here].rows \in Nat
    BY <2>1 DEF Databases
  <2>6. db[here].corpus \in Snapshots /\ db[here].corpus # "none"
    BY <2>5, AnswerAssumption DEF AddRow, PagesIn
  <2> HIDE DEF d
  <2> QED BY <2>1, <2>2, <2>3, <2>4, <2>5, <2>6 DEF IndexInv, TypeOK
<1>1. TypeOK'
  BY <1>d, AnswerAssumption DEF IndexInv, TypeOK, Steps, AddRow, Put, Frame
<1>2. BuildInv'
  BY <1>h, <1>d DEF IndexInv, TypeOK, BuildInv, ReuseInv, PlaceInv, Bare, PagesIn, AddRow, Put, Frame
<1>3. ReuseInv'
  BY <1>h, <1>d DEF IndexInv, TypeOK, BuildInv, ReuseInv, Readable, AddRow, Put, Frame
<1>4. BlobInv'
  BY <1>h, <1>d DEF IndexInv, TypeOK, BuildInv, ReuseInv, BlobInv, PlaceInv, Told, PagesIn, AddRow, Put, Frame
<1>5. ASSUME NEW p \in Places PROVE PlaceInv(p)'
  <2>1. CASE p # here
    BY <2>1, Elsewhere DEF Same, IndexInv, AddRow, Put, Frame
  <2>2. CASE p = here
    BY <2>2, <1>d, DbIsNotNoDb, ReportIsReadable, OwnPlace
       DEF IndexInv, TypeOK, PlaceInv, BuildInv, ReuseInv, BlobInv, Readable, Told, Bare, PagesIn,
           AddRow, Put, Frame
  <2> QED BY <2>1, <2>2
<1> QED BY <1>1, <1>2, <1>3, <1>4, <1>5 DEF IndexInv

LEMMA AcceptRowsKeeps ==
  ASSUME IndexInv, AcceptRows
  PROVE IndexInv'
<1> USE Ready
<1>h. here' = here /\ SymbolsFor(ask)' = SymbolsFor(ask)
  BY DEF here, SymbolsFor, AcceptRows, Backfilled, Goto, Frame, disk
<1>d. /\ db[here] # NoDb /\ db[here] \in Databases /\ db[here].corpus \in Snapshots
      /\ held' \in Reports /\ held'.rows = db[here].rows
      /\ held'.pages = held.pages /\ held'.embedder = held.embedder
      /\ held.pages # 0 /\ held.pages = db[here].rows
      /\ held = report[here] /\ Readable(here) /\ ask.rebuild = "no"
  <2>1. /\ db[here] # NoDb /\ held = report[here] /\ Readable(here) /\ ask.rebuild = "no"
        /\ pc = "repair" /\ held.pages = db[here].rows
    BY DEF IndexInv, ReuseInv, AcceptRows, Backfilled
  <2>2. held \in Reports /\ db[here] \in Databases
    BY <2>1 DEF Readable
  <2>3. held.pages # 0
    BY <2>1 DEF IndexInv, PlaceInv
  <2>4. db[here].corpus \in Snapshots /\ db[here].rows \in Nat
    BY <2>1, <2>2, <2>3 DEF IndexInv, PlaceInv, Databases
  <2>5. held' = [held EXCEPT !.rows = db[here].rows]
    BY DEF AcceptRows
  <2>6. held' \in Reports /\ held'.rows = db[here].rows /\ held'.pages = held.pages
        /\ held'.embedder = held.embedder
    BY <2>2, <2>4, <2>5 DEF Reports
  <2> QED BY <2>1, <2>2, <2>3, <2>4, <2>6
<1>1. TypeOK'
  BY <1>d, AnswerAssumption DEF IndexInv, TypeOK, Steps, AcceptRows, Backfilled, Goto, Frame, disk
<1>2. BuildInv'
  BY <1>h, <1>d DEF IndexInv, TypeOK, BuildInv, ReuseInv, PlaceInv, Bare, PagesIn, AcceptRows, Backfilled, Goto, Frame, disk
<1>3. ReuseInv'
  BY <1>h, <1>d DEF IndexInv, TypeOK, BuildInv, ReuseInv, Readable, AcceptRows, Backfilled, Goto, Frame, disk
<1>4. BlobInv'
  BY <1>h, <1>d DEF IndexInv, TypeOK, BuildInv, ReuseInv, BlobInv, PlaceInv, Told, PagesIn, AcceptRows, Backfilled, Goto, Frame, disk
<1>5. ASSUME NEW p \in Places PROVE PlaceInv(p)'
  <2>1. CASE p # here
    BY <2>1, Elsewhere DEF Same, IndexInv, AcceptRows, Backfilled, Goto, Frame, disk
  <2>2. CASE p = here
    BY <2>2, <1>d, DbIsNotNoDb, ReportIsReadable, OwnPlace
       DEF IndexInv, TypeOK, PlaceInv, BuildInv, ReuseInv, BlobInv, Readable, Told, Bare, PagesIn,
           AcceptRows, Backfilled, Goto, Frame, disk
  <2> QED BY <2>1, <2>2
<1> QED BY <1>1, <1>2, <1>3, <1>4, <1>5 DEF IndexInv

LEMMA CreateDbKeeps ==
  ASSUME IndexInv, CreateDb
  PROVE IndexInv'
<1> USE Ready
<1>h. here' = here /\ SymbolsFor(ask)' = SymbolsFor(ask)
  BY DEF here, SymbolsFor, CreateDb, Goto, Put, Frame
<1>d. /\ db' \in [Places -> Databases \cup {NoDb}] /\ db'[here] # NoDb
      /\ db'[here] = EmptyDb /\ EmptyDb.corpus = "none" /\ EmptyDb.rows = 0
      /\ here \notin cut => Bare(here)
  <2>1. db' = [db EXCEPT ![here] = EmptyDb] /\ db[here] = NoDb
    BY DEF CreateDb, Put
  <2>2. EmptyDb # NoDb
    BY EmptyDbIsOne, DbIsNotNoDb
  <2> QED BY <2>1, <2>2, EmptyDbIsOne DEF IndexInv, TypeOK, PlaceInv, EmptyDb
<1>1. TypeOK'
  BY <1>d, AnswerAssumption DEF IndexInv, TypeOK, Steps, CreateDb, Goto, Put, Frame
<1>2. BuildInv'
  BY <1>h, <1>d DEF IndexInv, TypeOK, BuildInv, ReuseInv, PlaceInv, Bare, PagesIn, CreateDb, Goto, Put, Frame
<1>3. ReuseInv'
  BY <1>h, <1>d DEF IndexInv, TypeOK, BuildInv, ReuseInv, Readable, CreateDb, Goto, Put, Frame
<1>4. BlobInv'
  BY <1>h, <1>d DEF IndexInv, TypeOK, BuildInv, ReuseInv, BlobInv, PlaceInv, Told, PagesIn, CreateDb, Goto, Put, Frame
<1>5. ASSUME NEW p \in Places PROVE PlaceInv(p)'
  <2>1. CASE p # here
    BY <2>1, Elsewhere DEF Same, IndexInv, CreateDb, Goto, Put, Frame
  <2>2. CASE p = here
    BY <2>2, <1>d, DbIsNotNoDb, ReportIsReadable, OwnPlace
       DEF IndexInv, TypeOK, PlaceInv, BuildInv, ReuseInv, BlobInv, Readable, Told, Bare, PagesIn,
           CreateDb, Goto, Put, Frame
  <2> QED BY <2>1, <2>2
<1> QED BY <1>1, <1>2, <1>3, <1>4, <1>5 DEF IndexInv

LEMMA WritePagesKeeps ==
  ASSUME IndexInv, WritePages
  PROVE IndexInv'
<1> USE Ready
<1>h. here' = here /\ SymbolsFor(ask)' = SymbolsFor(ask)
  BY DEF here, SymbolsFor, WritePages, Goto, Put, Frame
<1>d. /\ db' \in [Places -> Databases \cup {NoDb}] /\ db'[here] # NoDb
      /\ db'[here].corpus = ask.index /\ db'[here].rows = 0 /\ ask.index # "none"
      /\ \A a \in Asks : PlaceOf(a) = here /\ a.checkout = "none" => a.index = ask.index
  <2> DEFINE d == [EmptyDb EXCEPT !.corpus = ask.index]
  <2>1. db' = [db EXCEPT ![here] = d]
    BY DEF WritePages, Put, IndexInv, BuildInv
  <2>2. d \in Databases /\ d.corpus = ask.index /\ d.rows = 0
    BY EmptyDbIsOne DEF EmptyDb, Databases
  <2>3. d # NoDb
    BY <2>2, DbIsNotNoDb
  <2>4. \A a \in Asks : PlaceOf(a) = here /\ a.checkout = "none" => a.index = ask.index
    BY OwnPlace DEF here
  <2> HIDE DEF d
  <2> QED BY <2>1, <2>2, <2>3, <2>4, AnswerAssumption DEF IndexInv, TypeOK
<1>1. TypeOK'
  BY <1>d, AnswerAssumption DEF IndexInv, TypeOK, Steps, WritePages, Goto, Put, Frame
<1>2. BuildInv'
  BY <1>h, <1>d DEF IndexInv, TypeOK, BuildInv, ReuseInv, PlaceInv, Bare, PagesIn, WritePages, Goto, Put, Frame
<1>3. ReuseInv'
  BY <1>h, <1>d DEF IndexInv, TypeOK, BuildInv, ReuseInv, Readable, WritePages, Goto, Put, Frame
<1>4. BlobInv'
  BY <1>h, <1>d DEF IndexInv, TypeOK, BuildInv, ReuseInv, BlobInv, PlaceInv, Told, PagesIn, WritePages, Goto, Put, Frame
<1>5. ASSUME NEW p \in Places PROVE PlaceInv(p)'
  <2>1. CASE p # here
    BY <2>1, Elsewhere DEF Same, IndexInv, WritePages, Goto, Put, Frame
  <2>2. CASE p = here
    BY <2>2, <1>d, DbIsNotNoDb, ReportIsReadable, OwnPlace
       DEF IndexInv, TypeOK, PlaceInv, BuildInv, ReuseInv, BlobInv, Readable, Told, Bare, PagesIn,
           WritePages, Goto, Put, Frame
  <2> QED BY <2>1, <2>2
<1> QED BY <1>1, <1>2, <1>3, <1>4, <1>5 DEF IndexInv

LEMMA WriteSymbolsKeeps ==
  ASSUME IndexInv, WriteSymbols
  PROVE IndexInv'
<1> USE Ready
<1>h. here' = here /\ SymbolsFor(ask)' = SymbolsFor(ask)
  BY DEF here, SymbolsFor, WriteSymbols, Goto, Put, Frame
<1>d. /\ db' \in [Places -> Databases \cup {NoDb}] /\ db'[here] # NoDb
      /\ db'[here].corpus = ask.index /\ db'[here].rows = 0 /\ db'[here].symbols = SymbolsFor(ask)
      /\ ask.index # "none"
  <2> DEFINE d == [db[here] EXCEPT !.symbols = SymbolsFor(ask)]
  <2>1. db[here] \in Databases /\ db[here].corpus = ask.index /\ db[here].rows = 0
    BY DEF IndexInv, BuildInv, WriteSymbols
  <2>2. d \in Databases /\ d.corpus = ask.index /\ d.rows = 0 /\ d.symbols = SymbolsFor(ask)
    BY <2>1 DEF Databases
  <2>3. db' = [db EXCEPT ![here] = d]
    BY DEF WriteSymbols, Put
  <2>4. d # NoDb
    BY <2>2, DbIsNotNoDb
  <2> HIDE DEF d
  <2> QED BY <2>2, <2>3, <2>4, AnswerAssumption DEF IndexInv, TypeOK
<1>1. TypeOK'
  BY <1>d, AnswerAssumption DEF IndexInv, TypeOK, Steps, WriteSymbols, Goto, Put, Frame
<1>2. BuildInv'
  BY <1>h, <1>d DEF IndexInv, TypeOK, BuildInv, ReuseInv, PlaceInv, Bare, PagesIn, WriteSymbols, Goto, Put, Frame
<1>3. ReuseInv'
  BY <1>h, <1>d DEF IndexInv, TypeOK, BuildInv, ReuseInv, Readable, WriteSymbols, Goto, Put, Frame
<1>4. BlobInv'
  BY <1>h, <1>d DEF IndexInv, TypeOK, BuildInv, ReuseInv, BlobInv, PlaceInv, Told, PagesIn, WriteSymbols, Goto, Put, Frame
<1>5. ASSUME NEW p \in Places PROVE PlaceInv(p)'
  <2>1. CASE p # here
    BY <2>1, Elsewhere DEF Same, IndexInv, WriteSymbols, Goto, Put, Frame
  <2>2. CASE p = here
    BY <2>2, <1>d, DbIsNotNoDb, ReportIsReadable, OwnPlace
       DEF IndexInv, TypeOK, PlaceInv, BuildInv, ReuseInv, BlobInv, Readable, Told, Bare, PagesIn,
           WriteSymbols, Goto, Put, Frame
  <2> QED BY <2>1, <2>2
<1> QED BY <1>1, <1>2, <1>3, <1>4, <1>5 DEF IndexInv

LEMMA CheckRowsKeeps ==
  ASSUME IndexInv, CheckRows
  PROVE IndexInv'
<1> USE Ready
<1>h. here' = here /\ SymbolsFor(ask)' = SymbolsFor(ask)
  BY DEF here, SymbolsFor, CheckRows, Goto, Frame, Stay, disk
<1>1. TypeOK'
  BY AnswerAssumption DEF IndexInv, TypeOK, Steps, CheckRows, Goto, Frame, Stay, disk
<1>2. BuildInv'
  BY <1>h DEF IndexInv, TypeOK, BuildInv, ReuseInv, PlaceInv, Bare, PagesIn, CheckRows, Goto, Frame, Stay, disk
<1>3. ReuseInv'
  BY <1>h DEF IndexInv, TypeOK, BuildInv, ReuseInv, Readable, CheckRows, Goto, Frame, Stay, disk
<1>4. BlobInv'
  BY <1>h DEF IndexInv, TypeOK, BuildInv, ReuseInv, BlobInv, PlaceInv, Told, PagesIn, CheckRows, Goto, Frame, Stay, disk
<1>5. ASSUME NEW p \in Places PROVE PlaceInv(p)'
  <2>1. CASE p # here
    BY <2>1, Elsewhere DEF Same, IndexInv, CheckRows, Goto, Frame, Stay, disk
  <2>2. CASE p = here
    BY <2>2, DbIsNotNoDb, ReportIsReadable, OwnPlace
       DEF IndexInv, TypeOK, PlaceInv, BuildInv, ReuseInv, BlobInv, Readable, Told, Bare, PagesIn,
           CheckRows, Goto, Frame, Stay, disk
  <2> QED BY <2>1, <2>2
<1> QED BY <1>1, <1>2, <1>3, <1>4, <1>5 DEF IndexInv

LEMMA EmbedBatchKeeps ==
  ASSUME IndexInv, EmbedBatch
  PROVE IndexInv'
<1> USE Ready
<1>h. here' = here /\ SymbolsFor(ask)' = SymbolsFor(ask)
  BY DEF here, SymbolsFor, EmbedBatch, Goto, Frame
<1>d. vecs' \in [Places -> SUBSET Vectors]
  <2>1. PartOf(ask.index, ask.embedder) \in Vectors
    BY DEF PartOf, Vectors
  <2> QED BY <2>1 DEF EmbedBatch, IndexInv, TypeOK
<1>1. TypeOK'
  BY <1>d, AnswerAssumption DEF IndexInv, TypeOK, Steps, EmbedBatch, Goto, Frame
<1>2. BuildInv'
  BY <1>h, <1>d DEF IndexInv, TypeOK, BuildInv, ReuseInv, PlaceInv, Bare, PagesIn, EmbedBatch, Goto, Frame
<1>3. ReuseInv'
  BY <1>h, <1>d DEF IndexInv, TypeOK, BuildInv, ReuseInv, Readable, EmbedBatch, Goto, Frame
<1>4. BlobInv'
  BY <1>h, <1>d DEF IndexInv, TypeOK, BuildInv, ReuseInv, BlobInv, PlaceInv, Told, PagesIn, EmbedBatch, Goto, Frame
<1>5. ASSUME NEW p \in Places PROVE PlaceInv(p)'
  <2>1. CASE p # here
    BY <2>1, Elsewhere DEF Same, IndexInv, EmbedBatch, Goto, Frame
  <2>2. CASE p = here
    BY <2>2, <1>d, DbIsNotNoDb, ReportIsReadable, OwnPlace
       DEF IndexInv, TypeOK, PlaceInv, BuildInv, ReuseInv, BlobInv, Readable, Told, Bare, PagesIn,
           EmbedBatch, Goto, Frame
  <2> QED BY <2>1, <2>2
<1> QED BY <1>1, <1>2, <1>3, <1>4, <1>5 DEF IndexInv

LEMMA EmbedRestKeeps ==
  ASSUME IndexInv, EmbedRest
  PROVE IndexInv'
<1> USE Ready
<1>h. here' = here /\ SymbolsFor(ask)' = SymbolsFor(ask)
  BY DEF here, SymbolsFor, EmbedRest, Goto, Frame
<1>d. /\ vecs' \in [Places -> SUBSET Vectors]
      /\ here \notin cut => vecs'[here] = {AllOf(ask.index, ask.embedder)}
      /\ held' \in Reports
      /\ held'.embedder = ask.embedder /\ held'.pages = Pages[ask.index]
      /\ held'.rows = Pages[ask.index]
      /\ db[here] # NoDb /\ db[here].rows = Pages[ask.index] /\ db[here].corpus = ask.index
      /\ db[here] = [corpus |-> ask.index, rows |-> Pages[ask.index], symbols |-> SymbolsFor(ask)]
  <2>1. AllOf(ask.index, ask.embedder) \in Vectors
    BY DEF AllOf, Vectors
  <2>2. /\ db[here] # NoDb /\ db[here].corpus = ask.index /\ db[here].rows = Pages[ask.index]
        /\ db[here].symbols = SymbolsFor(ask)
        /\ here \notin cut => vecs[here] = {PartOf(ask.index, ask.embedder)}
    BY DEF EmbedRest, IndexInv, BuildInv
  <2>3. PagesIn(db[here]) = Pages[ask.index]
    BY <2>2 DEF PagesIn
  <2>4. held' = [embedder |-> ask.embedder, pages |-> Pages[ask.index], rows |-> Pages[ask.index]]
    BY <2>2, <2>3 DEF EmbedRest
  <2>5. held' \in Reports
    BY <2>4 DEF Reports
  <2>6. vecs'[here] = (vecs[here] \ {PartOf(ask.index, ask.embedder)}) \cup
                        {AllOf(ask.index, ask.embedder)}
    BY DEF EmbedRest, IndexInv, TypeOK
  <2>7. vecs' \in [Places -> SUBSET Vectors]
    BY <2>1 DEF EmbedRest, IndexInv, TypeOK
  <2>8. db[here] \in Databases
    BY <2>2
  <2>9. db[here] = [corpus |-> ask.index, rows |-> Pages[ask.index], symbols |-> SymbolsFor(ask)]
    BY <2>2, <2>8 DEF Databases
  <2> QED BY <2>2, <2>4, <2>5, <2>6, <2>7, <2>9
<1>1. TypeOK'
  BY <1>d, AnswerAssumption DEF IndexInv, TypeOK, Steps, EmbedRest, Goto, Frame
<1>2. BuildInv'
  BY <1>h, <1>d DEF IndexInv, TypeOK, BuildInv, ReuseInv, PlaceInv, Bare, PagesIn, EmbedRest, Goto, Frame
<1>3. ReuseInv'
  BY <1>h, <1>d DEF IndexInv, TypeOK, BuildInv, ReuseInv, Readable, EmbedRest, Goto, Frame
<1>4. BlobInv'
  BY <1>h, <1>d DEF IndexInv, TypeOK, BuildInv, ReuseInv, BlobInv, PlaceInv, Told, PagesIn, EmbedRest, Goto, Frame
<1>5. ASSUME NEW p \in Places PROVE PlaceInv(p)'
  <2>1. CASE p # here
    BY <2>1, Elsewhere DEF Same, IndexInv, EmbedRest, Goto, Frame
  <2>2. CASE p = here
    BY <2>2, <1>d, DbIsNotNoDb, ReportIsReadable, OwnPlace
       DEF IndexInv, TypeOK, PlaceInv, BuildInv, ReuseInv, BlobInv, Readable, Told, Bare, PagesIn,
           EmbedRest, Goto, Frame
  <2> QED BY <2>1, <2>2
<1> QED BY <1>1, <1>2, <1>3, <1>4, <1>5 DEF IndexInv

LEMMA OpenReportKeeps ==
  ASSUME IndexInv, OpenReport
  PROVE IndexInv'
<1> USE Ready
<1>h. here' = here /\ SymbolsFor(ask)' = SymbolsFor(ask)
  BY DEF here, SymbolsFor, OpenReport, Goto, Frame
<1>1. TypeOK'
  BY AnswerAssumption DEF IndexInv, TypeOK, Steps, OpenReport, Goto, Frame
<1>2. BuildInv'
  BY <1>h DEF IndexInv, TypeOK, BuildInv, ReuseInv, PlaceInv, Bare, PagesIn, OpenReport, Goto, Frame
<1>3. ReuseInv'
  BY <1>h DEF IndexInv, TypeOK, BuildInv, ReuseInv, Readable, OpenReport, Goto, Frame
<1>4. BlobInv'
  BY <1>h DEF IndexInv, TypeOK, BuildInv, ReuseInv, BlobInv, PlaceInv, Told, PagesIn, OpenReport, Goto, Frame
<1>5. ASSUME NEW p \in Places PROVE PlaceInv(p)'
  <2>1. CASE p # here
    BY <2>1, Elsewhere DEF Same, IndexInv, OpenReport, Goto, Frame
  <2>2. CASE p = here
    BY <2>2, DbIsNotNoDb, ReportIsReadable, OwnPlace
       DEF IndexInv, TypeOK, PlaceInv, BuildInv, ReuseInv, BlobInv, Readable, Told, Bare, PagesIn,
           OpenReport, Goto, Frame
  <2> QED BY <2>1, <2>2
<1> QED BY <1>1, <1>2, <1>3, <1>4, <1>5 DEF IndexInv

LEMMA WriteReportKeeps ==
  ASSUME IndexInv, WriteReport
  PROVE IndexInv'
<1> USE Ready
<1>h. here' = here /\ SymbolsFor(ask)' = SymbolsFor(ask)
  BY DEF here, SymbolsFor, WriteReport, Goto, Frame
<1>1. TypeOK'
  BY AnswerAssumption DEF IndexInv, TypeOK, Steps, WriteReport, Goto, Frame
<1>2. BuildInv'
  BY <1>h DEF IndexInv, TypeOK, BuildInv, ReuseInv, PlaceInv, Bare, PagesIn, WriteReport, Goto, Frame
<1>3. ReuseInv'
  BY <1>h DEF IndexInv, TypeOK, BuildInv, ReuseInv, Readable, WriteReport, Goto, Frame
<1>4. BlobInv'
  BY <1>h DEF IndexInv, TypeOK, BuildInv, ReuseInv, BlobInv, PlaceInv, Told, PagesIn, WriteReport, Goto, Frame
<1>5. ASSUME NEW p \in Places PROVE PlaceInv(p)'
  <2>1. CASE p # here
    BY <2>1, Elsewhere DEF Same, IndexInv, WriteReport, Goto, Frame
  <2>2. CASE p = here
    BY <2>2, DbIsNotNoDb, ReportIsReadable, OwnPlace
       DEF IndexInv, TypeOK, PlaceInv, BuildInv, ReuseInv, BlobInv, Readable, Told, Bare, PagesIn,
           WriteReport, Goto, Frame
  <2> QED BY <2>1, <2>2
<1> QED BY <1>1, <1>2, <1>3, <1>4, <1>5 DEF IndexInv

LEMMA PlacesKept ==
  ASSUME IndexInv, UNCHANGED disk, UNCHANGED cut
  PROVE \A p \in Places : PlaceInv(p)'
  BY Elsewhere DEF IndexInv, Same, disk

LEMMA StartKeeps ==
  ASSUME IndexInv, NEW a \in Asks, Start(a)
  PROVE IndexInv'
<1>1. TypeOK'
  BY AnswerAssumption DEF IndexInv, TypeOK, Steps, Start, Goto, disk
<1>2. here' = PlaceOf(a)
  BY DEF Start, here
<1>3. a.rebuild = "yes" /\ pc' = "look" => db'[here'] = NoDb
  BY <1>2 DEF Start, Goto, Bare, disk
<1>4. BuildInv' /\ ReuseInv' /\ BlobInv'
  BY <1>3 DEF Start, Goto, BuildInv, ReuseInv, BlobInv
<1>5. \A p \in Places : PlaceInv(p)'
  BY PlacesKept DEF Start
<1> QED BY <1>1, <1>4, <1>5 DEF IndexInv

\* A run that ends says nothing about the index any more.
LEMMA EndingKeeps ==
  ASSUME IndexInv, pc' = "idle", faults' \in 0..MaxFaults,
         UNCHANGED <<disk, cut, ask, built, runs>>, head' \in [Checkouts -> Commits]
  PROVE IndexInv'
<1>1. TypeOK'
  BY AnswerAssumption DEF IndexInv, TypeOK, Steps, disk
<1>2. BuildInv' /\ ReuseInv' /\ BlobInv'
  BY DEF BuildInv, ReuseInv, BlobInv
<1>3. \A p \in Places : PlaceInv(p)'
  BY PlacesKept
<1> QED BY <1>1, <1>2, <1>3 DEF IndexInv

LEMMA ScoreKeeps ==
  ASSUME IndexInv, Score
  PROVE IndexInv'
<1>1. TypeOK'
  BY DEF IndexInv, TypeOK, Steps, Score, Goto, Stay, Frame, disk
<1>2. here' = here /\ SymbolsFor(ask)' = SymbolsFor(ask)
  BY DEF Score, Frame, here, SymbolsFor
<1>3. BuildInv' /\ ReuseInv' /\ BlobInv'
  BY <1>2 DEF IndexInv, BuildInv, ReuseInv, BlobInv, Told, Score, Goto, Stay, Frame, disk
<1>4. \A p \in Places : PlaceInv(p)'
  BY PlacesKept DEF Score, Stay
<1> QED BY <1>1, <1>3, <1>4 DEF IndexInv

LEMMA StutterKeeps ==
  ASSUME IndexInv, UNCHANGED vars
  PROVE IndexInv'
<1>1. here' = here /\ SymbolsFor(ask)' = SymbolsFor(ask)
  BY DEF vars, here, SymbolsFor
<1>2. \A p \in Places : PlaceInv(p)'
  BY PlacesKept DEF vars
<1> QED
  BY <1>1, <1>2 DEF IndexInv, TypeOK, BuildInv, ReuseInv, BlobInv, Readable, Told, vars, disk

LEMMA NextKeeps == IndexInv /\ [Next]_vars => IndexInv'
<1> SUFFICES ASSUME IndexInv, [Next]_vars PROVE IndexInv'
  OBVIOUS
<1>0. faults \in 0..MaxFaults /\ head \in [Checkouts -> Commits] /\ MaxFaults \in Nat
  BY AnswerAssumption DEF IndexInv, TypeOK
<1>1. ASSUME NEW a \in Asks, Start(a) PROVE IndexInv'
  BY <1>1, StartKeeps
<1>2. CASE Remove \/ RemoveStops
  BY <1>2, RemoveKeeps, RemoveStopsKeeps
<1>3. CASE Reuse \/ AddRow \/ AcceptRows
  BY <1>3, ReuseKeeps, AddRowKeeps, AcceptRowsKeeps
<1>4. CASE CreateDb \/ WritePages \/ WriteSymbols \/ CheckRows \/ EmbedBatch \/ EmbedRest
  BY <1>4, CreateDbKeeps, WritePagesKeeps, WriteSymbolsKeeps, CheckRowsKeeps, EmbedBatchKeeps,
     EmbedRestKeeps
<1>5. CASE OpenReport \/ WriteReport \/ Score
  BY <1>5, OpenReportKeeps, WriteReportKeeps, ScoreKeeps
<1>6. CASE RefuseReport \/ RefuseRows \/ BuildRaises \/ NotServed \/ End
  BY <1>0, <1>6, EndingKeeps
     DEF RefuseReport, RefuseRows, BuildRaises, NotServed, End, Goto, Stay, Frame
<1>7. CASE Kill
  BY <1>0, <1>7, EndingKeeps DEF Kill, Goto, Frame
<1>8. ASSUME NEW c \in Checkouts, Move(c) PROVE IndexInv'
  <2>1. PICK commit \in Commits : head' = [head EXCEPT ![c] = commit]
    BY <1>8 DEF Move
  <2>2. head' \in [Checkouts -> Commits]
    BY <1>0, <2>1
  <2> QED BY <1>0, <1>8, <2>2, EndingKeeps DEF Move
<1>9. CASE UNCHANGED vars
  BY <1>9, StutterKeeps
<1> QED BY <1>1, <1>2, <1>3, <1>4, <1>5, <1>6, <1>7, <1>8, <1>9 DEF Next

-----------------------------------------------------------------------------
(* The theorems                                                            *)

\* The inductive invariant holds of every behaviour of answer_eval's runs.
THEOREM Invariance == Spec => []IndexInv
  BY InitInv, NextKeeps, PTL DEF Spec

\* Every variable of the runs (answer_eval/__main__.py) keeps its type.
THEOREM IndexTyped == Spec => []TypeOK
<1>1. IndexInv => TypeOK
  BY DEF IndexInv
<1> QED BY <1>1, Invariance, PTL

\* A blob describes what its questions were asked of, for every set of command
\* lines, and however runs end: rows for all pages told of and, where no removal
\* stopped half way, exactly their vectors.
THEOREM BlobsDescribeIndexes == Spec => []BlobDescribesIndex
<1>1. IndexInv => BlobDescribesIndex
  <2> SUFFICES ASSUME IndexInv, pc = "scored"
               PROVE /\ held.embedder = ask.embedder
                     /\ held.pages = Measured.rows /\ held.rows = Measured.rows
                     /\ here \notin cut =>
                          /\ vecs[here] = {AllOf(Measured.corpus, ask.embedder)}
                          /\ Measured.rows = Pages[Measured.corpus]
                     /\ ask.checkout = "none" => Measured.corpus = ask.index
    BY DEF BlobDescribesIndex
  <2>1. /\ db[here] # NoDb /\ db[here].corpus \in Snapshots
        /\ held.embedder = ask.embedder
        /\ held.pages = db[here].rows /\ held.rows = db[here].rows
        /\ here \notin cut => Told(held, db[here], vecs[here])
    BY DEF IndexInv, BlobInv
  <2>2. ask.checkout = "none" => db[here].corpus \in {ask.index, "none"}
    BY <2>1, Ready DEF IndexInv, PlaceInv, here
  <2>3. db[here].corpus # "none"
    BY <2>1, AnswerAssumption
  <2> QED BY <2>1, <2>2, <2>3 DEF Measured, Told
<1> QED BY <1>1, Invariance, PTL

\* What --rebuild-index is measured on is of its own making, in a checkout that
\* other snapshots and embedders have used too.
THEOREM RebuildsAreRebuilt == Spec => []RebuildRebuilds
<1>1. IndexInv => RebuildRebuilds
  BY DEF IndexInv, BlobInv, RebuildRebuilds, Measured
<1> QED BY <1>1, Invariance, PTL

=============================================================================
