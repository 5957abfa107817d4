---------------------------- MODULE AnswerIndex ----------------------------
(***************************************************************************)
(* The index an answer evaluation measures (answer_eval/__main__.py run,   *)
(* index.py, symbols.py, and the boot in server_session.py).  A run reuses *)
(* the index it finds at its place when a build report lies beside it, or  *)
(* builds one in several steps and writes the report last; it may fail or  *)
(* be killed between any two of them.  Runs of one tree follow one         *)
(* another.  The questions asked of the server are left out, and so are    *)
(* the model and the dimensions that are pinned beside an embedder's name. *)
(***************************************************************************)
EXTENDS Integers

CONSTANTS
  Snapshots,   \* short ids: the corpora
  Embedders,   \* names of embedders
  Checkouts,   \* source trees given with --checkout
  Commits,     \* commits a checkout may be at
  Pages,       \* how many pages a snapshot has
  Asks,        \* the command lines
  MaxRuns,     \* bound: runs
  MaxFaults    \* bound: kills, removals cut short and moves of a checkout

ASSUME AnswerAssumption ==
  /\ "none" \notin Snapshots \cup Checkouts \cup Commits
  /\ Pages \in [Snapshots -> Nat \ {0}]
  /\ Asks \subseteq [index : Snapshots, embedder : Embedders, checkout : Checkouts \cup {"none"},
                     commit : Commits \cup {"none"}, rebuild : {"no", "yes"}]
  /\ MaxRuns \in Nat /\ MaxFaults \in Nat

VARIABLES
  \* on disk, at each place an index may be
  db,       \* wiki.db, NoDb while there is none
  vecs,     \* the vectors of the store: of which pages and embedder, and if all of them
  report,   \* build_report.json
  head,     \* the commit a checkout is at
  \* of the process
  pc, ask,
  held,     \* the report it has built or read
  \* history
  cut,      \* places where a removal stopped half way and none has ended since
  built,    \* whether this run has embedded
  runs, faults

disk == <<db, vecs, report>>
vars == <<disk, head, pc, ask, held, cut, built, runs, faults>>

\* Where a run keeps its index: in the checkout, or under the snapshot's id
\* and the embedder's name.
PlaceOf(a) ==
  IF a.checkout = "none" THEN [index |-> a.index, embedder |-> a.embedder]
  ELSE [checkout |-> a.checkout]
Places == {PlaceOf(a) : a \in Asks}
here == PlaceOf(ask)

\* The corpus is that of the committed pages; rows are those of page_fts; the
\* symbols are those of a commit.
NoDb == [corpus |-> "no database"]
EmptyDb == [corpus |-> "none", rows |-> 0, symbols |-> "none"]
Databases == [corpus : Snapshots \cup {"none"}, rows : Nat, symbols : Commits \cup {"none"}]
PagesIn(d) == IF d.corpus \in Snapshots THEN Pages[d.corpus] ELSE 0

Vectors == [of : Snapshots, by : Embedders, share : {"part", "all"}]
AllOf(s, e) == [of |-> s, by |-> e, share |-> "all"]
PartOf(s, e) == [of |-> s, by |-> e, share |-> "part"]

\* The symbols a build for a writes: those of the checkout, if there is one.
SymbolsFor(a) == IF a.checkout = "none" THEN "none" ELSE head[a.checkout]

\* read_build_report takes no other file for a report: none, or one cut short.
Reports == [embedder : Embedders, pages : Nat, rows : Nat]
NoReport == [embedder |-> "no report"]
TornReport == [embedder |-> "torn"]
Readable(p) == report[p] \notin {NoReport, TornReport}

\* There is no .repowise, or an empty one.
Bare(p) == db[p] = NoDb /\ vecs[p] = {} /\ report[p] = NoReport

Steps == {"idle", "remove", "look", "repair", "pages", "symbols", "fts", "embed", "embedding",
          "open", "write", "serve", "scored"}

TypeOK ==
  /\ db \in [Places -> Databases \cup {NoDb}]
  /\ vecs \in [Places -> SUBSET Vectors]
  /\ report \in [Places -> Reports \cup {NoReport, TornReport}]
  /\ head \in [Checkouts -> Commits]
  /\ pc \in Steps
  /\ ask \in Asks
  /\ pc \in {"repair", "open", "write", "serve", "scored"} => held \in Reports
  /\ cut \subseteq Places
  /\ built \in {"no", "yes"}
  /\ runs \in 0..MaxRuns /\ faults \in 0..MaxFaults

\* A place holds nothing, or an index from before full-text rows were written.
Init ==
  /\ head \in [Checkouts -> Commits]
  /\ \E older \in SUBSET Asks :
       LET At(p) == {a \in older : PlaceOf(a) = p} IN
       /\ \A a, b \in older : PlaceOf(a) = PlaceOf(b) => a = b
       /\ db = [p \in Places |-> IF At(p) = {} THEN NoDb
                  ELSE LET a == CHOOSE x \in At(p) : TRUE IN
                       [corpus |-> a.index, rows |-> 0, symbols |-> SymbolsFor(a)]]
       /\ vecs = [p \in Places |-> {AllOf(a.index, a.embedder) : a \in At(p)}]
       /\ report = [p \in Places |-> IF At(p) = {} THEN NoReport
                      ELSE LET a == CHOOSE x \in At(p) : TRUE IN
                           [embedder |-> a.embedder, pages |-> Pages[a.index], rows |-> 0]]
  /\ pc = "idle" /\ ask \in Asks /\ held = NoReport
  /\ cut = {} /\ built = "no" /\ runs = 0 /\ faults = 0

-----------------------------------------------------------------------------
(* The run                                                                 *)

Goto(step) == pc' = step
Put(d) == db' = [db EXCEPT ![here] = d]
Frame == UNCHANGED <<head, ask, runs>>
Stay == UNCHANGED disk /\ UNCHANGED <<held, cut, built, faults>>

\* The rebuild flag removes .repowise, if it is there.
Start(a) ==
  /\ pc = "idle" /\ runs < MaxRuns
  /\ ask' = a
  /\ runs' = runs + 1
  /\ held' = NoReport /\ built' = "no"
  /\ Goto(IF a.rebuild = "yes" /\ ~Bare(PlaceOf(a)) THEN "remove" ELSE "look")
  /\ UNCHANGED <<disk, head, cut, faults>>

Remove ==
  /\ pc = "remove"
  /\ Put(NoDb)
  /\ vecs' = [vecs EXCEPT ![here] = {}]
  /\ report' = [report EXCEPT ![here] = NoReport]
  /\ cut' = cut \ {here}
  /\ Goto("look")
  /\ UNCHANGED <<held, built, faults>> /\ Frame

\* mutant: what cannot be removed is ignored, and the run goes on.
RemoveStopsUnheard ==
  /\ pc = "remove" /\ faults < MaxFaults
  /\ \E d \in {db[here], NoDb} : Put(d)
  /\ cut' = cut \cup {here}
  /\ faults' = faults + 1
  /\ Goto("look")
  /\ UNCHANGED <<vecs, report, held, built>> /\ Frame

\* rmtree raises at the first file it cannot remove, or is killed: any of the
\* parts may be gone, and the run is over.
RemoveStops ==
  /\ pc = "remove" /\ faults < MaxFaults
  /\ \E d \in {db[here], NoDb}, r \in {report[here], NoReport} :
       Put(d) /\ report' = [report EXCEPT ![here] = r]
  /\ \E left \in {vecs[here], {}, {PartOf(v.of, v.by) : v \in vecs[here]}} :
       vecs' = [vecs EXCEPT ![here] = left]
  /\ cut' = cut \cup {here}
  /\ faults' = faults + 1
  /\ Goto("idle")
  /\ UNCHANGED <<held, built>> /\ Frame

-----------------------------------------------------------------------------
(* Reuse                                                                   *)

\* A report that is missing, cut short or of another embedder.
RefuseReport ==
  /\ pc = "look" /\ db[here] # NoDb
  /\ ~Readable(here) \/ report[here].embedder # ask.embedder
  /\ Goto("idle")
  /\ Stay /\ Frame

Reuse ==
  /\ pc = "look" /\ db[here] # NoDb
  /\ Readable(here) /\ report[here].embedder = ask.embedder
  /\ held' = report[here]
  /\ Goto("repair")
  /\ UNCHANGED <<disk, cut, built, faults>> /\ Frame

\* write_page_fts adds the rows that are missing, each in its own commit.
AddRow ==
  /\ pc \in {"repair", "fts"} /\ db[here].rows < PagesIn(db[here])
  /\ Put([db[here] EXCEPT !.rows = @ + 1])
  /\ UNCHANGED <<vecs, report, pc, held, cut, built, faults>> /\ Frame

Backfilled == pc = "repair" /\ db[here].rows >= PagesIn(db[here])

\* The rows are not as many as the pages the report tells of.
RefuseRows ==
  /\ Backfilled /\ db[here].rows # held.pages
  /\ Goto("idle")
  /\ Stay /\ Frame

\* If the report tells of other rows than there are, it is written again.
AcceptRows ==
  /\ Backfilled /\ db[here].rows = held.pages
  /\ held' = [held EXCEPT !.rows = db[here].rows]
  /\ Goto(IF held.rows = db[here].rows THEN "serve" ELSE "open")
  /\ UNCHANGED <<disk, cut, built, faults>> /\ Frame

-----------------------------------------------------------------------------
(* Build                                                                   *)

CreateDb ==
  /\ pc = "look" /\ db[here] = NoDb
  /\ Put(EmptyDb)
  /\ Goto("pages")
  /\ UNCHANGED <<vecs, report, held, cut, built, faults>> /\ Frame

\* All pages in one commit.
WritePages ==
  /\ pc = "pages"
  /\ Put([db[here] EXCEPT !.corpus = ask.index])
  /\ Goto("symbols")
  /\ UNCHANGED <<vecs, report, held, cut, built, faults>> /\ Frame

\* require_matching_commit, which only a build with a checkout calls.
MatchingCommit ==
  ask.checkout # "none" /\ ask.commit # "none" => head[ask.checkout] = ask.commit

WriteSymbols ==
  /\ pc = "symbols"
  /\ MatchingCommit
  /\ Put([db[here] EXCEPT !.symbols = SymbolsFor(ask)])
  /\ Goto("fts")
  /\ UNCHANGED <<vecs, report, held, cut, built, faults>> /\ Frame

\* mutant: the report is written before the vectors are.
CheckRowsReported ==
  /\ pc = "fts" /\ db[here].rows = PagesIn(db[here])
  /\ report' = [report EXCEPT ![here] = [embedder |-> ask.embedder, pages |-> PagesIn(db[here]),
                                         rows |-> db[here].rows]]
  /\ Goto("embed")
  /\ UNCHANGED <<db, vecs, held, cut, built, faults>> /\ Frame

CheckRows ==
  /\ pc = "fts" /\ db[here].rows = PagesIn(db[here])
  /\ Goto("embed")
  /\ Stay /\ Frame

EmbedBatch ==
  /\ pc = "embed"
  /\ vecs' = [vecs EXCEPT ![here] = @ \cup {PartOf(ask.index, ask.embedder)}]
  /\ Goto("embedding")
  /\ UNCHANGED <<db, report, held, cut, built, faults>> /\ Frame

EmbedRest ==
  /\ pc = "embedding"
  /\ vecs' = [vecs EXCEPT ![here] = (@ \ {PartOf(ask.index, ask.embedder)}) \cup
                                      {AllOf(ask.index, ask.embedder)}]
  /\ held' = [embedder |-> ask.embedder, pages |-> PagesIn(db[here]), rows |-> db[here].rows]
  /\ built' = "yes"
  /\ Goto("open")
  /\ UNCHANGED <<db, report, cut, faults>> /\ Frame

\* A step of the build raises, for one the commit of the checkout: whatever it
\* wrote stays, without a report.
BuildRaises ==
  /\ pc \in {"pages", "symbols", "fts", "embed", "embedding"}
  /\ Goto("idle")
  /\ Stay /\ Frame

-----------------------------------------------------------------------------
(* The report and the blob                                                 *)

\* write_text empties the file first.
OpenReport ==
  /\ pc = "open"
  /\ report' = [report EXCEPT ![here] = TornReport]
  /\ Goto("write")
  /\ UNCHANGED <<db, vecs, held, cut, built, faults>> /\ Frame

WriteReport ==
  /\ pc = "write"
  /\ report' = [report EXCEPT ![here] = held]
  /\ Goto("serve")
  /\ UNCHANGED <<db, vecs, held, cut, built, faults>> /\ Frame

\* The server comes up with the embedder asked for, or answer_server raises.
Score == pc = "serve" /\ Goto("scored") /\ Stay /\ Frame
NotServed == pc = "serve" /\ Goto("idle") /\ Stay /\ Frame
End == pc = "scored" /\ Goto("idle") /\ Stay /\ Frame

Kill ==
  /\ pc \notin {"idle", "scored"} /\ faults < MaxFaults
  /\ faults' = faults + 1
  /\ Goto("idle")
  /\ UNCHANGED <<disk, held, cut, built>> /\ Frame

\* Somebody checks another commit out between two runs.
Move(c) ==
  /\ pc = "idle" /\ faults < MaxFaults
  /\ \E commit \in Commits \ {head[c]} : head' = [head EXCEPT ![c] = commit]
  /\ faults' = faults + 1
  /\ UNCHANGED <<disk, pc, ask, held, cut, built, runs>>

Next ==
  \/ \E a \in Asks : Start(a)
  \/ Remove \/ RemoveStops
  \/ RefuseReport \/ Reuse \/ AddRow \/ RefuseRows \/ AcceptRows
  \/ CreateDb \/ WritePages \/ WriteSymbols \/ CheckRows \/ EmbedBatch \/ EmbedRest \/ BuildRaises
  \/ OpenReport \/ WriteReport \/ Score \/ NotServed \/ End \/ Kill
  \/ \E c \in Checkouts : Move(c)

Spec == Init /\ [][Next]_vars

-----------------------------------------------------------------------------
(* Properties                                                              *)

Measured == db[here]

\* What a blob says of its index is what the questions were asked of ("numbers
\* with no record of the embedder or recipe that produced them" are refused):
\* full-text rows for every page told of and, unless a removal stopped half
\* way there, just the vectors of all those pages by the embedder told of.
\* Under its own id an index also holds the snapshot the blob names.
BlobDescribesIndex ==
  pc = "scored" =>
    /\ held.embedder = ask.embedder
    /\ held.pages = Measured.rows /\ held.rows = Measured.rows
    /\ here \notin cut =>
         /\ vecs[here] = {AllOf(Measured.corpus, ask.embedder)}
         /\ Measured.rows = Pages[Measured.corpus]
    /\ ask.checkout = "none" => Measured.corpus = ask.index

\* --rebuild-index "forces the build": its blob comes from pages, symbols and
\* vectors of its own making, even in a checkout others have indexed.
RebuildRebuilds ==
  pc = "scored" /\ ask.rebuild = "yes" =>
    /\ built = "yes"
    /\ Measured = [corpus |-> ask.index, rows |-> Pages[ask.index], symbols |-> SymbolsFor(ask)]

\* What the documentation says, and the code does not do: "commit the snapshot
\* was generated from; the checkout is refused if it differs".
CommitChecked == pc = "scored" => MatchingCommit

-----------------------------------------------------------------------------
(* The inductive invariant                                                 *)

\* What a report tells is so: all its pages, and only they, are embedded.
Told(r, d, v) ==
  /\ d # NoDb /\ d.corpus \in Snapshots
  /\ v = {AllOf(d.corpus, r.embedder)}
  /\ r.pages = Pages[d.corpus]

\* An index under a snapshot's own id holds no other snapshot, and neither rows
\* nor a report are about no pages.  Unless a removal stopped half way, there is
\* nothing beside a missing database, and a report that can be read is true.
PlaceInv(p) ==
  /\ db[p] # NoDb =>
       /\ db[p].corpus = "none" => db[p].rows = 0
       /\ \A a \in Asks : PlaceOf(a) = p /\ a.checkout = "none" => db[p].corpus \in {a.index, "none"}
  /\ Readable(p) => report[p].pages # 0
  /\ p \notin cut =>
       /\ db[p] = NoDb => Bare(p)
       /\ Readable(p) => Told(report[p], db[p], vecs[p])

\* A build so far: the pages are those of the snapshot asked for, no report lies
\* beside it, and the vectors are those it has written.
BuildInv ==
  /\ pc \in {"pages", "symbols", "fts", "embed", "embedding"} =>
       /\ db[here] # NoDb
       /\ here \notin cut => report[here] = NoReport
       /\ here \notin cut => vecs[here] = IF pc = "embedding" THEN {PartOf(ask.index, ask.embedder)}
                                          ELSE {}
  /\ pc = "pages" => db[here] = EmptyDb
  /\ pc \in {"symbols", "fts", "embed", "embedding"} => db[here].corpus = ask.index
  /\ pc = "symbols" => db[here].rows = 0
  /\ pc = "fts" => db[here].rows <= Pages[ask.index]
  /\ pc \in {"embed", "embedding"} => db[here].rows = Pages[ask.index]
  /\ pc \in {"fts", "embed", "embedding"} => db[here].symbols = SymbolsFor(ask)

\* A rebuild finds nothing to reuse, and whoever reuses an index holds its report.
ReuseInv ==
  /\ pc = "remove" => ask.rebuild = "yes"
  /\ pc = "look" /\ ask.rebuild = "yes" => db[here] = NoDb
  /\ pc \in {"remove", "look", "repair", "pages", "symbols", "fts", "embed", "embedding"} =>
       built = "no"
  /\ pc = "repair" =>
       /\ ask.rebuild = "no" /\ db[here] # NoDb
       /\ Readable(here) /\ held = report[here] /\ held.embedder = ask.embedder

\* From the open report on, what is held is what is there.
BlobInv ==
  pc \in {"open", "write", "serve", "scored"} =>
    /\ db[here] # NoDb /\ db[here].corpus \in Snapshots
    /\ held.embedder = ask.embedder /\ held.pages = db[here].rows /\ held.rows = db[here].rows
    /\ held.pages # 0
    /\ here \notin cut => Told(held, db[here], vecs[here])
    /\ ask.rebuild = "yes" => built = "yes"
    /\ built = "yes" =>
         db[here] = [corpus |-> ask.index, rows |-> Pages[ask.index], symbols |-> SymbolsFor(ask)]

IndexInv ==
  /\ TypeOK /\ BuildInv /\ ReuseInv /\ BlobInv
  /\ \A p \in Places : PlaceInv(p)

=============================================================================
