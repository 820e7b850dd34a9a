--------------------------- MODULE HierarchyIndex ---------------------------
(***************************************************************************)
(* The hierarchy index of hc_hierarchy: one SQLite file that hch-index     *)
(* builds in batches with a checkpoint (batched_loader.py) while hch-web,  *)
(* hch-deepen and the GUI deepen branches of it (deepen.py).               *)
(*                                                                         *)
(* One run of the builder and any number of deepens are active at a time;  *)
(* each has a connection of its own.  SQLite lets one connection write:    *)
(* the first change of a transaction takes the lock, commit releases it,   *)
(* and whoever waits longer than the five seconds of sqlite3.connect gets  *)
(* an error.  Readers see committed data only.                             *)
(*                                                                         *)
(* A source file defines one module; several files may define the same     *)
(* name.  A module record keeps the children it instantiates and whether   *)
(* it was parsed in full or skimmed as text.  An instance path is the      *)
(* sequence of the modules on it.  Ports, parameters, generate, bind,      *)
(* black boxes, --max-depth and the synthetic path layout are left out.    *)
(*                                                                         *)
(* A definition named ...Variant is the one after it with a mistake in it: *)
(* the mutants of PROJECT.json put it in the place of the right one.       *)
(***************************************************************************)
EXTENDS Integers, SequencesExt

CONSTANTS
  Files,        \* the filelist: source files, numbered in its order
  Name,         \* the module each file defines
  Kids,         \* the modules each file instantiates
  Top,          \* --top
  Anchors,      \* instance names --depth-anchor-inst selects
  Depths,       \* --depth-shallow of the runs; Unlimited is a run without anchors
  Modes,        \* "resume", "fresh" (--no-resume) or "force"
  Hops,         \* --depth of the deepens; Unlimited is --full
  BatchSize,    \* --batch-size
  CommitEvery,  \* _CHECKPOINT_COMMIT_EVERY
  Builder,      \* hch-index
  Deepeners,    \* threads of hch-web and processes that deepen
  NoProc,       \* nobody
  MaxBuilds,    \* bound: how many builds are started
  MaxDeepens,   \* bound: how many deepens are started
  MaxStops      \* bound: how many processes die or raise

Unlimited == -1
Names == {Name[f] : f \in Files}
Procs == Deepeners \cup {Builder}

ASSUME DesignAssumption ==
  /\ Files \subseteq Nat /\ IsFiniteSet(Files)
  /\ Kids \in [Files -> SUBSET Names]
  /\ Top \in Names
ASSUME BoundsAssumption ==
  /\ BatchSize \in Nat \ {0} /\ CommitEvery \in Nat \ {0}
  /\ Depths \subseteq Nat \cup {Unlimited}   \* shallow_depth must be >= 0
  /\ Hops \subseteq Nat \cup {Unlimited}
  /\ MaxBuilds \in Nat /\ MaxDeepens \in Nat /\ MaxStops \in Nat
ASSUME ProcAssumption == Builder \notin Deepeners /\ NoProc \notin Procs

VARIABLES
  db,         \* the committed database
  tx,         \* what the holder of the write lock sees; db when nobody holds it
  lock,       \* the connection with an open write transaction, or NoProc
  pc,         \* where each process is
  run,        \* the builder's memory
  job,        \* each deepen's memory
  started,    \* how many builds and deepens were started
  stops,      \* how many processes died or raised
  lapsed,     \* history: a run took the top out of the tree and nobody has stored it since
  disturbed   \* history: the tree is not what the stored depth and prefixes give

vars == <<db, tx, lock, pc, run, job, started, stops, lapsed, disturbed>>
-----------------------------------------------------------------------------
(***************************************************************************)
(* The design.                                                             *)
(***************************************************************************)
Lowest(S) == CHOOSE f \in S : \A g \in S : f <= g
Highest(S) == CHOOSE f \in S : \A g \in S : f >= g

\* build_module_primary_file_map
FirstFile(n) == Lowest({f \in Files : Name[f] = n})

AllKids(n) == UNION {Kids[f] : f \in {g \in Files : Name[g] = n}}

\* every instance path of the design, which has no cycle
Paths ==
  LET upTo[k \in Nat] ==
        IF k = 0 THEN {<<Top>>}
        ELSE upTo[k - 1] \cup UNION {{Append(p, n) : n \in AllKids(Last(p))} :
                                       p \in upTo[k - 1]}
  IN upTo[Cardinality(Names)]

Above(p) == {SubSeq(p, 1, i) : i \in 1..Len(p) - 1}
Under(p, prefixes) == \E q \in prefixes : IsPrefix(q, p)

(***************************************************************************)
(* elaborate_flat: how many levels below each path the flattening expands. *)
(***************************************************************************)
FlatHops(depth, deepened) ==
  LET hops[p \in Paths] ==
        IF \/ depth = Unlimited
           \/ Under(p, deepened)
           \/ p = <<Top>>
           \/ Last(p) \in Anchors
        THEN Unlimited
        ELSE IF hops[Front(p)] = Unlimited THEN depth ELSE hops[Front(p)] - 1
  IN hops

\* an instance whose module is not in the index is not stored
Flatten(mods, depth, deepened) ==
  LET hops == FlatHops(depth, deepened)
  IN {p \in Paths :
        /\ \A i \in DOMAIN p : p[i] \in DOMAIN mods
        /\ \A q \in Above(p) : hops[q] # 0 /\ p[Len(q) + 1] \in mods[Last(q)].kids}

(***************************************************************************)
(* classify_parse_sources_conditional: the files a depth policy wants      *)
(* parsed in full and those it wants skimmed.  Unlike the flattening it    *)
(* follows a branch below an anchor without limit, and knows one file per  *)
(* module name.                                                            *)
(***************************************************************************)
Classified(depth) ==
  LET hops[p \in Paths] ==
        IF p = <<Top>> THEN [left |-> Unlimited, branch |-> FALSE]
        ELSE IF Last(p) \in Anchors THEN [left |-> Unlimited, branch |-> TRUE]
        ELSE LET up == hops[Front(p)]
             IN IF up.left # Unlimited THEN [up EXCEPT !.left = @ - 1]
                ELSE IF up.branch THEN up
                ELSE [left |-> depth, branch |-> FALSE]
      reached ==
        {p \in Paths : \A q \in Above(p) :
           hops[q].left # 0 /\ p[Len(q) + 1] \in Kids[FirstFile(Last(q))]}
      full == {FirstFile(Last(p)) :
                 p \in {q \in reached : hops[q].branch \/ Last(q) \in Anchors}}
  IN [full |-> full, skim |-> {FirstFile(Last(p)) : p \in reached} \ full]

Wanted(depth) ==
  IF depth = Unlimited THEN [full |-> Files, skim |-> {}] ELSE Classified(depth)

(***************************************************************************)
(* Module records and their tables.                                        *)
(***************************************************************************)
\* _make_batches: consecutive chunks of the pending files
Batches(S) ==
  LET at(f) == Cardinality({g \in S : g < f}) \div BatchSize
  IN {{g \in S : at(g) = at(f)} : f \in S}

(***************************************************************************)
(* The records of one batch.  pyslang's records of one name are merged,    *)
(* and remember all their files; of skimmed ones the last file wins.       *)
(***************************************************************************)
Ingested(chunk, full) ==
  LET of(n) == {f \in chunk : Name[f] = n}
      defs(n) == IF full THEN of(n) ELSE {Highest(of(n))}
  IN [n \in {Name[f] : f \in chunk} |->
        [files |-> defs(n), kids |-> UNION {Kids[f] : f \in defs(n)}, full |-> full]]

\* merge_module_records; the file listed first is preferred
Merged(mods, batch) ==
  [n \in DOMAIN mods \cup DOMAIN batch |->
     IF n \notin DOMAIN batch THEN mods[n]
     ELSE LET new == [file |-> Lowest(batch[n].files), kids |-> batch[n].kids,
                      full |-> batch[n].full]
          IN IF n \notin DOMAIN mods THEN new
             ELSE IF mods[n].full /\ ~new.full THEN mods[n]
             ELSE [file |-> Lowest({mods[n].file, new.file}),
                   kids |-> mods[n].kids \cup new.kids,
                   full |-> mods[n].full \/ new.full]]

(***************************************************************************)
(* load_modules: INSERT OR REPLACE by file and name.  A record of several  *)
(* files is stored under its primary file; the others get alias rows       *)
(* without instances, written after it.                                    *)
(***************************************************************************)
Replaced(new, old) ==
  [x \in DOMAIN new \cup DOMAIN old |-> IF x \in DOMAIN new THEN new[x] ELSE old[x]]

\* the rows a batch writes anew: a row that is replaced gets another id
Rewritten(d, batch) == UNION {batch[n].files : n \in DOMAIN batch} \cap DOMAIN d.rows

(***************************************************************************)
(* insts are the instances the readers' joins with modules return.  A      *)
(* batch takes away those whose module has only rewritten rows, and of a   *)
(* module of several rows any that were resolved to a rewritten one; their *)
(* rows stay behind with an id nobody has any more.                        *)
(***************************************************************************)
Orphanings(d, batch) ==
  LET rows(p) == {f \in DOMAIN d.rows : Name[f] = Last(p)}
      touched == {p \in d.insts : rows(p) \cap Rewritten(d, batch) # {}}
  IN {lost \in SUBSET touched : {p \in touched : rows(p) \subseteq Rewritten(d, batch)} \subseteq lost}

Stored(d, batch, lost) ==
  LET primary(n) == Lowest(batch[n].files)
      rows == [f \in UNION {batch[n].files : n \in DOMAIN batch} |->
                 LET n == Name[f]
                 IN [kids |-> IF f = primary(n) THEN batch[n].kids ELSE {},
                     full |-> batch[n].full \/ f # primary(n)]]
      latest == [n \in DOMAIN batch |-> Highest(batch[n].files)]
  IN [d EXCEPT !.rows = Replaced(rows, @), !.latest = Replaced(latest, @),
               !.insts = @ \ lost]

\* load_all_modules: of several rows of one name the last one written wins
LoadAll(d) ==
  [n \in DOMAIN d.latest |->
     LET row == d.rows[d.latest[n]]
     IN [file |-> d.latest[n], kids |-> row.kids, full |-> row.full]]
-----------------------------------------------------------------------------
(***************************************************************************)
(* Transactions.                                                           *)
(***************************************************************************)
NoRows == [f \in {} |-> {}]

\* what a process remembers ends with its run
NoRun == [mode |-> "resume", depth |-> Unlimited, done |-> {}, mods |-> NoRows,
          skim |-> {}, full |-> {}, total |-> 0]
NoJob == [path |-> <<Top>>, hops |-> 0, deepened |-> {}, depth |-> Unlimited,
          mods |-> NoRows, known |-> {}, before |-> {}, alone |-> FALSE]

Init ==
  /\ db = [rows |-> NoRows, latest |-> NoRows, insts |-> {}, done |-> {},
           complete |-> FALSE, depth |-> Unlimited, deepened |-> {}]
  /\ tx = db
  /\ lock = NoProc
  /\ pc = [p \in Procs |-> "idle"]
  /\ run = NoRun
  /\ job = [d \in Deepeners |-> NoJob]
  /\ started = [builds |-> 0, deepens |-> 0]
  /\ stops = 0
  /\ lapsed = FALSE
  /\ disturbed = FALSE

Goto(p, from, to) == pc[p] = from /\ pc' = [pc EXCEPT ![p] = to]

\* p changes the database to d, and keeps its transaction open
Write(p, d) ==
  /\ lock \in {NoProc, p}
  /\ lock' = p
  /\ tx' = d
  /\ UNCHANGED db

Commit(p, d) ==
  /\ lock \in {NoProc, p}
  /\ lock' = NoProc
  /\ tx' = d
  /\ db' = d

\* history: somebody else commits while p's deepen is under way
Overlap(p, jobs) == [d \in Deepeners |-> [jobs[d] EXCEPT !.alone = @ /\ d = p]]

-----------------------------------------------------------------------------
(***************************************************************************)
(* build_index_batched.                                                    *)
(***************************************************************************)
StartBuild(mode, depth) ==
  /\ started.builds < MaxBuilds
  /\ Goto(Builder, "idle", IF mode = "force" THEN "erase" ELSE "open")
  /\ started' = [started EXCEPT !.builds = @ + 1]
  /\ run' = [run EXCEPT !.mode = mode, !.depth = depth]
  /\ UNCHANGED <<db, tx, lock, job, stops, lapsed, disturbed>>

\* mutant: the checkpoint survives --force
EraseTablesVariant ==
  /\ Goto(Builder, "erase", "unmark")
  /\ Commit(Builder, [tx EXCEPT !.rows = NoRows, !.latest = NoRows, !.insts = {}])
  /\ job' = Overlap(Builder, job)
  /\ disturbed' = TRUE
  /\ UNCHANGED <<run, started, stops, lapsed>>

\* --force deletes the tables; set_meta commits them before the flag is cleared
EraseTables ==
  /\ Goto(Builder, "erase", "unmark")
  /\ Commit(Builder, [tx EXCEPT !.rows = NoRows, !.latest = NoRows,
                                !.insts = {}, !.done = {}])
  /\ job' = Overlap(Builder, job)
  /\ disturbed' = TRUE
  /\ UNCHANGED <<run, started, stops, lapsed>>

\* mutant: --force leaves the index complete
MarkIncompleteVariant ==
  /\ Goto(Builder, "unmark", "open")
  /\ Commit(Builder, tx)
  /\ job' = Overlap(Builder, job)
  /\ UNCHANGED <<run, started, stops, lapsed, disturbed>>

MarkIncomplete ==
  /\ Goto(Builder, "unmark", "open")
  /\ Commit(Builder, [tx EXCEPT !.complete = FALSE])
  /\ job' = Overlap(Builder, job)
  /\ UNCHANGED <<run, started, stops, lapsed, disturbed>>

\* mutant: a resumed run skips the files of the checkpoint and loads no modules
OpenRunVariant ==
  LET done == IF run.mode = "fresh" THEN {} ELSE tx.done
      skim == Batches(Wanted(run.depth).skim \ done)
      full == Batches(Wanted(run.depth).full \ done)
      depth == IF run.depth = Unlimited THEN tx.depth ELSE run.depth
  IN /\ Goto(Builder, "open", IF skim = {} THEN "full" ELSE "skim")
     /\ Commit(Builder, [tx EXCEPT !.depth = depth])
     /\ run' = [run EXCEPT !.done = done, !.skim = skim, !.full = full, !.mods = NoRows,
                           !.total = Cardinality(skim) + Cardinality(full)]
     /\ job' = Overlap(Builder, job)
     /\ disturbed' = (disturbed \/ depth # tx.depth)
     /\ UNCHANGED <<started, stops, lapsed>>

(***************************************************************************)
(* The settings of the run are stored - those of a depth policy only if    *)
(* there is one - the modules loaded and the pending files put in batches. *)
(***************************************************************************)
OpenRun ==
  LET fresh == run.mode = "fresh"
      done == IF fresh THEN {} ELSE tx.done
      skim == Batches(Wanted(run.depth).skim \ done)
      full == Batches(Wanted(run.depth).full \ done)
      depth == IF run.depth = Unlimited THEN tx.depth ELSE run.depth
  IN /\ Goto(Builder, "open", IF skim = {} THEN "full" ELSE "skim")
     /\ Commit(Builder, [tx EXCEPT !.depth = depth])
     /\ run' = [run EXCEPT !.done = done, !.skim = skim, !.full = full,
                           !.mods = IF fresh THEN NoRows ELSE LoadAll(tx),
                           !.total = Cardinality(skim) + Cardinality(full)]
     /\ job' = Overlap(Builder, job)
     /\ disturbed' = (disturbed \/ depth # tx.depth)
     /\ UNCHANGED <<started, stops, lapsed>>

(***************************************************************************)
(* _on_batch_done, in the order in which the workers finish.               *)
(***************************************************************************)
BatchDone(phase, chunk) ==
  LET batch == Ingested(chunk, phase = "full")
      left == Cardinality(run.skim) + Cardinality(run.full) - 1
      done == run.done \cup chunk
      commits == (run.total - left) % CommitEvery = 0 \/ left = 0
  IN /\ pc[Builder] = phase
     /\ chunk \in run[phase]
     /\ \E lost \in Orphanings(tx, batch) :
          LET stored == Stored(tx, batch, lost)
          IN IF commits
             THEN Commit(Builder, [stored EXCEPT !.done = done]) /\ job' = Overlap(Builder, job)
             ELSE Write(Builder, stored) /\ UNCHANGED job
     /\ run' = [run EXCEPT ![phase] = @ \ {chunk}, !.done = done,
                           !.mods = Merged(@, batch)]
     /\ UNCHANGED <<pc, started, stops, lapsed, disturbed>>

\* parse_skim_count is set without a commit
SkimPhaseEnds ==
  /\ run.skim = {}
  /\ Goto(Builder, "skim", "full")
  /\ Write(Builder, tx)
  /\ UNCHANGED <<run, job, started, stops, lapsed, disturbed>>

(***************************************************************************)
(* The instances are cleared in a transaction of their own; the next one   *)
(* flattens the modules in memory and stores the result.                   *)
(***************************************************************************)
ClearInstances ==
  /\ run.full = {}
  /\ Goto(Builder, "full", "load")
  /\ Commit(Builder, [tx EXCEPT !.insts = {}])
  /\ job' = Overlap(Builder, job)
  /\ UNCHANGED <<run, started, stops, lapsed, disturbed>>

LoadInstances ==
  LET flat == {p \in Flatten(run.mods, run.depth, tx.deepened) :
                 Last(p) \in DOMAIN tx.latest}
  IN /\ Goto(Builder, "load", "finish")
     /\ Commit(Builder, [tx EXCEPT !.insts = @ \cup flat])
     /\ job' = Overlap(Builder, job)
     /\ lapsed' = FALSE
     /\ disturbed' = \/ tx.depth # run.depth
                     \/ tx.insts # {}
                     \/ \E d \in Deepeners : pc[d] # "idle"
     /\ UNCHANGED <<run, started, stops>>

FinishBuild ==
  /\ Goto(Builder, "finish", "idle")
  /\ Commit(Builder, [tx EXCEPT !.complete = TRUE])
  /\ job' = Overlap(Builder, job)
  /\ run' = NoRun
  /\ UNCHANGED <<started, stops, lapsed, disturbed>>

-----------------------------------------------------------------------------
\* mutant: the earlier prefixes are forgotten
StartDeepenVariant(d, path, hops) ==
  /\ started.deepens < MaxDeepens
  /\ db.complete
  /\ path \in db.insts
  /\ Goto(d, "idle", "claim")
  /\ started' = [started EXCEPT !.deepens = @ + 1]
  /\ job' = [job EXCEPT ![d] =
               [path |-> path, hops |-> hops, deepened |-> {path},
                depth |-> db.depth, mods |-> NoRows, known |-> {}, before |-> db.insts,
                alone |-> \A p \in Procs \ {d} : pc[p] = "idle"]]
  /\ UNCHANGED <<db, tx, lock, run, stops, lapsed, disturbed>>

(***************************************************************************)
(* deepen_branch.  The settings and the deepened prefixes are read before  *)
(* the transaction that stores them begins.                                *)
(***************************************************************************)
StartDeepen(d, path, hops) ==
  /\ started.deepens < MaxDeepens
  /\ db.complete
  /\ path \in db.insts
  /\ Goto(d, "idle", "claim")
  /\ started' = [started EXCEPT !.deepens = @ + 1]
  /\ job' = [job EXCEPT ![d] =
               [path |-> path, hops |-> hops, deepened |-> db.deepened \cup {path},
                depth |-> db.depth, mods |-> NoRows, known |-> {}, before |-> db.insts,
                alone |-> \A p \in Procs \ {d} : pc[p] = "idle"]]
  /\ UNCHANGED <<db, tx, lock, run, stops, lapsed, disturbed>>

\* save_deepened_prefixes opens the transaction in which the modules are loaded
ClaimDeepen(d) ==
  /\ Goto(d, "claim", "parse")
  /\ Write(d, [tx EXCEPT !.deepened = job[d].deepened])
  /\ job' = [job EXCEPT ![d].mods = LoadAll(tx), ![d].known = DOMAIN tx.latest]
  /\ UNCHANGED <<run, started, stops, lapsed, disturbed>>

\* mutant: a module the index does not know has no file
DeepenSourcesVariant(mods, n, hops) ==
  LET reach[k \in Nat] ==
        IF k = 0 THEN {n}
        ELSE reach[k - 1] \cup
             UNION {mods[m].kids : m \in reach[k - 1] \cap DOMAIN mods}
      levels == IF hops = Unlimited THEN Cardinality(Names) ELSE hops
  IN {mods[m].file : m \in reach[levels] \cap DOMAIN mods}

(***************************************************************************)
(* collect_deepen_sources: the files of the modules below the path, as far *)
(* as the index knows their children.                                      *)
(***************************************************************************)
DeepenSources(mods, n, hops) ==
  LET reach[k \in Nat] ==
        IF k = 0 THEN {n}
        ELSE reach[k - 1] \cup
             UNION {mods[m].kids : m \in reach[k - 1] \cap DOMAIN mods}
      levels == IF hops = Unlimited THEN Cardinality(Names) ELSE hops
  IN {IF m \in DOMAIN mods THEN mods[m].file ELSE FirstFile(m) : m \in reach[levels]}

\* all files are one batch, committed with the prefixes
ParseDeepen(d) ==
  LET j == job[d]
      batch == Ingested(DeepenSources(j.mods, Last(j.path), j.hops), TRUE)
  IN /\ Goto(d, "parse", "clear")
     /\ \E lost \in Orphanings(tx, batch) : Commit(d, Stored(tx, batch, lost))
     /\ job' = Overlap(d, [job EXCEPT ![d].mods = Merged(@, batch)])
     /\ disturbed' = (disturbed \/ ~j.alone)
     /\ UNCHANGED <<run, started, stops, lapsed>>

ClearForDeepen(d) ==
  /\ Goto(d, "clear", "load")
  /\ Commit(d, [tx EXCEPT !.insts = {}])
  /\ job' = Overlap(d, job)
  /\ UNCHANGED <<run, started, stops, lapsed, disturbed>>

\* the flattening uses the modules, the prefixes and the depth the deepen has read
LoadDeepened(d) ==
  LET j == job[d]
      flat == {p \in Flatten(j.mods, j.depth, j.deepened) : Last(p) \in DOMAIN tx.latest}
  IN /\ Goto(d, "load", "idle")
     /\ Commit(d, [tx EXCEPT !.insts = @ \cup flat])
     /\ job' = Overlap(d, [job EXCEPT ![d] = NoJob])
     /\ lapsed' = (<<Top>> \notin flat)
     /\ disturbed' = (disturbed \/ ~j.alone)
     /\ UNCHANGED <<run, started, stops>>

-----------------------------------------------------------------------------
\* p has erased or cleared the tree, or may have orphaned what is stored of it,
\* and has not stored the new one
Replacing(p) == pc[p] \in {"unmark", "skim", "full", "clear", "load"}

\* an open transaction is lost with its connection
Abandon(p) ==
  /\ pc' = [pc EXCEPT ![p] = "idle"]
  /\ lock' = IF lock = p THEN NoProc ELSE lock
  /\ tx' = IF lock = p THEN db ELSE tx
  /\ lapsed' = (lapsed \/ (Replacing(p) /\ <<Top>> \notin db.insts))
  /\ disturbed' = (disturbed \/ pc[p] = "load")
  /\ run' = IF p = Builder THEN NoRun ELSE run
  /\ job' = [d \in Deepeners |-> IF d = p THEN NoJob ELSE job[d]]
  /\ UNCHANGED <<db, started>>

\* the process dies, or its parser raises
Stop(p) ==
  /\ pc[p] # "idle"
  /\ stops < MaxStops
  /\ stops' = stops + 1
  /\ Abandon(p)

\* "database is locked": somebody else kept a transaction open for too long
TimeOut(p) ==
  /\ pc[p] # "idle"
  /\ lock \notin {NoProc, p}
  /\ Abandon(p)
  /\ UNCHANGED stops

\* nobody has anything left to do
Rest == (\A p \in Procs : pc[p] = "idle") /\ UNCHANGED vars

Next ==
  \/ \E mode \in Modes, depth \in Depths : StartBuild(mode, depth)
  \/ EraseTables
  \/ MarkIncomplete
  \/ OpenRun
  \/ \E phase \in {"skim", "full"} : \E chunk \in run[phase] : BatchDone(phase, chunk)
  \/ SkimPhaseEnds
  \/ ClearInstances
  \/ LoadInstances
  \/ FinishBuild
  \/ \E d \in Deepeners :
       \/ \E path \in db.insts, hops \in Hops : StartDeepen(d, path, hops)
       \/ ClaimDeepen(d)
       \/ ParseDeepen(d)
       \/ ClearForDeepen(d)
       \/ LoadDeepened(d)
  \/ \E p \in Procs : Stop(p) \/ TimeOut(p)
  \/ Rest

Spec == Init /\ [][Next]_vars
-----------------------------------------------------------------------------
TypeOK ==
  /\ DOMAIN db.rows \subseteq Files /\ DOMAIN db.latest \subseteq Names
  /\ \A f \in DOMAIN db.rows : db.rows[f] \in [kids : SUBSET Names, full : BOOLEAN]
  /\ \A n \in DOMAIN db.latest : db.latest[n] \in DOMAIN db.rows
  /\ db.insts \subseteq Paths /\ db.deepened \subseteq Paths
  /\ db.done \subseteq Files /\ db.complete \in BOOLEAN
  /\ db.depth \in Depths \cup {Unlimited}
  /\ lock \in Procs \cup {NoProc}
  /\ lock = NoProc => tx = db
  /\ \A p \in Procs : lock = p => pc[p] # "idle"

(***************************************************************************)
(* The checkpoint never runs ahead of the modules: whatever was killed,    *)
(* raised or interleaved, a file that a resumed run will skip has its      *)
(* edges in the committed tables, which are well formed.                   *)
(***************************************************************************)
CheckpointIsBacked ==
  /\ TypeOK
  /\ \A f \in db.done : f \in DOMAIN db.rows /\ db.rows[f].kids = Kids[f]

(***************************************************************************)
(* An index that says it is complete shows its top (db_service.py:212),    *)
(* but while somebody replaces the modules or the tree, and but for a run  *)
(* that took the top away and did not come back.                           *)
(***************************************************************************)
EmptyTreeIsExcused ==
  db.complete /\ <<Top>> \notin db.insts => lapsed \/ \E p \in Procs : Replacing(p)

\* the tree an undisturbed first build with this depth would store
FreshTree(depth) ==
  LET wanted == Wanted(depth)
      fresh == Ingested(wanted.full \cup wanted.skim, TRUE)
  IN Flatten(fresh, depth, {})

(***************************************************************************)
(* A build that ends shows at least the tree a first build with the same   *)
(* options shows, however many builds were cut off before it and whatever  *)
(* it resumed (PROGRESS.md: edges are "persisted for resume + flatten").   *)
(***************************************************************************)
BuildIsAsFresh == [][LoadInstances => FreshTree(run.depth) \subseteq db'.insts]_vars

(***************************************************************************)
(* A deepen that nobody overlaps takes nothing out of the tree, as long as *)
(* the tree was flattened with the depth stored beside it (help text:      *)
(* "Re-flattens entire hierarchy after deepen (other branches unchanged)").*)
(***************************************************************************)
DeepenOnlyGrows ==
  [][\A d \in Deepeners :
       LoadDeepened(d) /\ job[d].alone /\ ~disturbed
         => job[d].before \subseteq db'.insts]_vars

(***************************************************************************)
(* Such a deepen also shows every level below its branch, within the depth *)
(* asked for, down to the first modules that were not in the index.        *)
(***************************************************************************)
DeepenReachesNextLevel ==
  [][\A d \in Deepeners :
       LoadDeepened(d) /\ job[d].alone /\ ~disturbed
         => LET j == job[d]
            IN \A q \in Paths :
                 /\ IsPrefix(j.path, q)
                 /\ j.hops = Unlimited \/ Len(q) - Len(j.path) <= j.hops
                 /\ \A i \in 1..Len(q) - 1 : q[i] \in j.known
                 => q \in db'.insts]_vars
=============================================================================
