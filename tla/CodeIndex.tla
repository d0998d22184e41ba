------------------------------- MODULE CodeIndex -------------------------------
(***************************************************************************)
(* The code index of a project: the indexer thread that keeps it current,  *)
(* the queries of the model's tools that wait for it, and the commands     *)
(* that change its filter, its limits and its budget meanwhile             *)
(* (code_index/store.py, code_index/build.py, Harness._start_index).       *)
(*                                                                         *)
(* A file is a number, in the order the project is listed; its content is  *)
(* the version on disk, which is also its stat.  An entry costs 1, its     *)
(* identifier rows 1 more; the text signatures are dropped before the      *)
(* rows and are not modelled.                                              *)
(***************************************************************************)
EXTENDS Naturals, FiniteSets, SequencesExt

CONSTANTS
  Files,         \* the project's files, 1..n
  Budgets,       \* the memory budgets the user can set
  Limits,        \* the file limits
  PARALLEL_MIN,  \* _PARALLEL_MIN
  COMPACT_AFTER, \* _COMPACT_AFTER
  MaxChanges,    \* bound: changes of files
  MaxCommands,   \* bound: commands of the user
  Races          \* FALSE leaves out the interleavings in which the code answers from a
                 \* stale index: see Seen, Alone and Settling

VARIABLES
  disk,    \* the version of each file, 0: there is none
  set,     \* the user's settings: excluded files, file limit, budget
  ix,      \* what the lock protects: entries, rows, queue, flags
  worker, workerDiff,  \* the indexer thread, and its stat-diff
  query, queryDiff,    \* the harness thread when it asks the index, and its stat-diff
  flight, pool,        \* the files the worker holds outside the lock; in worker processes
  saved,   \* the pickle, with the budget it was made under
  clock,   \* the time of the last change: the stat of the file changed then
  used     \* commands so far

indexVars == <<disk, set, ix, worker, workerDiff, query, queryDiff, flight, pool, saved,
              clock, used>>

Ids == 1..(2 * Cardinality(Files) + COMPACT_AFTER)
None == [file |-> 0, stamp |-> 0]
NotSkipped == [why |-> "", stamp |-> 0]
NoDiff == [stage |-> "off", gen |-> 0, listed |-> {}, beyond |-> {}, over |-> FALSE, changed |-> {}]

Empty == [files |-> [i \in Ids |-> None], dead |-> {}, rows |-> {}, idents |-> TRUE,
          partial |-> FALSE, skipped |-> [f \in Files |-> NotSkipped], queue |-> {},
          beyond |-> {}, busy |-> FALSE, built |-> FALSE, rescan |-> FALSE, gen |-> 0,
          dirty |-> TRUE, broken |-> FALSE]

Init ==
  /\ disk = [f \in Files |-> 1] /\ clock = 1
  /\ set = [out |-> {}, limit |-> Max(Limits), budget |-> Max(Budgets)]
  /\ ix = Empty
  /\ worker = "start" /\ workerDiff = NoDiff /\ query = "idle" /\ queryDiff = NoDiff
  /\ flight = {} /\ pool = FALSE /\ saved = [ix |-> Empty, budget |-> Max(Budgets)] /\ used = 0

\* A change is seen if a diff follows it: no query makes one before the first build is
\* done, and a file that is deleted while it is first built is unknown to the diff.
Seen(f, gone) ==
  Races \/ (ix.built /\ (gone => f \notin {r.file : r \in flight} \/ \E i \in DOMAIN ix.files : ix.files[i].file = f))

\* A build that began without identifiers is applied after they are wanted again.
Alone == Races \/ flight = {}

\* The file limit bites, and the worker drops a file past it between a query's stat
\* and the moment its listing lets the file in.
Biting == Cardinality(Files) > set.limit
Settling == ~Races /\ Biting /\ (ix.queue # {} \/ ix.busy \/ ix.rescan)

-----------------------------------------------------------------------------
(* The store; the lock is held *)

Alive(x) == {i \in Ids : x.files[i].file # 0}
Indexed(x) == {x.files[i].file : i \in Alive(x)}
IdOf(x, f) == CHOOSE i \in Alive(x) : x.files[i].file = f
Stamp(x, f) == IF f \in Indexed(x) THEN x.files[IdOf(x, f)].stamp ELSE 0
Mem(x) == Cardinality(Alive(x)) + Cardinality({r \in x.rows : r.id \in Alive(x)})

\* _unpartial: what the budget left out is queued again.
Unpartial(x) ==
  LET left == {f \in Files : x.skipped[f].why = "budget"}
  IN [x EXCEPT !.partial = FALSE, !.queue = @ \cup left,
               !.skipped = [f \in Files |-> IF f \in left THEN NotSkipped ELSE @[f]]]

\* _enforce_budget: first the rows go, then no further file is let in.
Enforced(x) ==
  IF Mem(x) <= set.budget THEN x
  ELSE LET bare == [x EXCEPT !.idents = FALSE, !.rows = {}]
       IN [bare EXCEPT !.partial = @ \/ Mem(bare) > set.budget]

\* _compact
Compacted(x) == [x EXCEPT !.rows = {r \in @ : r.id \notin x.dead}, !.dead = {}]

\* An id is used again only after the rows of its file are gone.
FreeIds(x) == Ids \ (Alive(x) \cup x.dead)

\* _remove
Removed(x, f) ==
  IF f \notin Indexed(x) THEN x
  ELSE [x EXCEPT !.files[IdOf(x, f)] = None, !.dead = @ \cup {IdOf(x, f)}]

\* _apply: stamp 0 is no entry; what is left out is remembered with its stat.
Applied(x, f, stamp, rows, skip) ==
  LET r == [Removed(x, f) EXCEPT !.skipped[f] = skip]
      i == Min(FreeIds(r))
  IN IF stamp = 0 THEN IF r.partial /\ 5 * Mem(r) <= 4 * set.budget THEN Unpartial(r) ELSE r
     ELSE Enforced([r EXCEPT !.files[i] = [file |-> f, stamp |-> stamp],
                             !.rows = IF rows /\ r.idents
                                      THEN @ \cup {[id |-> i, file |-> f, stamp |-> stamp]} ELSE @])

Skip(why, f) == IF disk[f] = 0 THEN NotSkipped ELSE [why |-> why, stamp |-> disk[f]]

\* _settled: a file nobody needs to read.
Excluded(x, f) == f \in x.beyond \/ f \in set.out
LeftOut(x, f) == x.partial /\ f \notin Indexed(x)
Settled(x, f) == Excluded(x, f) \/ LeftOut(x, f)
Settle(x, f) ==
  Applied(x, f, 0, FALSE, IF Excluded(x, f) THEN NotSkipped ELSE Skip("budget", f))

\* _built_rebuild
RebuildAll(x) == [x EXCEPT !.queue = @ \cup Indexed(x), !.rescan = TRUE]

-----------------------------------------------------------------------------
(* The stat-diff, in the worker or in a query's thread: list under no lock, stat, *)
(* publish                                                                         *)

Present == {f \in Files : disk[f] # 0}
\* The files listed within the limit.
Listed == LET in == Present \ set.out IN {f \in in : Cardinality({g \in in : g < f}) < set.limit}

DiffList ==
  LET past == (Present \ set.out) \ Listed
  IN [NoDiff EXCEPT !.stage = "stat", !.gen = ix.gen, !.listed = Listed,
                    !.beyond = IF past = {} THEN {} ELSE {Min(past)}, !.over = past # {}]

DiffStat(d) ==
  LET known == Indexed(ix) \cup {f \in Files : ix.skipped[f].stamp # 0}
      at(f) == IF f \in Indexed(ix) THEN Stamp(ix, f) ELSE ix.skipped[f].stamp
      gone == known \ d.listed
  IN [d EXCEPT !.stage = "publish",
               !.changed = {f \in d.listed : at(f) # disk[f]} \cup gone,
               !.beyond = IF d.over THEN @ \cup gone ELSE @]

\* Else a newer filter or limit lists again.
Current(d) == d.gen = ix.gen

DiffPublish(d) ==
  [ix EXCEPT !.beyond = IF Current(d) THEN d.beyond ELSE @, !.queue = @ \cup d.changed]

-----------------------------------------------------------------------------
(* The indexer thread *)

\* _run: load the pickle; saved over a smaller budget, what it dropped is rebuilt.
Loaded ==
  LET x == [saved.ix EXCEPT !.queue = ix.queue, !.dirty = ix.dirty, !.gen = ix.gen,
                            !.rescan = ix.rescan, !.busy = FALSE, !.built = FALSE, !.beyond = {}]
      degraded == x.partial \/ ~x.idents
  IN Enforced(IF degraded /\ set.budget > saved.budget
              THEN RebuildAll(Unpartial([x EXCEPT !.idents = TRUE])) ELSE x)

WorkerStart ==
  /\ worker = "start" /\ ix' = Loaded /\ worker' = "list"
  /\ UNCHANGED <<disk, set, workerDiff, query, queryDiff, flight, pool, saved, clock, used>>

\* The first diff, and the one of a re-scan.
WorkerDiff ==
  /\ \/ /\ worker = "list" /\ workerDiff' = DiffList /\ ix' = [ix EXCEPT !.dirty = FALSE]
        /\ worker' = "diff"
     \/ /\ worker = "diff" /\ workerDiff.stage = "stat" /\ workerDiff' = DiffStat(workerDiff)
        /\ UNCHANGED <<ix, worker>>
     \/ /\ worker = "diff" /\ workerDiff.stage = "publish" /\ workerDiff' = NoDiff
        /\ ix' = [DiffPublish(workerDiff) EXCEPT !.busy = FALSE] /\ worker' = "loop"
  /\ UNCHANGED <<disk, set, query, queryDiff, flight, pool, saved, clock, used>>

Step == worker = "loop" /\ UNCHANGED <<disk, set, workerDiff, query, queryDiff, saved, clock, used>>

Rescan ==
  /\ Step /\ ix.rescan /\ flight = {} /\ ~pool
  /\ ix' = [ix EXCEPT !.rescan = FALSE, !.busy = TRUE] /\ worker' = "list"
  /\ UNCHANGED <<flight, pool>>

Free == ~ix.rescan /\ flight = {} /\ ~pool

Rest ==
  /\ Step /\ Free /\ ix.queue = {} /\ (ix.dead # {} \/ ~ix.built)
  /\ ix' = [Compacted(ix) EXCEPT !.built = TRUE]
  /\ UNCHANGED <<worker, flight, pool>>

Taken(f) == [file |-> f, done |-> FALSE, stamp |-> 0, rows |-> ix.idents, skip |-> NotSkipped]
Parallel == Cardinality(ix.queue) >= PARALLEL_MIN /\ ~ix.broken

TakeOne(f) ==
  /\ Step /\ Free /\ f \in ix.queue /\ ~Parallel
  /\ ix' = [ix EXCEPT !.queue = @ \ {f}, !.busy = TRUE]
  /\ flight' = {IF Settled(ix, f)
                THEN [Taken(f) EXCEPT !.done = TRUE,
                        !.skip = IF Excluded(ix, f) THEN NotSkipped ELSE Skip("budget", f)]
                ELSE Taken(f)}
  /\ UNCHANGED <<worker, pool>>

\* _take_local: the batch's settled files at once, the rest to worker processes.
TakeAll ==
  /\ Step /\ Free /\ ix.queue # {} /\ Parallel
  /\ LET one(p, f) == IF Settled(p.x, f) THEN [p EXCEPT !.x = Settle(p.x, f)]
                      ELSE [p EXCEPT !.rest = @ \cup {f}]
         all == FoldLeft(one, [x |-> [ix EXCEPT !.queue = {}, !.busy = TRUE], rest |-> {}],
                         SetToSortSeq(ix.queue, <))
     IN ix' = all.x /\ flight' = {Taken(f) : f \in all.rest}
  /\ pool' = TRUE /\ UNCHANGED worker

\* _build_entry: what the disk holds now; an unreadable file is left out.
Build(r) ==
  /\ Step /\ r \in flight /\ ~r.done
  /\ \/ flight' = (flight \ {r}) \cup {[r EXCEPT !.done = TRUE, !.stamp = disk[r.file]]}
     \/ flight' = (flight \ {r}) \cup {[r EXCEPT !.done = TRUE, !.skip = Skip("error", r.file)]}
  /\ UNCHANGED <<ix, worker, pool>>

Tidied(x) == IF Cardinality(x.dead) >= COMPACT_AFTER THEN Compacted(x) ELSE x

ApplyOne(r) ==
  /\ Step /\ ~pool /\ r \in flight /\ r.done
  /\ ix' = [Tidied(Applied(ix, r.file, r.stamp, r.rows, r.skip)) EXCEPT !.busy = FALSE]
  /\ flight' = {} /\ UNCHANGED <<worker, pool>>

\* Mutant of BuiltCurrent: what was queued while it was built is not built again.
BuiltAnyway(f, stamp) == TRUE
\* _built_current
BuiltCurrent(f, stamp) == stamp = disk[f]

\* _apply_built
ApplyBuilt(r) ==
  /\ Step /\ pool /\ r \in flight /\ r.done
  /\ LET f == r.file
         settled == Settled(ix, f)
         x == IF settled THEN Settle(ix, f) ELSE Applied(ix, f, r.stamp, r.rows, r.skip)
         stamp == IF settled THEN (IF Excluded(ix, f) THEN 0 ELSE disk[f])
                  ELSE IF r.stamp # 0 THEN r.stamp ELSE r.skip.stamp
     IN ix' = Tidied([x EXCEPT !.queue = IF BuiltCurrent(f, stamp) THEN @ \ {f} ELSE @])
  /\ flight' = flight \ {r} /\ UNCHANGED <<worker, pool>>

\* The files not yet handed out go back to the queue: on a re-scan, or because the
\* pool broke, with those that were.
Back(rs) == flight' = flight \ rs /\ rs # {}
Requeue ==
  /\ Step /\ pool
  /\ \/ ix.rescan /\ Back({r \in flight : ~r.done})
        /\ ix' = [ix EXCEPT !.queue = @ \cup {r.file : r \in flight \ flight'}]
     \/ Back(flight) /\ ix' = [ix EXCEPT !.queue = @ \cup {r.file : r \in flight}, !.broken = TRUE]
  /\ UNCHANGED <<worker, pool>>

PoolDone ==
  /\ Step /\ pool /\ flight = {} /\ pool' = FALSE
  /\ ix' = [ix EXCEPT !.busy = FALSE] /\ UNCHANGED <<worker, flight>>

-----------------------------------------------------------------------------
(* The harness thread *)

Turn == query = "idle" /\ UNCHANGED <<set, worker, workerDiff, query, queryDiff, flight, pool, saved, used>>

\* It is written, or deleted.
Change(f, gone) ==
  /\ clock <= MaxChanges /\ clock' = clock + 1 /\ (gone => disk[f] # 0)
  /\ disk' = [disk EXCEPT ![f] = IF gone THEN 0 ELSE clock + 1]

Invalidated(f) == IF f \in Indexed(ix) \/ f \notin set.out THEN {f} ELSE {}

\* A tool writes or deletes a file; the dispatcher tells the index.
Edit(f, gone) ==
  /\ Turn /\ Change(f, gone) /\ (Biting => Seen(f, gone))
  /\ ix' = [ix EXCEPT !.queue = @ \cup Invalidated(f)]

\* A shell command did: mark_dirty.
Shell(f, gone) ==
  /\ Turn /\ Change(f, gone) /\ Seen(f, gone)
  /\ ix' = [ix EXCEPT !.dirty = TRUE]

\* wait_fresh: _maybe_diff leaves the first diff to the worker; a slow tree is
\* stat'ed again only when something may have changed.
Ask ==
  /\ query = "idle"
  /\ \/ ix.built /\ query' = "list"
     \/ (~ix.built \/ (Races /\ ~ix.dirty)) /\ query' = "wait"
  /\ UNCHANGED <<disk, set, ix, worker, workerDiff, queryDiff, flight, pool, saved, clock, used>>

QueryDiff ==
  /\ \/ /\ query = "list" /\ ~Settling /\ queryDiff' = DiffList /\ ix' = [ix EXCEPT !.dirty = FALSE]
        /\ query' = "diff"
     \/ /\ query = "diff" /\ queryDiff.stage = "stat" /\ queryDiff' = DiffStat(queryDiff)
        /\ UNCHANGED <<ix, query>>
     \/ /\ query = "diff" /\ queryDiff.stage = "publish" /\ queryDiff' = NoDiff
        /\ ix' = DiffPublish(queryDiff) /\ query' = "wait"
  /\ UNCHANGED <<disk, set, worker, workerDiff, flight, pool, saved, clock, used>>

Fresh == ix.queue = {} /\ ~ix.busy /\ ~ix.rescan /\ ix.built

Answer ==
  /\ query = "wait" /\ Fresh /\ query' = "idle"
  /\ UNCHANGED <<disk, set, ix, worker, workerDiff, queryDiff, flight, pool, saved, clock, used>>

-----------------------------------------------------------------------------
(* The user's commands *)

Command == used < MaxCommands /\ used' = used + 1 /\ UNCHANGED <<disk, saved, clock>>
Running == UNCHANGED <<worker, workerDiff, query, queryDiff, flight, pool>>

\* set_filter, set_max_files
SetListing(s) ==
  /\ Command /\ Running /\ set' = s /\ s # set
  /\ ix' = [ix EXCEPT !.gen = @ + 1, !.rescan = TRUE]

\* set_max_bytes: a smaller budget drops parts at once, a bigger one rebuilds them.
SetBudget(n) ==
  /\ Command /\ Running /\ n # set.budget /\ (n < set.budget \/ Alone)
  /\ set' = [set EXCEPT !.budget = n]
  /\ LET less == [ix EXCEPT !.idents = FALSE, !.rows = {},
                            !.partial = @ \/ Cardinality(Alive(ix)) > n]
     IN ix' = IF n < set.budget THEN IF Mem(ix) > n THEN less ELSE ix
              ELSE IF ix.partial \/ ~ix.idents
                   THEN RebuildAll(Unpartial([ix EXCEPT !.idents = TRUE])) ELSE ix

\* rebuild
Rebuild ==
  /\ Alone /\ Command /\ Running /\ UNCHANGED set
  /\ ix' = [Empty EXCEPT !.rescan = TRUE, !.busy = ix.busy, !.built = ix.built, !.gen = ix.gen,
                         !.dirty = ix.dirty, !.broken = ix.broken, !.beyond = ix.beyond]

\* /index off and on, or another launch: saved when it is complete, then loaded.
Restart ==
  /\ used < MaxCommands /\ used' = used + 1 /\ UNCHANGED <<disk, set, clock>>
  /\ saved' = IF Fresh THEN [ix |-> Compacted(ix), budget |-> set.budget] ELSE saved
  /\ ix' = Empty /\ worker' = "start" /\ workerDiff' = NoDiff /\ flight' = {} /\ pool' = FALSE
  /\ query' = "idle" /\ queryDiff' = NoDiff

Next ==
  \/ WorkerStart \/ WorkerDiff \/ Rescan \/ Rest \/ TakeAll \/ Requeue \/ PoolDone
  \/ \E f \in Files : TakeOne(f) \/ \E gone \in BOOLEAN : Edit(f, gone) \/ Shell(f, gone)
  \/ \E r \in flight : Build(r) \/ ApplyOne(r) \/ ApplyBuilt(r)
  \/ Ask \/ QueryDiff \/ Answer \/ Rebuild \/ Restart
  \/ \E out \in SUBSET Files : SetListing([set EXCEPT !.out = out])
  \/ \E n \in Limits : SetListing([set EXCEPT !.limit = n])
  \/ \E n \in Budgets : SetBudget(n)

Spec == Init /\ [][Next]_indexVars

-----------------------------------------------------------------------------
(* Properties *)

TypeOK ==
  /\ disk \in [Files -> 0..clock] /\ ix.dead \cap Alive(ix) = {}
  /\ Cardinality(Indexed(ix)) = Cardinality(Alive(ix))
  /\ flight # {} => ix.busy

\* "every index_* tool first calls wait_fresh(), so a result is never stale"
\* (code_index/__init__.py:7): a query is answered from the files on disk, all
\* that the filter and the limit let in and none the filter keeps out, whatever is edited, set, saved or in the hands of
\* a worker process; only what the budget or an unreadable file leaves out is missing.
FreshAnswersStep ==
  Answer => \A f \in Files :
    /\ Stamp(ix, f) \in {0, disk[f]} /\ f \in set.out => Stamp(ix, f) = 0
    /\ f \in Listed => \/ Stamp(ix, f) = disk[f]
                       \/ /\ ix.skipped[f].stamp = disk[f] /\ Stamp(ix, f) = 0
                          /\ ix.skipped[f].why = "budget" => ix.partial
FreshAnswers == [][FreshAnswersStep]_indexVars

\* The rows of an id are those of the entry that has it: no query finds the lines of
\* a removed file in the file that took its id (store.py:670).
RowsBelong ==
  \A r \in ix.rows : r.id \notin ix.dead => ix.files[r.id] = [file |-> r.file, stamp |-> r.stamp]

\* While the index says it has the identifiers, it has those of every file: the callers
\* a query lists are complete.
RowsCompleteStep ==
  Answer /\ ix.idents => \A i \in Alive(ix) : \E r \in ix.rows : r.id = i
RowsComplete == [][RowsCompleteStep]_indexVars
=============================================================================
