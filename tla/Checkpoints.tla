---------------------------- MODULE Checkpoints ----------------------------
(***************************************************************************)
(* The file checkpoints behind /undo and /keep (harness/checkpoints.py).   *)
(* The worker records what a write tool is about to touch and what it      *)
(* left; the frontends undo, revert and keep; the user edits the same      *)
(* files; the process may crash between any two steps.                     *)
(*                                                                         *)
(* A file's image is its content, or Absent.  Folders, links and file      *)
(* modes are left out, so a move is a call on two files.                   *)
(***************************************************************************)
EXTENDS Integers, FiniteSets, TLC

CONSTANTS
  Files,          \* the files tools touch
  MomoContents,   \* what a tool may leave in a file
  UserContents,   \* what the user, or a command, may leave in a file
  Big,            \* contents over MAX_FILE_BYTES: noted, not saved
  Absent,         \* the file does not exist
  MaxId,          \* bound: checkpoints made
  Caps,           \* values of /undo-max; 0 is no cap
  EditsInTurns,   \* TRUE: the user also edits while a turn runs
  Crashes         \* bound: crashes, and calls whose copies could not be saved

Unset == "unset"                             \* the post-image of a call that still runs
None  == [before |-> Unset, after |-> Unset] \* the checkpoint has no entry for the file

Images == MomoContents \cup UserContents \cup {Absent}
Ids    == 1..MaxId

ASSUME CheckpointsAssumption ==
  /\ MaxId \in Nat /\ Crashes \in Nat
  /\ Caps \subseteq Nat /\ Caps # {}
  /\ Big \subseteq Images \ {Absent}
  /\ Unset \notin Images
  /\ EditsInTurns \in BOOLEAN

Entry  == [before : Images, after : Images \cup {Unset}]
Stacks == [Ids -> [Files -> Entry \cup {None}]]
Empty  == [id \in Ids |-> [f \in Files |-> None]]

VARIABLES
  disk,     \* the files' contents
  running,  \* a turn runs
  call,     \* the files of the running write call, {} between calls
  stack,    \* CheckpointStore._turns: checkpoint id -> file -> entry
  open,     \* id of _open, 0 if none
  nextId,   \* _next_id
  staged,   \* _staged: contents held in memory until the call ends
  cap,      \* max_turns
  blobs,    \* the saved contents on disk
  index,    \* index.json: the stack as last saved
  phase,    \* what the holder of the store lock still has to do
  job,      \* the entries a running undo_to still goes through
  forced,   \* its force flag
  crashes,
  mine,     \* history variable: files that hold what the user last wrote
  halfKept, \* history variable: a crash cut a keep short
  unsaved,  \* history variable: the index could not be saved since the last change
  lost      \* history variable: <<f, id>> if a copy for that entry could not be saved

vars == <<disk, running, call, stack, open, nextId, staged, cap, blobs, index,
          phase, job, forced, crashes, mine, halfKept, unsaved, lost>>

failures == <<unsaved, lost>>

TypeOK ==
  /\ disk \in [Files -> Images]
  /\ running \in BOOLEAN
  /\ call \subseteq Files
  /\ stack \in Stacks
  /\ open \in Ids \cup {0}
  /\ nextId \in 1..(MaxId + 1)
  /\ staged \subseteq Images
  /\ cap \in Caps
  /\ blobs \subseteq Images
  /\ index \in Stacks
  /\ phase \in {"idle", "undo", "save", "gc", "rm"}
  /\ job \subseteq Ids \X Files
  /\ forced \in BOOLEAN
  /\ crashes \in 0..Crashes
  /\ mine \subseteq Files
  /\ halfKept \in BOOLEAN
  /\ unsaved \in BOOLEAN
  /\ lost \subseteq Files \X Ids

Init ==
  /\ disk \in [Files -> UserContents \cup {Absent}]
  /\ running = FALSE
  /\ call = {}
  /\ stack = Empty
  /\ open = 0
  /\ nextId = 1
  /\ staged = {}
  /\ cap \in Caps
  /\ blobs = {}
  /\ index = Empty
  /\ phase = "idle"
  /\ job = {}
  /\ forced = FALSE
  /\ crashes = 0
  /\ mine = Files
  /\ halfKept = FALSE
  /\ unsaved = FALSE
  /\ lost = {}

-----------------------------------------------------------------------------

Has(s, id, f) == s[id][f] # None
Present(s)    == {id \in Ids : \E f \in Files : Has(s, id, f)}
Hits(s, f)    == {id \in Ids : Has(s, id, f)}
Oldest(S)     == CHOOSE id \in S : \A k \in S : id <= k
Newest(S)     == IF S = {} THEN 0 ELSE CHOOSE id \in S : \A k \in S : k <= id
Saved(img)    == img \notin Big \cup {Absent, Unset}

\* The contents the stack's entries refer to.
Refs(s) == {img \in Images : /\ Saved(img)
                             /\ \E id \in Ids, f \in Files :
                                  Has(s, id, f) /\ img \in {s[id][f].before, s[id][f].after}}

\* _trim: the oldest checkpoints over the cap go.
Trim(s, n) ==
  [id \in Ids |-> IF n > 0 /\ Cardinality({k \in Present(s) : k >= id}) > n
                  THEN Empty[id] ELSE s[id]]

Drop(s, id, f) == [s EXCEPT ![id][f] = None]

-----------------------------------------------------------------------------
(* The worker: a turn and its write calls.                                 *)

\* begin_turn: the next write opens a new checkpoint.
BeginTurn ==
  /\ ~running /\ phase = "idle"
  /\ running' = TRUE
  /\ open' = 0
  /\ UNCHANGED <<disk, call, stack, nextId, staged, cap, blobs, index, phase, job, forced,
                 crashes, mine, halfKept, failures>>

EndTurn ==
  /\ running /\ call = {}
  /\ running' = FALSE
  /\ UNCHANGED <<disk, call, stack, open, nextId, staged, cap, blobs, index, phase, job,
                 forced, crashes, mine, halfKept, failures>>

\* record: the pre-image of each file the checkpoint does not have yet.
Record(ps) ==
  LET id == IF open = 0 THEN nextId ELSE open
      new == {f \in ps : ~Has(stack, id, f)}
  IN /\ running /\ call = {} /\ ps # {} /\ phase = "idle"
     /\ id \in Ids
     /\ call' = ps
     /\ open' = id
     /\ nextId' = IF open = 0 THEN nextId + 1 ELSE nextId
     /\ stack' = [stack EXCEPT ![id] = [f \in Files |->
                    IF f \in new THEN [before |-> disk[f], after |-> Unset] ELSE @[f]]]
     /\ staged' = staged \cup {disk[f] : f \in {g \in new : Saved(disk[g])}}
     /\ UNCHANGED <<disk, running, cap, blobs, index, phase, job, forced, crashes, mine,
                    halfKept, failures>>

\* The tool itself changes one of the files it named.
Write(f, c) ==
  /\ f \in call /\ c # disk[f]
  /\ disk' = [disk EXCEPT ![f] = c]
  /\ mine' = mine \ {f}
  /\ UNCHANGED <<running, call, stack, open, nextId, staged, cap, blobs, index, phase, job,
                 forced, crashes, halfKept, failures>>

\* What after() makes of the entries of the files ps: their post-image, or nothing
\* when the file is as it was before the turn.
Closed(ps) ==
  [stack EXCEPT ![open] = [f \in Files |->
     IF f \notin ps \/ @[f] = None THEN @[f]
     ELSE IF @[f].before = disk[f] THEN None
     ELSE [@[f] EXCEPT !.after = disk[f]]]]

\* after: the post-images; what the kept entries refer to is saved; the cap holds.
After ==
  LET s == Closed(call)
      kept == {f \in call : Has(s, open, f)}
      put == UNION {{s[open][f].before, s[open][f].after} : f \in kept}
      held == staged \cup {disk[f] : f \in call}
      live == open \in Present(s)
  IN /\ call # {}
     /\ call' = {}
     /\ stack' = IF live THEN Trim(s, cap) ELSE s
     /\ open' = IF live THEN open ELSE 0
     /\ blobs' = blobs \cup {img \in put \cap held : Saved(img)}
     /\ staged' = {}
     /\ phase' = "save"
     /\ UNCHANGED <<disk, running, nextId, cap, index, job, forced, crashes, mine, halfKept, failures>>

\* after meets a full disk while it saves what the entry of f needs: the files done
\* before have their post-images and copies, those after f have neither, and nothing
\* is trimmed or saved.  dispatch goes on: the write itself happened.
AfterFails(done, f) ==
  LET s == Closed(done \cup {f})
      kept == {g \in done : Has(s, open, g)}
      held == staged \cup {disk[g] : g \in done \cup {f}}
  IN /\ crashes < Crashes
     /\ call # {} /\ done \subseteq call \ {f} /\ f \in call
     /\ Has(s, open, f)
     /\ crashes' = crashes + 1
     /\ call' = {}
     /\ stack' = s
     /\ blobs' = blobs \cup {img \in held \cap UNION {{s[open][g].before, s[open][g].after} : g \in kept} : Saved(img)}
     /\ staged' = {img \in held : Saved(img)}
     /\ unsaved' = TRUE
     /\ lost' = lost \cup ((call \ done) \X {open})
     /\ UNCHANGED <<disk, running, open, nextId, cap, index, phase, job, forced, mine, halfKept>>

-----------------------------------------------------------------------------
(* The end of every change to the stack: index.json, then _gc.             *)

\* _save writes the whole stack.
Save ==
  /\ phase = "save"
  /\ index' = stack
  /\ phase' = "gc"
  /\ unsaved' = FALSE
  /\ UNCHANGED <<disk, running, call, stack, open, nextId, staged, cap, blobs, job, forced,
                 crashes, mine, halfKept, lost>>

\* Mutation: the contents that only post-images refer to are removed too.
GcAfters ==
  /\ phase = "gc"
  /\ blobs' = {img \in blobs : \E id \in Ids, f \in Files : stack[id][f].before = img}
  /\ phase' = "idle"
  /\ forced' = FALSE
  /\ UNCHANGED <<disk, running, call, stack, open, nextId, staged, cap, index, job, crashes,
                 mine, halfKept, failures>>

\* _gc: contents no entry refers to are removed.
Gc ==
  /\ phase = "gc"
  /\ blobs' = blobs \cap Refs(stack)
  /\ phase' = "idle"
  /\ forced' = FALSE
  /\ UNCHANGED <<disk, running, call, stack, open, nextId, staged, cap, index, job, crashes,
                 mine, halfKept, failures>>

-----------------------------------------------------------------------------
(* The user: edits, undo, revert, keep, the cap.                           *)

\* The user's editor, or a command the turn ran, changes a file.
UserEdit(f, c) ==
  /\ ~running \/ EditsInTurns
  /\ c # disk[f]
  /\ disk' = [disk EXCEPT ![f] = c]
  /\ mine' = mine \cup {f}
  /\ UNCHANGED <<running, call, stack, open, nextId, staged, cap, blobs, index, phase, job,
                 forced, crashes, halfKept, failures>>

\* Between turns, and while a turn waits for an answer between two calls.
Free == phase = "idle" /\ call = {}

\* undo_to takes back checkpoint id and every later one.
Undo(id, force) ==
  /\ Free
  /\ id \in Present(stack)
  /\ job' = {e \in Ids \X Files : e[1] >= id /\ Has(stack, e[1], e[2])}
  /\ forced' = force
  /\ phase' = "undo"
  /\ UNCHANGED <<disk, running, call, stack, open, nextId, staged, cap, blobs, index,
                 crashes, mine, halfKept, failures>>

\* _restore, when the content it needs was saved.
Restorable(img) == img = Absent \/ img \in blobs

\* Mutation: the post-image is not compared.
UnchangedAlways(id, f) == TRUE

\* _check: what the file holds is what the checkpoint's turn left in it.
Unchanged(id, f) == disk[f] = stack[id][f].after

\* One entry of undo_to, newest checkpoint first.  A file too big to save is given
\* up; one changed since momo wrote it is skipped unless forced; one whose copy is
\* missing stays too.
UndoEntry(id, f) ==
  /\ phase = "undo"
  /\ <<id, f>> \in job /\ \A e \in job : e[1] <= id
  /\ job' = job \ {<<id, f>>}
  /\ LET before == stack[id][f].before IN
     IF before \in Big
     THEN /\ stack' = Drop(stack, id, f)
          /\ UNCHANGED <<disk, mine>>
     ELSE IF (Unchanged(id, f) \/ forced) /\ Restorable(before)
     THEN /\ disk' = [disk EXCEPT ![f] = before]
          /\ stack' = Drop(stack, id, f)
          /\ mine' = mine \ {f}
     ELSE UNCHANGED <<disk, stack, mine>>
  /\ UNCHANGED <<running, call, open, nextId, staged, cap, blobs, index, phase, forced,
                 crashes, halfKept, failures>>

\* Mutation: the open checkpoint is never closed.
ReopenAlways(s) == open

Reopen(s) == IF open \in Present(s) THEN open ELSE 0

\* Mutation: the index is not written after an undo.
UndoUnsaved ==
  /\ phase = "undo" /\ job = {}
  /\ open' = Reopen(stack)
  /\ phase' = "idle"
  /\ UNCHANGED <<disk, running, call, stack, nextId, staged, cap, blobs, index, job, forced,
                 crashes, mine, halfKept, failures>>

\* _drop_empty: checkpoints without files are gone.
UndoDone ==
  /\ phase = "undo" /\ job = {}
  /\ open' = Reopen(stack)
  /\ phase' = "save"
  /\ UNCHANGED <<disk, running, call, stack, nextId, staged, cap, blobs, index, job, forced,
                 crashes, mine, halfKept, failures>>

\* revert_file: back to the oldest pre-image, out of every checkpoint.
RevertFile(f, force) ==
  LET hits == Hits(stack, f)
      s == [id \in Ids |-> [stack[id] EXCEPT ![f] = None]]
      first == stack[Oldest(hits)][f].before
  IN /\ Free
     /\ hits # {}
     /\ first \notin Big /\ Restorable(first)
     /\ force \/ Unchanged(Newest(hits), f)
     /\ disk' = [disk EXCEPT ![f] = first]
     /\ stack' = s
     /\ open' = Reopen(s)
     /\ mine' = mine \ {f}
     /\ forced' = force
     /\ phase' = "save"
     /\ UNCHANGED <<running, call, nextId, staged, cap, blobs, index, job, crashes,
                    halfKept, failures>>

\* keep (also /clear and /new): every checkpoint is forgotten, then its folder is
\* removed, its files in any order.
Keep ==
  /\ Free
  /\ stack' = Empty
  /\ open' = 0
  /\ phase' = "rm"
  /\ UNCHANGED <<disk, running, call, nextId, staged, cap, blobs, index, job, forced,
                 crashes, mine, halfKept, failures>>

Remove ==
  /\ phase = "rm"
  /\ \/ index # Empty /\ index' = Empty /\ UNCHANGED <<blobs, phase>>
     \/ blobs # {} /\ blobs' = {} /\ UNCHANGED <<index, phase>>
     \/ index = Empty /\ blobs = {} /\ phase' = "idle" /\ UNCHANGED <<index, blobs>>
  /\ UNCHANGED <<disk, running, call, stack, open, nextId, staged, cap, job, forced, crashes,
                 mine, halfKept, failures>>

\* Mutation: the cap is kept one too low.
SetMaxTurnsLow(n) ==
  /\ Free /\ n # cap
  /\ cap' = n - 1
  /\ stack' = Trim(stack, n)
  /\ phase' = IF stack' = stack THEN "idle" ELSE "save"
  /\ UNCHANGED <<disk, running, call, open, nextId, staged, blobs, index, job, forced,
                 crashes, mine, halfKept, failures>>

\* set_max_turns: nothing is saved when the new cap drops nothing.
SetMaxTurns(n) ==
  /\ Free /\ n # cap
  /\ cap' = n
  /\ stack' = Trim(stack, n)
  /\ phase' = IF stack' = stack THEN "idle" ELSE "save"
  /\ UNCHANGED <<disk, running, call, open, nextId, staged, blobs, index, job, forced,
                 crashes, mine, halfKept, failures>>

-----------------------------------------------------------------------------

\* The process dies and momo is started again on the session: _load.  New ids go
\* on above those of the stack.  What the call or the undo that was cut short did
\* to the files is unknown to the store.
Crash ==
  /\ crashes < Crashes
  /\ crashes' = crashes + 1
  /\ running' = FALSE
  /\ call' = {}
  /\ stack' = index
  /\ open' = 0
  /\ nextId' \in (Newest(Present(index)) + 1)..nextId
  /\ staged' = {}
  /\ phase' = "idle"
  /\ job' = {}
  /\ forced' = FALSE
  /\ halfKept' = (halfKept \/ phase = "rm")
  /\ unsaved' = FALSE
  /\ UNCHANGED <<disk, cap, blobs, index, mine, lost>>

WorkerStep ==
  \/ BeginTurn \/ EndTurn \/ After
  \/ \E ps \in SUBSET Files : Record(ps)
  \/ \E f \in Files, c \in MomoContents : Write(f, c)
  \/ \E done \in SUBSET Files, f \in Files : AfterFails(done, f)

StoreStep == Save \/ Gc \/ UndoDone \/ Remove \/ \E e \in job : UndoEntry(e[1], e[2])

UserStep ==
  \/ \E f \in Files, c \in UserContents : UserEdit(f, c)
  \/ \E id \in Ids, force \in BOOLEAN : Undo(id, force)
  \/ \E f \in Files, force \in BOOLEAN : RevertFile(f, force)
  \/ Keep
  \/ \E n \in Caps : SetMaxTurns(n)

Next == WorkerStep \/ StoreStep \/ UserStep \/ Crash

Spec == Init /\ [][Next]_vars

-----------------------------------------------------------------------------
(* Correctness.                                                            *)

\* "It survives restarts with the session": between operations the saved index is
\* the stack the user sees, and the next save after a failed one makes it so again.
Durable == Free /\ ~unsaved => index = stack

\* Whenever momo dies, every content the saved index names has been saved, so an
\* undo after the restart can put it back (a keep cut short is the exception, and the
\* entries whose own copies could not be saved).
IndexIntact ==
  phase # "rm" /\ ~halfKept =>
    Refs([id \in Ids |-> [f \in Files |-> IF <<f, id>> \in lost THEN None ELSE index[id][f]]]) \subseteq blobs

\* The checkpoint the running turn writes into is the newest, and no id is given
\* twice, so "newest first" is the order in which the turns ran.
OpenIsNewest ==
  phase # "undo" =>
    /\ open # 0 => open = Newest(Present(stack))
    /\ \A id \in Present(stack) : id < nextId

\* "Your own edits are safe": content the user wrote is only replaced by a tool's
\* write or by a forced undo or revert.
UserEditsKept == [][~(mine \subseteq mine') => call # {} \/ forced']_vars

\* For model checking: the files are alike.
Symmetry == Permutations(Files)

=============================================================================
