-------------------------- MODULE CheckpointsProofs --------------------------
(* Theorems about the file checkpoints, for any number of files, contents    *)
(* and checkpoints, and for a crash or a full disk at any step.              *)
EXTENDS Checkpoints, TLAPS, FiniteSetTheorems, WellFoundedInduction

(***************************************************************************)
(* The inductive invariants.                                               *)
(***************************************************************************)

\* A write call runs in a turn, in the open checkpoint, and nothing else is done
\* to the stack meanwhile.
CallIsAlone == call # {} => running /\ phase = "idle" /\ open # 0

\* Ids are given out in the order of the checkpoints, and the open one, if its
\* entries are still there, is the newest.
InOrder ==
  /\ open < nextId
  /\ \A id \in Present(stack) : id < nextId /\ (open # 0 => id <= open)
  /\ phase # "undo" /\ open # 0 => open \in Present(stack)

\* What each step of a change leaves of the saved index.
Saving ==
  /\ phase = "rm" => stack = Empty
  /\ phase = "gc" => index = stack
  /\ phase \in {"idle", "gc"} /\ call = {} /\ ~unsaved => index = stack

\* The contents entry e refers to can be found: the pre-image in one set of them, the
\* post-image in the other.
Held(e, before, after) ==
  (Saved(e.before) => e.before \in before) /\ (Saved(e.after) => e.after \in after)

\* What the entry of f in checkpoint id of the stack refers to has been saved; the
\* running call still holds its pre-images in memory.
EntryHeld(id, f) ==
  Has(stack, id, f) /\ <<f, id>> \notin lost =>
    Held(stack[id][f], IF f \in call /\ id = open THEN blobs \cup staged ELSE blobs, blobs)

\* Every content the stack or the saved index names can be read back, but for the
\* copies that could not be saved and for a keep that a crash cut short.
Intact ==
  ~halfKept =>
    /\ \A id \in Ids, f \in Files : EntryHeld(id, f)
    /\ phase # "rm" => \A id \in Ids, f \in Files :
         Has(index, id, f) /\ <<f, id>> \notin lost => Held(index[id][f], blobs, blobs)

IInv == TypeOK /\ CallIsAlone /\ InOrder /\ Saving /\ Intact

(***************************************************************************)
(* Lemmas about the operators on stacks.                                   *)
(***************************************************************************)

LEMMA IdsAreInts == Ids \subseteq Int
BY CheckpointsAssumption DEF Ids

\* Newest is the greatest of a set of ids, which always has one.
LEMMA NewestIsGreatest ==
  ASSUME NEW S \in SUBSET Ids, S # {}
  PROVE  Newest(S) \in S /\ \A k \in S : k <= Newest(S)
<1> DEFINE From(n) == {k \in S : k >= n}
<1>1. {From(n) : n \in S} \subseteq FiniteSubsetsOf(Ids) /\ {From(n) : n \in S} # {}
  <2>1. IsFiniteSet(Ids)
    BY CheckpointsAssumption, FS_Interval DEF Ids
  <2>2. FiniteSubsetsOf(Ids) = SUBSET Ids
    BY <2>1, FS_FiniteSubsetsOfFinite
  <2>3. \A n \in S : From(n) \in FiniteSubsetsOf(Ids)
    BY <2>2
  <2>4. QED
    BY <2>3
<1>2. PICK U \in {From(n) : n \in S} : \A V \in {From(n) : n \in S} : <<V, U>> \notin StrictSubsetOrdering(Ids)
  BY <1>1, FS_StrictSubsetOrderingWellFounded, WFMin
<1>3. PICK n \in S : U = From(n)
  BY <1>2
<1>4. \A k \in S : k <= n
  <2> SUFFICES ASSUME NEW k \in S, ~(k <= n) PROVE FALSE
    OBVIOUS
  <2>1. n \in Int /\ k \in Int /\ n < k /\ \A j \in S : j \in Int
    BY IdsAreInts
  <2>2. From(k) \subseteq From(n) /\ n \in From(n) /\ n \notin From(k)
    <3>1. \A j \in S : j >= k => j >= n
      BY <2>1
    <3>2. n >= n /\ ~(n >= k)
      BY <2>1
    <3>3. QED
      BY <3>1, <3>2, Zenon
  <2>3. <<From(k), U>> \in StrictSubsetOrdering(Ids)
    <3>1. From(k) \in SUBSET Ids /\ U \in SUBSET Ids /\ From(k) \subseteq U /\ From(k) # U
      BY <1>3, <2>2
    <3>2. QED
      BY <3>1 DEF StrictSubsetOrdering
  <2>4. QED
    BY <1>2, <2>3
<1>5. Newest(S) = CHOOSE m \in S : \A k \in S : k <= m
  BY DEF Newest
<1>6. QED
  BY <1>4, <1>5

\* A member that no other exceeds is the newest.
LEMMA NewestIs ==
  ASSUME NEW S \in SUBSET Ids, NEW n \in S, \A k \in S : k <= n
  PROVE  n = Newest(S)
<1>1. Newest(S) \in S /\ \A k \in S : k <= Newest(S)
  BY NewestIsGreatest
<1>2. n \in Int /\ Newest(S) \in Int
  BY <1>1, IdsAreInts
<1>3. n <= Newest(S) /\ Newest(S) <= n
  BY <1>1
<1>4. QED
  BY <1>2, <1>3

LEMMA NewestType == \A S \in SUBSET Ids : Newest(S) \in Ids \cup {0}
BY NewestIsGreatest DEF Newest

\* What is trimmed off, dropped or closed is off the stack; nothing else changes.
LEMMA TrimKeeps ==
  ASSUME NEW s \in Stacks, NEW n \in Nat
  PROVE  /\ Trim(s, n) \in Stacks
         /\ \A id \in Ids : Trim(s, n)[id] \in {s[id], Empty[id]}
<1>1. Empty \in Stacks
  BY DEF Empty, Stacks
<1>2. \A id \in Ids : Trim(s, n)[id] \in {s[id], Empty[id]}
  BY DEF Trim
<1>3. QED
  BY <1>1, <1>2 DEF Trim, Stacks

\* The newest checkpoint is never trimmed.
LEMMA TrimKeepsNewest ==
  ASSUME NEW s \in Stacks, NEW n \in Nat, NEW id \in Present(s), \A k \in Present(s) : k <= id
  PROVE  Trim(s, n)[id] = s[id]
<1>1. Present(s) \subseteq Nat
  BY CheckpointsAssumption DEF Present, Ids
<1>2. {k \in Present(s) : k >= id} = {id}
  BY <1>1
<1>3. Cardinality({k \in Present(s) : k >= id}) = 1
  BY <1>2, FS_Singleton
<1>4. id \in Ids
  BY DEF Present
<1>5. QED
  BY <1>3, <1>4 DEF Trim

\* after() puts a post-image into the open entries of the files named, or drops them.
LEMMA ClosedEntries ==
  ASSUME TypeOK, open \in Ids, NEW ps \in SUBSET Files
  PROVE  /\ Closed(ps) \in Stacks
         /\ \A id \in Ids, f \in Files :
              Closed(ps)[id][f] =
                IF id # open \/ f \notin ps \/ ~Has(stack, id, f) THEN stack[id][f]
                ELSE IF stack[id][f].before = disk[f] THEN None
                ELSE [before |-> stack[id][f].before, after |-> disk[f]]
<1>1. stack \in Stacks /\ disk \in [Files -> Images]
  BY DEF TypeOK
<1>2. \A id \in Ids, f \in Files : stack[id][f] \in Entry \cup {None}
  BY <1>1 DEF Stacks
<1>3. \A e \in Entry : \A c : [e EXCEPT !.after = c] = [before |-> e.before, after |-> c]
  BY DEF Entry
<1>4. \A id \in Ids, f \in Files :
        Closed(ps)[id][f] =
          IF id # open \/ f \notin ps \/ ~Has(stack, id, f) THEN stack[id][f]
          ELSE IF stack[id][f].before = disk[f] THEN None
          ELSE [before |-> stack[id][f].before, after |-> disk[f]]
  BY <1>1, <1>2, <1>3 DEF Closed, Stacks, Has
<1>5. ASSUME NEW id \in Ids, NEW f \in Files PROVE Closed(ps)[id][f] \in Entry \cup {None}
  <2>1. CASE id # open \/ f \notin ps \/ ~Has(stack, id, f)
    BY <2>1, <1>2, <1>4
  <2>2. CASE ~(id # open \/ f \notin ps \/ ~Has(stack, id, f))
    <3>1. stack[id][f] \in Entry
      BY <2>2, <1>2 DEF Has
    <3>2. [before |-> stack[id][f].before, after |-> disk[f]] \in Entry
      BY <3>1, <1>1 DEF Entry
    <3>3. QED
      BY <2>2, <1>4, <3>2
  <2>3. QED
    BY <2>1, <2>2
<1>6. Closed(ps) \in [Ids -> [Files -> Entry \cup {None}]]
  <2> DEFINE closed == [f \in Files |-> Closed(ps)[open][f]]
  <2>1. closed \in [Files -> Entry \cup {None}]
    BY <1>5
  <2>2. Closed(ps) = [stack EXCEPT ![open] = closed]
    <3>1. closed = [f \in Files |-> IF f \notin ps \/ stack[open][f] = None THEN stack[open][f]
                                   ELSE IF stack[open][f].before = disk[f] THEN None
                                   ELSE [stack[open][f] EXCEPT !.after = disk[f]]]
      BY <1>1 DEF Closed, Stacks
    <3>2. QED
      BY <3>1, <1>1 DEF Closed, Stacks
  <2>3. QED
    BY <1>1, <2>1, <2>2 DEF Stacks
<1>7. QED
  BY <1>4, <1>6 DEF Stacks

(***************************************************************************)
(* Types.                                                                  *)
(***************************************************************************)

LEMMA TypeInit == Init => TypeOK
<1> SUFFICES ASSUME Init PROVE TypeOK
  OBVIOUS
<1> USE CheckpointsAssumption
<1>1. Empty \in Stacks
  BY DEF Empty, Stacks
<1>2. disk \in [Files -> Images]
  BY DEF Init, Images
<1>3. 1 \in 1..(MaxId + 1) /\ 0 \in 0..Crashes
  OBVIOUS
<1>4. QED
  BY <1>1, <1>2, <1>3 DEF Init, TypeOK

LEMMA TypeStep == TypeOK /\ CallIsAlone /\ [Next]_vars => TypeOK'
<1> SUFFICES ASSUME TypeOK, CallIsAlone, [Next]_vars PROVE TypeOK'
  OBVIOUS
<1> USE CheckpointsAssumption
<1>1. CASE BeginTurn
  BY <1>1 DEF BeginTurn, TypeOK, failures
<1>2. CASE EndTurn
  BY <1>2 DEF EndTurn, TypeOK, failures
<1>3. CASE After
  <2>1. open \in Ids /\ call \in SUBSET Files
    BY <1>3 DEF After, TypeOK, CallIsAlone
  <2>2. Closed(call) \in Stacks
    BY <2>1, ClosedEntries
  <2>3. cap \in Nat
    BY DEF TypeOK
  <2>4. stack' \in Stacks
    BY <1>3, <2>2, <2>3, TrimKeeps DEF After
  <2>5. blobs' \subseteq Images
    <3>1. \A f \in Files : disk[f] \in Images
      BY DEF TypeOK
    <3>2. staged \cup {disk[f] : f \in call} \subseteq Images
      BY <2>1, <3>1 DEF TypeOK
    <3>3. blobs' \subseteq blobs \cup staged \cup {disk[f] : f \in call}
      BY <1>3 DEF After
    <3>4. QED
      BY <3>2, <3>3 DEF TypeOK
  <2>6. open' \in Ids \cup {0}
    BY <1>3, <2>1 DEF After
  <2>7. QED
    BY <1>3, <2>4, <2>5, <2>6 DEF After, TypeOK, failures
<1>4. ASSUME NEW ps \in SUBSET Files, Record(ps) PROVE TypeOK'
  <2> DEFINE id == IF open = 0 THEN nextId ELSE open
  <2>1. id \in Ids
    BY <1>4 DEF Record
  <2>2. \A f \in Files : disk[f] \in Images
    BY DEF TypeOK
  <2>3. stack' \in Stacks
    <3>1. stack \in [Ids -> [Files -> Entry \cup {None}]]
      BY DEF TypeOK, Stacks
    <3>2. \A f \in Files : [before |-> disk[f], after |-> Unset] \in Entry
      BY <2>2 DEF Entry
    <3>3. [f \in Files |-> IF f \in {g \in ps : ~Has(stack, id, g)} THEN [before |-> disk[f], after |-> Unset]
                          ELSE stack[id][f]] \in [Files -> Entry \cup {None}]
      BY <2>1, <3>1, <3>2
    <3>4. stack' = [stack EXCEPT ![id] = [f \in Files |->
              IF f \in {g \in ps : ~Has(stack, id, g)} THEN [before |-> disk[f], after |-> Unset] ELSE stack[id][f]]]
      BY <1>4, <2>1, <3>1 DEF Record
    <3>5. QED
      BY <3>1, <3>3, <3>4 DEF Stacks
  <2>4. staged' \subseteq Images
    BY <1>4, <2>2 DEF Record, TypeOK
  <2>5. nextId' \in 1..(MaxId + 1)
    BY <1>4 DEF Record, TypeOK, Ids
  <2>6. QED
    BY <1>4, <2>1, <2>3, <2>4, <2>5 DEF Record, TypeOK, failures
<1>5. ASSUME NEW f \in Files, NEW c \in MomoContents, Write(f, c) PROVE TypeOK'
  BY <1>5 DEF Write, TypeOK, Images, failures
<1>6. ASSUME NEW done \in SUBSET Files, NEW f \in Files, AfterFails(done, f) PROVE TypeOK'
  <2>1. open \in Ids /\ call \in SUBSET Files
    BY <1>6 DEF AfterFails, TypeOK, CallIsAlone
  <2>2. stack' \in Stacks
    BY <1>6, <2>1, ClosedEntries DEF AfterFails
  <2>3. staged \cup {disk[g] : g \in done \cup {f}} \subseteq Images
    <3>1. \A g \in Files : disk[g] \in Images
      BY DEF TypeOK
    <3>2. QED
      BY <3>1 DEF TypeOK
  <2>4. blobs' \subseteq Images /\ staged' \subseteq Images
    BY <1>6, <2>3 DEF AfterFails, TypeOK
  <2>5. crashes' \in 0..Crashes
    BY <1>6 DEF AfterFails, TypeOK
  <2>6. lost' \subseteq Files \X Ids
    BY <1>6, <2>1 DEF AfterFails, TypeOK
  <2>7. QED
    BY <1>6, <2>2, <2>4, <2>5, <2>6 DEF AfterFails, TypeOK
<1>7. CASE Save
  BY <1>7 DEF Save, TypeOK
<1>8. CASE Gc
  BY <1>8 DEF Gc, TypeOK, failures
<1>9. CASE UndoDone
  BY <1>9 DEF UndoDone, Reopen, TypeOK, failures
<1>10. CASE Remove
  <2>1. Empty \in Stacks
    BY DEF Empty, Stacks
  <2>2. QED
    BY <1>10, <2>1 DEF Remove, TypeOK, failures
<1>11. ASSUME NEW e \in job, UndoEntry(e[1], e[2]) PROVE TypeOK'
  <2>1. e[1] \in Ids /\ e[2] \in Files
    BY DEF TypeOK
  <2>2. stack \in [Ids -> [Files -> Entry \cup {None}]]
    BY DEF TypeOK, Stacks
  <2>3. Drop(stack, e[1], e[2]) \in Stacks
    BY <2>1, <2>2 DEF Drop, Stacks
  <2>4. stack' \in Stacks
    BY <1>11, <2>3 DEF UndoEntry, TypeOK
  <2>5. disk' \in [Files -> Images] /\ mine' \subseteq Files
    BY <1>11, <2>1 DEF UndoEntry, TypeOK, Restorable, Images
  <2>6. job' \subseteq Ids \X Files
    BY <1>11 DEF UndoEntry, TypeOK
  <2>7. QED
    BY <1>11, <2>4, <2>5, <2>6 DEF UndoEntry, TypeOK, failures
<1>12. ASSUME NEW f \in Files, NEW c \in UserContents, UserEdit(f, c) PROVE TypeOK'
  BY <1>12 DEF UserEdit, TypeOK, Images, failures
<1>13. ASSUME NEW id \in Ids, NEW force \in BOOLEAN, Undo(id, force) PROVE TypeOK'
  BY <1>13 DEF Undo, TypeOK, failures
<1>14. ASSUME NEW f \in Files, NEW force \in BOOLEAN, RevertFile(f, force) PROVE TypeOK'
  <2>1. [id \in Ids |-> [stack[id] EXCEPT ![f] = None]] \in Stacks
    BY DEF TypeOK, Stacks
  <2>2. stack' \in Stacks
    BY <1>14, <2>1 DEF RevertFile
  <2>3. disk' \in [Files -> Images]
    BY <1>14 DEF RevertFile, TypeOK, Restorable, Images
  <2>4. open' \in Ids \cup {0}
    BY <1>14 DEF RevertFile, Reopen, TypeOK
  <2>5. QED
    BY <1>14, <2>2, <2>3, <2>4 DEF RevertFile, TypeOK, failures
<1>15. CASE Keep
  <2>1. Empty \in Stacks
    BY DEF Empty, Stacks
  <2>2. QED
    BY <1>15, <2>1 DEF Keep, TypeOK, failures
<1>16. ASSUME NEW n \in Caps, SetMaxTurns(n) PROVE TypeOK'
  <2>1. stack' \in Stacks
    BY <1>16, TrimKeeps DEF SetMaxTurns, TypeOK
  <2>2. QED
    BY <1>16, <2>1 DEF SetMaxTurns, TypeOK, failures
<1>17. CASE Crash
  <2>1. Present(index) \in SUBSET Ids
    BY DEF Present
  <2>2. Newest(Present(index)) \in Nat
    BY <2>1, NewestType DEF Ids
  <2>3. nextId' \in 1..(MaxId + 1)
    BY <1>17, <2>2 DEF Crash, TypeOK
  <2>4. crashes' \in 0..Crashes
    BY <1>17 DEF Crash, TypeOK
  <2>5. QED
    BY <1>17, <2>3, <2>4 DEF Crash, TypeOK
<1>18. CASE UNCHANGED vars
  BY <1>18 DEF vars, TypeOK
<1>19. QED
  BY <1>1, <1>2, <1>3, <1>4, <1>5, <1>6, <1>7, <1>8, <1>9, <1>10, <1>11, <1>12, <1>13, <1>14, <1>15, <1>16,
     <1>17, <1>18 DEF Next, WorkerStep, StoreStep, UserStep

(***************************************************************************)
(* The order of the checkpoints.                                           *)
(***************************************************************************)

LEMMA AloneStep == CallIsAlone /\ [Next]_vars => CallIsAlone'
<1> SUFFICES ASSUME CallIsAlone, [Next]_vars PROVE CallIsAlone'
  OBVIOUS
<1> USE DEF CallIsAlone
<1>1. ASSUME NEW ps \in SUBSET Files, Record(ps) PROVE CallIsAlone'
  BY <1>1, CheckpointsAssumption DEF Record, Ids
<1>2. CASE BeginTurn \/ EndTurn \/ After \/ Save \/ Gc \/ UndoDone \/ Remove \/ Keep \/ Crash
  BY <1>2 DEF BeginTurn, EndTurn, After, Save, Gc, UndoDone, Remove, Keep, Crash, Free
<1>3. ASSUME NEW f \in Files, NEW c, Write(f, c) \/ UserEdit(f, c) PROVE CallIsAlone'
  BY <1>3 DEF Write, UserEdit
<1>4. ASSUME NEW f \in Files, NEW done \in SUBSET Files, AfterFails(done, f) PROVE CallIsAlone'
  BY <1>4 DEF AfterFails
<1>5. ASSUME NEW e \in job, UndoEntry(e[1], e[2]) PROVE CallIsAlone'
  BY <1>5 DEF UndoEntry
<1>6. ASSUME NEW k, NEW force, Undo(k, force) \/ RevertFile(k, force) \/ SetMaxTurns(k) PROVE CallIsAlone'
  BY <1>6 DEF Undo, RevertFile, SetMaxTurns, Free
<1>7. CASE UNCHANGED vars
  BY <1>7 DEF vars
<1>8. QED
  BY <1>1, <1>2, <1>3, <1>4, <1>5, <1>6, <1>7 DEF Next, WorkerStep, StoreStep, UserStep

\* A stack with fewer entries has no other checkpoints.
LEMMA FewerPresent ==
  ASSUME NEW s, NEW t, \A id \in Ids, f \in Files : Has(t, id, f) => Has(s, id, f)
  PROVE  Present(t) \subseteq Present(s)
BY DEF Present

LEMMA TrimPresent ==
  ASSUME NEW s \in Stacks, NEW n \in Nat
  PROVE  \A id \in Ids, f \in Files : Has(Trim(s, n), id, f) => Has(s, id, f) /\ Trim(s, n)[id][f] = s[id][f]
<1>1. \A id \in Ids : Trim(s, n)[id] \in {s[id], Empty[id]}
  BY TrimKeeps
<1>2. \A id \in Ids, f \in Files : Empty[id][f] = None
  BY DEF Empty
<1>3. QED
  BY <1>1, <1>2 DEF Has

LEMMA ClosedFewer ==
  ASSUME TypeOK, open \in Ids, NEW ps \in SUBSET Files
  PROVE  Closed(ps) \in Stacks /\ \A id \in Ids, f \in Files : Has(Closed(ps), id, f) => Has(stack, id, f)
<1>1. Closed(ps) \in Stacks
  BY ClosedEntries
<1>2. ASSUME NEW id \in Ids, NEW f \in Files, ~Has(stack, id, f) PROVE ~Has(Closed(ps), id, f)
  <2>1. Closed(ps)[id][f] = stack[id][f]
    BY <1>2, ClosedEntries
  <2>2. QED
    BY <1>2, <2>1 DEF Has
<1>3. QED
  BY <1>1, <1>2

LEMMA ClosedOthers ==
  ASSUME TypeOK, open \in Ids, NEW ps \in SUBSET Files, NEW id \in Ids, NEW f \in Files, id # open \/ f \notin ps
  PROVE  Closed(ps)[id][f] = stack[id][f]
BY ClosedEntries

LEMMA OrderStep == TypeOK /\ CallIsAlone /\ InOrder /\ [Next]_vars => InOrder'
<1> SUFFICES ASSUME TypeOK, CallIsAlone, InOrder, [Next]_vars PROVE InOrder'
  OBVIOUS
<1> USE CheckpointsAssumption
<1>a. /\ stack \in Stacks /\ open \in Ids \cup {0} /\ nextId \in 1..(MaxId + 1) /\ cap \in Nat
      /\ \A id \in Ids : id \in Int
  BY IdsAreInts DEF TypeOK
<1>1. CASE BeginTurn
  BY <1>1, <1>a DEF BeginTurn, InOrder, Present
<1>2. ASSUME stack' = stack, open' = open, nextId' = nextId, phase' = "undo" \/ phase # "undo" PROVE InOrder'
  BY <1>2 DEF InOrder, Present
<1>3. CASE EndTurn \/ Save \/ Gc \/ Remove
  BY <1>3, <1>2 DEF EndTurn, Save, Gc, Remove
<1>4. ASSUME NEW f \in Files, NEW c, Write(f, c) \/ UserEdit(f, c) PROVE InOrder'
  BY <1>4, <1>a DEF Write, UserEdit, InOrder, Present
<1>5. ASSUME NEW k, NEW force, Undo(k, force) PROVE InOrder'
  BY <1>5, <1>2 DEF Undo
<1>6. ASSUME NEW ps \in SUBSET Files, Record(ps) PROVE InOrder'
  <2> DEFINE id == IF open = 0 THEN nextId ELSE open
  <2>1. id \in Ids /\ open' = id /\ id < nextId' /\ id # 0 /\ nextId <= nextId'
    BY <1>6, <1>a DEF Record, InOrder, Ids
  <2>2. \A k \in Ids, f \in Files :
          stack'[k][f] = IF k = id /\ f \in ps /\ ~Has(stack, k, f) THEN [before |-> disk[f], after |-> Unset]
                         ELSE stack[k][f]
    BY <1>6, <1>a, <2>1 DEF Record, Stacks
  <2>3. ASSUME NEW f \in Files PROVE [before |-> disk[f], after |-> Unset] # None
    <3>1. disk[f] # Unset
      BY DEF TypeOK
    <3>2. [before |-> disk[f], after |-> Unset].before = disk[f] /\ None.before = Unset
      BY DEF None
    <3>3. QED
      BY <3>1, <3>2
  <2>4. \A k \in Ids, f \in Files : Has(stack', k, f) <=> Has(stack, k, f) \/ (k = id /\ f \in ps)
    BY <2>2, <2>3 DEF Has
  <2>5. Present(stack') = Present(stack) \cup {id}
    <3>1. PICK f \in Files : f \in ps
      BY <1>6 DEF Record
    <3>2. Has(stack', id, f)
      BY <2>1, <2>4, <3>1
    <3>3. QED
      BY <2>1, <2>4, <3>2 DEF Present
  <2>6. \A k \in Present(stack) : k < nextId' /\ k <= id
    <3>1. \A k \in Present(stack) : k \in Int /\ k < nextId /\ (open # 0 => k <= open)
      BY <1>a DEF InOrder, Present
    <3>2. nextId \in Int /\ nextId' \in Int
      BY <1>6, <1>a DEF Record
    <3>3. QED
      BY <1>a, <2>1, <3>1, <3>2
  <2>7. QED
    BY <1>a, <2>1, <2>5, <2>6 DEF InOrder
<1>7. CASE After
  <2> DEFINE s == Closed(call)
  <2>1. open \in Ids /\ call \in SUBSET Files /\ phase # "undo"
    BY <1>7, <1>a DEF After, TypeOK, CallIsAlone
  <2>2. s \in Stacks /\ \A id \in Ids, f \in Files : Has(s, id, f) => Has(stack, id, f)
    BY <2>1, ClosedFewer
  <2>3. Present(s) \subseteq Present(stack)
    BY <2>2, FewerPresent
  <2>4. CASE open \in Present(s)
    <3>1. stack' = Trim(s, cap) /\ open' = open /\ nextId' = nextId
      BY <1>7, <2>4 DEF After
    <3>2. \A id \in Ids, f \in Files : Has(stack', id, f) => Has(s, id, f)
      BY <1>a, <2>2, <3>1, TrimPresent
    <3>3. Present(stack') \subseteq Present(s)
      BY <3>2, FewerPresent
    <3>4. \A k \in Present(s) : k <= open
      BY <2>3, <2>1, <1>a DEF InOrder, Ids
    <3>5. stack'[open] = s[open]
      BY <1>a, <2>2, <2>4, <3>1, <3>4, TrimKeepsNewest
    <3>6. open \in Present(stack')
      BY <2>4, <3>5 DEF Present, Has
    <3>7. QED
      BY <2>3, <3>1, <3>3, <3>6 DEF InOrder
  <2>5. CASE open \notin Present(s)
    <3>1. stack' = s /\ open' = 0 /\ nextId' = nextId
      BY <1>7, <2>5 DEF After
    <3>2. QED
      BY <1>a, <2>3, <3>1 DEF InOrder
  <2>6. QED
    BY <2>4, <2>5
<1>8. ASSUME NEW f \in Files, NEW done \in SUBSET Files, AfterFails(done, f) PROVE InOrder'
  <2> DEFINE s == Closed(done \cup {f})
  <2>1. open \in Ids /\ phase # "undo"
    BY <1>8, <1>a DEF AfterFails, TypeOK, CallIsAlone
  <2>2. \A k \in Ids, g \in Files : Has(s, k, g) => Has(stack, k, g)
    <3>1. done \cup {f} \in SUBSET Files
      OBVIOUS
    <3>2. QED
      BY <2>1, <3>1, ClosedFewer
  <2>3. Present(s) \subseteq Present(stack)
    BY <2>2, FewerPresent
  <2>4. stack' = s /\ open' = open /\ nextId' = nextId /\ Has(s, open, f)
    BY <1>8 DEF AfterFails
  <2>5. open \in Present(s)
    BY <2>1, <2>4 DEF Present
  <2>6. QED
    BY <2>3, <2>4, <2>5 DEF InOrder
<1>9. CASE UndoDone
  BY <1>9, <1>a DEF UndoDone, Reopen, InOrder
<1>10. ASSUME NEW e \in job, UndoEntry(e[1], e[2]) PROVE InOrder'
  <2>1. e[1] \in Ids /\ e[2] \in Files
    BY DEF TypeOK
  <2>2. \A k \in Ids, g \in Files : Has(stack', k, g) => Has(stack, k, g)
    BY <1>10, <1>a, <2>1 DEF UndoEntry, Drop, Stacks, Has
  <2>3. Present(stack') \subseteq Present(stack)
    BY <2>2, FewerPresent
  <2>4. open' = open /\ nextId' = nextId /\ phase' = "undo"
    BY <1>10 DEF UndoEntry
  <2>5. QED
    BY <2>3, <2>4 DEF InOrder
<1>11. ASSUME NEW f \in Files, NEW force \in BOOLEAN, RevertFile(f, force) PROVE InOrder'
  <2>1. \A k \in Ids, g \in Files : Has(stack', k, g) => Has(stack, k, g)
    BY <1>11, <1>a DEF RevertFile, Stacks, Has
  <2>2. Present(stack') \subseteq Present(stack)
    BY <2>1, FewerPresent
  <2>3. open' = Reopen(stack') /\ nextId' = nextId
    BY <1>11 DEF RevertFile, Reopen
  <2>4. QED
    BY <1>a, <2>2, <2>3 DEF InOrder, Reopen
<1>12. CASE Keep
  <2>1. Present(Empty) = {}
    BY DEF Present, Empty, Has
  <2>2. QED
    BY <1>12, <1>a, <2>1 DEF Keep, InOrder
<1>13. ASSUME NEW n \in Caps, SetMaxTurns(n) PROVE InOrder'
  <2>1. n \in Nat /\ stack' = Trim(stack, n) /\ open' = open /\ nextId' = nextId /\ phase # "undo"
    BY <1>13 DEF SetMaxTurns, Free
  <2>2. \A k \in Ids, g \in Files : Has(stack', k, g) => Has(stack, k, g)
    BY <1>a, <2>1, TrimPresent
  <2>3. Present(stack') \subseteq Present(stack)
    BY <2>2, FewerPresent
  <2>4. ASSUME open # 0 PROVE open \in Present(stack')
    <3>1. open \in Present(stack) /\ \A k \in Present(stack) : k <= open
      BY <2>1, <2>4 DEF InOrder
    <3>2. stack'[open] = stack[open]
      BY <1>a, <2>1, <3>1, TrimKeepsNewest
    <3>3. QED
      BY <3>1, <3>2 DEF Present, Has
  <2>5. QED
    BY <2>1, <2>3, <2>4 DEF InOrder
<1>14. CASE Crash
  <2> DEFINE ids == Present(index)
  <2>1. ids \in SUBSET Ids
    BY DEF Present
  <2>2. Newest(ids) \in Ids \cup {0} /\ \A k \in ids : k <= Newest(ids)
    BY <2>1, NewestType, NewestIsGreatest
  <2>3. nextId' \in Int /\ nextId' > Newest(ids) /\ nextId' > 0
    BY <1>14, <1>a, <2>2 DEF Crash, Ids
  <2>4. ASSUME NEW k \in ids PROVE k < nextId'
    <3>1. k \in Ids /\ k <= Newest(ids)
      BY <2>1, <2>2, Zenon
    <3>2. \A n \in Ids \cup {0} : n \in Int
      BY IdsAreInts
    <3>3. k \in Int /\ Newest(ids) \in Int
      BY <2>2, <3>1, <3>2, Zenon
    <3>4. QED
      BY <2>3, <3>1, <3>3
  <2>5. QED
    BY <1>14, <2>3, <2>4 DEF Crash, InOrder
<1>15. CASE UNCHANGED vars
  BY <1>15, <1>2 DEF vars, InOrder, Present
<1>16. QED
  BY <1>1, <1>3, <1>4, <1>5, <1>6, <1>7, <1>8, <1>9, <1>10, <1>11, <1>12, <1>13, <1>14, <1>15
     DEF Next, WorkerStep, StoreStep, UserStep

(***************************************************************************)
(* The saved index and the saved contents.                                 *)
(***************************************************************************)

LEMMA SavingStep == CallIsAlone /\ Saving /\ [Next]_vars => Saving'
<1> SUFFICES ASSUME CallIsAlone, Saving, [Next]_vars PROVE Saving'
  OBVIOUS
<1> USE DEF Saving, CallIsAlone
<1>1. ASSUME NEW ps \in SUBSET Files, Record(ps) PROVE Saving'
  BY <1>1 DEF Record
<1>2. CASE BeginTurn \/ EndTurn \/ After
  BY <1>2 DEF BeginTurn, EndTurn, After, failures
<1>3. CASE Save \/ Gc \/ UndoDone
  BY <1>3 DEF Save, Gc, UndoDone, failures
<1>4. CASE Remove
  BY <1>4 DEF Remove, failures
<1>5. CASE Keep
  BY <1>5 DEF Keep
<1>6. CASE Crash
  BY <1>6 DEF Crash
<1>7. ASSUME NEW f \in Files, NEW c, Write(f, c) \/ UserEdit(f, c) PROVE Saving'
  BY <1>7 DEF Write, UserEdit, failures
<1>8. ASSUME NEW f \in Files, NEW done \in SUBSET Files, AfterFails(done, f) PROVE Saving'
  BY <1>8 DEF AfterFails
<1>9. ASSUME NEW e \in job, UndoEntry(e[1], e[2]) PROVE Saving'
  BY <1>9 DEF UndoEntry
<1>10. ASSUME NEW k, NEW force, Undo(k, force) \/ RevertFile(k, force) PROVE Saving'
  BY <1>10 DEF Undo, RevertFile
<1>11. ASSUME NEW n \in Caps, SetMaxTurns(n) PROVE Saving'
  BY <1>11 DEF SetMaxTurns, Free, failures
<1>12. CASE UNCHANGED vars
  BY <1>12 DEF vars
<1>13. QED
  BY <1>1, <1>2, <1>3, <1>4, <1>5, <1>6, <1>7, <1>8, <1>9, <1>10, <1>11, <1>12
     DEF Next, WorkerStep, StoreStep, UserStep

\* Entries of the saved index keep their copies when none is removed.
IndexHeld == \A id \in Ids, f \in Files :
               Has(index, id, f) /\ <<f, id>> \notin lost => Held(index[id][f], blobs, blobs)
StackHeld == \A id \in Ids, f \in Files : EntryHeld(id, f)

\* What after() saves of a file it is done with.
LEMMA AfterHolds ==
  ASSUME TypeOK, StackHeld, open \in Ids, call \in SUBSET Files,
         NEW ps \in SUBSET call, NEW f \in ps, <<f, open>> \notin lost,
         Has(Closed(ps), open, f),
         NEW saved,
         \A img \in {Closed(ps)[open][f].before, Closed(ps)[open][f].after} :
           Saved(img) /\ img \in staged \cup {disk[f]} => img \in saved,
         blobs \subseteq saved
  PROVE  /\ Saved(Closed(ps)[open][f].before) => Closed(ps)[open][f].before \in saved
         /\ Saved(Closed(ps)[open][f].after)  => Closed(ps)[open][f].after \in saved
<1> DEFINE e == stack[open][f]
           c == Closed(ps)[open][f]
<1>1. ps \in SUBSET Files /\ f \in Files
  OBVIOUS
<1>2. c = IF ~Has(stack, open, f) THEN e ELSE IF e.before = disk[f] THEN None
          ELSE [before |-> e.before, after |-> disk[f]]
  BY <1>1, ClosedEntries
<1>3. Has(stack, open, f) /\ c = [before |-> e.before, after |-> disk[f]]
  BY <1>2 DEF Has
<1>4. c.before = e.before /\ c.after = disk[f]
  BY <1>3
<1>5. EntryHeld(open, f)
  BY <1>1 DEF StackHeld
<1>6. Saved(e.before) => e.before \in blobs \cup staged
  BY <1>3, <1>5 DEF EntryHeld, Held
<1> HIDE DEF c
<1>7. Saved(c.before) => c.before \in saved
  BY <1>4, <1>6 DEF c
<1>8. Saved(c.after) => c.after \in saved
  BY <1>4 DEF c
<1>9. QED
  BY <1>7, <1>8 DEF c

LEMMA IntactStep == TypeOK /\ CallIsAlone /\ Saving /\ Intact /\ [Next]_vars => Intact'
<1> SUFFICES ASSUME TypeOK, CallIsAlone, Saving, Intact, [Next]_vars, ~halfKept' PROVE Intact'
  BY DEF Intact
<1> USE CheckpointsAssumption
<1>a. ~halfKept
  BY DEF Next, WorkerStep, StoreStep, UserStep, vars, BeginTurn, EndTurn, After, Record, Write, AfterFails, Save,
         Gc, UndoDone, Remove, UndoEntry, UserEdit, Undo, RevertFile, Keep, SetMaxTurns, Crash
<1>b. StackHeld /\ (phase # "rm" => IndexHeld)
  BY <1>a DEF Intact, StackHeld, IndexHeld
<1>c. SUFFICES StackHeld' /\ (phase' # "rm" => IndexHeld')
  BY DEF Intact, StackHeld, IndexHeld
<1>d. stack \in Stacks /\ index \in Stacks /\ call \in SUBSET Files
  BY DEF TypeOK
\* A step that takes entries away while no call runs, and one that only saves contents.
<1>e. ASSUME call = {}, call' = {}, blobs' = blobs, lost' = lost,
             \A id \in Ids, f \in Files : Has(stack', id, f) => Has(stack, id, f) /\ stack'[id][f] = stack[id][f]
      PROVE  StackHeld'
  <2>1. ASSUME NEW id \in Ids, NEW f \in Files, Has(stack', id, f), <<f, id>> \notin lost
        PROVE  Held(stack'[id][f], blobs', blobs')
    <3>1. EntryHeld(id, f)
      BY <1>b DEF StackHeld
    <3>2. Has(stack, id, f) /\ stack'[id][f] = stack[id][f]
      BY <1>e, <2>1
    <3>3. QED
      BY <1>e, <2>1, <3>1, <3>2 DEF EntryHeld, Held
  <2>2. QED
    BY <1>e, <2>1 DEF StackHeld, EntryHeld
<1>f. ASSUME blobs \subseteq blobs', lost \subseteq lost', index' = index, phase # "rm" PROVE IndexHeld'
  BY <1>b, <1>f DEF IndexHeld, Held
<1>1. CASE BeginTurn
  BY <1>1, <1>e, <1>f DEF BeginTurn, CallIsAlone, failures
<1>2. ASSUME UNCHANGED <<call, stack, open, staged, blobs, index, failures>>, phase' = "rm" => phase = "rm",
             phase = "rm" => phase' = "rm"
      PROVE  StackHeld' /\ (phase' # "rm" => IndexHeld')
  BY <1>2, <1>b DEF StackHeld, EntryHeld, IndexHeld, Held, failures
<1>3. CASE EndTurn
  BY <1>2, <1>3 DEF EndTurn
<1>4. ASSUME NEW f \in Files, NEW c, Write(f, c) \/ UserEdit(f, c)
      PROVE  StackHeld' /\ (phase' # "rm" => IndexHeld')
  BY <1>2, <1>4 DEF Write, UserEdit
<1>5. ASSUME NEW k, NEW force, Undo(k, force)
      PROVE  StackHeld' /\ (phase' # "rm" => IndexHeld')
  BY <1>2, <1>5 DEF Undo, Free
<1>6. CASE Save
  <2>1. call = {} /\ phase # "rm"
    BY <1>6 DEF Save, CallIsAlone
  <2>2. StackHeld'
    BY <1>6, <2>1, <1>e DEF Save
  <2>3. \A id \in Ids, f \in Files : EntryHeld(id, f)
    BY <1>b DEF StackHeld
  <2>4. IndexHeld'
    BY <1>6, <2>1, <2>3 DEF Save, EntryHeld, IndexHeld, Held
  <2>5. QED
    BY <2>2, <2>4
<1>7. CASE Gc
  <2>1. call = {} /\ index = stack /\ phase # "rm"
    BY <1>7 DEF Gc, CallIsAlone, Saving
  <2>2. ASSUME NEW id \in Ids, NEW f \in Files, Has(stack, id, f), <<f, id>> \notin lost
        PROVE  Held(stack[id][f], blobs', blobs')
    <3> DEFINE e == stack[id][f]
    <3>1. Held(e, blobs, blobs)
      BY <1>b, <2>1, <2>2 DEF StackHeld, EntryHeld
    <3>2. e \in Entry
      BY <1>d, <2>2 DEF Stacks, Has
    <3>3. \A img \in {e.before, e.after} : Saved(img) => img \in Refs(stack)
      BY <2>2, <3>2 DEF Refs, Saved, Entry
    <3>4. QED
      BY <1>7, <3>1, <3>3 DEF Gc, Held
  <2>3. QED
    BY <1>7, <2>1, <2>2 DEF Gc, StackHeld, EntryHeld, IndexHeld, failures
<1>8. CASE UndoDone
  BY <1>8, <1>e, <1>f DEF UndoDone, CallIsAlone, failures
<1>9. ASSUME NEW e \in job, UndoEntry(e[1], e[2])
      PROVE  StackHeld' /\ (phase' # "rm" => IndexHeld')
  <2>1. e[1] \in Ids /\ e[2] \in Files
    BY DEF TypeOK
  <2>2. \A id \in Ids, f \in Files : Has(stack', id, f) => Has(stack, id, f) /\ stack'[id][f] = stack[id][f]
    <3>1. stack' = stack \/ stack' = Drop(stack, e[1], e[2])
      BY <1>9 DEF UndoEntry
    <3>2. \A id \in Ids, f \in Files : Drop(stack, e[1], e[2])[id][f] \in {stack[id][f], None}
      BY <1>d, <2>1 DEF Drop, Stacks
    <3>3. QED
      BY <3>1, <3>2 DEF Has
  <2>3. QED
    BY <1>9, <2>2, <1>e, <1>f DEF UndoEntry, CallIsAlone, failures
<1>10. ASSUME NEW g \in Files, NEW force, RevertFile(g, force)
       PROVE  StackHeld' /\ (phase' # "rm" => IndexHeld')
  <2>1. \A id \in Ids, f \in Files : Has(stack', id, f) => Has(stack, id, f) /\ stack'[id][f] = stack[id][f]
    BY <1>10, <1>d DEF RevertFile, Stacks, Has
  <2>2. QED
    BY <1>10, <2>1, <1>e, <1>f DEF RevertFile, Free, failures
<1>11. CASE Keep
  <2>1. \A id \in Ids, f \in Files : ~Has(stack', id, f)
    BY <1>11 DEF Keep, Empty, Has
  <2>2. QED
    BY <1>11, <2>1 DEF Keep, StackHeld, EntryHeld
<1>12. CASE Remove
  <2>1. \A id \in Ids, f \in Files : ~Has(Empty, id, f)
    BY DEF Empty, Has
  <2>2. stack' = Empty /\ (phase' # "rm" => index' = Empty)
    BY <1>12 DEF Remove, Saving
  <2>3. QED
    BY <2>1, <2>2 DEF StackHeld, EntryHeld, IndexHeld
<1>13. ASSUME NEW n \in Caps, SetMaxTurns(n)
       PROVE  StackHeld' /\ (phase' # "rm" => IndexHeld')
  <2>1. \A id \in Ids, f \in Files : Has(stack', id, f) => Has(stack, id, f) /\ stack'[id][f] = stack[id][f]
    BY <1>13, <1>d, TrimPresent DEF SetMaxTurns
  <2>2. QED
    BY <1>13, <2>1, <1>e, <1>f DEF SetMaxTurns, Free, failures
<1>14. CASE Crash
  <2>1. phase # "rm"
    BY <1>14 DEF Crash
  <2>2. stack' = index /\ index' = index /\ call' = {} /\ blobs' = blobs /\ lost' = lost
    BY <1>14 DEF Crash
  <2>3. QED
    BY <2>1, <2>2, <1>b DEF StackHeld, EntryHeld, IndexHeld, Held
<1>15. ASSUME NEW ps \in SUBSET Files, Record(ps)
       PROVE  StackHeld' /\ (phase' # "rm" => IndexHeld')
  <2> DEFINE id == IF open = 0 THEN nextId ELSE open
  <2>1. id \in Ids /\ open' = id /\ call' = ps /\ call = {} /\ blobs' = blobs /\ lost' = lost
    BY <1>15 DEF Record, failures
  <2>2. \A k \in Ids, f \in Files :
          stack'[k][f] = IF k = id /\ f \in ps /\ ~Has(stack, k, f) THEN [before |-> disk[f], after |-> Unset]
                         ELSE stack[k][f]
    BY <1>15, <1>d, <2>1 DEF Record, Stacks
  <2>3. \A f \in ps : ~Has(stack, id, f) /\ Saved(disk[f]) => disk[f] \in staged'
    BY <1>15 DEF Record
  <2>4. ASSUME NEW k \in Ids, NEW f \in Files, Has(stack', k, f), <<f, k>> \notin lost
        PROVE  Held(stack'[k][f], IF f \in call' /\ k = open' THEN blobs' \cup staged' ELSE blobs', blobs')
    <3>1. CASE k = id /\ f \in ps /\ ~Has(stack, k, f)
      <4>a. stack'[k][f] = [before |-> disk[f], after |-> Unset]
        BY <2>2, <3>1
      <4>1. stack'[k][f].before = disk[f] /\ stack'[k][f].after = Unset
        BY <4>a
      <4>2. ~Saved(Unset)
        BY DEF Saved
      <4>3. QED
        BY <2>1, <2>3, <3>1, <4>1, <4>2 DEF Held
    <3>2. CASE ~(k = id /\ f \in ps /\ ~Has(stack, k, f))
      <4>1. stack'[k][f] = stack[k][f] /\ Has(stack, k, f)
        BY <2>2, <2>4, <3>2 DEF Has
      <4>2. Held(stack[k][f], blobs, blobs)
        BY <1>b, <2>1, <2>4, <4>1 DEF StackHeld, EntryHeld
      <4>3. QED
        BY <2>1, <4>1, <4>2 DEF Held
    <3>3. QED
      BY <3>1, <3>2
  <2>5. StackHeld'
    BY <2>1, <2>4 DEF StackHeld, EntryHeld
  <2>6. QED
    BY <1>15, <2>5, <1>f DEF Record, failures
<1>16. CASE After
  <2> DEFINE s == Closed(call)
  <2>1. open \in Ids /\ phase # "rm" /\ call' = {} /\ lost' = lost /\ index' = index /\ blobs \subseteq blobs'
    BY <1>16 DEF After, TypeOK, CallIsAlone, failures
  <2>2. s \in Stacks
    BY <2>1, <1>d, ClosedFewer
  <2>3. \A id \in Ids, f \in Files : Has(stack', id, f) => Has(s, id, f) /\ stack'[id][f] = s[id][f]
    <3>1. stack' = s \/ stack' = Trim(s, cap)
      BY <1>16 DEF After
    <3>2. cap \in Nat
      BY DEF TypeOK
    <3>3. QED
      BY <2>2, <3>1, <3>2, TrimPresent
  <2>4. ASSUME NEW id \in Ids, NEW f \in Files, Has(s, id, f), <<f, id>> \notin lost
        PROVE  Held(s[id][f], blobs', blobs')
    <3>1. CASE id = open /\ f \in call
      <4>1. \A img \in {s[open][f].before, s[open][f].after} :
              Saved(img) /\ img \in staged \cup {disk[f]} => img \in blobs'
        BY <1>16, <2>4, <3>1 DEF After
      <4>2. QED
        BY <1>b, <1>d, <2>1, <2>4, <3>1, <4>1, AfterHolds DEF Held
    <3>2. CASE ~(id = open /\ f \in call)
      <4>1. s[id][f] = stack[id][f]
        BY <1>d, <2>1, <3>2, ClosedOthers
      <4>2. Held(stack[id][f], blobs, blobs)
        BY <1>b, <2>4, <3>2, <4>1 DEF StackHeld, EntryHeld, Has
      <4>3. QED
        BY <2>1, <4>1, <4>2 DEF Held
    <3>3. QED
      BY <3>1, <3>2
  <2>5. StackHeld'
    BY <2>1, <2>3, <2>4 DEF StackHeld, EntryHeld, Held
  <2>6. QED
    BY <2>1, <2>5, <1>f
<1>17. ASSUME NEW g \in Files, NEW done \in SUBSET Files, AfterFails(done, g)
       PROVE  StackHeld' /\ (phase' # "rm" => IndexHeld')
  <2> DEFINE s == Closed(done \cup {g})
  <2>1. /\ open \in Ids /\ phase # "rm" /\ call' = {} /\ index' = index /\ blobs \subseteq blobs' /\ stack' = s
        /\ lost' = lost \cup ((call \ done) \X {open}) /\ done \subseteq call /\ g \in call
    BY <1>17 DEF AfterFails, TypeOK, CallIsAlone
  <2>2. done \cup {g} \in SUBSET call /\ done \cup {g} \in SUBSET Files
    BY <2>1
  <2>3. ASSUME NEW id \in Ids, NEW f \in Files, Has(s, id, f), <<f, id>> \notin lost'
        PROVE  Held(s[id][f], blobs', blobs')
    <3>1. CASE id = open /\ f \in call
      <4>1. f \in done /\ <<f, id>> \notin lost
        BY <2>1, <2>3, <3>1
      <4>2. \A img \in {s[open][f].before, s[open][f].after} :
              Saved(img) /\ img \in staged \cup {disk[f]} => img \in blobs'
        BY <1>17, <2>3, <3>1, <4>1 DEF AfterFails
      <4>3. QED
        BY <1>b, <1>d, <2>1, <2>2, <2>3, <3>1, <4>1, <4>2, AfterHolds DEF Held
    <3>2. CASE ~(id = open /\ f \in call)
      <4>1. s[id][f] = stack[id][f]
        <5>1. id # open \/ f \notin done \cup {g}
          BY <2>1, <3>2
        <5>2. QED
          BY <2>1, <2>2, <5>1, ClosedOthers
      <4>2. Held(stack[id][f], blobs, blobs)
        BY <1>b, <2>1, <2>3, <3>2, <4>1 DEF StackHeld, EntryHeld, Has
      <4>3. QED
        BY <2>1, <4>1, <4>2 DEF Held
    <3>3. QED
      BY <3>1, <3>2
  <2>4. StackHeld'
    BY <2>1, <2>3 DEF StackHeld, EntryHeld
  <2>5. QED
    BY <2>1, <2>4, <1>f
<1>18. CASE UNCHANGED vars
  BY <1>18, <1>2 DEF vars, failures
<1>19. QED
  BY <1>1, <1>3, <1>4, <1>5, <1>6, <1>7, <1>8, <1>9, <1>10, <1>11, <1>12, <1>13, <1>14, <1>15, <1>16, <1>17, <1>18
     DEF Next, WorkerStep, StoreStep, UserStep

(***************************************************************************)
(* The theorems.                                                           *)
(***************************************************************************)

LEMMA InvInit == Init => IInv
<1> SUFFICES ASSUME Init PROVE IInv
  OBVIOUS
<1>1. TypeOK
  BY TypeInit
<1>2. \A id \in Ids, f \in Files : ~Has(Empty, id, f)
  BY DEF Empty, Has
<1>3. Present(Empty) = {}
  BY <1>2 DEF Present
<1>4. CallIsAlone /\ InOrder /\ Saving
  BY <1>3 DEF Init, CallIsAlone, InOrder, Saving
<1>5. Intact
  BY <1>2 DEF Init, Intact, EntryHeld
<1>6. QED
  BY <1>1, <1>4, <1>5 DEF IInv

THEOREM Invariant == Spec => []IInv
<1>1. Init => IInv
  BY InvInit
<1>2. IInv /\ [Next]_vars => IInv'
  BY TypeStep, AloneStep, OrderStep, SavingStep, IntactStep DEF IInv
<1>3. QED
  BY <1>1, <1>2, PTL DEF Spec

\* Every variable keeps its type: in particular no step reads an entry of a checkpoint
\* or a copy that is not there.
THEOREM Typing == Spec => []TypeOK
<1>1. IInv => TypeOK
  BY DEF IInv
<1>2. QED
  BY <1>1, Invariant, PTL

\* The index on disk is the stack the user sees whenever no operation is under way
\* and the last one could save it, whatever was cut short before (checkpoints.py _save, _load).
THEOREM SavedStack == Spec => []Durable
<1>1. IInv => Durable
  BY DEF IInv, Saving, Durable, Free
<1>2. QED
  BY <1>1, Invariant, PTL

\* The checkpoint a turn writes into is the newest of them, after every undo, revert,
\* trim and restart, so "newest first" is the order in which the turns ran.
THEOREM Ordering == Spec => []OpenIsNewest
<1>1. ASSUME IInv PROVE OpenIsNewest
  <2>1. Present(stack) \in SUBSET Ids
    BY DEF Present
  <2>2. ASSUME phase # "undo", open # 0 PROVE open = Newest(Present(stack))
    <3>1. open \in Present(stack) /\ \A k \in Present(stack) : k <= open
      BY <1>1, <2>2 DEF IInv, InOrder
    <3>2. QED
      BY <2>1, <3>1, NewestIs
  <2>3. \A id \in Present(stack) : id < nextId
    BY <1>1 DEF IInv, InOrder
  <2>4. QED
    BY <2>2, <2>3 DEF OpenIsNewest
<1>2. QED
  BY <1>1, Invariant, PTL

\* A restart finds every copy the saved index names, wherever the process died, except
\* inside a keep: after() saves before _save writes, and _gc removes after it.
THEOREM Recoverable == Spec => []IndexIntact
<1>1. ASSUME IInv PROVE IndexIntact
  <2> SUFFICES ASSUME phase # "rm", ~halfKept
      PROVE  Refs([id \in Ids |-> [f \in Files |-> IF <<f, id>> \in lost THEN None ELSE index[id][f]]]) \subseteq blobs
    BY DEF IndexIntact
  <2> DEFINE s == [id \in Ids |-> [f \in Files |-> IF <<f, id>> \in lost THEN None ELSE index[id][f]]]
  <2>1. ASSUME NEW img \in Refs(s) PROVE img \in blobs
    <3>1. PICK id \in Ids, f \in Files : Has(s, id, f) /\ img \in {s[id][f].before, s[id][f].after}
      BY DEF Refs
    <3>2. <<f, id>> \notin lost /\ s[id][f] = index[id][f] /\ Has(index, id, f)
      BY <3>1 DEF Has
    <3>3. Held(index[id][f], blobs, blobs)
      BY <1>1, <3>2 DEF IInv, Intact
    <3>4. Saved(img)
      BY DEF Refs
    <3>5. QED
      BY <3>1, <3>2, <3>3, <3>4 DEF Held
  <2>2. QED
    BY <2>1
<1>2. QED
  BY <1>1, Invariant, PTL

(***************************************************************************)
(* The user's edits.                                                       *)
(***************************************************************************)

\* A post-image is what a tool left, never what the user wrote.
AftersAreMomos ==
  \A id \in Ids, f \in Files : {stack[id][f].after, index[id][f].after} \subseteq MomoContents \cup {Unset}

\* A file that holds what the user last wrote holds something no tool writes, or it is
\* as it was before momo came, and no tool has changed it yet.
MineIsUsers ==
  \A f \in mine : \/ disk[f] \in UserContents
                  \/ \A id \in Ids : stack[id][f].after = Unset /\ index[id][f].after = Unset

\* The open checkpoint was made by this process, so its pre-images are there, also
\* when a keep was cut short before.
OpenHeld ==
  open # 0 => \A f \in Files : Has(stack, open, f) /\ Saved(stack[open][f].before) =>
                stack[open][f].before \in IF f \in call THEN blobs \cup staged ELSE blobs

\* During its turn the files follow the open checkpoint's entries.
OpenFollows ==
  running /\ open # 0 => \A f \in Files : Has(stack, open, f) =>
    IF f \in call THEN disk[f] = stack[open][f].before \/ (disk[f] \in MomoContents /\ f \notin mine)
    ELSE disk[f] = stack[open][f].after

\* An undo has not yet come to the entries it still has to take back.
UndoCovers ==
  phase = "undo" =>
    /\ \A e \in job : Has(stack, e[1], e[2])
    /\ (running /\ open # 0) => \A f \in Files : Has(stack, open, f) => <<open, f>> \in job

CallHasEntries == \A f \in call : Has(stack, open, f)

EditsSafe ==
  /\ AftersAreMomos /\ MineIsUsers /\ OpenHeld /\ OpenFollows /\ UndoCovers /\ CallHasEntries
  /\ phase = "rm" => open = 0

\* What the tools write and what the user writes can be told apart, and commands of a
\* turn do not edit the files behind the tools' back.
ToldApart == EditsInTurns = FALSE /\ MomoContents \cap UserContents = {}

\* Every copy could be saved.
NothingLost == lost = {}

LEMMA EditsInit == Init => EditsSafe
<1> SUFFICES ASSUME Init PROVE EditsSafe
  OBVIOUS
<1>1. \A id \in Ids, f \in Files : Empty[id][f] = None /\ None.after = Unset /\ ~Has(Empty, id, f)
  BY DEF Empty, None, Has
<1>2. AftersAreMomos /\ MineIsUsers
  BY <1>1 DEF Init, AftersAreMomos, MineIsUsers
<1>3. QED
  BY <1>2 DEF Init, EditsSafe, OpenHeld, OpenFollows, UndoCovers, CallHasEntries

\* A step that only takes entries away, while no call runs and the files do not change.
LEMMA FewerSafe ==
  ASSUME ToldApart, EditsSafe, call = {}, call' = {}, disk' = disk, mine' = mine, phase' # "undo",
         running' => running \/ open' = 0, open' \in {open, 0}, blobs' = blobs, phase' = "rm" => open' = 0,
         \A id \in Ids, f \in Files : stack'[id][f] \in {stack[id][f], None},
         \A id \in Ids, f \in Files : index'[id][f] \in {index[id][f], stack[id][f], None},
         open \in Ids \cup {0}, mine \subseteq Files
  PROVE  EditsSafe'
<1>1. None.after = Unset
  BY DEF None
<1>2. AftersAreMomos'
  BY <1>1 DEF EditsSafe, AftersAreMomos
<1>3. MineIsUsers'
  BY <1>1 DEF EditsSafe, MineIsUsers
<1>4. ASSUME NEW f \in Files, Has(stack', open', f), open' # 0
      PROVE  open' = open /\ Has(stack, open, f) /\ stack'[open][f] = stack[open][f]
  BY <1>4 DEF Has
<1>5. OpenHeld'
  BY <1>4 DEF EditsSafe, OpenHeld
<1>6. OpenFollows'
  BY <1>4 DEF EditsSafe, OpenFollows
<1>7. QED
  BY <1>2, <1>3, <1>5, <1>6 DEF EditsSafe, UndoCovers, CallHasEntries

LEMMA EditsStep ==
  ASSUME ToldApart, IInv, EditsSafe, [Next]_vars, lost' = {}
  PROVE  EditsSafe'
<1> USE CheckpointsAssumption
<1>a. /\ stack \in Stacks /\ index \in Stacks /\ call \in SUBSET Files /\ open \in Ids \cup {0} /\ mine \subseteq Files
      /\ disk \in [Files -> Images] /\ job \subseteq Ids \X Files /\ cap \in Nat
      /\ \A id \in Ids : id \in Int /\ id # 0
  BY IdsAreInts DEF IInv, TypeOK, Ids
<1>b. CallIsAlone /\ InOrder /\ Saving /\ TypeOK
  BY DEF IInv
<1>c. \A f \in Files : disk[f] # Unset
  BY <1>a
<1>d. None.after = Unset
  BY DEF None
<1>1. CASE BeginTurn
  BY <1>1, <1>b, FewerSafe, <1>a DEF BeginTurn, CallIsAlone
<1>2. CASE EndTurn
  BY <1>2 DEF EndTurn, EditsSafe, AftersAreMomos, MineIsUsers, OpenHeld, OpenFollows, UndoCovers, CallHasEntries
<1>3. CASE Save
  BY <1>3, <1>b, FewerSafe, <1>a DEF Save, CallIsAlone
<1>4. CASE Gc
  <2>1. call = {} /\ call' = {} /\ phase' = "idle"
    BY <1>4, <1>b DEF Gc, CallIsAlone
  <2>2. OpenHeld'
    <3> SUFFICES ASSUME NEW f \in Files, open # 0, Has(stack, open, f), Saved(stack[open][f].before)
        PROVE  stack[open][f].before \in blobs'
      BY <1>4, <2>1 DEF Gc, OpenHeld
    <3>1. stack[open][f].before \in blobs
      BY <2>1 DEF EditsSafe, OpenHeld
    <3>2. stack[open][f].before \in Images
      BY <1>a DEF Stacks, Entry, Has
    <3>3. stack[open][f].before \in Refs(stack)
      BY <1>a, <3>2 DEF Refs
    <3>4. QED
      BY <1>4, <3>1, <3>3 DEF Gc
  <2>3. QED
    BY <1>4, <2>1, <2>2 DEF Gc, EditsSafe, AftersAreMomos, MineIsUsers, OpenFollows, UndoCovers, CallHasEntries
<1>5. CASE UndoDone
  BY <1>5, <1>b, FewerSafe, <1>a DEF UndoDone, Reopen, CallIsAlone
<1>6. CASE Remove
  <2>1. open = 0 /\ call = {} /\ phase = "rm" /\ stack = Empty
    BY <1>6, <1>b DEF Remove, EditsSafe, CallIsAlone, Saving
  <2>2. \A id \in Ids, f \in Files : Empty[id][f] = None
    BY DEF Empty
  <2>3. AftersAreMomos' /\ MineIsUsers'
    <3>1. \A id \in Ids, f \in Files : index'[id][f] \in {index[id][f], None}
      BY <1>6, <2>2 DEF Remove
    <3>2. stack' = stack /\ mine' = mine /\ disk' = disk
      BY <1>6 DEF Remove
    <3>3. QED
      BY <1>a, <1>d, <3>1, <3>2 DEF EditsSafe, AftersAreMomos, MineIsUsers
  <2>4. QED
    BY <1>6, <2>1, <2>3 DEF Remove, EditsSafe, OpenHeld, OpenFollows, UndoCovers, CallHasEntries
<1>7. CASE Keep
  <2>1. \A id \in Ids, f \in Files : Empty[id][f] = None
    BY DEF Empty
  <2>2. QED
    BY <1>7, <2>1, FewerSafe, <1>a DEF Keep, Free
<1>8. ASSUME NEW n \in Caps, SetMaxTurns(n) PROVE EditsSafe'
  <2>1. \A id \in Ids, f \in Files : stack'[id][f] \in {stack[id][f], None}
    BY <1>8, <1>a, TrimPresent DEF SetMaxTurns, Has
  <2>2. phase' # "undo" /\ phase' # "rm"
    BY <1>8 DEF SetMaxTurns
  <2>3. QED
    BY <1>8, <2>1, <2>2, FewerSafe, <1>a DEF SetMaxTurns, Free
<1>9. CASE Crash
  BY <1>9 DEF Crash, EditsSafe, AftersAreMomos, MineIsUsers, OpenHeld, OpenFollows, UndoCovers, CallHasEntries
<1>10. ASSUME NEW k \in Ids, NEW force, Undo(k, force) PROVE EditsSafe'
  <2>1. UndoCovers'
    <3>1. \A f \in Files : running /\ open # 0 /\ Has(stack, open, f) => open >= k
      BY <1>10, <1>a, <1>b DEF Undo, InOrder
    <3>2. job' = {e \in Ids \X Files : e[1] >= k /\ Has(stack, e[1], e[2])}
      BY <1>10 DEF Undo
    <3>3. \A f \in Files : running /\ open # 0 /\ Has(stack, open, f) => <<open, f>> \in job'
      BY <1>a, <3>1, <3>2
    <3>4. QED
      BY <1>10, <3>2, <3>3 DEF Undo, UndoCovers, Has
  <2>2. QED
    BY <1>10, <2>1 DEF Undo, EditsSafe, AftersAreMomos, MineIsUsers, OpenHeld, OpenFollows, CallHasEntries
<1>11. ASSUME NEW f \in Files, NEW c \in UserContents, UserEdit(f, c) PROVE EditsSafe'
  <2>1. ~running /\ call = {}
    BY <1>11, <1>b DEF UserEdit, ToldApart, CallIsAlone
  <2>2. MineIsUsers'
    BY <1>11, <1>a DEF UserEdit, EditsSafe, MineIsUsers
  <2>3. QED
    BY <1>11, <2>1, <2>2 DEF UserEdit, EditsSafe, AftersAreMomos, OpenHeld, OpenFollows, UndoCovers, CallHasEntries
<1>12. ASSUME NEW f \in Files, NEW c \in MomoContents, Write(f, c) PROVE EditsSafe'
  <2>1. MineIsUsers' /\ OpenFollows'
    BY <1>12, <1>a DEF Write, EditsSafe, MineIsUsers, OpenFollows
  <2>2. phase = "idle"
    BY <1>12, <1>b DEF Write, CallIsAlone
  <2>3. QED
    BY <1>12, <2>1, <2>2 DEF Write, EditsSafe, AftersAreMomos, OpenHeld, UndoCovers, CallHasEntries
<1>13. CASE UNCHANGED vars
  <2> USE <1>13 DEF vars
  <2>1. AftersAreMomos' /\ MineIsUsers'
    BY DEF EditsSafe, AftersAreMomos, MineIsUsers
  <2>2. OpenHeld' /\ OpenFollows'
    BY DEF EditsSafe, OpenHeld, OpenFollows, Has
  <2>3. UndoCovers' /\ CallHasEntries'
    BY DEF EditsSafe, UndoCovers, CallHasEntries, Has
  <2>4. QED
    BY <2>1, <2>2, <2>3 DEF EditsSafe
<1>14. ASSUME NEW g \in Files, NEW done \in SUBSET Files, AfterFails(done, g) PROVE EditsSafe'
  <2>a. g \in call /\ done \subseteq call \ {g} /\ lost' = lost \cup ((call \ done) \X {open})
    BY <1>14 DEF AfterFails
  <2>b. <<g, open>> \in (call \ done) \X {open}
    BY <2>a
  <2>1. <<g, open>> \in lost'
    BY <2>a, <2>b, Zenon
  <2>2. QED
    BY <2>1
<1>15. ASSUME NEW g \in Files, NEW force \in BOOLEAN, RevertFile(g, force) PROVE EditsSafe'
  <2>1. \A id \in Ids, f \in Files : stack'[id][f] = IF f = g THEN None ELSE stack[id][f]
    BY <1>15, <1>a DEF RevertFile, Stacks
  <2>2. /\ call = {} /\ call' = {} /\ phase' = "save" /\ open' \in {open, 0} /\ blobs' = blobs /\ running' = running
        /\ mine' = mine \ {g} /\ index' = index /\ \A f \in Files : f # g => disk'[f] = disk[f]
    BY <1>15, <1>a DEF RevertFile, Reopen, Free
  <2>3. AftersAreMomos' /\ MineIsUsers'
    BY <1>a, <1>d, <2>1, <2>2 DEF EditsSafe, AftersAreMomos, MineIsUsers
  <2>4. ASSUME NEW f \in Files, Has(stack', open', f), open' # 0
        PROVE  open' = open /\ Has(stack, open, f) /\ stack'[open][f] = stack[open][f] /\ disk'[f] = disk[f]
    BY <2>4, <2>1, <2>2, <1>a DEF Has
  <2>5. OpenHeld' /\ OpenFollows'
    BY <2>2, <2>4 DEF EditsSafe, OpenHeld, OpenFollows
  <2>6. QED
    BY <2>2, <2>3, <2>5 DEF EditsSafe, UndoCovers, CallHasEntries
<1>16. ASSUME NEW e \in job, UndoEntry(e[1], e[2]) PROVE EditsSafe'
  <2> DEFINE id == e[1]
             g == e[2]
  <2>1. id \in Ids /\ g \in Files /\ e = <<id, g>> /\ Has(stack, id, g) /\ phase = "undo" /\ call = {}
    BY <1>16, <1>a, <1>b DEF UndoEntry, EditsSafe, UndoCovers, CallIsAlone
  <2>2. \A k \in Ids, f \in Files :
          /\ stack'[k][f] \in {stack[k][f], None}
          /\ k # id \/ f # g => stack'[k][f] = stack[k][f]
    <3>1. stack' = stack \/ stack' = Drop(stack, id, g)
      BY <1>16 DEF UndoEntry
    <3>2. \A k \in Ids, f \in Files : Drop(stack, id, g)[k][f] = IF k = id /\ f = g THEN None ELSE stack[k][f]
      BY <1>a, <2>1 DEF Drop, Stacks
    <3>3. QED
      BY <3>1, <3>2
  <2>3. /\ call' = {} /\ phase' = "undo" /\ open' = open /\ running' = running /\ blobs' = blobs /\ index' = index
        /\ mine' \subseteq mine /\ \A f \in Files : f # g => disk'[f] = disk[f]
        /\ g \in mine' => disk' = disk
        /\ job' = job \ {<<id, g>>}
    BY <1>16, <1>a, <2>1 DEF UndoEntry
  <2>4. AftersAreMomos' /\ MineIsUsers'
    BY <1>a, <1>d, <2>2, <2>3 DEF EditsSafe, AftersAreMomos, MineIsUsers
  \* The open checkpoint's entry comes first and is taken back.
  <2>5. ASSUME running, open # 0 PROVE ~Has(stack', open, g)
    <3>1. CASE Has(stack, open, g)
      <4>1. <<open, g>> \in job
        BY <2>1, <2>5, <3>1 DEF EditsSafe, UndoCovers
      <4>2. open <= id
        BY <1>16, <4>1 DEF UndoEntry
      <4>3. id <= open
        BY <1>b, <2>1, <2>5 DEF InOrder, Present
      <4>4. id = open
        BY <1>a, <2>1, <2>5, <4>2, <4>3
      <4>5. Unchanged(id, g)
        BY <2>1, <2>5, <3>1, <4>4 DEF EditsSafe, OpenFollows, Unchanged
      <4>6. stack[id][g].before \in Images
        BY <1>a, <2>1 DEF Stacks, Entry, Has
      <4>7. stack[id][g].before \in Big \/ Restorable(stack[id][g].before)
        <5>1. stack[id][g].before # Unset
          BY <4>6
        <5>2. Saved(stack[id][g].before) => stack[id][g].before \in blobs
          BY <2>1, <2>5, <4>4 DEF EditsSafe, OpenHeld
        <5>3. QED
          BY <5>1, <5>2 DEF Saved, Restorable
      <4>8. stack' = Drop(stack, id, g)
        BY <1>16, <4>5, <4>7 DEF UndoEntry
      <4>9. QED
        BY <1>a, <2>1, <4>4, <4>8 DEF Drop, Stacks, Has
    <3>2. CASE ~Has(stack, open, g)
      BY <3>2, <2>1, <2>2, <2>5, <1>a DEF Has
    <3>3. QED
      BY <3>1, <3>2
  <2>6. OpenHeld'
    BY <1>a, <2>1, <2>2, <2>3 DEF EditsSafe, OpenHeld, Has
  <2>7. OpenFollows'
    BY <1>a, <2>1, <2>2, <2>3, <2>5 DEF EditsSafe, OpenFollows, Has
  <2>8. UndoCovers'
    <3>1. ASSUME NEW i \in job' PROVE Has(stack', i[1], i[2])
      <4>1. i \in job /\ i # <<id, g>> /\ i[1] \in Ids /\ i[2] \in Files /\ i = <<i[1], i[2]>>
        BY <1>a, <2>3
      <4>2. stack'[i[1]][i[2]] = stack[i[1]][i[2]]
        BY <2>2, <4>1
      <4>3. QED
        BY <2>1, <4>1, <4>2 DEF EditsSafe, UndoCovers, Has
    <3>2. ASSUME running, open # 0, NEW f \in Files, Has(stack', open, f) PROVE <<open, f>> \in job'
      <4>1. f # g
        BY <2>5, <3>2
      <4>2. Has(stack, open, f)
        BY <1>a, <2>2, <3>2, <4>1 DEF Has
      <4>3. QED
        BY <2>1, <2>3, <3>2, <4>1, <4>2 DEF EditsSafe, UndoCovers
    <3>3. QED
      BY <2>3, <3>1, <3>2 DEF UndoCovers
  <2>9. QED
    BY <2>3, <2>4, <2>6, <2>7, <2>8 DEF EditsSafe, CallHasEntries
<1>17. ASSUME NEW ps \in SUBSET Files, Record(ps) PROVE EditsSafe'
  <2> DEFINE id == IF open = 0 THEN nextId ELSE open
  <2>1. /\ id \in Ids /\ open' = id /\ call' = ps /\ call = {} /\ phase = "idle" /\ phase' = "idle" /\ running /\ running'
        /\ blobs' = blobs /\ disk' = disk /\ mine' = mine /\ index' = index
    BY <1>17 DEF Record
  <2>2. \A k \in Ids, f \in Files :
          stack'[k][f] = IF k = id /\ f \in ps /\ ~Has(stack, k, f) THEN [before |-> disk[f], after |-> Unset]
                         ELSE stack[k][f]
    BY <1>17, <1>a, <2>1 DEF Record, Stacks
  <2>3. \A f \in ps : ~Has(stack, id, f) /\ Saved(disk[f]) => disk[f] \in staged'
    BY <1>17 DEF Record
  <2>4. \A f \in Files : [before |-> disk[f], after |-> Unset].after = Unset /\ [before |-> disk[f], after |-> Unset].before = disk[f]
    OBVIOUS
  <2>5. \A f \in Files : [before |-> disk[f], after |-> Unset] # None
    BY <1>c, <2>4 DEF None
  <2>a. \A k \in Ids, f \in Files : stack'[k][f].after \in {stack[k][f].after, Unset}
    BY <2>2, <2>4
  <2>6. AftersAreMomos'
    BY <2>1, <2>a DEF EditsSafe, AftersAreMomos
  <2>7. MineIsUsers'
    BY <1>a, <2>1, <2>a DEF EditsSafe, MineIsUsers
  \* Before the call an entry of the checkpoint is one of this turn's, so its file follows it.
  <2>8. ASSUME NEW f \in Files, Has(stack, id, f)
        PROVE  /\ open = id /\ disk[f] = stack[id][f].after
               /\ Saved(stack[id][f].before) => stack[id][f].before \in blobs
    <3>1. open = id /\ open # 0
      <4>1. id \in Present(stack)
        BY <2>1, <2>8 DEF Present
      <4>2. id < nextId
        BY <1>b, <4>1 DEF InOrder
      <4>3. QED
        BY <1>a, <2>1, <4>2
    <3>2. QED
      BY <2>1, <2>8, <3>1 DEF EditsSafe, OpenFollows, OpenHeld
  <2>9. OpenHeld'
    <3> SUFFICES ASSUME NEW f \in Files, Has(stack', id, f), Saved(stack'[id][f].before)
        PROVE  stack'[id][f].before \in IF f \in ps THEN blobs' \cup staged' ELSE blobs'
      BY <2>1 DEF OpenHeld
    <3>1. CASE Has(stack, id, f)
      <4>1. stack'[id][f] = stack[id][f]
        BY <2>1, <2>2, <3>1
      <4>2. QED
        BY <2>1, <2>8, <3>1, <4>1
    <3>2. CASE ~Has(stack, id, f)
      <4>1. f \in ps
        BY <2>1, <2>2, <3>2 DEF Has
      <4>2. stack'[id][f].before = disk[f]
        BY <2>1, <2>2, <2>4, <3>2, <4>1
      <4>3. disk[f] \in staged'
        BY <2>3, <3>2, <4>1, <4>2
      <4>4. QED
        BY <4>1, <4>2, <4>3
    <3>3. QED
      BY <3>1, <3>2
  <2>10. OpenFollows'
    <3> SUFFICES ASSUME NEW f \in Files, Has(stack', id, f)
        PROVE  IF f \in ps THEN disk[f] = stack'[id][f].before \/ (disk[f] \in MomoContents /\ f \notin mine)
               ELSE disk[f] = stack'[id][f].after
      BY <2>1 DEF OpenFollows
    <3>1. CASE ~Has(stack, id, f)
      BY <2>1, <2>2, <2>4, <3>1 DEF Has
    <3>2. CASE Has(stack, id, f)
      <4>1. disk[f] = stack[id][f].after /\ stack'[id][f] = stack[id][f]
        BY <2>1, <2>2, <2>8, <3>2
      <4>2. disk[f] \in MomoContents
        BY <1>c, <2>1, <4>1 DEF EditsSafe, AftersAreMomos
      <4>3. f \notin mine
        BY <1>c, <2>1, <4>1, <4>2 DEF EditsSafe, MineIsUsers, ToldApart
      <4>4. QED
        BY <4>1, <4>2, <4>3
    <3>3. QED
      BY <3>1, <3>2
  <2>11. CallHasEntries'
    <3>1. ASSUME NEW f \in ps PROVE stack'[id][f] # None
      <4>1. CASE Has(stack, id, f)
        BY <2>1, <2>2, <4>1 DEF Has
      <4>2. CASE ~Has(stack, id, f)
        BY <2>1, <2>2, <2>5, <4>2
      <4>3. QED
        BY <4>1, <4>2
    <3>2. QED
      BY <2>1, <3>1 DEF CallHasEntries, Has
  <2>12. UndoCovers'
    BY <2>1 DEF UndoCovers
  <2>13. QED
    BY <2>1, <2>6, <2>7, <2>9, <2>10, <2>11, <2>12 DEF EditsSafe
<1>18. CASE After
  <2> DEFINE s == Closed(call)
  <2>1. /\ open \in Ids /\ running /\ running' = running /\ call # {} /\ call' = {} /\ index' = index /\ blobs \subseteq blobs'
        /\ disk' = disk /\ mine' = mine /\ phase' = "save" /\ open' \in {open, 0} /\ lost' = lost
    BY <1>18, <1>a, <1>b DEF After, CallIsAlone, failures
  <2>2. s \in Stacks
    BY <1>b, <2>1, <1>a, ClosedFewer
  <2>3. \A id \in Ids, f \in Files : stack'[id][f] \in {s[id][f], None}
    <3>1. stack' = s \/ stack' = Trim(s, cap)
      BY <1>18 DEF After
    <3>2. \A id \in Ids, f \in Files : Trim(s, cap)[id][f] \in {s[id][f], None}
      BY <1>a, <2>2, TrimPresent DEF Has
    <3>3. QED
      BY <3>1, <3>2
  <2>4. ASSUME NEW id \in Ids, NEW f \in Files, id # open \/ f \notin call PROVE s[id][f] = stack[id][f]
    BY <1>a, <1>b, <2>1, <2>4, ClosedOthers
  <2>5. ASSUME NEW f \in call
        PROVE  \/ s[open][f] = None
               \/ /\ s[open][f] = [before |-> stack[open][f].before, after |-> disk[f]]
                  /\ disk[f] \in MomoContents /\ f \notin mine
    <3>1. Has(stack, open, f)
      BY DEF EditsSafe, CallHasEntries
    <3>2. disk[f] = stack[open][f].before \/ (disk[f] \in MomoContents /\ f \notin mine)
      BY <1>a, <2>1, <3>1 DEF EditsSafe, OpenFollows
    <3>3. s[open][f] = IF stack[open][f].before = disk[f] THEN None
                       ELSE [before |-> stack[open][f].before, after |-> disk[f]]
      BY <1>a, <1>b, <2>1, <3>1, ClosedEntries
    <3>4. QED
      BY <3>2, <3>3
  <2>6. \A f \in call : s[open][f].after \in MomoContents \cup {Unset} /\ (f \in mine => s[open][f].after = Unset)
    <3>1. \A f \in call : [before |-> stack[open][f].before, after |-> disk[f]].after = disk[f]
      OBVIOUS
    <3>2. QED
      BY <1>d, <2>5, <3>1
  <2>7. \A id \in Ids, f \in Files : s[id][f].after \in MomoContents \cup {Unset}
    BY <2>1, <2>4, <2>6 DEF EditsSafe, AftersAreMomos
  <2>8. AftersAreMomos'
    BY <1>d, <2>1, <2>3, <2>7 DEF EditsSafe, AftersAreMomos
  <2>9. MineIsUsers'
    <3>1. ASSUME NEW f \in mine, disk[f] \notin UserContents, NEW id \in Ids PROVE s[id][f].after = Unset
      BY <1>a, <2>1, <2>4, <2>6, <3>1 DEF EditsSafe, MineIsUsers
    <3>2. QED
      BY <1>a, <1>d, <2>1, <2>3, <3>1 DEF EditsSafe, MineIsUsers
  <2>10. ASSUME NEW f \in Files, Has(stack', open', f), open' # 0
         PROVE  open' = open /\ stack'[open][f] = s[open][f] /\ Has(s, open, f)
    BY <2>1, <2>3, <2>10 DEF Has
  <2>11. OpenFollows'
    <3> SUFFICES ASSUME NEW f \in Files, Has(stack', open', f), open' # 0
        PROVE  disk[f] = stack'[open'][f].after
      BY <2>1 DEF OpenFollows
    <3>1. CASE f \in call
      <4>1. s[open][f] = [before |-> stack[open][f].before, after |-> disk[f]]
        BY <2>5, <2>10, <3>1 DEF Has
      <4>2. QED
        BY <2>10, <4>1
    <3>2. CASE f \notin call
      BY <2>1, <2>4, <2>10, <3>2 DEF EditsSafe, OpenFollows, Has
    <3>3. QED
      BY <3>1, <3>2
  <2>12. OpenHeld'
    <3> SUFFICES ASSUME NEW f \in Files, Has(stack', open', f), open' # 0, Saved(stack'[open'][f].before)
        PROVE  stack'[open'][f].before \in blobs'
      BY <2>1 DEF OpenHeld
    <3>1. CASE f \in call
      <4>1. s[open][f] = [before |-> stack[open][f].before, after |-> disk[f]]
        BY <2>5, <2>10, <3>1 DEF Has
      <4>2. s[open][f].before = stack[open][f].before
        BY <4>1
      <4>3. stack[open][f].before \in blobs \cup staged
        BY <2>1, <2>10, <3>1, <4>2 DEF EditsSafe, OpenHeld, CallHasEntries
      <4> DEFINE x == s[open][f].before
      <4>4. x \in blobs \cup staged /\ Saved(x) /\ stack'[open'][f].before = x
        BY <2>10, <4>2, <4>3
      <4>5. Has(s, open, f)
        BY <2>10
      <4>6. Saved(x) /\ x \in staged => x \in blobs'
        BY <1>18, <3>1, <4>5 DEF After
      <4>7. blobs \subseteq blobs'
        BY <1>18 DEF After
      <4>8. QED
        BY <4>4, <4>6, <4>7
    <3>2. CASE f \notin call
      BY <2>1, <2>4, <2>10, <3>2 DEF EditsSafe, OpenHeld, Has
    <3>3. QED
      BY <3>1, <3>2
  <2>13. QED
    BY <2>1, <2>8, <2>9, <2>11, <2>12 DEF EditsSafe, UndoCovers, CallHasEntries
<1>19. QED
  BY <1>1, <1>2, <1>3, <1>4, <1>5, <1>6, <1>7, <1>8, <1>9, <1>10, <1>11, <1>12, <1>13, <1>14, <1>15, <1>16, <1>17, <1>18
     DEF Next, WorkerStep, StoreStep, UserStep

\* "Your own edits are safe": as long as every copy could be saved, no undo and no
\* revert the user did not force replaces content the user wrote, whatever was undone,
\* kept, trimmed or restarted in between (checkpoints.py _check).
THEOREM EditsKept ==
  ASSUME ToldApart
  PROVE  Spec /\ []NothingLost => UserEditsKept
<1>1. Init => EditsSafe
  BY EditsInit
<1>2. IInv /\ EditsSafe /\ [Next]_vars /\ NothingLost' => EditsSafe'
  BY EditsStep DEF NothingLost
<1>3. IInv /\ EditsSafe /\ [Next]_vars => [~(mine \subseteq mine') => call # {} \/ forced']_vars
  <2> SUFFICES ASSUME IInv, EditsSafe, Next, NEW f \in mine, f \notin mine', call = {}, ~forced' PROVE FALSE
    OBVIOUS
  <2>1. /\ f \in Files /\ disk[f] # Unset /\ stack \in Stacks /\ job \subseteq Ids \X Files
    BY CheckpointsAssumption DEF IInv, TypeOK
  <2>2. \A id \in Ids : ~Unchanged(id, f)
    BY <2>1 DEF EditsSafe, AftersAreMomos, MineIsUsers, Unchanged, ToldApart
  <2>3. ASSUME NEW e \in job, UndoEntry(e[1], e[2]) PROVE FALSE
    <3>1. e[2] = f /\ (Unchanged(e[1], e[2]) \/ forced) /\ forced' = forced
      BY <2>3 DEF UndoEntry
    <3>2. QED
      BY <2>1, <2>2, <3>1
  <2>4. ASSUME NEW g \in Files, NEW force \in BOOLEAN, RevertFile(g, force) PROVE FALSE
    <3>1. g = f /\ ~force /\ Hits(stack, f) # {} /\ Unchanged(Newest(Hits(stack, f)), f)
      BY <2>4 DEF RevertFile
    <3>2. Hits(stack, f) \in SUBSET Ids
      BY DEF Hits
    <3>3. Newest(Hits(stack, f)) \in Ids
      BY <3>1, <3>2, NewestIsGreatest
    <3>4. QED
      BY <2>2, <3>1, <3>3
  <2>5. \/ \E e \in job : UndoEntry(e[1], e[2])
        \/ \E g \in Files, force \in BOOLEAN : RevertFile(g, force)
    BY DEF Next, WorkerStep, StoreStep, UserStep, BeginTurn, EndTurn, After, Record, Write, AfterFails, Save,
       Gc, UndoDone, Remove, UserEdit, Undo, Keep, SetMaxTurns, Crash
  <2>6. QED
    BY <2>3, <2>4, <2>5
<1>4. QED
  BY <1>1, <1>2, <1>3, Invariant, PTL DEF Spec, UserEditsKept

=============================================================================
