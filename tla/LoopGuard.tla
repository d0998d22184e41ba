------------------------------- MODULE LoopGuard -------------------------------
(***************************************************************************)
(* The loop guard of one turn: what it counts of the model's calls, and    *)
(* the notes and rewinds that follow (loop_guard.py, the end of a batch in *)
(* Harness._run_loop).                                                     *)
(*                                                                         *)
(* A batch holds one call.  The epoch is part of a call's signature and    *)
(* never comes back, so the counts of an older epoch are dropped here.     *)
(***************************************************************************)
EXTENDS Naturals, Sequences, FiniteSets

CONSTANTS
  Reads, Writes,   \* the calls the model makes: reads, and writes to one definition each
  Commands,        \* its commands, no two of them alike
  Probe,           \* the command that runs a scratchpad file
  Errors,          \* the failures a command's output can name
  Owner,           \* the definition each write changes
  THRESHOLD, MAX_RESETS

VARIABLES
  made,     \* LoopGuard._writes
  seen,     \* LoopGuard._calls: occurrences of each call
  errs,     \* LoopGuard._errors and _error_cmds: the checks that failed with an error
  pending,  \* LoopGuard._pending: the definitions edited since a command ran
  churn,    \* LoopGuard._churn: the checks that failed after an edit to a definition
  nudged,   \* LoopGuard._nudged
  version,  \* LoopGuard._versions of the probe's file
  rewinds,  \* loop_resets
  over,     \* the turn was stopped
  calls,    \* calls so far
  failed    \* times in a row each check failed with an error

guardVars == <<made, seen, errs, pending, churn, nudged, version, rewinds, over, calls, failed>>

Scratch == "scratch"
Calls == Reads \cup Writes \cup Commands \cup {Scratch}
Defs == {Owner[w] : w \in Writes}
MaxVersion == THRESHOLD
Checks == Commands \X (0..MaxVersion)

\* A command as a check: with the version of the file it runs.
Check(c) == <<c, IF c = Probe THEN version ELSE 0>>

Fresh ==
  /\ made' = {} /\ seen' = [c \in Calls |-> 0] /\ errs' = [e \in Errors |-> <<>>]
  /\ pending' = {} /\ churn' = [d \in Defs |-> <<>>] /\ nudged' = {} /\ version' = 0
  /\ failed' = [k \in Checks \X Errors |-> 0]

Init ==
  /\ made = {} /\ seen = [c \in Calls |-> 0] /\ errs = [e \in Errors |-> <<>>]
  /\ pending = {} /\ churn = [d \in Defs |-> <<>>] /\ nudged = {} /\ version = 0
  /\ failed = [k \in Checks \X Errors |-> 0]
  /\ rewinds = 0 /\ over = FALSE /\ calls = 0

\* The epoch moves: only the writes' counts, whose signature leaves it out, stay.
Bumped(n) == [c \in Calls |-> IF c \in Writes \cup {Scratch} THEN n[c] ELSE 0]

Another(n) == n + 1

\* A hit rewinds the history and the guard starts anew, or it ends the turn; the user
\* may interrupt the analysis.
Hit ==
  \/ /\ rewinds < MAX_RESETS /\ rewinds' = Another(rewinds) /\ Fresh /\ UNCHANGED over
  \/ /\ over' = TRUE
     /\ UNCHANGED <<made, seen, errs, pending, churn, nudged, version, rewinds, failed>>

Counted(c) == [seen EXCEPT ![c] = @ + 1]
Repeats(c) == seen[c] + 1 >= THRESHOLD
Room == ~over /\ calls' = calls + 1

-----------------------------------------------------------------------------
(* LoopGuard.record *)

Read(r) ==
  /\ Room
  /\ IF Repeats(r) THEN Hit
     ELSE seen' = Counted(r) /\ UNCHANGED <<made, errs, pending, churn, nudged, version, rewinds, over, failed>>

\* A write that fails moves nothing; one made before does not move the epoch.
Write(w, ok) ==
  LET n == Counted(w)
  IN /\ Room
     /\ IF Repeats(w) THEN Hit
        ELSE /\ made' = IF ok THEN made \cup {w} ELSE made
             /\ seen' = IF ok /\ w \notin made THEN Bumped(n) ELSE n
             /\ pending' = IF ok THEN pending \cup {Owner[w]} ELSE pending
             /\ UNCHANGED <<errs, churn, nudged, version, rewinds, over, failed>>

\* scratch_write: the probe is another check from here on.
Rewrite ==
  /\ Room
  /\ IF Repeats(Scratch) THEN Hit
     ELSE /\ version' = version + 1 /\ made' = made \cup {Scratch}
          /\ seen' = IF Scratch \notin made THEN Bumped(Counted(Scratch)) ELSE Counted(Scratch)
          /\ UNCHANGED <<errs, pending, churn, nudged, rewinds, over, failed>>

Has(s, k) == \E i \in DOMAIN s : s[i] = k

\* _clear_errors: only what the same check failed with.
Clears(k, s) == Has(s, k)

\* It exits with 0 and names no error.
Works(c) ==
  LET k == Check(c)
  IN /\ Room
     /\ IF Repeats(c) THEN Hit
        ELSE /\ seen' = Counted(c) /\ pending' = {}
             /\ churn' = [d \in Defs |-> IF Has(churn[d], k) THEN <<>> ELSE churn[d]]
             /\ nudged' = {d \in nudged : ~Has(churn[d], k)}
             /\ errs' = [e \in Errors |-> IF Clears(k, errs[e]) THEN <<>> ELSE errs[e]]
             /\ failed' = [x \in Checks \X Errors |->
                             IF x[1] = k \/ Has(errs[x[2]], k) THEN 0 ELSE failed[x]]
             /\ UNCHANGED <<made, version, rewinds, over>>

\* It exits with 0 behind a pipe or names an error all the same: nothing is proved.
Unclear(c) == Read(c)

\* It fails: with an error, or the pipe's 0 hid one.
Fails(c, e) ==
  LET k == Check(c)
      cycles == [d \in Defs |-> IF d \in pending THEN Append(churn[d], k) ELSE churn[d]]
      churning == {d \in pending : Len(cycles[d]) >= THRESHOLD}
      same == Append(errs[e], k)
  IN /\ Room
     /\ IF Repeats(c) \/ Len(same) >= THRESHOLD \/ churning \cap nudged # {} THEN Hit
        ELSE /\ seen' = Counted(c) /\ errs' = [errs EXCEPT ![e] = same]
             /\ churn' = cycles /\ pending' = {}
             /\ \/ churning = {} /\ UNCHANGED nudged
                \/ \E d \in churning : nudged' = nudged \cup {d}
             /\ failed' = [failed EXCEPT ![<<k, e>>] = @ + 1]
             /\ UNCHANGED <<made, version, rewinds, over>>

\* It fails and names no error: not counted as one, and no cycle.
FailsMute(c) ==
  /\ Room
  /\ IF Repeats(c) THEN Hit
     ELSE /\ seen' = Counted(c) /\ pending' = {}
          /\ UNCHANGED <<made, errs, churn, nudged, version, rewinds, over, failed>>

Next ==
  \/ \E r \in Reads : Read(r)
  \/ \E w \in Writes : Write(w, TRUE) \/ Write(w, FALSE)
  \/ Rewrite
  \/ \E c \in Commands : Works(c) \/ Unclear(c) \/ FailsMute(c) \/ \E e \in Errors : Fails(c, e)

Spec == Init /\ [][Next]_guardVars

-----------------------------------------------------------------------------
(* Properties *)

TypeOK ==
  /\ made \subseteq Writes \cup {Scratch} /\ pending \subseteq Defs /\ nudged \subseteq Defs
  /\ version \in 0..MaxVersion /\ rewinds \in 0..MAX_RESETS
  /\ \A c \in Calls : seen[c] < THRESHOLD

\* However the model mixes reads, edits, reruns and rewritten probes, a turn that only
\* has so many different calls to make is stopped (loop_guard.py:41).
LoopsAreStopped ==
  LET writes == Cardinality(Writes) + 1
      others == Cardinality(Reads \cup Commands)
  IN calls <= (MAX_RESETS + 1) * THRESHOLD * (writes + others * (writes + 1))

\* A check that keeps failing with one error is noticed, whatever else works in between:
\* "a probe that runs fine says nothing about the check that failed" (loop_guard.py:18).
FailuresAreNoticed == \A x \in Checks \X Errors : failed[x] < THRESHOLD
=============================================================================
