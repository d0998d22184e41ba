----------------------------- MODULE StoryRunner -----------------------------
(***************************************************************************)
(* A stories plan: its phases run in order, each as a set of stories that  *)
(* a writer makes and the user approves, one story at a time, with a       *)
(* verifier after each and a gate after the last: stories.py and           *)
(* story_runner.py, and what an undo does to both (plan_runner.py).        *)
(*                                                                         *)
(* A story has one expectation, whose verdict says what the verifier last  *)
(* found.                                                                  *)
(***************************************************************************)
EXTENDS Integers, Sequences, FiniteSets, FiniteSetsExt, Functions

CONSTANTS
    Plans,       \* the plans: bounds on the story numbers of each phase, and on the
                 \* sets sent back, tests retired, undos, crashes and file edits
    MaxAttempts, \* MAX_ATTEMPTS
    MaxRefusals, \* STORY_MAX_REFUSALS
    GateFixes,   \* GATE_FIXES
    MaxNew,      \* bound: the stories of one writing pass
    NewestFirst, \* an undo takes back the story in progress with the others
    DraftUndo    \* an undo may come while a draft waits for approval

ASSUME StoryAssumption ==
    /\ \A p \in Plans : p.stories \in Seq(Nat) /\ p.events \in Nat
    /\ {MaxAttempts, GateFixes, MaxNew} \subseteq Nat /\ MaxRefusals \in Nat \ {0}
    /\ {NewestFirst, DraftUndo} \subseteq BOOLEAN

VARIABLES
    room,    \* the plan that runs, one of Plans
    phase,   \* the status of each phase
    sets,    \* plan.story_sets
    pc,      \* rest, next (the top of _run_phase), story, writing, passed, over
    cur,     \* the story being run
    refused, \* its refusals so far
    pass,    \* the amend of the writing pass that runs
    fixes, reverified,  \* of _run_phase
    broken,  \* the saved tests that the last gate ran and that failed
    built,   \* history: stories whose changes are in the project
    events

vars == <<room, phase, sets, pc, cur, refused, pass, fixes, reverified, broken, built, events>>

-----------------------------------------------------------------------------
(* Stories and sets *)

Phases == Len(room.stories)

Whole == [kind |-> "whole"]
Amend(base, replaces, remap, blocks, empty) ==
    [kind |-> "amend", base |-> base, replaces |-> replaces, remap |-> remap,
     blocks |-> blocks, empty |-> empty]

Missing == [stories |-> <<>>, approved |-> FALSE, amend |-> Whole]
Finished(s) == s.status \in {"done", "replaced"}
NewStory(deps, refs, attempts) ==
    [status |-> "pending", deps |-> deps, refs |-> refs, attempts |-> attempts,
     defect |-> FALSE, verdict |-> "none", retired |-> FALSE]

WithStatus(ss, st) == {i \in DOMAIN ss : ss[i].status = st}
AllDone(ss) == \A i \in DOMAIN ss : Finished(ss[i])

\* Mutant of Ready: what was replaced counts as a dependency that is done.
ReadyFinished(ss, i) == \A d \in ss[i].deps : d \in DOMAIN ss => Finished(ss[d])
Ready(ss, i) == ss[i].deps \subseteq WithStatus(ss, "done")

(* next_ready: the story in progress, else the first pending one whose       *)
(* dependencies in this phase are done; 0: none.                             *)
NextReady(ss) ==
    LET doing == WithStatus(ss, "in_progress")
        can   == {i \in WithStatus(ss, "pending") : Ready(ss, i)}
    IN  IF doing # {} THEN Min(doing) ELSE IF can # {} THEN Min(can) ELSE 0

(* U and what is built on it: the smallest set with U in it that has the     *)
(* first of every pair whose second it has.                                  *)
BuiltOn(U, pairs) ==
    LET all == U \cup {e[1] : e \in pairs}
        Closed(S) == U \subseteq S /\ \A e \in pairs : e[2] \in S => e[1] \in S
    IN  {x \in all : \A S \in SUBSET all : Closed(S) => x \in S}

(* The pending stories that depend on i, directly or not. *)
Dependents(ss, i) ==
    BuiltOn({i}, {e \in WithStatus(ss, "pending") \X DOMAIN ss : e[2] \in ss[e[1]].deps}) \ {i}

(* No story can start before itself (_cycle). *)
Acyclic(ss) ==
    LET live == {i \in DOMAIN ss : ss[i].status # "replaced"}
    IN  \A S \in SUBSET live : S # {} => \E i \in S : ss[i].deps \cap S = {}

(* StorySet.validate: a live story depends on live ones of the set. *)
Valid(ss) ==
    LET live == {i \in DOMAIN ss : ss[i].status # "replaced"}
    IN  /\ live # {}
        /\ \A i \in live : ss[i].deps \subseteq live \ {i}
        /\ Acyclic(ss)

-----------------------------------------------------------------------------
(* The plan *)

(* _run_phase has returned: the plan is paused. *)
Rest == pc' = "rest" /\ fixes' = 0 /\ reverified' = FALSE

Current ==
    LET doing == {n \in 1..Phases : phase[n] = "in_progress"}
        open  == {n \in 1..Phases : phase[n] # "done"}
    IN  IF doing # {} THEN Min(doing) ELSE IF open # {} THEN Min(open) ELSE 0

Stories(n) == sets[n].stories
DoneIn(n) == WithStatus(Stories(n), "done")

Init ==
    /\ room \in Plans
    /\ phase = [n \in 1..Phases |-> "pending"]
    /\ sets = [n \in 1..Phases |-> Missing]
    /\ pc = "rest" /\ cur = 0 /\ refused = 0 /\ pass = Whole
    /\ fixes = 0 /\ reverified = FALSE
    /\ broken = {} /\ built = {} /\ events = 0

(* _execute_stories_plan takes the next phase; /plan run, /plan resume or a  *)
(* message got it here.                                                      *)
Go ==
    /\ pc = "rest" /\ Current # 0
    /\ pc' = "next" /\ fixes' = 0 /\ reverified' = FALSE
    /\ phase' = [phase EXCEPT ![Current] = "in_progress"]
    /\ UNCHANGED <<sets, cur, refused, pass, broken, built, events>>

Put(n, i, s) == sets' = [sets EXCEPT ![n].stories[i] = s]

-----------------------------------------------------------------------------
(* Writing stories *)

Write(amend) == pc' = "writing" /\ pass' = amend

(* A phase without an approved set: a whole pass, or the adding pass whose   *)
(* draft was not approved, from its snapshot.                                *)
WriteSet ==
    /\ pc = "next" /\ ~sets[Current].approved
    /\ Write(sets[Current].amend)
    /\ UNCHANGED <<phase, sets, cur, refused, fixes, reverified, broken, built, events>>

(* _writer_kept: the stories a pass adds to. *)
Kept(retire) ==
    IF pass.kind = "whole" THEN <<>>
    ELSE [i \in DOMAIN pass.base |->
            IF i \in pass.replaces \cup retire /\ pass.base[i].status # "done"
            THEN [pass.base[i] EXCEPT !.status = "replaced"] ELSE pass.base[i]]

(* _submit_stories: the new stories take the attempts of the one that        *)
(* failed; a corrected story stands in for the one it replaces; the story    *)
(* that reported a defect waits for its fix.                                 *)
Submitted(retire, new, deps, refs) ==
    LET kept == Kept(retire)
        first == IF pass.kind = "whole" \/ pass.replaces = {} THEN 0 ELSE Min(pass.replaces)
        tried == IF first = 0 THEN 0 ELSE kept[first].attempts
        Onto(i, s) ==
            IF pass.remap # 0 /\ ~Finished(s) /\ pass.remap \in s.deps
            THEN [s EXCEPT !.deps = (@ \ {pass.remap}) \cup new]
            ELSE IF i = pass.blocks THEN [s EXCEPT !.deps = @ \cup new] ELSE s
    IN  [i \in DOMAIN kept \cup new |->
           IF i \in DOMAIN kept THEN Onto(i, kept[i]) ELSE NewStory(deps[i], refs[i], tried)]

Retirable(n) == {x \in UNION {{<<k, i>> : i \in DoneIn(k)} : k \in 1..n} :
                   ~Stories(x[1])[x[2]].retired}

(* finish_stories: a valid set is stored, and the user asked. *)
Finish(retire, new, deps, refs, approve, gone) ==
    LET n == Current
        ss == Submitted(retire, new, deps, refs)
        Retire(k, old) == [i \in DOMAIN old |->
                             IF <<k, i>> \in gone THEN [old[i] EXCEPT !.retired = TRUE] ELSE old[i]]
    IN  /\ pc = "writing"
        /\ retire # {} => /\ pass.kind = "amend"
                          /\ \A i \in retire : pass.base[i].status \in {"pending", "failed"}
        /\ new = {} => pass.kind = "amend" /\ (gone # {} \/ pass.empty)
        /\ Valid(ss)
        /\ IF approve
           THEN /\ sets' = [k \in 1..Phases |->
                    IF k = n THEN [stories |-> Retire(k, ss), approved |-> TRUE, amend |-> Whole]
                             ELSE [sets[k] EXCEPT !.stories = Retire(k, @)]]
                /\ pc' = "next" /\ pass' = Whole
           ELSE /\ sets' = [sets EXCEPT ![n] =
                              [stories |-> ss, approved |-> FALSE, amend |-> pass]]
                /\ UNCHANGED <<pc, pass>>
        /\ events' = IF approve /\ gone = {} THEN events ELSE events + 1
        /\ events' <= room.events
        /\ UNCHANGED <<phase, cur, refused, fixes, reverified, broken, built>>

(* The writer replied with text, ran out of turns, or was stopped. *)
WriterStops ==
    /\ pc = "writing"
    /\ Rest /\ pass' = Whole
    /\ UNCHANGED <<phase, sets, cur, refused, broken, built, events>>

-----------------------------------------------------------------------------
(* Running one story *)

RunStory ==
    LET n == Current
        i == NextReady(Stories(n))
    IN  /\ pc = "next" /\ sets[n].approved /\ i # 0
        /\ Put(n, i, [Stories(n)[i] EXCEPT !.status = "in_progress"])
        /\ pc' = "story" /\ cur' = i /\ refused' = 0
        /\ UNCHANGED <<phase, pass, fixes, reverified, broken, built, events>>

(* The tests the verifier saved, of done stories. *)
Saved == {x \in UNION {{<<n, i>> : i \in DoneIn(n)} : n \in 1..Phases} :
            LET s == Stories(x[1])[x[2]] IN s.verdict = "pass" /\ ~s.retired}

(* The verifier's findings at a story: "deferred" also where it was unclear, *)
(* the interface is not there yet, or it ran out of turns.                   *)
Accepted(v) ==
    /\ pc = "story" /\ v \in {"pass", "deferred"}
    /\ Put(Current, cur, [Stories(Current)[cur] EXCEPT !.status = "done", !.verdict = v])
    /\ built' = built \cup {<<Current, cur>>}
    /\ pc' = "next" /\ cur' = 0 /\ refused' = 0
    /\ UNCHANGED <<phase, pass, fixes, reverified, broken, events>>

(* Its own tests or the verifier's fail: it goes on, in its own context. *)
Refused ==
    /\ pc = "story" /\ refused + 1 < MaxRefusals
    /\ refused' = refused + 1
    /\ UNCHANGED <<phase, sets, pc, cur, pass, fixes, reverified, broken, built, events>>

Resplit(ss, i) == Amend(ss, {i} \cup Dependents(ss, i), 0, 0, FALSE)

(* Refused too often, out of turns with an expectation unmet, the loop       *)
(* guard, a second defect: _story_failed asks for a re-split once.           *)
Failed ==
    LET n == Current
        ss == [Stories(n) EXCEPT ![cur].status = "failed", ![cur].attempts = @ + 1]
    IN  /\ pc = "story"
        /\ sets' = [sets EXCEPT ![n].stories = ss]
        /\ IF ss[cur].attempts >= MaxAttempts
           THEN Rest /\ UNCHANGED pass
           ELSE Write(Resplit(ss, cur)) /\ UNCHANGED <<fixes, reverified>>
        /\ cur' = 0 /\ refused' = 0
        /\ UNCHANGED <<phase, broken, built, events>>

(* report_defect, the first of this story: a fix story it waits for, or,     *)
(* when its own expectation is wrong, a story that replaces it.              *)
Defect(wrong) ==
    LET n == Current
        ss == [Stories(n) EXCEPT ![cur].status = "pending", ![cur].defect = TRUE]
    IN  /\ pc = "story" /\ ~Stories(n)[cur].defect
        /\ sets' = [sets EXCEPT ![n].stories = ss]
        /\ Write(IF wrong THEN Amend(ss, {cur}, cur, 0, FALSE) ELSE Amend(ss, {}, 0, cur, FALSE))
        /\ cur' = 0 /\ refused' = 0
        /\ UNCHANGED <<phase, fixes, reverified, broken, built, events>>

StoryCancelled ==
    /\ pc = "story"
    /\ Put(Current, cur, [Stories(Current)[cur] EXCEPT !.status = "pending"])
    /\ Rest /\ cur' = 0 /\ refused' = 0
    /\ UNCHANGED <<phase, pass, broken, built, events>>

(* No story is ready: one whose re-split was never written goes to the       *)
(* writer again, else the plan pauses.                                       *)
NothingReady ==
    LET n == Current
        ss == Stories(n)
        again == {i \in WithStatus(ss, "failed") : ss[i].attempts < MaxAttempts}
    IN  /\ pc = "next" /\ sets[n].approved /\ NextReady(ss) = 0 /\ ~AllDone(ss)
        /\ IF again # {}
           THEN Write(Resplit(ss, Min(again))) /\ UNCHANGED <<fixes, reverified>>
           ELSE Rest /\ UNCHANGED pass
        /\ UNCHANGED <<phase, sets, cur, refused, broken, built, events>>

-----------------------------------------------------------------------------
(* The gate of a phase *)

Verdicts == {"pass", "fail", "unclear", "ran_out"}

(* The stories' expectations that waited for the complete path. *)
Waiting(n) == {i \in DoneIn(n) : LET s == Stories(n)[i] IN s.verdict = "deferred" /\ ~s.retired}

\* Mutant of MustPass: only this phase's tests are run again.
MustPassHere(n) == {x \in Saved : x[1] = n}
MustPass(n) == {x \in Saved : x[1] <= n}

AtGate == pc = "next" /\ sets[Current].approved /\ AllDone(Stories(Current))

(* What the gate finds: `found` for the stories' waiting expectations, `own` *)
(* for the phase's, `late` for the test command and the requirements; any of *)
(* the tests saved before may fail, now that more code is written.           *)
Kinds(n, found, own, fails, late) ==
    LET first == ({found[i] : i \in DOMAIN found} \cup {own}) \ {"pass"}
    IN  IF first # {} THEN first
        ELSE IF MustPass(n) \cap fails # {} THEN {"regression"}
        ELSE IF n = Phases /\ late # "pass" THEN {late} ELSE {}

Judge(s, v) == [s EXCEPT !.verdict = IF v \in {"pass", "fail"} THEN v ELSE "deferred"]

Gate(found, own, fails, late) ==
    LET n == Current
        kinds == Kinds(n, found, own, fails, late)
        ss == [i \in DOMAIN Stories(n) |->
                 IF i \in DOMAIN found THEN Judge(Stories(n)[i], found[i]) ELSE Stories(n)[i]]
    IN  /\ AtGate
        /\ sets' = [sets EXCEPT ![n].stories = ss]
        /\ phase' = IF kinds = {} THEN [phase EXCEPT ![n] = "done"] ELSE phase
        /\ broken' = IF kinds = {} THEN fails ELSE {}
        /\ CASE kinds = {} -> pc' = "passed" /\ UNCHANGED <<fixes, reverified, pass>>
             [] kinds = {"ran_out"} /\ ~reverified ->
                  reverified' = TRUE /\ UNCHANGED <<pc, fixes, pass>>
             [] kinds # {"ran_out"} /\ kinds # {} /\ fixes < GateFixes ->
                  /\ fixes' = fixes + 1 /\ UNCHANGED reverified
                  /\ Write(Amend(ss, {}, 0, 0, kinds \subseteq {"regression", "unclear", "ran_out"}))
             [] OTHER -> Rest /\ UNCHANGED pass
        /\ UNCHANGED <<cur, refused, built, events>>

(* The next phase, or the end of the plan. *)
NextPhase ==
    /\ pc = "passed"
    /\ broken' = {}
    /\ IF Current = 0 THEN pc' = "over" /\ UNCHANGED <<phase, fixes, reverified>>
       ELSE /\ pc' = "next" /\ fixes' = 0 /\ reverified' = FALSE
            /\ phase' = [phase EXCEPT ![Current] = "in_progress"]
    /\ UNCHANGED <<sets, cur, refused, pass, built, events>>

-----------------------------------------------------------------------------
(* What comes from outside while the plan is paused *)

(* The user's edit of phase n's file, merged when the phase goes on: a       *)
(* failed story to be tried again, a story taken out, a dependency dropped.  *)
EditFile(n) ==
    /\ pc = "rest" /\ sets[n].approved /\ events < room.events
    /\ \E i \in DOMAIN Stories(n) :
         /\ ~Finished(Stories(n)[i])
         /\ \/ /\ Stories(n)[i].status = "failed"
               /\ Put(n, i, [Stories(n)[i] EXCEPT !.status = "pending"])
            \/ Put(n, i, [Stories(n)[i] EXCEPT !.deps = {}])
            \/ sets' = [sets EXCEPT ![n].stories = Restrict(@, DOMAIN @ \ {i})]
    /\ events' = events + 1
    /\ UNCHANGED <<phase, pc, cur, refused, pass, fixes, reverified, broken, built>>

(* The process ends in the middle of a story or a writing pass; the session  *)
(* keeps the plan as it was saved.                                           *)
Crash ==
    /\ pc \in {"story", "writing"} /\ events < room.events
    /\ Rest /\ cur' = 0 /\ refused' = 0 /\ pass' = Whole
    /\ events' = events + 1
    /\ UNCHANGED <<phase, sets, broken, built>>

\* Mutant of GoesBack: only the stories of the latest phase that is hit go back.
GoesBackLatest(U) == {x \in U : \A y \in U : y[1] <= x[1]}
(* _undone_units: done stories built on one that goes back go back too. *)
GoesBack(U) ==
    LET done == UNION {{<<n, i>> : i \in DoneIn(n)} : n \in 1..Phases}
        On(x, y) == \/ x[1] = y[1] /\ y[2] \in Stories(x[1])[x[2]].deps
                    \/ x[1] > y[1] /\ y \in Stories(x[1])[x[2]].refs
    IN  BuiltOn(U, {e \in done \X (done \cup U) : On(e[1], e[2])})

(* An undo of the checkpoints of the stories U (_reset_plan_progress). *)
Undo(U) ==
    LET back == GoesBack(U)
        hit == {x[1] : x \in back}
    IN  /\ pc = "rest" /\ events < room.events /\ U # {}
        /\ \A x \in U : Stories(x[1])[x[2]].status \in {"done", "in_progress"}
        /\ NewestFirst => \A n \in 1..Phases :
              \A i \in WithStatus(Stories(n), "in_progress") : <<n, i>> \in U
        /\ DraftUndo \/ \A n \in 1..Phases : sets[n].amend = Whole
        /\ sets' = [n \in 1..Phases |-> [sets[n] EXCEPT !.stories =
              [i \in DOMAIN @ |-> IF <<n, i>> \in back THEN [@[i] EXCEPT !.status = "pending"]
                                  ELSE @[i]]]]
        /\ phase' = [n \in 1..Phases |->
              IF \/ n \in hit /\ phase[n] = "done"
                 \/ n > Min(hit) /\ phase[n] = "in_progress" THEN "pending" ELSE phase[n]]
        /\ built' = built \ U /\ events' = events + 1
        /\ UNCHANGED <<pc, cur, refused, pass, fixes, reverified, broken>>

-----------------------------------------------------------------------------

Outside ==
    \/ Crash
    \/ \E n \in 1..Phases : EditFile(n)
    \/ \E U \in SUBSET (UNION {{<<n, i>> : i \in DOMAIN Stories(n)} : n \in 1..Phases}) : Undo(U)

Writer ==
    \/ WriterStops
    \/ /\ pc = "writing"
       /\ LET n == Current
              had == IF pass.kind = "amend" THEN DOMAIN pass.base ELSE {}
              next == Max({0} \cup had) + 1
          IN  \E k \in 0..MaxNew, approve \in BOOLEAN, retire \in SUBSET had,
                 gone \in {{}} \cup {{x} : x \in Retirable(n)} :
                LET new == next..(next + k - 1)
                IN  /\ new \subseteq 1..room.stories[n]
                    /\ \E deps \in [new -> SUBSET (had \cup new)],
                          refs \in [new -> SUBSET (UNION {{<<m, i>> : i \in DoneIn(m)} : m \in 1..(n - 1)})] :
                         Finish(retire, new, deps, refs, approve, gone)

Run ==
    \/ Go \/ WriteSet \/ RunStory \/ Refused \/ Failed \/ StoryCancelled \/ NothingReady \/ NextPhase
    \/ \E v \in {"pass", "deferred"} : Accepted(v)
    \/ \E wrong \in BOOLEAN : Defect(wrong)
    \/ /\ AtGate
       /\ \E found \in [Waiting(Current) -> Verdicts], own \in Verdicts, fails \in SUBSET Saved,
             late \in {"pass", "command", "gap"} : Gate(found, own, fails, late)

Next == (Run \/ Writer \/ Outside) /\ UNCHANGED room
Spec == Init /\ [][Next]_vars

-----------------------------------------------------------------------------
(* Properties *)

StorySet == [status : {"pending", "in_progress", "done", "failed", "replaced"},
             deps : SUBSET Nat, refs : SUBSET (Nat \X Nat),
             attempts : Nat, defect : BOOLEAN,
             verdict : {"none", "pass", "deferred", "fail"}, retired : BOOLEAN]

TypeOK ==
    /\ phase \in [1..Phases -> {"pending", "in_progress", "done"}]
    /\ \A n \in 1..Phases : \A i \in DOMAIN Stories(n) : Stories(n)[i] \in StorySet
    /\ pc \in {"rest", "next", "story", "writing", "passed", "over"}
    /\ pc = "story" <=> cur # 0
    /\ refused \in 0..(MaxRefusals - 1) /\ fixes \in 0..GateFixes /\ reverified \in BOOLEAN
    /\ built \subseteq UNION {{<<n, i>> : i \in 1..room.stories[n]} : n \in 1..Phases}

(* A story starts only when every story of its phase it depends on is done,  *)
(* and none of an earlier phase it was built on is open again, whatever was  *)
(* re-split, replaced, corrected or undone before, unless the user took it   *)
(* out of the file (stories.py:284).                                         *)
StartsReady ==
    [][ pc = "next" /\ pc' = "story" =>
          LET s == Stories(Current)[cur']
          IN  /\ s.deps \subseteq DoneIn(Current)
              /\ \A r \in s.refs : r[2] \in DOMAIN Stories(r[1]) => Finished(Stories(r[1])[r[2]]) ]_vars

(* A story that counts as done has its changes in the project: an undo, a    *)
(* resumed draft or a merged file never leaves one done whose files are gone *)
(* (plan_runner.py:306, story_runner.py:157).                                *)
DoneIsBuilt ==
    \A n \in 1..Phases : \A i \in DoneIn(n) : <<n, i>> \in built

(* When a phase closes, nothing that waited for its gate still waits, and no *)
(* test saved in it or before fails: README.md:732, "a later story cannot    *)
(* silently break what an earlier one delivered".                            *)
ClosedPhaseHolds ==
    [][ \A n \in 1..Phases : phase[n] # "done" /\ phase'[n] = "done" =>
          /\ {x \in Saved' : x[1] <= n} \cap broken' = {}
          /\ \A i \in DoneIn(n) : ~(Stories(n)[i].retired) => Stories(n)'[i].verdict # "deferred" ]_vars

(* README.md:732: "every acceptance test saved so far is run again", so a    *)
(* phase closes only with its done stories' expectations met or retired.     *)
ClosedPhaseProven ==
    [][ \A n \in 1..Phases : phase[n] # "done" /\ phase'[n] = "done" =>
          \A i \in DoneIn(n) : Stories(n)'[i].retired \/ Stories(n)'[i].verdict = "pass" ]_vars

-----------------------------------------------------------------------------
(* The plans TLC checks: one phase with room for a re-split; one that is     *)
(* undone, sent back and edited; a second phase that builds on the first.    *)
SmallPlans == {[stories |-> <<3>>, events |-> 0], [stories |-> <<2>>, events |-> 1],
               [stories |-> <<1, 1>>, events |-> 2], [stories |-> <<2, 1>>, events |-> 0]}
=============================================================================
