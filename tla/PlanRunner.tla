----------------------------- MODULE PlanRunner -----------------------------
(***************************************************************************)
(* An approved plan, run one step at a time: plan.py, plan_runner.py,      *)
(* tdd.py and the parts of harness.py that start and end a run.            *)
(*                                                                         *)
(* A step is its title, its stage, its status and its tag.  The project's  *)
(* files are what the gate of a TDD plan reads of them: the tags that      *)
(* still mark a skipped test, whether the test command would pass, and     *)
(* whether a finished step's test was changed since the stage started.     *)
(***************************************************************************)
EXTENDS Integers, Sequences, FiniteSets, SequencesExt, Positions

CONSTANTS
    Titles,       \* what a planner may call a step
    MaxSteps,     \* the steps of one create_plan or revise_plan
    Kinds,        \* the types of plan made
    MaxRefusals,  \* TDD_MAX_REFUSALS
    TextRetries,  \* _TDD_TEXT_RETRIES
    MaxRevisions, \* bound: calls of revise_plan
    MaxChanges,   \* bound: the user's edits of the plan file and undos
    InOrder,      \* edits and undos leave the finished steps in front
    LateRevisions \* a plan may be revised in its acceptance stage

ASSUME PlanAssumption ==
    /\ MaxSteps \in Nat /\ MaxRefusals \in Nat \ {0} /\ TextRetries \in Nat
    /\ MaxRevisions \in Nat /\ InOrder \in BOOLEAN /\ LateRevisions \in BOOLEAN

VARIABLES
    plan,      \* Harness.plan
    phase,     \* plan_phase
    mode,      \* "plan" or "coding"
    file,      \* .momo/plan.md, as read_plan_file parses it
    pc,        \* where the harness is
    at,        \* _execute_plan's idx
    marked,    \* tags of the skipped tests in the project
    suite,     \* whether the test command would pass now
    touched,   \* a finished step's test differs from the snapshot
    snapshot,  \* _tdd_snapshot is set
    green,     \* _tdd_green
    refusals,  \* _tdd_refusals
    retries,   \* _execute_plan's retries
    summary,   \* _step_summary is set: complete_step went through in this batch
    edited,    \* history: the user changed the file since it was written
    consent,   \* history: the user asked for this run
    revisions, changes

vars == <<plan, phase, mode, file, pc, at, marked, suite, touched, snapshot,
          green, refusals, retries, summary, edited, consent, revisions, changes>>
project == <<marked, suite, touched>>
gate    == <<at, snapshot, green, refusals, retries, summary>>
counts  == <<revisions, changes>>

-----------------------------------------------------------------------------
(* Plans *)

None       == 0
Acceptance == -1
TitleOf(stage) == "<" \o stage \o ">"
Tags == {Acceptance} \cup 1..(MaxSteps + MaxRevisions * MaxSteps)
NoPlan == [kind |-> "none", steps |-> <<>>]

Step(title, stage, tag) ==
    [title |-> title, stage |-> stage, status |-> "pending", tag |-> tag]
Finished(s) == s.status \in {"done", "skipped"}

(* What the planner may list: distinct titles. *)
Listed == {q \in UNION {[1..n -> Titles] : n \in 1..MaxSteps} : IsInjective(q)}

MakePlan(kind, titles) ==
    LET Impl(i) == Step(titles[i], "impl", IF kind = "tdd" THEN i ELSE None)
        impl == [i \in DOMAIN titles |-> Impl(i)]
    IN  [kind |-> kind,
         steps |-> IF kind = "tdd"
                   THEN <<Step(TitleOf("tests"), "tests", None)>> \o impl
                        \o <<Step(TitleOf("acceptance"), "acceptance", Acceptance)>>
                   ELSE impl]

(* current_index: the step in progress, else the first unfinished; 0: none. *)
Doing(p) == {i \in DOMAIN p.steps : p.steps[i].status = "in_progress"}
Open(p)  == {i \in DOMAIN p.steps : ~Finished(p.steps[i])}
CurrentIndex(p) ==
    LET from == IF Doing(p) = {} THEN Open(p) ELSE Doing(p)
    IN  IF from = {} THEN 0 ELSE Min(from)

StepTags(steps) == {steps[i].tag : i \in DOMAIN steps} \ {None}

\* Mutant of NextTag: counts the tags instead of looking for the largest.
NextTagCount(tags) == 1 + Cardinality(tags \ {None, Acceptance})

NextTag(tags) == 1 + Max({0} \cup (tags \ {None, Acceptance}))

\* Mutant of Staying: only what was done stays, not what was skipped.
StayingDone(p) == Without(p.steps, {i \in DOMAIN p.steps : p.steps[i].status # "done"})
(* The steps a revision leaves alone, *)
Staying(p) == Without(p.steps, Open(p))
(* and of the others those of a stage of the harness's own. *)
StageLeft(p, stage) ==
    Without(p.steps, {i \in DOMAIN p.steps : Finished(p.steps[i]) \/ p.steps[i].stage # stage})

(* The tag of the unfinished step of that title, None where there is none. *)
OldTag(p, title) ==
    LET same == {i \in Open(p) : p.steps[i].stage = "impl" /\ p.steps[i].title = title}
        tags == {p.steps[i].tag : i \in same} \ {None}
    IN  IF tags = {} THEN None ELSE Max(tags)

(* The first tag no step has, once the new steps have their old ones. *)
FirstFree(p, titles) ==
    NextTag(StepTags(Staying(p)) \cup StepTags(StageLeft(p, "tests"))
            \cup StepTags(StageLeft(p, "acceptance"))
            \cup {OldTag(p, titles[i]) : i \in DOMAIN titles})

NewTag(p, titles, i) ==
    LET known == {j \in DOMAIN titles : OldTag(p, titles[j]) # None}
    IN  IF i \in known THEN OldTag(p, titles[i])
        ELSE FirstFree(p, titles) + Moved(i, known) - 1
NewSteps(p, titles) ==
    [i \in DOMAIN titles |->
       Step(titles[i], "impl", IF p.kind = "tdd" THEN NewTag(p, titles, i) ELSE None)]

(* replace_remaining: finished steps stay, a TDD plan keeps its own stages;  *)
(* a title that was there keeps its tag, the others get the next free ones.  *)
ReplaceRemaining(p, titles) ==
    [p EXCEPT !.steps =
       IF p.kind = "tdd"
       THEN (Staying(p) \o StageLeft(p, "tests"))
            \o (NewSteps(p, titles) \o StageLeft(p, "acceptance"))
       ELSE Staying(p) \o NewSteps(p, titles)]

(* Another status for one of a plan's steps. *)
Status(p, i, status) ==
    [p EXCEPT !.steps = [p.steps EXCEPT ![i] = [p.steps[i] EXCEPT !.status = status]]]
Start(p, i) == Status(p, i, "in_progress")

InFront(p) == \A i, j \in DOMAIN p.steps :
                 i < j /\ Finished(p.steps[j]) => Finished(p.steps[i])

Init ==
    /\ plan = NoPlan /\ file = NoPlan
    /\ phase = "investigating" /\ mode = "plan" /\ pc = "rest"
    /\ at = 0 /\ marked = {} /\ suite = TRUE /\ touched = FALSE
    /\ snapshot = FALSE /\ green = FALSE /\ refusals = 0 /\ retries = 0
    /\ summary = FALSE
    /\ edited = FALSE /\ consent = FALSE
    /\ revisions = 0 /\ changes = 0

\* Mutant of Keep: the file is left as it was.
KeepInMemory(p) == plan' = p /\ edited' = FALSE /\ UNCHANGED file

(* Every change of the plan is written to the file (_sync_plan_file). *)
Keep(p) == plan' = p /\ file' = p /\ edited' = FALSE

-----------------------------------------------------------------------------
(* Planning *)

SetMode ==
    /\ pc = "rest"
    /\ mode' \in {"plan", "coding"} \ {mode}
    /\ UNCHANGED <<plan, phase, file, pc, project, gate, edited, consent, counts>>

(* A message in plan mode: _run_loop with the planner's tools. *)
StartPlanning ==
    /\ pc = "rest" /\ mode = "plan"
    /\ pc' = "planning"
    /\ UNCHANGED <<plan, phase, mode, file, project, gate, edited, consent, counts>>

EndPlanning ==
    /\ pc = "planning"
    /\ pc' = "rest"
    /\ UNCHANGED <<plan, phase, mode, file, project, gate, edited, consent, counts>>

(* create_plan answered with an error, or with the stored outline of a       *)
(* stories plan.  _run_loop looks at plan_phase only, so where a paused plan *)
(* is there, the turn ends as "plan_approved" and that plan goes on.         *)
RefusePlan ==
    /\ pc = "planning" /\ phase = "executing"
    /\ pc' = "next" /\ mode' = "coding"
    /\ UNCHANGED <<plan, phase, file, project, gate, edited, consent, counts>>

SubmitPlan(kind, titles) ==
    /\ pc = "planning"
    /\ Keep(MakePlan(kind, titles))
    /\ pc' = "approval"
    /\ UNCHANGED <<phase, mode, project, gate, consent, counts>>

(* approve_plan: the file as the user left it is what gets executed. *)
Approved == IF file.steps # <<>> THEN file ELSE plan

Yes ==
    /\ pc = "approval"
    /\ Keep(Approved)
    /\ phase' = "executing" /\ mode' = "coding" /\ consent' = TRUE
    /\ pc' = "next"
    /\ UNCHANGED <<project, gate, counts>>

LaterOrFeedback ==
    /\ pc = "approval"
    /\ phase' \in {"awaiting", "investigating"}
    /\ pc' = "planning"
    /\ UNCHANGED <<plan, mode, file, project, gate, edited, consent, counts>>

-----------------------------------------------------------------------------
(* What the user does with a plan that is not running *)

(* /plan run approves first when the plan was kept for later; /plan resume   *)
(* and, in coding mode, any message go on with a paused one.                 *)
Run ==
    /\ pc = "rest" /\ plan # NoPlan
    /\ IF phase = "executing" THEN UNCHANGED <<plan, file, edited>> ELSE Keep(Approved)
    /\ phase' = "executing" /\ mode' = "coding" /\ consent' = TRUE
    /\ pc' = "next"
    /\ UNCHANGED <<project, gate, counts>>

Cancel ==
    /\ pc = "rest" /\ plan # NoPlan
    /\ Keep(NoPlan)
    /\ phase' = "investigating"
    /\ UNCHANGED <<mode, pc, project, gate, consent, counts>>

(* The plan file edited by hand before it is approved: a step marked, taken  *)
(* out, or moved.                                                            *)
EditFile ==
    /\ pc \in {"rest", "approval"} /\ phase # "executing" /\ file # NoPlan
    /\ changes < MaxChanges
    /\ \/ \E i \in DOMAIN file.steps, st \in {"skipped", "done"} :
            file' = Status(file, i, st)
       \/ \E i \in DOMAIN file.steps :
            /\ Len(file.steps) > 1
            /\ file' = [file EXCEPT !.steps = Without(file.steps, {i})]
       \/ \E i \in 1..(Len(file.steps) - 1) :
            file' = [file EXCEPT !.steps = [file.steps EXCEPT
                       ![i] = file.steps[i + 1], ![i + 1] = file.steps[i]]]
    /\ InOrder => InFront(file')
    /\ edited' = TRUE /\ changes' = changes + 1
    /\ UNCHANGED <<plan, phase, mode, pc, project, gate, consent, revisions>>

(* An undo of checkpoints: the steps they belong to are pending again.  A    *)
(* step that changed no file, or whose files were skipped, is not among      *)
(* them.  The files go back, their skip markers with them.                   *)
Undo(undone) ==
    /\ pc = "rest" /\ changes < MaxChanges /\ undone # {}
    /\ \A i \in undone : plan.steps[i].status \in {"done", "in_progress"}
    /\ LET Back(i) == \/ i \in undone
                      \/ i > Min(undone) /\ plan.steps[i].status = "in_progress"
           p == [plan EXCEPT !.steps = [i \in DOMAIN plan.steps |->
                   IF Back(i) THEN [plan.steps[i] EXCEPT !.status = "pending"]
                              ELSE plan.steps[i]]]
       IN  Keep(p) /\ (InOrder => InFront(p))
    /\ suite' \in BOOLEAN
    /\ marked' \in {marked, marked \cup ({plan.steps[i].tag : i \in undone} \ {None})}
    /\ touched' = FALSE /\ changes' = changes + 1
    /\ UNCHANGED <<phase, mode, pc, gate, consent, revisions>>

-----------------------------------------------------------------------------
(* Running the steps *)

(* The top of _execute_plan's loop.  A TDD stage that starts for the first   *)
(* time has its tests switched on, and the test files remembered.            *)
StartStep ==
    /\ pc = "next" /\ CurrentIndex(plan) # 0
    /\ LET i == CurrentIndex(plan)
           first == plan.steps[i].status = "pending"
           staged == plan.kind = "tdd" /\ first /\ plan.steps[i].stage # "tests"
           on == staged /\ plan.steps[i].tag \in marked
       IN  /\ Keep(Start(plan, i))
           /\ at' = i /\ snapshot' = staged
           /\ marked' = IF on THEN marked \ {plan.steps[i].tag} ELSE marked
           /\ suite' \in IF on THEN BOOLEAN ELSE {suite}
    /\ refusals' = 0 /\ retries' = 0 /\ green' = FALSE /\ touched' = FALSE
    /\ pc' = "step" /\ summary' = FALSE
    /\ UNCHANGED <<phase, mode, consent, counts>>

Complete ==
    /\ pc = "next" /\ CurrentIndex(plan) = 0
    /\ Keep(NoPlan)
    /\ phase' = "investigating" /\ pc' = "rest" /\ consent' = FALSE
    /\ UNCHANGED <<mode, project, gate, counts>>

\* Mutant of Call: the rest of a batch still runs after its complete_step.
CallAnyway == pc = "step"

(* A tool call of the step's reply; none runs after a complete_step that went *)
(* through in the same batch.                                                *)
Call == pc = "step" /\ ~summary

(* A call that may change files: the code, a test, a skip marker. *)
Write ==
    /\ Call /\ plan.kind = "tdd"
    /\ suite' \in BOOLEAN /\ touched' \in (IF snapshot THEN BOOLEAN ELSE {FALSE})
    /\ \/ \E t \in StepTags(plan.steps) : marked' = marked \cup {t}
       \/ \E t \in marked : marked' = marked \ {t}
       \/ marked' = marked
    /\ green' = FALSE
    /\ UNCHANGED <<plan, phase, mode, file, pc, at, snapshot, refusals, retries,
                   summary, edited, consent, counts>>

(* run_command with exactly the plan's test command (_track_tdd_green). *)
RunTests ==
    /\ Call /\ plan.kind = "tdd"
    /\ green' = suite
    /\ UNCHANGED <<plan, phase, mode, file, pc, project, at, snapshot, refusals,
                   retries, summary, edited, consent, counts>>

RevisePlan(titles) ==
    /\ Call /\ revisions < MaxRevisions
    /\ LateRevisions \/ plan.steps[CurrentIndex(plan)].stage # "acceptance"
    /\ LET p == ReplaceRemaining(plan, titles) IN Keep(Start(p, Min(Open(p))))
    /\ revisions' = revisions + 1
    /\ UNCHANGED <<phase, mode, pc, project, gate, consent, changes>>

(* What tag_problems says of the markers at the end of stage i. *)
TagsRight(i) ==
    LET s == plan.steps
    IN  CASE s[i].stage = "tests" ->
               \A j \in (i + 1)..Len(s) : s[j].tag # None => s[j].tag \in marked
          [] s[i].stage = "acceptance" -> marked = {}
          [] OTHER ->
               \A j \in 1..i : s[j].stage = "impl" /\ s[j].tag # None => s[j].tag \notin marked

(* _tdd_gate: the audit against the snapshot, the markers, the test command. *)
Gate ==
    LET i == CurrentIndex(plan)
    IN  ~(snapshot /\ touched) /\ TagsRight(i) /\ (green \/ suite)

(* The step's own records: set anew when a step starts, read only while it   *)
(* is worked on.                                                             *)
NoGate ==
    /\ at' = 0 /\ snapshot' = FALSE /\ green' = FALSE /\ refusals' = 0 /\ retries' = 0
    /\ summary' = FALSE

(* The step in progress is done, and the loop goes on. *)
StepDone ==
    /\ LET i == CurrentIndex(plan)
       IN  Keep(IF i # 0 /\ plan.steps[i].status = "in_progress"
                THEN Status(plan, i, "done") ELSE plan)
    /\ pc' = "next" /\ touched' = FALSE
    /\ NoGate
    /\ UNCHANGED <<phase, mode, marked, suite, consent, counts>>

Pause ==
    /\ Keep(plan)
    /\ pc' = "rest" /\ touched' = FALSE /\ consent' = FALSE
    /\ NoGate
    /\ UNCHANGED <<phase, mode, marked, suite, counts>>

CompleteStep ==
    /\ Call
    /\ plan.kind = "tdd" => Gate
    /\ summary' = TRUE
    /\ UNCHANGED <<plan, phase, mode, file, pc, project, at, snapshot, green, refusals,
                   retries, edited, consent, counts>>

(* The batch's other calls have run: the step it completed is done. *)
BatchEnds == pc = "step" /\ summary /\ StepDone

\* Mutant of AskAfter: one refusal too late.
AskAfterMore(n) == n > MaxRefusals
AskAfter(n) == n >= MaxRefusals

GateRefused ==
    /\ Call /\ plan.kind = "tdd"
    /\ ~Gate
    /\ refusals' = refusals + 1
    /\ pc' = IF AskAfter(refusals + 1) THEN "asking" ELSE "step"
    /\ UNCHANGED <<plan, phase, mode, file, project, at, snapshot, green, retries,
                   summary, edited, consent, counts>>

(* _tdd_ask_user *)
Guidance ==
    /\ pc = "asking"
    /\ refusals' = 0 /\ pc' = "step"
    /\ UNCHANGED <<plan, phase, mode, file, project, at, snapshot, green, retries,
                   summary, edited, consent, counts>>

PausedByUser ==
    /\ pc = "asking"
    /\ Pause

(* A text-only reply ends the step; a TDD step is gated first, as long as it *)
(* is still the one that was started.                                        *)
TextReply ==
    /\ pc = "step" /\ ~summary
    /\ plan.kind = "tdd" /\ CurrentIndex(plan) = at => Gate
    /\ StepDone

TextRefused ==
    /\ pc = "step" /\ ~summary /\ plan.kind = "tdd" /\ CurrentIndex(plan) = at
    /\ ~Gate
    /\ IF retries < TextRetries
       THEN /\ retries' = retries + 1
            /\ UNCHANGED <<plan, phase, mode, file, pc, project, at, snapshot, green,
                           refusals, summary, edited, consent, counts>>
       ELSE Pause

(* Esc, an error, the iteration cap, the loop guard. *)
Interrupted ==
    /\ pc = "step" /\ ~summary
    /\ Pause

PlannerStep ==
    \/ EndPlanning \/ RefusePlan
    \/ \E k \in Kinds, q \in Listed : SubmitPlan(k, q)
WorkerStep ==
    \/ StartStep \/ Complete \/ Write \/ RunTests \/ CompleteStep \/ BatchEnds \/ GateRefused
    \/ TextReply \/ TextRefused \/ Interrupted
    \/ \E q \in Listed : RevisePlan(q)
UserStep ==
    \/ SetMode \/ StartPlanning \/ Yes \/ LaterOrFeedback \/ Run \/ Cancel \/ EditFile
    \/ \E u \in SUBSET DOMAIN plan.steps : Undo(u)
    \/ Guidance \/ PausedByUser

Next == PlannerStep \/ WorkerStep \/ UserStep
Spec == Init /\ [][Next]_vars

-----------------------------------------------------------------------------
(* Properties *)

StepSet == [title : Titles \cup {TitleOf("tests"), TitleOf("acceptance")},
            stage : {"tests", "impl", "acceptance"},
            status : {"pending", "in_progress", "done", "skipped"}, tag : Tags \cup {None}]
PlanOK(p) == p.kind \in Kinds \cup {"none"} /\ Range(p.steps) \subseteq StepSet

TypeOK ==
    /\ PlanOK(plan) /\ PlanOK(file) /\ marked \subseteq Tags
    /\ phase \in {"investigating", "awaiting", "executing"} /\ mode \in {"plan", "coding"}
    /\ pc \in {"rest", "planning", "approval", "next", "step", "asking"}
    /\ at \in Nat /\ refusals \in 0..MaxRefusals /\ retries \in 0..TextRetries
    /\ suite \in BOOLEAN /\ touched \in BOOLEAN /\ snapshot \in BOOLEAN /\ green \in BOOLEAN
    /\ summary \in BOOLEAN /\ edited \in BOOLEAN /\ consent \in BOOLEAN

DoneSteps(p) == {i \in DOMAIN p.steps : p.steps[i].status = "done"}
Running == pc \in {"next", "step", "asking"}

(* A step of a TDD plan is marked done only when its gate would pass at that *)
(* moment: its markers are gone, the whole suite passes, and no finished     *)
(* step's test was changed.  It must hold however the reply ended the step,  *)
(* after revisions, retries, a reused green run, later calls of the batch, a *)
(* pause and a resume (plan_runner.py:1073, 1186-1196; harness.py:2628).     *)
GateBeforeDone ==
    [][ pc = "step" /\ plan.kind = "tdd"
        /\ Cardinality(DoneSteps(plan')) > Cardinality(DoneSteps(plan))
        => TagsRight(CurrentIndex(plan)) /\ suite /\ ~(snapshot /\ touched) ]_vars

(* While the plan runs, finished steps are kept: no revision, pause, resume  *)
(* or refused gate takes one out or opens it again (plan.py:357,             *)
(* "Keep finished steps, replace everything else").                          *)
FinishedStay ==
    [][ Running /\ plan' # NoPlan =>
          {s \in Range(plan.steps) : Finished(s)} \subseteq Range(plan'.steps) ]_vars

(* The plan file shows the plan as it is unless the user has edited it since:*)
(* what a restart or /plan run reads back is what was reached                *)
(* (plan_runner.py:299, _sync_plan_file).                                    *)
FileMirrors == ~edited => file = plan

(* No two steps of a plan share a tag, whatever was revised: a gate that     *)
(* asks for one step's tests never waits for another's (plan.py:375).        *)
UniqueTags ==
    \A i, j \in DOMAIN plan.steps :
        i # j /\ plan.steps[i].tag # None => plan.steps[i].tag # plan.steps[j].tag

(* "any other new step gets a fresh tag" (plan.py:361): once the tests are    *)
(* written, a step the planner adds is not given the tag of another one,     *)
(* whose tests are in the project already.                                   *)
FreshTags ==
    [][ pc = "step" /\ plan.steps[1].status = "done" =>
          \A s \in Range(plan'.steps) :
              s.tag # None /\ (\A x \in Range(plan.steps) : x.title # s.title)
                => s.tag \notin StepTags(plan.steps) ]_vars

(* Steps run only after the user asked for it: by approving the plan, by     *)
(* /plan run or resume, or by a message in coding mode (README.md:656).      *)
ConsentFirst == Running => consent

\* The titles are interchangeable.
Symmetry == Permutations(Titles)
=============================================================================
