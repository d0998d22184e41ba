------------------------------ MODULE StorySets -----------------------------
(***************************************************************************)
(* The checks on a phase's stories (stories.py) and on what their          *)
(* expectations cover (story_runner.py): which set or outline is refused,  *)
(* which story runs next, which can never run, what the user's edits of    *)
(* the story file may change, and which requirements are still due.  Each  *)
(* is a function of the plan's state.                                      *)
(*                                                                         *)
(* A story is a record with its number as id; deps is the sequence of ids  *)
(* it depends on, where Delivered and Undelivered stand for a story of an  *)
(* earlier phase (P<n>.S<m>).                                              *)
(***************************************************************************)
EXTENDS Integers, Sequences, FiniteSets, SequencesExt

CONSTANTS MAX_STORIES,   \* stories one phase may have (stories.py:28)
          MAX_COVERS     \* requirements one expectation may cover (story_runner.py:44)

Delivered == 0
Undelivered == -1
IsRef(d) == d \in {Delivered, Undelivered}

Live(stories) == SelectSeq(stories, LAMBDA s : s.status # "replaced")
Ids(stories) == {stories[i].id : i \in DOMAIN stories}
Among(stories, statuses) == {stories[i].id : i \in {j \in DOMAIN stories : stories[j].status \in statuses}}
Story(stories, id) == stories[CHOOSE i \in DOMAIN stories : stories[i].id = id]

\* next_ready: the one in progress, else the lowest pending one whose
\* dependencies of this phase are done; 0 when there is none.
Ready(s, stories) == \A d \in ToSet(s.deps) : IsRef(d) \/ d \in Among(stories, {"done"})
NextReady(stories) ==
    LET running == Among(stories, {"in_progress"})
        ready == {id \in Among(stories, {"pending"}) : Ready(Story(stories, id), stories)}
        pick == IF running # {} THEN running ELSE ready
    IN IF pick = {} THEN 0 ELSE CHOOSE id \in pick : \A other \in pick : id <= other

\* blocked: pending stories behind one that failed, was replaced or is blocked.
Blocked(stories) ==
    LET alive == Among(stories, {"done", "pending", "in_progress"})
        Round[stuck \in SUBSET Ids(stories)] ==
            LET more == {id \in Among(stories, {"pending"}) \ stuck :
                           \E d \in ToSet(Story(stories, id).deps) : ~IsRef(d) /\ (d \notin alive \/ d \in stuck)}
            IN IF more = {} THEN stuck ELSE Round[stuck \cup more]
    IN Round[{}]

(***************************************************************************)
(* _cycle: a depth-first search over the dependencies, in id order.        *)
(* `on` is the stack, `done` the stories left behind; the result is the    *)
(* cycle found, closed on its first story, or <<>>.                        *)
(***************************************************************************)
RECURSIVE Visit(_, _, _)
Visit(stories, id, search) ==
    LET on == Append(search.on, id)
        Dep(acc, d) ==
            IF acc.found # <<>> \/ d \notin Ids(stories) THEN acc
            ELSE IF d \in ToSet(on) THEN
                 [acc EXCEPT !.found = Append(SubSeq(on, CHOOSE i \in DOMAIN on : on[i] = d, Len(on)), d)]
            ELSE IF d \in acc.done THEN acc
            ELSE Visit(stories, d, [acc EXCEPT !.on = on])
        all == FoldLeft(Dep, search, Story(stories, id).deps)
    IN [on |-> search.on, done |-> all.done \cup {id}, found |-> all.found]

Cycle(stories) ==
    LET From(acc, id) == IF acc.found # <<>> \/ id \in acc.done THEN acc ELSE Visit(stories, id, acc)
        order == SetToSortSeq(Ids(stories), <)
    IN FoldLeft(From, [on |-> <<>>, done |-> {}, found |-> <<>>], order).found

(***************************************************************************)
(* StorySet.validate and validate_outline.                                 *)
(***************************************************************************)
\* _dependency_problems
DependsWell(s, ids) == \A d \in ToSet(s.deps) : d # s.id /\ d # Undelivered /\ (d = Delivered \/ d \in ids)

\* _duplicates: unfinished stories with the same title, or the same work.
Duplicates(stories) ==
    LET open == SelectSeq(stories, LAMBDA s : s.status \notin {"done", "replaced", "in_progress"})
    IN \E i, j \in DOMAIN open : i < j /\ (open[i].title = open[j].title \/ open[i].work = open[j].work)

Distinct(stories) == \A i, j \in DOMAIN stories : stories[i].id = stories[j].id => i = j

Valid(stories) ==
    LET live == Live(stories) IN
    /\ live # <<>> /\ Len(live) <= MAX_STORIES
    /\ Distinct(stories)
    /\ \A i \in DOMAIN live : DependsWell(live[i], Ids(live))
    /\ ~Duplicates(live)
    /\ Cycle(live) = <<>>

\* kept: the phase's stories a re-split adds to; the replaced ones' ids stay taken.
Taken(kept) == Ids(kept)
ValidOutline(outline, kept) ==
    LET live == Live(kept) IN
    /\ outline # <<>> /\ Len(live) + Len(outline) <= MAX_STORIES
    /\ Distinct(outline) /\ Ids(outline) \cap Taken(kept) = {}
    /\ \A i \in DOMAIN outline : DependsWell(outline[i], Ids(outline) \cup Ids(live))
    /\ Cycle(live \o outline) = <<>>

(***************************************************************************)
(* merge_from_file: the user's edits of the story file, taken on approval. *)
(* An expectation is [text, verdict]; the file holds no verdict.           *)
(***************************************************************************)
Carried(s, old) ==
    LET Same(c) == {o \in ToSet(old.acceptance) : o.text = c.text}
        With(c) == IF Same(c) = {} THEN c ELSE [c EXCEPT !.verdict = (CHOOSE o \in Same(c) : TRUE).verdict]
    IN [s EXCEPT !.acceptance = [i \in DOMAIN @ |-> With(@[i])]]

KeptOver(s) == s.status \in {"done", "replaced"}
Merged(stories, edited) ==
    LET kept == SelectSeq(stories, KeptOver)
        Take(s) == IF s.id \in Ids(kept) THEN Story(kept, s.id)
                   ELSE IF s.id \in Ids(stories) THEN Carried(s, Story(stories, s.id)) ELSE s
        taken == [i \in DOMAIN edited |-> Take(edited[i])]
    IN SortSeq(taken \o SelectSeq(kept, LAMBDA s : s.id \notin Ids(edited)), LAMBDA s, t : s.id < t.id)

(***************************************************************************)
(* Requirements: a plan is its requirements [id, phase, suite], and, by    *)
(* phase, its stories and the phase's own expectations.  An expectation is *)
(* [covers, examples, retired, verdict] with verdict "passed", "failed" or *)
(* "none"; suite: the test command at the last gate proves it.             *)
(***************************************************************************)
Proven(c) == c.verdict = "passed"

\* _coverage and _requirement_gaps: what no passing check of an earlier phase proves.
ProvenBefore(plan, upto) ==
    UNION {   UNION {c.covers : c \in {x \in ToSet(s.acceptance) : x.examples /\ ~x.retired /\ s.status = "done"
                                                                    /\ Proven(x)}} :
              s \in UNION {ToSet(Live(plan.sets[n])) : n \in {k \in DOMAIN plan.sets : k < upto}}}
    \cup UNION {UNION {c.covers : c \in {x \in ToSet(plan.phases[n]) : ~x.retired /\ Proven(x)}} :
              n \in {k \in DOMAIN plan.phases : k < upto}}
Gaps(plan, upto) == {r.id : r \in {x \in plan.requirements : x.phase < upto /\ ~x.suite}} \ ProvenBefore(plan, upto)

\* _due_requirements
Due(plan, n) == {r.id : r \in {x \in plan.requirements : x.phase = n /\ ~x.suite}} \cup Gaps(plan, n)

\* _coverage_problems: a due requirement no live expectation covers, too many
\* covers, or an id that is no requirement.
Covered(plan, n) ==
    UNION {UNION {c.covers : c \in {x \in ToSet(s.acceptance) : x.examples /\ ~x.retired}} :
              s \in ToSet(Live(plan.sets[n]))}
    \cup UNION {c.covers : c \in {x \in ToSet(plan.phases[n]) : ~x.retired}}
CoverageOk(plan, n) ==
    \/ plan.requirements = {}
    \/ /\ Due(plan, n) \subseteq Covered(plan, n)
       /\ \A s \in ToSet(Live(plan.sets[n])) : s.status # "done" =>
              \A c \in ToSet(s.acceptance) : ~c.retired =>
                  Cardinality(c.covers) <= MAX_COVERS /\ c.covers \subseteq {r.id : r \in plan.requirements}

(***************************************************************************)
(* Properties.                                                             *)
(***************************************************************************)
RECURSIVE RunAll(_)
\* The stories after running them one by one, each of them succeeding.
RunAll(stories) ==
    LET id == NextReady(stories) IN
    IF id = 0 THEN stories
    ELSE RunAll([i \in DOMAIN stories |-> IF stories[i].id = id THEN [stories[i] EXCEPT !.status = "done"]
                                          ELSE stories[i]])

RECURSIVE Reaches(_, _)
Reaches(stories, ids) ==
    LET more == ids \cup (UNION {ToSet(Story(stories, id).deps) : id \in ids} \cap Ids(stories))
    IN IF more = ids THEN ids ELSE Reaches(stories, more)

\* A set that passes the checks can be run to its end, a story at a time, and
\* one that holds a cycle is found out by it, with a real cycle (stories.py:284-343, 771-797).
ValidRuns(stories) ==
    LET cycle == Cycle(stories) IN
    /\ Valid(stories) /\ Ids(stories) = Among(stories, {"pending", "done", "in_progress"})
           => Ids(RunAll(stories)) = Among(RunAll(stories), {"done"})
    /\ (cycle # <<>>) <=> \E id \in Ids(stories) :
           id \in Reaches(stories, ToSet(Story(stories, id).deps) \cap Ids(stories))
    /\ \A i \in 1..(Len(cycle) - 1) : cycle[i + 1] \in ToSet(Story(stories, cycle[i]).deps)
    /\ cycle # <<>> => cycle[1] = cycle[Len(cycle)]

\* What is reported as blocked is what would still be pending if every story
\* that can run succeeded (stories.py:298-313).
BlockedNeverRun(stories) ==
    Cycle(stories) = <<>> => Blocked(stories) = Among(RunAll(stories), {"pending"})

\* Stories written as an accepted outline has them make a set whose ids and
\* dependencies pass, whatever was replaced before (stories.py:709-743).
OutlineHolds(outline, kept) ==
    LET all == kept \o outline IN
    /\ Distinct(kept) /\ \A i \in DOMAIN Live(kept) : DependsWell(Live(kept)[i], Ids(Live(kept)))
    /\ ValidOutline(outline, kept)
    => Distinct(all) /\ Cycle(Live(all)) = <<>> /\ \A i \in DOMAIN Live(all) : DependsWell(Live(all)[i], Ids(Live(all)))

\* Whatever the user writes in the story file, delivered and replaced stories
\* stay as recorded, and no verdict stands under another expectation (stories.py:463-489).
DeliveredKept(stories, edited) ==
    LET merged == Merged(stories, edited) IN
    /\ \A s \in ToSet(stories) : s.status \in {"done", "replaced"} => s \in ToSet(merged)
    /\ \A s \in ToSet(merged) : \A c \in ToSet(s.acceptance) :
           c.verdict # "none" => \E o \in ToSet(stories) : o.id = s.id /\ c \in ToSet(o.acceptance)
    /\ \A i, j \in DOMAIN merged : i < j => merged[i].id <= merged[j].id

\* A phase whose stories passed the coverage check, and were all delivered with
\* their expectations proven, leaves no requirement up to it unproven (story_runner.py:1679-1767).
CoveredIsProven(plan, n) ==
    /\ CoverageOk(plan, n)
    /\ \A s \in ToSet(Live(plan.sets[n])) : s.status = "done" /\ \A c \in ToSet(s.acceptance) : Proven(c)
    /\ \A c \in ToSet(plan.phases[n]) : Proven(c)
    => Gaps(plan, n + 1) = {}
=============================================================================
