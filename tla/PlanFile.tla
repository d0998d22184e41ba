------------------------------ MODULE PlanFile ------------------------------
(***************************************************************************)
(* The plan file and a phase's story file (plan.py, stories.py).  Both are *)
(* markdown that momo writes, the user may edit, and momo reads back: what *)
(* is read replaces the plan in memory, so whatever the reader takes for   *)
(* something else is lost.  A line is a record: its kind, its indentation, *)
(* the key or heading it carries, and its payload.                         *)
(***************************************************************************)
EXTENDS Integers, Sequences, SequencesExt

Line(kind, in, key, v) == [kind |-> kind, in |-> in, key |-> key, v |-> v]
Blank == Line("blank", 0, "", "")
Text(v) == Line("text", 0, "", v)
Heading(name) == Line("head", 0, name, "")          \* "## name"
Sub(name) == Line("sub", 0, name, "")            \* "### name"
Field(in, key, v) == Line("field", in, key, v)   \* "key: v"
Item(v) == Line("item", 0, "", v)                \* "- v"
Comment == Line("comment", 0, "", "")

Indented(lines, n) ==
    [i \in DOMAIN lines |-> IF lines[i].kind = "blank" THEN Blank ELSE [lines[i] EXCEPT !.in = @ + n]]

\* str.strip() on joined lines: blank lines go at both ends, and the first
\* line's own indentation.
Stripped(lines) ==
    LET full == {i \in DOMAIN lines : lines[i].kind # "blank"}
        first == CHOOSE i \in full : \A j \in full : i <= j
        last == CHOOSE i \in full : \A j \in full : i >= j
    IN IF full = {} THEN <<>> ELSE [SubSeq(lines, first, last) EXCEPT ![1].in = 0]

Section(name, lines) == IF lines = <<>> THEN <<>> ELSE <<Heading(name), Blank>> \o lines \o <<Blank>>
Fields(in, key, values) == [i \in DOMAIN values |-> Field(in, key, values[i])]
Optional(in, key, v) == IF v = "" THEN <<>> ELSE <<Field(in, key, v)>>

\* Criterion.to_markdown: the lines under the criterion's own.
CriterionLines(c, in) ==
    Fields(in, "example", c.examples) \o Optional(in, "covers", c.covers)
    \o Optional(in, "test", c.test) \o Optional(in, "retired", c.retired)

\* criterion_line: an Example, Covers, Test or Retired line is the criterion's.
CriterionKeys == {"example", "covers", "test", "retired", "check"}
CriterionLine(c, l) ==
    CASE l.key = "example" -> [c EXCEPT !.examples = Append(@, l.v)]
      [] l.key = "covers"  -> [c EXCEPT !.covers = l.v]
      [] l.key = "test"    -> [c EXCEPT !.test = l.v]
      [] l.key = "retired" -> [c EXCEPT !.retired = l.v]
      [] OTHER             -> c
NewCriterion(v) == [text |-> v, examples |-> <<>>, covers |-> "", test |-> "", retired |-> ""]
OnLast(list, l) == [list EXCEPT ![Len(list)] = CriterionLine(@, l)]

(***************************************************************************)
(* Plan.to_markdown and Plan.from_markdown.                                *)
(***************************************************************************)
StepLines(s) ==
    <<Line("step", 0, s.status, s.title)>> \o Indented(s.details, 2)
    \o Optional(2, "files", s.files) \o Fields(2, "expect", s.tests) \o Optional(2, "tag", s.tag)
    \o (IF s.stage = "impl" THEN <<>> ELSE <<Field(2, "stage", s.stage)>>)
    \o Optional(2, "outcome", s.outcome)
    \o FlattenSeq([i \in DOMAIN s.acceptance |->
           <<Field(2, "accept", s.acceptance[i].text)>> \o CriterionLines(s.acceptance[i], 4)])
    \o Optional(2, "note", s.note)

PlanLines(p) ==
    <<Line("title", 0, "", p.title), Blank>>
    \o (IF p.kind = "normal" THEN <<>> ELSE <<Field(0, "type", p.kind)>>)
    \o (IF p.kind = "stories" THEN Optional(0, "stories", p.dir) ELSE <<>>) \o <<Blank>>
    \o Section("goal", p.goal) \o Section("request", p.request)
    \o Section("interfaces", [i \in DOMAIN p.interfaces |-> Item(p.interfaces[i])])
    \o Section("requirements", [i \in DOMAIN p.requirements |-> Item(p.requirements[i])])
    \o (IF p.kind = "tdd" THEN Section("test command", <<Text(p.command)>>) ELSE <<>>)
    \o <<Heading("steps"), Blank>> \o FlattenSeq([i \in DOMAIN p.steps |-> StepLines(p.steps[i])])
    \o <<Blank, Comment>>

PlanSections == {"goal", "request", "interfaces", "requirements", "test command", "steps"}
StepKeys == {"files", "note", "expect", "tag", "stage", "outcome", "check", "accept"}
NewStep(l) == [title |-> l.v, status |-> l.key, details |-> <<>>, files |-> "", tests |-> <<>>, tag |-> "",
               stage |-> "impl", outcome |-> "", acceptance |-> <<>>, note |-> ""]
NewPlan == [title |-> "", kind |-> "normal", dir |-> "", goal |-> <<>>, request |-> <<>>, interfaces |-> <<>>,
            requirements |-> <<>>, command |-> "", steps |-> <<>>]

\* Only the headings to_markdown writes end a goal or a request.
EndsSection(l, section) == l.kind = "head" /\ (l.key \in PlanSections \/ section \notin {"goal", "request"})

\* A line under a step: one of its fields, a criterion's, or its details'.
StepLine(s, l, kind) ==
    CASE l.kind = "field" /\ l.key = "accept"  -> [s EXCEPT !.acceptance = Append(@, NewCriterion(l.v))]
      [] l.kind = "field" /\ l.key \in CriterionKeys /\ s.acceptance # <<>> /\ l.in >= 4 ->
             [s EXCEPT !.acceptance = OnLast(@, l)]
      [] l.kind = "field" /\ l.key = "expect"  -> [s EXCEPT !.tests = Append(@, l.v)]
      [] l.kind = "field" /\ l.key = "check"   -> s
      [] l.kind = "field" /\ l.key = "stories" /\ kind = "stories" -> s
      [] l.kind = "field" /\ l.key \in StepKeys \ {"accept", "expect", "check"} -> [s EXCEPT ![l.key] = l.v]
      [] OTHER -> [s EXCEPT !.details = Append(@, [l EXCEPT !.in = IF @ >= 2 THEN @ - 2 ELSE @])]

\* A step is kept, its details stripped, when the next one or a heading comes.
FlushStep(st) ==
    IF st.cur = <<>> THEN st
    ELSE [st EXCEPT !.plan.steps = Append(@, [st.cur[1] EXCEPT !.details = Stripped(@)]), !.cur = <<>>]

ReadPlanLine(st, l) ==
    CASE l.kind = "comment" -> st
      [] l.kind = "title" /\ st.plan.title = "" -> [st EXCEPT !.plan.title = l.v]
      [] EndsSection(l, st.section) -> [FlushStep(st) EXCEPT !.section = l.key]
      [] st.section = "" /\ l.kind = "field" /\ l.key = "type" -> [st EXCEPT !.plan.kind = l.v]
      [] st.section = "" /\ l.kind = "field" /\ l.key = "stories" -> [st EXCEPT !.plan.dir = l.v]
      [] st.section = "test command" -> IF l.kind = "blank" THEN st ELSE [st EXCEPT !.plan.command = l.v]
      [] l.kind = "step" /\ st.section \notin {"goal", "request", "requirements", "interfaces"} ->
             [FlushStep(st) EXCEPT !.cur = <<NewStep(l)>>]
      [] st.cur # <<>> -> [st EXCEPT !.cur = <<StepLine(@[1], l, st.plan.kind)>>]
      [] st.section \in {"goal", "request"} -> [st EXCEPT !.plan[st.section] = Append(@, l)]
      [] st.section \in {"requirements", "interfaces"} /\ l.kind = "item" ->
             [st EXCEPT !.plan[st.section] = Append(@, l.v)]
      [] OTHER -> st

ReadPlan(lines) ==
    LET st == FlushStep(FoldLeft(ReadPlanLine, [plan |-> NewPlan, section |-> "", cur |-> <<>>], lines))
    IN [st.plan EXCEPT !.goal = Stripped(@), !.request = Stripped(@)]

(***************************************************************************)
(* Story.to_markdown, StorySet.to_markdown and StorySet.from_markdown.     *)
(***************************************************************************)
Titled(name, lines) == IF lines = <<>> THEN <<>> ELSE <<Blank, Sub(name)>> \o lines
StoryLines(s) ==
    <<Blank, Line("story", 0, s.status, s.id), Field(0, "depends", s.depends)>> \o Optional(0, "files", s.files)
    \o Titled("description", s.description)
    \o Titled("hints", [i \in DOMAIN s.hints |-> Item(s.hints[i])])
    \o <<Blank, Sub("acceptance")>>
    \o FlattenSeq([i \in DOMAIN s.acceptance |->
           <<Item(s.acceptance[i].text)>> \o CriterionLines(s.acceptance[i], 2)])
    \o (IF s.delivered = <<>> /\ s.facts = "" THEN <<>>
        ELSE <<Blank, Sub("delivered")>> \o s.delivered
             \o IF s.facts = "" THEN <<>> ELSE <<Line("item", 0, "checks", s.facts)>>)

SetLines(set) ==
    <<Line("title", 0, "", set.title), Blank, Field(0, "status", set.approved), Blank, Comment>>
    \o FlattenSeq([i \in DOMAIN set.stories |-> StoryLines(set.stories[i])])
    \o (IF set.report = <<>> THEN <<>> ELSE <<Blank, Heading("report"), Blank>> \o set.report)

StorySections == {"description", "hints", "acceptance", "delivered"}
NewStory(l) == [id |-> l.v, status |-> l.key, depends |-> "", files |-> "", description |-> <<>>, hints |-> <<>>,
                acceptance |-> <<>>, delivered |-> <<>>, facts |-> ""]
ItemsOf(buf) == LET full == SelectSeq(buf, LAMBDA l : l.kind # "blank") IN [i \in DOMAIN full |-> full[i].v]

\* _parse_acceptance: an item is a criterion, a criterion's own line is applied.
Criteria(buf) ==
    LET One(list, l) == CASE l.kind = "item" -> Append(list, NewCriterion(l.v))
                          [] l.kind = "field" /\ list # <<>> /\ l.key \in CriterionKeys -> OnLast(list, l)
                          [] l.kind \notin {"item", "blank"} /\ list # <<>> -> [list EXCEPT ![Len(list)].text = l.v]
                          [] OTHER -> list
    IN FoldLeft(One, <<>>, buf)

\* A heading of the report's own stays in it.
InReport(st, l) == st.report

\* What stands under a heading is the story's when the next heading comes; the
\* facts line under Delivered is the harness's and is not read back.
FlushSection(st) ==
    LET n == Len(st.set.stories)
        s == st.set.stories[n]
        full == CASE st.section = "description" -> [s EXCEPT !.description = Stripped(st.buf)]
                  [] st.section = "hints"       -> [s EXCEPT !.hints = ItemsOf(st.buf)]
                  [] st.section = "acceptance"  -> [s EXCEPT !.acceptance = Criteria(st.buf)]
                  [] st.section = "delivered"   ->
                         [s EXCEPT !.delivered = Stripped(SelectSeq(st.buf, LAMBDA l : l.key # "checks"))]
    IN IF ~st.open \/ st.section = "" THEN [st EXCEPT !.buf = <<>>]
       ELSE [st EXCEPT !.set.stories = [@ EXCEPT ![n] = full], !.buf = <<>>]

OnStory(st, s) == [st EXCEPT !.set.stories = [@ EXCEPT ![Len(@)] = s]]

ReadStoryLine(st, l) ==
    LET s == st.set.stories[Len(st.set.stories)]
        done == FlushSection(st)
    IN CASE l.kind = "comment" -> st
         [] l.kind = "title" -> IF st.set.title = "" THEN [st EXCEPT !.set.title = l.v] ELSE st
         [] l.kind = "field" /\ l.key = "status" /\ ~st.open -> [st EXCEPT !.set.approved = l.v]
         [] l.kind = "story" ->
                [done EXCEPT !.set.stories = Append(@, NewStory(l)), !.open = TRUE, !.section = ""]
         [] InReport(st, l) -> [st EXCEPT !.set.report = Append(@, l)]
         [] l.kind = "head" -> [done EXCEPT !.open = FALSE, !.section = "", !.report = (l.key = "report")]
         [] ~st.open -> st
         [] l.kind = "sub" ->
                IF l.key \in StorySections THEN [done EXCEPT !.section = l.key]
                ELSE [done EXCEPT !.section = "description",       \* an unknown heading: its text is kept
                          !.buf = done.set.stories[Len(done.set.stories)].description \o <<Text(l.key)>>]
         [] st.section = "" /\ l.kind = "field" /\ l.key = "depends" -> OnStory(st, [s EXCEPT !.depends = l.v])
         [] st.section = "" /\ l.kind = "field" /\ l.key = "files"   -> OnStory(st, [s EXCEPT !.files = l.v])
         [] OTHER -> [st EXCEPT !.buf = Append(@, l)]

ReadSet(lines) ==
    LET none == [set |-> [title |-> "", approved |-> "draft", stories |-> <<>>, report |-> <<>>],
                 open |-> FALSE, section |-> "", report |-> FALSE, buf |-> <<>>]
        st == FlushSection(FoldLeft(ReadStoryLine, none, lines))
    IN [st.set EXCEPT !.report = Stripped(@)]

(***************************************************************************)
(* Properties.  The readers' own words are excepted: a details line that   *)
(* is itself a checkbox item, a heading, a comment or one of the step's    *)
(* fields is read as that (see README.md).                                 *)
(***************************************************************************)
PlainDetails(lines) ==
    \A i \in DOMAIN lines :
        /\ lines[i].kind \notin {"step", "head", "comment", "title"}
        /\ ~(lines[i].kind = "field" /\ lines[i].key \in StepKeys \cup CriterionKeys \cup {"stories"})
PlainText(lines) ==
    \A i \in DOMAIN lines :
        lines[i].kind # "comment" /\ ~(lines[i].kind = "head" /\ lines[i].key \in PlanSections)

\* A plan written to its file and read back is the plan, with the headings and
\* the checkboxes a goal or a request has of its own (plan.py:192-336).
PlanReread(p) ==
    (PlainText(p.goal) /\ PlainText(p.request) /\ \A i \in DOMAIN p.steps : PlainDetails(p.steps[i].details))
        => ReadPlan(PlanLines(p)) = p

\* A phase's stories written and read back are the stories but for the facts,
\* also with a report that has headings of its own (stories.py:363-462).
SetReread(set) ==
    (\A i \in DOMAIN set.stories : \A j \in DOMAIN set.stories[i].description :
        set.stories[i].description[j].kind \notin {"story", "head", "sub", "comment"})
        => ReadSet(SetLines(set)) =
              [set EXCEPT !.stories = [i \in DOMAIN @ |-> [@[i] EXCEPT !.facts = ""]]]
=============================================================================
