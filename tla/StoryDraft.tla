------------------------------- MODULE StoryDraft -------------------------------
(***************************************************************************)
(* One writing pass over a phase's stories: outline, one story a turn, the *)
(* submitted set, the user's answer and the change to the later phases     *)
(* (story_runner.py: plan_stories, write_story, finish_stories).           *)
(*                                                                         *)
(* A story is its status, what it depends on and what it says: the number  *)
(* of the call that wrote it, 0 for a story of the base, User for the      *)
(* user's own words.                                                       *)
(***************************************************************************)
EXTENDS Integers, FiniteSets, FiniteSetsExt

CONSTANTS
  Passes,     \* the passes there are: [amend, base, replaces, remap, blocks, empty]
  New,        \* the ids the writer gives new stories
  MAX_STORIES,
  MaxCalls,   \* bound: the outlines and stories written
  Careless    \* the user also edits stories of the base, or edits and sends feedback

VARIABLES
  pass,      \* _writing's phase, amend and base
  replaces,  \* _writing["replaces"]
  outline,   \* the outlined ids and their dependencies
  drafts,    \* _writing["drafts"]
  told,      \* story_turn is this turn
  set,       \* plan.story_sets[n]'s stories
  state,     \* "writing", "approved" or "stopped"
  last, due, \* the plan's phases, and the phase of its last requirement; this is phase 1
  texts,     \* calls of both so far
  wrote,     \* history: what each id says that was last accepted; absent for none
  retired    \* history: the stories that may be retired

writerVars == <<pass, replaces, outline, drafts, told, set, state, last, due, texts, wrote, retired>>

User == -1
NoStories == <<>>
Base == pass.base
Ids == DOMAIN Base \cup New
Deps == {{}} \cup {{i} : i \in Ids}     \* bound: nothing is said to depend on two stories
Story(status, deps, text) == [status |-> status, deps |-> deps, text |-> text]

\* _writer_kept: the stories the pass adds to.
Kept(out) == [i \in DOMAIN Base |-> IF i \in out /\ Base[i].status # "done"
                                    THEN [Base[i] EXCEPT !.status = "replaced"] ELSE Base[i]]
Live(s) == {i \in DOMAIN s : s[i].status # "replaced"}
Done(s) == {i \in DOMAIN s : s[i].status = "done"}

\* Dependencies lead to live stories, and to none twice (_cycle).
Sound(ids, deps) ==
  /\ \A i \in DOMAIN deps : deps[i] \subseteq ids \ {i}
  /\ ~\E S \in SUBSET DOMAIN deps : S # {} /\ \A i \in S : deps[i] \cap S # {}

\* validate_outline, for the outlined stories among the ones kept.
GoodOutline(o, kept) ==
  /\ o # <<>> /\ DOMAIN o \cap DOMAIN kept = {}
  /\ Cardinality(Live(kept)) + Cardinality(DOMAIN o) <= MAX_STORIES
  /\ \A i \in DOMAIN o : o[i] \subseteq (DOMAIN o \cup Live(kept)) \ {i}
  /\ Sound(DOMAIN o \cup Live(kept),
           [i \in DOMAIN o \cup Live(kept) |-> IF i \in DOMAIN o THEN o[i]
                                               ELSE kept[i].deps \cap (DOMAIN o \cup Live(kept))])

\* StorySet.validate
Valid(s) == Live(s) # {} /\ Cardinality(Live(s)) <= MAX_STORIES
            /\ Sound(Live(s), [i \in Live(s) |-> s[i].deps])

Init ==
  /\ pass \in Passes /\ replaces = pass.replaces /\ outline = NoStories /\ drafts = NoStories
  /\ told = FALSE /\ set = pass.base /\ state = "writing" /\ last = 3 /\ due = 3 /\ texts = 0
  /\ wrote = NoStories /\ retired = pass.replaces

-----------------------------------------------------------------------------
(* The writer's calls *)

\* Mutant of AfterRefusal: a refused outline retires all the same.
AfterRefusalRetired(before, asked) == before \cup asked
\* A refused outline retires nothing.
AfterRefusal(before, asked) == before

\* plan_stories. Finished stories are dropped from the outline, refused replaces refuse it.
PlanStories(sent, asked) ==
  LET done == Done(Kept({}))
      o == [i \in DOMAIN sent \ done |-> sent[i]]
      out == replaces \cup asked
  IN /\ state = "writing"
     /\ asked # {} => pass.amend /\ \A i \in asked : i \in DOMAIN Base /\ Base[i].status \notin {"done", "in_progress"}
     /\ IF GoodOutline(o, Kept(out))
        THEN /\ outline' = o /\ replaces' = out /\ retired' = retired \cup asked
             /\ drafts' = [i \in DOMAIN drafts \cap DOMAIN o |-> drafts[i]]
             /\ wrote' = [i \in DOMAIN wrote \cap DOMAIN o |-> wrote[i]]
        ELSE replaces' = AfterRefusal(replaces, asked) /\ UNCHANGED <<outline, drafts, wrote, retired>>
     /\ texts' = texts + 1 /\ UNCHANGED <<pass, told, set, state, last, due>>

\* write_story: one a turn, none that is done; no dependencies keep the outline's.
WriteStory(i, deps) ==
  LET d == IF deps = {} /\ i \in DOMAIN outline THEN outline[i] ELSE deps
      o == [j \in DOMAIN outline \cup {i} |-> IF j = i THEN d ELSE outline[j]]
  IN /\ state = "writing" /\ outline # <<>> /\ ~told /\ i \notin Done(Kept(replaces))
     /\ GoodOutline(o, Kept(replaces))
     /\ texts' = texts + 1 /\ told' = TRUE /\ outline' = o
     /\ drafts' = [j \in DOMAIN drafts \cup {i} |->
                     IF j = i THEN Story("pending", d, texts + 1) ELSE drafts[j]]
     /\ wrote' = [j \in DOMAIN wrote \cup {i} |-> IF j = i THEN texts + 1 ELSE wrote[j]]
     /\ UNCHANGED <<pass, replaces, set, state, last, due, retired>>

\* The next request.
NextTurn ==
  /\ state = "writing" /\ told /\ told' = FALSE
  /\ UNCHANGED <<pass, replaces, outline, drafts, set, state, last, due, texts, wrote, retired>>

-----------------------------------------------------------------------------
(* finish_stories *)

Submitted ==
  LET kept == Kept(replaces)
      new == DOMAIN outline
      Moved(s) == IF s.status \notin {"done", "replaced"} /\ pass.remap \in s.deps
                  THEN [s EXCEPT !.deps = (@ \ {pass.remap}) \cup new] ELSE s
      Waits(i, s) == IF i = pass.blocks THEN [s EXCEPT !.deps = @ \cup new] ELSE s
  IN [i \in DOMAIN kept \cup new |-> IF i \in new THEN drafts[i] ELSE Waits(i, Moved(kept[i]))]

MayFinish == /\ state = "writing" /\ DOMAIN outline \subseteq DOMAIN drafts
             /\ outline # <<>> \/ (pass.amend /\ pass.empty)

\* merge_from_file: the user's words for a story that is not delivered.
Merged(s, i, deps) == [s EXCEPT ![i].text = User, ![i].deps = deps]
Editable(s) == {i \in Live(s) \ Done(s) : Careless \/ i \in DOMAIN outline}

\* _apply_phase_revision: count phases follow this one, a requirement may be moved.
Revised(count, to) ==
  /\ last' = 1 + count
  /\ due' = IF to \in 2..(1 + count) THEN to ELSE IF due > 1 + count THEN 1 + count ELSE due

\* The set is stored, and the user says yes: as it is, or with an edit to a story.
FinishApproved ==
  /\ MayFinish /\ Valid(Submitted) /\ state' = "approved"
  /\ \/ set' = Submitted
     \/ \E i \in Editable(Submitted), d \in Deps :
          Valid(Merged(Submitted, i, d)) /\ set' = Merged(Submitted, i, d)
  /\ wrote' = [i \in DOMAIN wrote |-> IF set'[i].text = User THEN User ELSE wrote[i]]
  /\ \/ UNCHANGED <<last, due>>
     \/ \E count \in 1..2, to \in {0, 2, 4} : Revised(count, to)
  /\ UNCHANGED <<pass, replaces, outline, drafts, told, texts, retired>>

\* The edit leaves problems: the drafts take it, and the writer goes on.
FinishEditRefused ==
  /\ MayFinish /\ Valid(Submitted)
  /\ \E i \in Editable(Submitted) :
       LET edited == Merged(Submitted, i, {i}) IN
         /\ set' = edited
         /\ drafts' = [j \in DOMAIN drafts |-> IF j \in DOMAIN edited THEN edited[j] ELSE drafts[j]]
         /\ wrote' = [j \in DOMAIN wrote \cup {i} |-> IF j = i THEN User ELSE wrote[j]]
  /\ UNCHANGED <<pass, replaces, outline, told, state, last, due, texts, retired>>

\* Feedback, or a change to the later phases that is refused: the set stays a draft. What
\* the user wrote in the file before the feedback is not read.
FinishSentBack ==
  /\ MayFinish /\ Valid(Submitted) /\ set' = Submitted
  /\ \/ UNCHANGED wrote
     \/ Careless /\ \E i \in DOMAIN outline : wrote' = [wrote EXCEPT ![i] = User]
  /\ UNCHANGED <<pass, replaces, outline, drafts, told, state, last, due, texts, retired>>

\* The pass ends without an approved set; /plan resume takes it up from the snapshot.
Stop ==
  /\ state = "writing" /\ state' = "stopped"
  /\ UNCHANGED <<pass, replaces, outline, drafts, told, set, last, due, texts, wrote, retired>>
Resume ==
  /\ state = "stopped" /\ state' = "writing" /\ replaces' = pass.replaces /\ retired' = pass.replaces
  /\ outline' = NoStories /\ drafts' = NoStories /\ wrote' = NoStories /\ told' = FALSE
  /\ UNCHANGED <<pass, set, last, due, texts>>

\* One or two stories, new ones or one of the base.
Outlines == UNION {[S -> Deps] : S \in {S \in SUBSET (New \cup Done(Base)) : Cardinality(S) \in 1..2}}

Next ==
  \/ texts < MaxCalls /\ \E o \in Outlines, out \in {{}} \cup {{i} : i \in DOMAIN Base} : PlanStories(o, out)
  \/ texts < MaxCalls /\ \E i \in New \cup Done(Base), d \in Deps : WriteStory(i, d)
  \/ NextTurn \/ FinishApproved \/ FinishEditRefused \/ FinishSentBack \/ Stop \/ Resume

Spec == Init /\ [][Next]_writerVars

-----------------------------------------------------------------------------
(* Properties *)

TypeOK ==
  /\ state \in {"writing", "approved", "stopped"} /\ DOMAIN drafts \subseteq DOMAIN outline
  /\ replaces \subseteq DOMAIN Base /\ DOMAIN wrote \subseteq Ids /\ last \in 1..4

\* However often the set is refused, sent back or edited, an approved set is the base's
\* stories and the outlined ones, each saying what was last accepted for it or what the user
\* wrote: the drafts "must not become existing stories when the user sends it back"
\* (story_runner.py:266), "a refused outline retires nothing" (story_runner.py:450) and
\* "delivered work is not rewritten".
SetAsWritten ==
  state = "approved" =>
    /\ DOMAIN set = DOMAIN Base \cup DOMAIN outline
    /\ \A i \in DOMAIN outline : set[i].text = wrote[i]
    /\ \A i \in DOMAIN Base : /\ Base[i].status = "done" => set[i] = Base[i]
                              /\ set[i].status = "replaced" /\ Base[i].status # "replaced" => i \in retired
    /\ Valid(set)

\* No requirement is left past the last phase, where it "would otherwise never be due or
\* checked" (story_runner.py:723).
RequirementsDue == due <= last
=============================================================================
