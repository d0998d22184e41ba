------------------------------- MODULE PlanDraft -------------------------------
(***************************************************************************)
(* A stories plan is written phase by phase: the outline, one phase a      *)
(* turn, the submission, and the restarts after refused calls              *)
(* (plan_runner.py: create_plan, write_phase, finish_plan).                *)
(*                                                                         *)
(* What a phase says is the number of the call that sent it and its kind:  *)
(* a "plain" phase raises a doubt in the first place only (no example goes *)
(* through an interface), a "bad" one is refused anywhere.  No two phases  *)
(* share a title.                                                          *)
(***************************************************************************)
EXTENDS Integers, Sequences, FiniteSets, FiniteSetsExt, SequencesExt

CONSTANTS
  Titles,              \* what the planner calls its phases
  MaxPhases,           \* bound: the phases of an outline
  Numbers,             \* the phase numbers write_phase is called with
  PLAN_MAX_RESTARTS,
  MaxTurns,            \* bound: the requests of one turn
  MaxCalls             \* bound: the calls that write the plan

VARIABLES
  draft,     \* Harness._plan_draft
  seen,      \* _plan_heuristics: how often each doubt was raised, up to 3
  refused,   \* _plan_refused, up to 2
  restart,   \* _plan_restart is set
  restarts,  \* _plan_restarts
  asked, gate,  \* _plan_asked > 0, _plan_gate_refused
  turn,      \* the request of this turn; 0 between turns
  plan, phase,  \* Harness.plan, plan_phase
  texts,     \* such calls so far
  wrote      \* history: the text each title stands for; 0 for none

draftVars == <<draft, seen, refused, restart, restarts, asked, gate, turn, plan, phase, texts, wrote>>

Doubts == {"frame", "slice"}
Kinds == {"slice", "plain", "bad"}
Frames == {"good", "doubt", "bad"}   \* a frame whose requirements may miss an item raises a doubt
NoDraft == [on |-> FALSE, outline |-> <<>>, phases |-> <<>>, frame |-> "good", bad |-> {},
            turns |-> -1, wroteAt |-> -2]
Nothing == [t \in Titles |-> 0]

Init ==
  /\ draft = NoDraft /\ seen = [d \in Doubts |-> 0] /\ refused = 0 /\ restart = FALSE
  /\ restarts = 0 /\ asked = FALSE /\ gate = FALSE /\ turn = 0 /\ plan = <<>>
  /\ phase = "investigating" /\ texts = 0 /\ wrote = Nothing

Planning == turn > 0 /\ phase # "executing"
Outlines == UNION {{o \in [1..n -> Titles] : IsInjective(o)} : n \in 0..MaxPhases}
Problem(n, kind) == kind = "bad" \/ (n = 1 /\ kind = "plain")
IsWhole(d) == DOMAIN d.phases = DOMAIN d.outline

-----------------------------------------------------------------------------
(* _kept_phases: what an outline keeps of the phases written for the last one *)

Titled(old, t) == {j \in DOMAIN old : old[j].title = t}

\* The phase of that title, else, in as long an outline, the one whose title was reworded.
ByTitle(old, same, o) ==
  LET titled == {i \in DOMAIN o : Titled(old, o[i]) # {}}
      reworded == {i \in DOMAIN o \ titled :
                     same /\ i \in DOMAIN old /\ old[i].title \notin Range(o)}
  IN [i \in titled \cup reworded |->
        IF i \in reworded THEN old[i] ELSE old[CHOOSE j \in Titled(old, o[i]) : TRUE]]

KeptPhases(old, o) == ByTitle(old.phases, Len(old.outline) = Len(o), o)

-----------------------------------------------------------------------------
(* Refusals *)

\* _yield_heuristics: a doubt that is not raised again starts over.
Raised(s, doubts, scopes) ==
  [d \in Doubts |-> IF d \in doubts THEN Min({s[d] + 1, 3}) ELSE IF d \in scopes THEN 0 ELSE s[d]]
Refuses(s, doubts) == \E d \in doubts : s[d] <= 2

\* _refuse_plan: the second in a row restarts the planner.
Refuse(before, counts) ==
  /\ refused' = IF counts THEN Min({before + 1, 2}) ELSE before
  /\ restart' = (restart \/ (counts /\ before > 0))

\* approve_plan, cancel_plan, clear_conversation: the next plan starts afresh.
Reset ==
  /\ draft' = NoDraft /\ seen' = [d \in Doubts |-> 0] /\ refused' = 0 /\ restarts' = 0
  /\ asked' = FALSE /\ gate' = FALSE /\ wrote' = Nothing

\* _submit_plan: everything is checked once more, then the user is asked.
Submit(d, s, before, w) ==
  LET steps == [i \in DOMAIN d.outline |-> d.phases[i]]
      doubts == {x \in Doubts : IF x = "frame" THEN d.frame = "doubt" ELSE steps[1].kind = "plain"}
      raised == Raised(s, doubts, Doubts)
  IN IF d.frame = "bad" \/ (\E i \in DOMAIN steps : steps[i].kind = "bad") \/ Refuses(raised, doubts)
     THEN /\ draft' = d /\ seen' = raised /\ wrote' = w /\ Refuse(before, TRUE)
          /\ UNCHANGED <<asked, gate, plan, phase, restarts>>
     ELSE /\ plan' = steps
          /\ \/ phase' = "executing" /\ Reset /\ UNCHANGED restart
             \/ /\ phase' \in {"awaiting_approval", "investigating"} /\ draft' = d
                /\ seen' = raised /\ refused' = before /\ wrote' = w
                /\ UNCHANGED <<restart, restarts, asked, gate>>

-----------------------------------------------------------------------------
(* The planner's calls *)

\* ask_user, ask_choice
Ask ==
  /\ Planning /\ asked' = TRUE
  /\ UNCHANGED <<draft, seen, refused, restart, restarts, gate, turn, plan, phase, texts, wrote>>

\* create_plan: the frame, the outline and the phases sent in full with it.
CreatePlan(sent, frame, full) ==
  LET old == draft
      o == IF sent = <<>> THEN old.outline ELSE sent
      text == texts + 1
      taken == {i \in DOMAIN full : ~Problem(i, full[i])}
      kept == KeptPhases(old, o)
      phases == [i \in (DOMAIN kept \ DOMAIN full) \cup taken |->
                   IF i \in taken THEN [title |-> o[i], text |-> text, kind |-> full[i]] ELSE kept[i]]
      new == [on |-> TRUE, outline |-> o, phases |-> phases, frame |-> frame,
              bad |-> DOMAIN full \ taken, turns |-> -1, wroteAt |-> -2]
      doubts == {x \in Doubts : IF x = "frame" THEN frame = "doubt"
                                ELSE 1 \in DOMAIN full /\ full[1] = "plain"}
      raised == Raised(seen, doubts, {"frame"} \cup IF 1 \in DOMAIN full THEN {"slice"} ELSE {})
      refuses == \/ frame = "bad" \/ o = <<>> \/ Refuses(raised, doubts)
                 \/ \E i \in DOMAIN full : full[i] = "bad"
      w == [t \in Titles |-> IF \E i \in taken : o[i] = t THEN text
                             ELSE IF t \in Range(o) /\ \A i \in DOMAIN full : o[i] # t
                             THEN wrote[t] ELSE 0]
  IN /\ Planning /\ UNCHANGED turn
     /\ texts' = text
     /\ IF plan = <<>> /\ ~asked /\ ~gate
        THEN gate' = TRUE /\ UNCHANGED <<draft, seen, refused, restart, restarts, asked, plan, phase, wrote>>
        ELSE IF refuses
        \* A refused call changes nothing, if there was an outline.
        THEN /\ draft' = (IF old.outline # <<>> THEN old ELSE new)
             /\ seen' = raised /\ Refuse(refused, TRUE)
             /\ wrote' = IF old.outline # <<>> THEN wrote ELSE w
             /\ UNCHANGED <<restarts, asked, gate, plan, phase>>
        ELSE IF IsWhole(new) THEN Submit(new, raised, 0, w)
        ELSE /\ draft' = new /\ seen' = raised /\ refused' = 0 /\ wrote' = w
             /\ UNCHANGED <<restart, restarts, asked, gate, plan, phase>>

\* _phase_for: the phase a call without its number is for, or 0.
PhaseFor(t) ==
  LET hits == {i \in DOMAIN draft.outline : draft.outline[i] = t}
      open == DOMAIN draft.outline \ DOMAIN draft.phases
  IN IF hits # {} THEN Min(hits) ELSE IF open # {} THEN Min(open) ELSE 0

\* write_phase, with the phase's number (0 for none) and its title ("" for the outline's).
WritePhase(number, title, kind) ==
  LET n == IF number # 0 THEN number ELSE PhaseFor(title)
      own == draft.outline[n]
      t == IF title = "" THEN own ELSE title
      text == texts + 1
      ph == [title |-> t, text |-> text, kind |-> kind]
      doubts == IF n = 1 /\ kind = "plain" THEN {"slice"} ELSE {}
      raised == Raised(seen, doubts, IF n = 1 THEN {"slice"} ELSE {})
      was == {own} \cup IF n \in DOMAIN draft.phases THEN {draft.phases[n].title} ELSE {}
      Now(m) == [m EXCEPT !.wroteAt = draft.turns]
      others == DOMAIN draft.phases \ {n}
      rest == [i \in others |-> draft.phases[i]]
      forgot == [x \in Titles |-> IF x \in was THEN 0 ELSE wrote[x]]
  IN /\ Planning /\ draft.on /\ n # 0 /\ draft.wroteAt # draft.turns
     /\ UNCHANGED <<asked, gate, plan, phase>>
     /\ IF n > Len(draft.outline)
        \* Nothing refuses it: the lookup in the outline raises an error that ends the turn.
        THEN turn' = 0 /\ UNCHANGED <<draft, seen, refused, restart, restarts, texts, wrote>>
        ELSE /\ \A i \in DOMAIN draft.outline \ {n} : draft.outline[i] # t
             /\ \A i \in others : draft.phases[i].title # t
             /\ texts' = text /\ seen' = raised /\ UNCHANGED turn
             /\ IF kind = "bad" \/ Refuses(raised, doubts)
                THEN /\ draft' = [draft EXCEPT !.phases = rest, !.bad = @ \cup {n}]
                     /\ wrote' = forgot /\ Refuse(refused, number # 0) /\ UNCHANGED restarts
                ELSE /\ draft' = Now([draft EXCEPT
                                        !.phases = [i \in others \cup {n} |-> IF i = n THEN ph ELSE rest[i]],
                                        !.bad = @ \ {n},
                                        !.outline[n] = IF doubts = {} THEN t ELSE @])
                     /\ wrote' = [forgot EXCEPT ![t] = text]
                     /\ refused' = 0 /\ restarts' = 0 /\ UNCHANGED restart

\* finish_plan
FinishPlan ==
  /\ Planning /\ draft.on /\ draft.outline # <<>> /\ IsWhole(draft)
  /\ Submit(draft, seen, refused, wrote) /\ UNCHANGED <<turn, texts>>

-----------------------------------------------------------------------------
(* Turns *)

Counted(t) == turn' = t /\ draft' = IF draft.on THEN [draft EXCEPT !.turns = t] ELSE draft

\* A message from the user.
Message ==
  /\ turn = 0 /\ phase # "executing" /\ Counted(1)
  /\ asked' \in {asked, TRUE}          \* an answer to a question in the reply's text
  /\ UNCHANGED <<seen, refused, restart, restarts, gate, plan, phase, texts, wrote>>

\* The batch is over: on to the next request, from a summary if a restart is due, or the
\* planning pauses.
EndBatch ==
  /\ Planning /\ turn < MaxTurns
  /\ UNCHANGED <<seen, refused, asked, gate, plan, phase, texts, wrote>>
  /\ IF ~restart THEN Counted(turn + 1) /\ UNCHANGED <<restart, restarts>>
     ELSE /\ restart' = FALSE
          /\ IF restarts + 1 > PLAN_MAX_RESTARTS
             THEN turn' = 0 /\ restarts' = 0 /\ UNCHANGED draft
             ELSE Counted(turn + 1) /\ restarts' = restarts + 1

\* The reply calls no tool, or the plan was approved.
EndTurn ==
  /\ turn > 0 /\ (restart => ~Planning) /\ turn' = 0
  /\ UNCHANGED <<draft, seen, refused, restart, restarts, asked, gate, plan, phase, texts, wrote>>

\* /plan run, /plan cancel
RunPlan ==
  /\ turn = 0 /\ plan # <<>> /\ phase # "executing" /\ phase' = "executing" /\ Reset
  /\ UNCHANGED <<restart, turn, plan, texts>>
CancelPlan ==
  /\ turn = 0 /\ plan # <<>> /\ phase' = "investigating" /\ plan' = <<>> /\ Reset
  /\ UNCHANGED <<restart, turn, texts>>

\* All the phases in full, or none.
Full(o) == {<<>>} \cup [DOMAIN o -> Kinds]

Next ==
  \/ Ask \/ FinishPlan \/ Message \/ EndBatch \/ EndTurn \/ RunPlan \/ CancelPlan
  \/ /\ texts < MaxCalls
     /\ \/ \E o \in Outlines, f \in Frames : \E full \in Full(o) : CreatePlan(o, f, full)
        \/ \E n \in Numbers \cup {0}, t \in Titles \cup {""}, k \in Kinds : WritePhase(n, t, k)

Spec == Init /\ [][Next]_draftVars

-----------------------------------------------------------------------------
(* Properties *)

TypeOK ==
  /\ draft.outline \in Outlines /\ DOMAIN draft.phases \subseteq DOMAIN draft.outline
  /\ draft.bad \cap DOMAIN draft.phases = {}
  /\ seen \in [Doubts -> 0..3] /\ refused \in 0..2 /\ restarts \in 0..PLAN_MAX_RESTARTS
  /\ (draft.turns = -1 \/ draft.turns \in 1..MaxTurns) /\ turn \in 0..MaxTurns

\* Whatever calls are refused, resent or reworded, each title of the outline has the text
\* last accepted for it: "By title first, so reordered phases keep their own text"
\* (plan_runner.py:180), "a refused call changes nothing" (plan_runner.py:547).
KeptByTitle ==
  \A i \in DOMAIN draft.outline : LET t == draft.outline[i]
                                  IN wrote[t] # 0 => i \in DOMAIN draft.phases /\ draft.phases[i].text = wrote[t]

\* A plan the user is asked about has every phase, none of them refused for what it says
\* (plan_runner.py:747).
SubmittedWhole ==
  \A i \in DOMAIN plan : plan[i].kind # "bad" /\ plan[i].text > 0
=============================================================================
