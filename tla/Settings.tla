------------------------------ MODULE Settings ------------------------------
(***************************************************************************)
(* Settings (harness/commands.py, harness/main.py, harness/harness.py):     *)
(* what a command accepts, what it keeps in prefs.json, what a start takes  *)
(* from the flags and from there, and what of it the system prompt shows.   *)
(* The settings that move: the mode, the workspace, the session.            *)
(*                                                                         *)
(* A value is a class: 0 off, none or auto; 1 below the smallest accepted;  *)
(* 2 and 3 accepted (2: on, for a toggle); 4 above the largest; Unset where *)
(* prefs.json has no entry.                                                 *)
(***************************************************************************)
EXTENDS Integers, FiniteSets

CONSTANTS
  Folders,          \* workspaces
  MaxSets, MaxSteps \* bounds: settings given (as a command or a flag); steps

VARIABLES
  value,     \* knob -> class
  prefs,     \* prefs.json: kept knob -> class
  lastMode, lastFolder,    \* prefs.json: mode and last_workdir
  here,      \* [mode, workdir, kind, skills] in the session open
  session,   \* what its file has of them, or NoSession
  talked,    \* whether it has a conversation
  prompt,    \* what the system prompt was rendered from
  follows,   \* the workspace of each part that belongs to one, "" when it is off
  run,       \* this run of momo: [number, flag, v]
  sets, steps

settingsVars == <<value, prefs, lastMode, lastFolder, here, session, talked, prompt, follows,
                  run, sets, steps>>

Unset == -1
NoSession == [mode |-> "", workdir |-> "", kind |-> "", skills |-> {}]
Modes == {"design", "coding", "plan"}

\* Harness.__init__, and main's "else": what each kept setting is without any other word.
Default ==
  [max_tool_result |-> 0, think |-> 2, think_history |-> 2, think_keep |-> 0, cavecat |-> 0,
   idle_recap |-> 0, idle_recap_secs |-> 2, guides |-> 0, run_mode |-> 2, tool_ref |-> 2,
   loop_guard |-> 2, loop_resets |-> 2, think_budget |-> 2, think_repeat |-> 2,
   reply_repeat |-> 2, progress_note |-> 2, plan_questions |-> 2, undo_max |-> 2,
   max_output_tokens |-> 2, run_output_limit |-> 0, net_max_bytes |-> 2, net_max_chars |-> 2,
   index |-> 2, index_max_mem |-> 2, index_max_files |-> 2, index_workers |-> 0,
   index_route |-> 2, index_persist |-> 2, stories_approve |-> 2, stories_cap |-> 2,
   session_titles |-> 2, tools_discover |-> 0, mcp |-> 2]
Kept == DOMAIN Default
\* "Off by default and never persisted", and the toggles without a preference.
Unsaved == [tools_enabled |-> 2, run_confirm |-> 0, mcp_confirm |-> 2, net_confirm |-> 2,
            net_access |-> 0]
Knobs == Kept \cup DOMAIN Unsaved

-----------------------------------------------------------------------------
(* The system prompt *)

\* system_prompt_sections: the settings its sections and tool reference depend on.
Rendered(v, at) ==
  [mode |-> at.mode, workdir |-> at.workdir, kind |-> IF at.mode = "plan" THEN at.kind ELSE "",
   skills |-> at.skills, guides |-> v.guides, cavecat |-> v.cavecat, tool_ref |-> v.tool_ref,
   run_mode |-> v.run_mode, net |-> v.net_access, discover |-> v.tools_discover,
   index |-> v.index, route |-> v.index_route, mcp |-> v.mcp]

Rebuild == prompt' = Rendered(value', here')

\* _autosave: a session with no conversation is not written.
Saved(at) == IF talked THEN at ELSE session

Parts(v, workdir, tools) ==
  [index |-> IF v.index = 0 THEN "" ELSE workdir, guides |-> IF v.guides = 0 THEN "" ELSE workdir,
   mcp |-> workdir, tools |-> tools]

-----------------------------------------------------------------------------
(* Setting one (commands.py): what each command accepts, keeps and re-renders *)

Setting(k, v, accepted) == v \in accepted /\ value' = [value EXCEPT ![k] = v]
Keep(k, v, accepted) == Setting(k, v, accepted) /\ prefs' = [prefs EXCEPT ![k] = v]
OnOff == {0, 2}
Step == steps < MaxSteps /\ steps' = steps + 1

\* _toggle: /tools, /run-confirm, /mcp-confirm, /net-confirm.
Toggle(k, v) ==
  /\ k \in {"tools_enabled", "run_confirm", "mcp_confirm", "net_confirm"}
  /\ Setting(k, v, OnOff) /\ UNCHANGED <<prefs, prompt>>

SetNetAccess(v) == Setting("net_access", v, {0, 2, 3}) /\ UNCHANGED prefs /\ Rebuild
ToolResult(v) == Keep("max_tool_result", v, 0..4) /\ UNCHANGED prompt
Think(v) == Keep("think", v, {0, 2, 3}) /\ UNCHANGED prompt
ThinkHistory(v) == Keep("think_history", v, {0, 2, 3}) /\ UNCHANGED prompt
ThinkKeep(v) == Keep("think_keep", v, {0, 2, 3}) /\ UNCHANGED prompt
Cavecat(v) == Keep("cavecat", v, OnOff) /\ Rebuild
\* /companion-idle-recap takes on, off or the seconds, and keeps both.
IdleRecap(k, v) ==
  /\ Setting(k, v, IF k = "idle_recap" THEN OnOff ELSE {2, 3, 4})
  /\ prefs' = [prefs EXCEPT !.idle_recap = value'.idle_recap,
                            !.idle_recap_secs = value'.idle_recap_secs]
  /\ UNCHANGED prompt
Guides(v) == Keep("guides", v, OnOff) /\ Rebuild
RunMode(v) == Keep("run_mode", v, {2, 3}) /\ Rebuild
ToolRef(v) == Keep("tool_ref", v, {2, 3}) /\ Rebuild
ToolsDiscover(v) == Keep("tools_discover", v, {0, 2, 3}) /\ Rebuild
LoopGuard(k, v) ==
  Keep(k, v, IF k = "loop_guard" THEN {0, 2, 3} ELSE {0, 1, 2, 3}) /\ UNCHANGED prompt
ThinkBudget(k, v) ==
  Keep(k, v, IF k = "think_budget" THEN {0, 2, 3, 4} ELSE OnOff) /\ UNCHANGED prompt
ProgressNote(v) == Keep("progress_note", v, OnOff) /\ UNCHANGED prompt
PlanQuestions(v) == Keep("plan_questions", v, OnOff) /\ UNCHANGED prompt
PlanStories(k, v) == Keep(k, v, {2, 3}) /\ UNCHANGED prompt
UndoMax(v) == Keep("undo_max", v, 0..4) /\ UNCHANGED prompt
MaxOutputTokens(v) == Keep("max_output_tokens", v, {0, 2, 3, 4}) /\ UNCHANGED prompt
RunOutputLimit(v) == Keep("run_output_limit", v, {0, 2, 3, 4}) /\ UNCHANGED prompt
NetMaxBytes(v) == Keep("net_max_bytes", v, {1, 2, 3}) /\ UNCHANGED prompt
NetMaxChars(v) == Keep("net_max_chars", v, {2, 3}) /\ UNCHANGED prompt
SetIndex(v) == Keep("index", v, OnOff) /\ Rebuild
IndexMax(k, v) == Keep(k, v, {2, 3, 4}) /\ UNCHANGED prompt
IndexWorkers(v) == Keep("index_workers", v, {0, 1, 2, 3}) /\ UNCHANGED prompt
IndexRoute(v) == Keep("index_route", v, OnOff) /\ Rebuild
IndexPersist(v) == Keep("index_persist", v, OnOff) /\ UNCHANGED prompt
SessionTitles(v) == Keep("session_titles", v, OnOff) /\ UNCHANGED prompt
SetMcpEnabled(v) == Keep("mcp", v, OnOff) /\ Rebuild

Command(k, v) ==
  /\ sets < MaxSets /\ sets' = sets + 1 /\ Step
  /\ UNCHANGED <<lastMode, lastFolder, here, session, talked, run>>
  /\ \/ Toggle(k, v)
     \/ k = "net_access" /\ SetNetAccess(v)
     \/ k = "max_tool_result" /\ ToolResult(v)
     \/ k = "think" /\ Think(v)
     \/ k = "think_history" /\ ThinkHistory(v)
     \/ k = "think_keep" /\ ThinkKeep(v)
     \/ k = "cavecat" /\ Cavecat(v)
     \/ k = "guides" /\ Guides(v)
     \/ k = "run_mode" /\ RunMode(v)
     \/ k = "tool_ref" /\ ToolRef(v)
     \/ k = "tools_discover" /\ ToolsDiscover(v)
     \/ k = "progress_note" /\ ProgressNote(v)
     \/ k = "plan_questions" /\ PlanQuestions(v)
     \/ k = "undo_max" /\ UndoMax(v)
     \/ k = "max_output_tokens" /\ MaxOutputTokens(v)
     \/ k = "run_output_limit" /\ RunOutputLimit(v)
     \/ k = "net_max_bytes" /\ NetMaxBytes(v)
     \/ k = "net_max_chars" /\ NetMaxChars(v)
     \/ k = "index" /\ SetIndex(v)
     \/ k = "index_workers" /\ IndexWorkers(v)
     \/ k = "index_route" /\ IndexRoute(v)
     \/ k = "index_persist" /\ IndexPersist(v)
     \/ k = "session_titles" /\ SessionTitles(v)
     \/ k = "mcp" /\ SetMcpEnabled(v)
     \/ k \in {"idle_recap", "idle_recap_secs"} /\ IdleRecap(k, v)
     \/ k \in {"loop_guard", "loop_resets"} /\ LoopGuard(k, v)
     \/ k \in {"think_budget", "think_repeat", "reply_repeat"} /\ ThinkBudget(k, v)
     \/ k \in {"stories_approve", "stories_cap"} /\ PlanStories(k, v)
     \/ k \in {"index_max_mem", "index_max_files"} /\ IndexMax(k, v)
  /\ follows' = Parts(value', here.workdir, follows.tools)

-----------------------------------------------------------------------------
(* The mode, the workspace, the session *)

Move == Step /\ UNCHANGED <<value, prefs, run, sets>>

\* set_mode, and /plan tdd, /plan stories, which set the plan's kind first: a
\* change is saved in the session, the mode in the preferences too.
SetMode(mode, kind) ==
  /\ Move /\ (mode # "plan" => kind = here.kind)
  /\ here' = [here EXCEPT !.mode = mode, !.kind = kind]
  /\ lastMode' = IF mode # here.mode THEN mode ELSE lastMode
  /\ session' = IF here' # here THEN Saved(here') ELSE session
  /\ Rebuild /\ UNCHANGED <<lastFolder, talked, follows>>

\* /load-skill, /unload-skill: kept with the next save.
Skill(s) ==
  /\ Move /\ here' = [here EXCEPT !.skills = (@ \ s) \cup (s \ @)]
  /\ Rebuild /\ UNCHANGED <<lastMode, lastFolder, session, talked, follows>>

\* /workspace: every part that belongs to a workspace moves with it.
Workspace(w) ==
  /\ Move /\ here' = [here EXCEPT !.workdir = w] /\ lastFolder' = w
  /\ follows' = Parts(value, w, w)
  /\ Rebuild /\ UNCHANGED <<lastMode, session, talked>>

\* A message: the turn's end saves the session.
Say ==
  /\ Move /\ talked' = TRUE /\ session' = here
  /\ UNCHANGED <<lastMode, lastFolder, here, prompt, follows>>

\* /clear and /new: the conversation and the plan's kind go.
Clear ==
  /\ Move /\ here' = [here EXCEPT !.kind = "normal"] /\ talked' = FALSE
  /\ session' = NoSession /\ lastFolder' = here.workdir
  /\ Rebuild /\ UNCHANGED <<lastMode, follows>>

\* load_session of another session.
LoadSession(s) ==
  /\ Move /\ here' = s /\ session' = s /\ talked' = TRUE /\ lastFolder' = s.workdir
  /\ follows' = Parts(value, s.workdir, s.workdir)
  /\ Rebuild /\ UNCHANGED lastMode

\* check_workspace_tools, when idle and after a turn.
CheckTools ==
  /\ follows.tools # here.workdir /\ follows' = [follows EXCEPT !.tools = here.workdir]
  /\ UNCHANGED <<value, prefs, lastMode, lastFolder, here, session, talked, run, sets, steps>>
  /\ Rebuild

-----------------------------------------------------------------------------
(* A start (main.py): what it takes from prefs.json and from the flags *)

TakesChoice ==
  [max_tool_result |-> 0..4, think |-> {0, 2, 3}, think_history |-> {0, 2, 3},
   cavecat |-> OnOff, think_keep |-> {0, 2, 3}]
TakesPlan == [plan_questions |-> OnOff, stories_approve |-> {2, 3}, stories_cap |-> {2, 3}]
TakesNet == [net_max_bytes |-> 1..4, net_max_chars |-> {2, 3}]
TakesIndex ==
  [idle_recap |-> OnOff, session_titles |-> OnOff, idle_recap_secs |-> 1..4, guides |-> OnOff,
   index_max_mem |-> {2, 3, 4}, index_max_files |-> {2, 3, 4}, index_workers |-> {0, 1, 2, 3},
   index_persist |-> OnOff, index_route |-> OnOff, index |-> OnOff, mcp |-> OnOff]
TakesRun ==
  [run_mode |-> {2, 3}, tools_discover |-> {0, 2, 3}, tool_ref |-> {2, 3},
   run_output_limit |-> {0, 2, 3, 4}, max_output_tokens |-> {0, 2, 3, 4},
   think_budget |-> {0, 2, 3, 4}]
TakesGuard ==
  [think_repeat |-> OnOff, reply_repeat |-> OnOff, progress_note |-> OnOff, undo_max |-> 0..4,
   loop_guard |-> {0, 2, 3}, loop_resets |-> 0..3]
Takes(k) ==
  LET tables == {TakesChoice, TakesPlan, TakesNet, TakesIndex, TakesRun, TakesGuard}
      table == CHOOSE t \in tables : k \in DOMAIN t
  IN table[k]
\* The settings a flag gives too.
Flags ==
  (Kept \ {"think_repeat", "stories_approve", "stories_cap", "session_titles"})
  \cup {"net_access", "net_confirm"}
FlagTakes(k, v) ==
  v \in IF k = "net_access" THEN {0, 2, 3} ELSE IF k = "net_confirm" THEN OnOff ELSE Takes(k)

\* min(HARD_MAX_BYTES, ...) and max(10, ...)
Capped(k, v) ==
  IF k = "net_max_bytes" /\ v = 4 THEN 3 ELSE IF k = "idle_recap_secs" /\ v = 1 THEN 2 ELSE v

Started(k, flag, v) ==
  IF k = flag THEN Capped(k, v)
  ELSE IF k \notin Kept THEN Unsaved[k]
  ELSE IF prefs[k] \in Takes(k) THEN Capped(k, prefs[k]) ELSE Default[k]

\* momo ends, its session saved unless it was killed, and starts again with a
\* flag, --mode and --workspace or without.  The session is opened again in the
\* workspace it was last in; in another one, or without one, a start is fresh.
Restart(killed, flag, v, mode, w) ==
  /\ Step
  /\ run' = [number |-> run.number + 1, flag |-> flag, v |-> v]
  /\ IF flag = "" THEN UNCHANGED sets
     ELSE sets < MaxSets /\ sets' = sets + 1 /\ FlagTakes(flag, v)
  /\ LET file == IF killed THEN session ELSE Saved(here)
         last == IF w = "" \/ file.workdir = w THEN file ELSE NoSession
         workdir == IF w = "" THEN lastFolder ELSE w
     IN /\ value' = [k \in Knobs |-> Started(k, flag, v)]
        /\ here' = IF last # NoSession THEN [last EXCEPT !.workdir = workdir]
                   ELSE [mode |-> IF mode # "" THEN mode
                                  ELSE IF lastMode # "" THEN lastMode ELSE "design",
                         workdir |-> workdir, kind |-> "normal", skills |-> {}]
        /\ session' = last /\ talked' = (last # NoSession)
        /\ lastMode' = IF last = NoSession /\ here'.mode # "design" THEN here'.mode ELSE lastMode
        /\ follows' = Parts(value', workdir, IF last = NoSession THEN workdir ELSE last.workdir)
        /\ lastFolder' = workdir
  /\ Rebuild /\ UNCHANGED prefs

Init ==
  /\ value = [k \in Knobs |-> IF k \in Kept THEN Default[k] ELSE Unsaved[k]]
  /\ prefs = [k \in Kept |-> Unset] /\ lastMode = ""
  /\ here \in [mode : {"design"}, workdir : Folders, kind : {"normal"}, skills : {{}}]
  /\ lastFolder = here.workdir /\ session = NoSession /\ talked = FALSE
  /\ prompt = Rendered(value, here) /\ follows = Parts(value, here.workdir, here.workdir)
  /\ run = [number |-> 1, flag |-> "", v |-> 0] /\ sets = 0 /\ steps = 0

Next ==
  \/ \E k \in Knobs, v \in 0..4 : Command(k, v)
  \/ \E m \in Modes, kind \in {"normal", "tdd"} : SetMode(m, kind)
  \/ \E w \in Folders : Workspace(w)
  \/ Skill({"s"}) \/ Say \/ Clear \/ CheckTools
  \/ \E w \in Folders : LoadSession([mode |-> "plan", workdir |-> w, kind |-> "tdd",
                                        skills |-> {}])
  \/ \E killed \in BOOLEAN, w \in Folders \cup {""}, mode \in {"", "coding"} :
       \/ Restart(killed, "", 0, mode, w)
       \/ \E k \in Flags, v \in 0..4 : Restart(killed, k, v, mode, w)

Spec == Init /\ [][Next]_settingsVars

-----------------------------------------------------------------------------
\* Every setting has a class of its own, kept or not.
TypeOK ==
  /\ value \in [Knobs -> 0..4] /\ prefs \in [Kept -> {Unset} \cup 0..4]
  /\ lastMode \in Modes \cup {""} /\ lastFolder \in Folders
  /\ here.mode \in Modes /\ here.workdir \in Folders
  /\ session = NoSession \/ session.workdir \in Folders
  /\ talked = (session # NoSession)

\* "anything that changes which tools are offered mid-session has to call this or
\* the reference goes stale" (rebuild_system_prompt): no command or move leaves a
\* prompt that shows another setting, mode, skill or workspace.
PromptCurrent == prompt = Rendered(value, here)

\* The index, the guides and the MCP servers are the workspace's that momo is in.
WorkspaceFollowed ==
  follows = [Parts(value, here.workdir, here.workdir) EXCEPT !.tools = follows.tools]

\* A setting kept by its command is the same after the next start ("default: last
\* /... setting"), a flag beats it for that run only, and what is never kept is
\* as at the first start.
SurvivesRestartStep ==
  run' # run =>
    /\ run'.flag # "" => value'[run'.flag] = Capped(run'.flag, run'.v)
    /\ \A k \in Kept \ {run'.flag} :
         value'[k] = IF prefs[k] = Unset THEN Default[k] ELSE prefs[k]
    /\ \A k \in DOMAIN Unsaved \ {run'.flag} : value'[k] = Unsaved[k]
SurvivesRestart == [][SurvivesRestartStep]_settingsVars

\* The workspace's own tools are not loaded again when a start opens a session
\* last saved in another workspace; the next idle check does it.
ToolsFollowed == follows.tools = here.workdir
=============================================================================
