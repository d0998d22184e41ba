------------------------------ MODULE Dispatch ------------------------------
(***************************************************************************)
(* Running one tool call (tools/dispatcher.py), and loading the user's own *)
(* tool files (tools/custom.py).                                           *)
(*                                                                         *)
(* Dispatch gives the steps of a call in order.  A call names its tool,    *)
(* the arguments it gives, what the argument carrying file text holds, and *)
(* the one step that fails, if any.                                        *)
(***************************************************************************)
EXTENDS Integers, FiniteSets, Sequences, SequencesExt

CONSTANTS
  Table,    \* the registered tools: name -> [props, required, writes, body, routed, mine]
  Indexed   \* TRUE: the code index is on and routed to

Names == DOMAIN Table
Step(kind, tool) == [kind |-> kind, tool |-> tool]
Writes(t) == Table[t].writes # "none"

\* A write_file that gives the strings of an edit is one.
RoutedToEdit(t, given) ==
    t = "write_file" /\ {"old_string", "new_string", "path"} \subseteq given /\ "content" \notin given

\* The arguments file text is carried in: notes the harness put in the history
\* in place of text are no file text, and stop the call.
Noted(t, call) == Table[t].body \in call.given /\ call.text \in {"placeholder", "cut"}

Bound(t, given) == Table[t].required \subseteq given /\ given \subseteq Table[t].props

\* run: the call itself, with no hook of dispatch.
Run(call) ==
    LET t == IF RoutedToEdit(call.tool, call.given) THEN "edit_file" ELSE call.tool
        given == IF t = call.tool THEN call.given ELSE call.given \cap {"path", "old_string", "new_string", "replace_all"}
    IN IF Noted(t, [call EXCEPT !.given = given]) \/ ~Bound(t, given) THEN <<Step("refused", t)>>
       ELSE <<Step("run", t)>> \o (IF call.fails = "tool" THEN <<Step("raised", t)>> ELSE <<>>)

Known(call) == call.tool \in Names /\ ~Table[call.tool].mine
Raised(steps) == \E i \in DOMAIN steps : steps[i].kind = "raised"

\* _checkpoint: a write whose copy there is no room for goes ahead.
Recorded(call) == Writes(call.tool) /\ call.checkpoints /\ call.fails # "record"

\* dispatch
After(call, ran) == IF Recorded(call) /\ call.fails # "after" THEN <<Step("after", call.tool)>> ELSE <<>>

Hooks(call) ==
    <<Step("hook", call.tool)>>
    \o (IF Indexed /\ Table[call.tool].writes = "arguments" THEN <<Step("invalidate", call.tool)>> ELSE <<>>)

Dispatch(call) ==
    LET t == call.tool
        ran == Run(call)
    IN CASE ~Known(call) -> <<Step("refused", t)>>
         [] Known(call) /\ Indexed /\ Table[t].routed /\ call.answered -> <<Step("routed", t)>>
         [] OTHER -> (IF Writes(t) THEN <<Step("momo", t)>> ELSE <<>>)
                     \o (IF Recorded(call) THEN <<Step("record", t)>> ELSE <<>>)
                     \o ran \o After(call, ran)
                     \o (IF Raised(ran) THEN <<>> ELSE Hooks(call))

(***************************************************************************)
(* Custom tools: the files of the user's folder, in order of their names.  *)
(* A file is hidden (its name starts with _) or not, trusted or not, can   *)
(* be imported or not, and declares tools.                                 *)
(***************************************************************************)
Good == "good"
\* check: what keeps a tool out; taken holds the names accepted before.
Problem(tool, taken) ==
    CASE tool.builtin -> "a built-in tool"
      [] ~tool.builtin /\ tool.name \in taken -> "twice"
      [] OTHER -> tool.flaw

NamesOf(tools) == {tools[i].name : i \in DOMAIN tools}
Load(folder, files) ==
    LET tool(st, t) == IF Problem(t, NamesOf(st.accepted)) = Good THEN [st EXCEPT !.accepted = Append(@, t)]
                       ELSE [st EXCEPT !.errors = Append(@, Problem(t, NamesOf(st.accepted)))]
        file(st, f) ==
          CASE f.hidden -> st
            [] ~f.hidden /\ ~f.trusted -> [st EXCEPT !.errors = Append(@, "not trusted")]
            [] ~f.hidden /\ f.trusted /\ ~f.imports -> [st EXCEPT !.errors = Append(@, "failed")]
            [] OTHER -> IF f.tools = <<>> THEN [st EXCEPT !.errors = Append(@, "no tool")]
                        ELSE FoldLeft(tool, st, f.tools)
        none == [accepted |-> <<>>, errors |-> <<>>]
    IN CASE folder = "missing" -> none
         [] folder = "open to others" -> [none EXCEPT !.errors = <<"not trusted">>]
         [] OTHER -> FoldLeft(file, none, files)

(***************************************************************************)
(* Properties.                                                             *)
(***************************************************************************)
At(steps, kind) == {i \in DOMAIN steps : steps[i].kind = kind}
Precedes(steps, a, b) == \E i \in At(steps, a), j \in At(steps, b) : i < j

\* A write can be taken back: the copy of what it replaces is taken before it
\* runs and that of what it left after it, also when it raised half-way; and
\* no other call costs a copy (dispatcher.py:119-160).
WritesUndoable(call) ==
    LET steps == Dispatch(call)
        ran == At(steps, "run") # {}
    IN Known(call) =>
       /\ ran /\ Writes(call.tool) /\ call.checkpoints /\ call.fails \notin {"record", "after"}
            => Precedes(steps, "record", "run") /\ Precedes(steps, "run", "after")
       /\ At(steps, "after") # {} => Precedes(steps, "record", "after")
       /\ ~Writes(call.tool) => At(steps, "record") = {}

\* What the harness put in the place of text the model no longer sees never
\* reaches a file, whichever tool the call ends up with (dispatcher.py:183-205).
NotesNeverWritten(call) ==
    LET steps == Dispatch(call)
    IN call.text # "text" => \A i \in At(steps, "run") : Table[steps[i].tool].body \notin call.given

\* A tool file that is broken costs only its own tools, every file not hidden
\* is heard of, and no name has two tools (custom.py:94-166).
FilesJudgedAlone(folder, files) ==
    LET out == Load(folder, files)
    IN /\ IsInjective([i \in DOMAIN out.accepted |-> out.accepted[i].name])
       /\ \A i \in DOMAIN out.accepted : ~out.accepted[i].builtin
       /\ folder = "own" =>
            \A i \in DOMAIN files : ~files[i].hidden =>
                IF files[i].trusted /\ files[i].imports
                THEN \A j \in DOMAIN files[i].tools :
                       LET t == files[i].tools[j] IN t.flaw = Good /\ ~t.builtin => t.name \in NamesOf(out.accepted)
                ELSE out.errors # <<>>
=============================================================================
