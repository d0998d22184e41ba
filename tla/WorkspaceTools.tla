----------------------------- MODULE WorkspaceTools -----------------------------
(***************************************************************************)
(* Tools a repository brings along in .momo/tools (tools/workspace.py,     *)
(* approvals.py): read without running, registered once the user approved  *)
(* their fingerprint, checked against it again by every call.              *)
(***************************************************************************)
EXTENDS Integers, FiniteSets

CONSTANTS
  Names,
  MaxCode,     \* bound: versions of the code in .momo/tools
  MaxUsed,     \* bound: the calls, decisions and changes of settings
  Racing       \* the code also changes between a call's check and its start

VARIABLES
  code, python,      \* the version of the .py files; the interpreter: "own" or "venv"
  off,               \* tools.json: the disabled tools
  approved, denied,  \* the store in ~/.momo-harness
  registered,        \* registry._WORKSPACE: name -> fingerprint
  report,            \* LoadReport: statuses and signature
  venv,              \* the /tools venv thread: "none", "building", "built"
  call,              \* the call that passed its check
  ran, used          \* history: what ran last; the calls, decisions and settings so far

wsVars == <<code, python, off, approved, denied, registered, report, venv, call, ran, used>>

Fingerprint(n) == [name |-> n, code |-> code, python |-> python]
Fingerprints == [name : Names, code : 1..MaxCode, python : {"own", "venv"}]
Signature == <<code, off>>
Verdict(f) == IF f \in approved THEN "loaded" ELSE IF f \in denied THEN "denied" ELSE "pending"
\* discover
Status(n) == IF n \in off THEN "disabled" ELSE Verdict(Fingerprint(n))

\* load_workspace_tools, on the state a step leaves.
Loaded == /\ report' = [status |-> [n \in Names |-> Status(n)'], signature |-> Signature']
          /\ registered' = [n \in {m \in Names : Status(m)' = "loaded"} |-> Fingerprint(n)']
Unloaded == UNCHANGED <<report, registered>>

Init ==
  /\ code = 1 /\ python = "own" /\ off = {} /\ approved = {} /\ denied = {} /\ venv = "none"
  /\ registered = [n \in {} |-> 0] /\ report = [status |-> [n \in Names |-> "pending"], signature |-> <<1, {}>>]
  /\ call = {} /\ ran = {} /\ used = 0

-----------------------------------------------------------------------------

\* decide's "all": a denial stands until named again.
Waiting(n) == Status(n) = "pending"

\* decide: the decision is about the code as it is now. Another window decides too, and
\* this one does not load its tools again.
Decide(named, yes, here) ==
  LET about == {Fingerprint(n) : n \in named \ off}
  IN /\ approved' = IF yes THEN approved \cup about ELSE approved \ about
     /\ denied' = IF yes THEN denied \ about ELSE denied \cup about
     /\ used' = used + 1 /\ UNCHANGED <<code, python, off, venv, call, ran>>
     /\ IF here THEN Loaded ELSE Unloaded
DecideAll(yes) ==
  LET named == {n \in Names : Waiting(n)} IN named # {} /\ Decide(named, yes, TRUE)

\* A pull, an editor or the model changes the files; the running momo has not looked yet.
Edit ==
  /\ code < MaxCode /\ (Racing \/ call = {}) /\ code' = code + 1
  /\ UNCHANGED <<python, off, approved, denied, registered, report, venv, call, ran, used>>
EditSettings(n) ==
  /\ off' = IF n \in off THEN off \ {n} ELSE off \cup {n}
  /\ used' = used + 1 /\ UNCHANGED <<code, python, approved, denied, registered, report, venv, call, ran>>
\* /tools enable|disable
SetOverride(n) ==
  /\ call = {} /\ off' = IF n \in off THEN off \ {n} ELSE off \cup {n}
  /\ used' = used + 1 /\ UNCHANGED <<code, python, approved, denied, venv, call, ran>> /\ Loaded

\* check_workspace_tools: before a turn and while idle.
Check ==
  /\ Signature # report.signature
  /\ UNCHANGED <<code, python, off, approved, denied, venv, call, ran, used>> /\ Loaded

\* /tools venv: a thread of its own, which loads the tools when it is done.
BuildVenv ==
  /\ \/ venv = "none" /\ venv' = "building" /\ UNCHANGED python
     \/ venv = "building" /\ (Racing \/ call = {}) /\ venv' = "built" /\ python' = "venv"
  /\ UNCHANGED <<code, off, approved, denied, registered, report, call, ran, used>>
VenvDone ==
  /\ venv = "built" /\ venv' = "done"
  /\ UNCHANGED <<code, python, off, approved, denied, call, ran, used>> /\ Loaded

-----------------------------------------------------------------------------
(* A call *)

\* _executor: the code now is the code that was registered, and is approved.
MayStart(n) == Fingerprint(n) = registered[n] /\ Fingerprint(n) \in approved

CallTool(n) ==
  /\ call = {} /\ n \in DOMAIN registered /\ used' = used + 1
  /\ call' = IF MayStart(n) THEN {n} ELSE {}
  /\ UNCHANGED <<code, python, off, approved, denied, registered, report, venv, ran>>
\* The source is read, and its process started.
Start ==
  /\ call # {} /\ call' = {} /\ ran' = {[f |-> Fingerprint(n), approved |-> Fingerprint(n) \in approved] : n \in call}
  /\ UNCHANGED <<code, python, off, approved, denied, registered, report, venv, used>>

Next ==
  \/ /\ used < MaxUsed
     /\ \/ \E n \in Names, yes, here \in BOOLEAN :
             (call = {} \/ (Racing /\ ~here)) /\ Decide({n}, yes, here)
        \/ \E yes \in BOOLEAN : call = {} /\ DecideAll(yes)
        \/ \E n \in Names : EditSettings(n) \/ SetOverride(n) \/ CallTool(n)
  \/ Edit \/ Check \/ BuildVenv \/ VenvDone \/ Start

Spec == Init /\ [][Next]_wsVars

-----------------------------------------------------------------------------
(* Properties *)

TypeOK ==
  /\ approved \cup denied \subseteq Fingerprints /\ approved \cap denied = {}
  /\ \A n \in DOMAIN registered : registered[n].name = n
  /\ Cardinality(call) <= 1

\* Nothing runs that the user did not approve with just this code and interpreter: "a
\* repository cannot approve itself, and any change asks again" (workspace.py:16).
ApprovedRuns == \A r \in ran : r.approved

\* "A denial stands until named again": no denied tool is approved along with another.
DenialStandsStep ==
  \A f \in denied, g \in Fingerprints \ approved : {f, g} \subseteq approved' => f = g
DenialStands == [][DenialStandsStep]_wsVars
=============================================================================
