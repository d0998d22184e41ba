------------------------------ MODULE ToolChoices ------------------------------
(***************************************************************************)
(* Which tools a request declares: roles, the internet and index switches, *)
(* the tools turned off per role and the ones loaded on demand             *)
(* (tools/registry.py, harness.py: _current_tools, tool_choices,           *)
(* set_tool_enabled, load_tools, _find_tools).                             *)
(***************************************************************************)
EXTENDS Integers, FiniteSets

CONSTANTS
  Tools,      \* [name, group, roles, needs, kind]; see Kinds and Needs
  Roles,
  FindTools   \* the name of find_tools

Kinds == {"core", "rare", "extension"}     \* a rare built-in is discoverable
Needs == {"nothing", "net", "index", "no index", "discover"}
ToolsAreTools ==
  /\ \A t \in Tools : t.kind \in Kinds /\ t.needs \in Needs /\ t.roles \subseteq Roles
  /\ \A t, u \in Tools : t.name = u.name => t = u
  /\ \E t \in Tools : t.name = FindTools /\ t.needs = "discover"

VARIABLES
  role,           \* the mode
  net, index,     \* the switches; index also: the project is indexed
  grammar,        \* a tree-sitter package is installed
  off,            \* disabled_tools
  discover,       \* tools_discover
  loaded         \* loaded_tools

choiceVars == <<role, net, index, grammar, off, discover, loaded>>

Names == {t.name : t \in Tools}
Named(n) == CHOOSE t \in Tools : t.name = n
Of(group) == {t.name : t \in {u \in Tools : u.group = group}}

OnDemand(t, mode) == t.needs # "discover" /\ \/ t.kind = "extension" /\ mode # "off"
                                             \/ t.kind = "rare" /\ mode = "all"
\* schema_for, the switches being these.
Shown(t, netOn, indexOn, mode, have) ==
  /\ role \in t.roles
  /\ t.needs = "net" => netOn
  /\ t.needs = "index" => indexOn
  /\ t.needs = "no index" => ~indexOn
  /\ t.needs = "discover" => mode # "off"
  /\ OnDemand(t, mode) => t.name \in have

\* _tool_catalog and _current_tools
Catalog == IF discover = "off" THEN {}
           ELSE {t.name : t \in {u \in Tools : OnDemand(u, discover) /\ Shown(u, net, index, "off", {})}} \ off[role]
Declared == {t.name : t \in {u \in Tools : Shown(u, net, index, discover, loaded)}}
              \ (off[role] \cup (IF Catalog = {} THEN {FindTools} ELSE {}))

\* _role_universe
Universe ==
  {t.name : t \in {u \in Tools :
     IF u.needs \in {"net", "index"} THEN role \in u.roles
     ELSE Shown(u, FALSE, FALSE, IF u.needs = "discover" THEN discover ELSE "off", {})}}
    \ (IF Catalog = {} THEN {FindTools} ELSE {})
Locked(n) == n = FindTools \/ (index /\ Named(n).needs = "no index")

\* tool_choices' "enabled"
Enabled(n) == /\ n \notin off[role] /\ (n \in Of("net") => net) /\ (n \in Of("index") => index)
              /\ ~(index /\ Named(n).needs = "no index")

Init ==
  /\ role \in Roles /\ net = FALSE /\ grammar \in BOOLEAN /\ index = FALSE
  /\ off = [r \in Roles |-> {}] /\ discover = "off" /\ loaded = {}

-----------------------------------------------------------------------------
(* Switches and choices *)

\* _clear_choices: a switch that is turned on turns its tools on in every role.
Cleared(choices, group) == [r \in Roles |-> choices[r] \ Of(group)]

SetMode(r) == role' = r /\ UNCHANGED <<net, index, grammar, off, discover, loaded>>
SetNet(on) ==
  /\ net' = on /\ off' = IF on /\ ~net THEN Cleared(off, "net") ELSE off
  /\ UNCHANGED <<role, index, grammar, discover, loaded>>
SetIndex(on) ==
  /\ index' = (on /\ grammar) /\ off' = IF index' /\ ~index THEN Cleared(off, "index") ELSE off
  /\ UNCHANGED <<role, net, grammar, discover, loaded>>
SetDiscover(mode) ==
  discover' = mode /\ UNCHANGED <<role, net, index, grammar, off, loaded>>

\* set_tool_enabled: a net or index tool turned on while its switch is off turns the switch
\* on, with its group's other tools off in this role.
SetToolEnabled(n, on) ==
  LET group == Named(n).group
      forNet == on /\ group = "net" /\ ~net
      forIndex == on /\ group = "index" /\ ~index
      choices == IF forNet \/ (forIndex /\ grammar) THEN Cleared(off, group) ELSE off
      others == IF forNet \/ forIndex THEN Of(group) \ {n} ELSE {}
  IN /\ n \in Universe /\ ~Locked(n)
     /\ net' = (net \/ forNet) /\ index' = (index \/ (forIndex /\ grammar))
     /\ off' = [choices EXCEPT ![role] = IF on THEN (@ \cup others) \ {n} ELSE @ \cup {n}]
     /\ UNCHANGED <<role, grammar, discover, loaded>>

\* /new, and a session's own choices on /load.
NewSession ==
  /\ off' = [r \in Roles |-> {}] /\ loaded' = {}
  /\ UNCHANGED <<role, net, index, grammar, discover>>

-----------------------------------------------------------------------------
(* Loading and calling *)

\* load_tools: names that are not in the catalog are skipped. /tools load, find_tools and a
\* result that names a tool its tool suggests.
LoadTools(names) ==
  /\ discover # "off" /\ loaded' = loaded \cup (names \cap Catalog)
  /\ UNCHANGED <<role, net, index, grammar, off, discover>>
Unload(names) ==
  /\ discover # "off" /\ loaded' = loaded \ names
  /\ UNCHANGED <<role, net, index, grammar, off, discover>>

\* A catalog tool called before it was loaded is loaded; one that is off is refused.
CallTool(n) ==
  /\ loaded' = IF discover # "off" THEN loaded \cup ({n} \cap Catalog) ELSE loaded
  /\ UNCHANGED <<role, net, index, grammar, off, discover>>

Next ==
  \/ \E r \in Roles : SetMode(r)
  \/ \E on \in BOOLEAN : SetNet(on) \/ SetIndex(on) \/ (\E n \in Names : SetToolEnabled(n, on))
  \/ \E mode \in {"off", "extensions", "all"} : SetDiscover(mode)
  \/ \E n \in Names : LoadTools({n}) \/ Unload({n}) \/ CallTool(n)
  \/ NewSession

Spec == Init /\ [][Next]_choiceVars

-----------------------------------------------------------------------------
(* Properties *)

TypeOK == /\ ToolsAreTools
          /\ off \in [Roles -> SUBSET Names] /\ loaded \subseteq Names
          /\ index => grammar
          /\ \A r \in Roles : FindTools \notin off[r]

\* The pickers say of every tool whether the model has it: what is shown as on is declared, or
\* on demand and loadable, and nothing else is (README: "a tool you turned off is neither
\* listed nor loadable").
ChoicesHonest == {n \in Universe : Enabled(n)} = Declared \cup Catalog

\* Turning on a tool whose switch is off leaves "only that tool of its group on for this role".
OnlyThatOneStep ==
  \A group \in {"net", "index"} :
    LET on == Of(group) \cap (Declared \cup Catalog)
    IN on = {} => LET now == on' IN
         Cardinality(now) > 1 => \A n \in Of(group) : ~SetToolEnabled(n, TRUE)
OnlyThatOne == [][OnlyThatOneStep]_choiceVars
=============================================================================
