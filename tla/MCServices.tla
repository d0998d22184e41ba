----------------------------- MODULE MCServices -----------------------------
(***************************************************************************)
(* The services around a turn, checked together: each part runs alone, on  *)
(* the slots s1, s2, ..., and which says whose they are.  A part that is a *)
(* function has its input in s1, one of Input, and takes no step; what     *)
(* must hold of it is in Right.                                            *)
(***************************************************************************)
EXTENDS Integers, Sequences, FiniteSets, SequencesExt, TLC

-----------------------------------------------------------------------------
(* The parts that are functions, each over small inputs: what they take, in  *)
(* Input, and what must hold of it, in Right.                                *)

-----------------------------------------------------------------------------
(* CodeQueries, callers: a class or an import away *)

Cq == INSTANCE CodeQueries WITH
  Files <- {"a", "b", "c"}, Names <- {"f", "g"}, NoFile <- "-", OpenTypes <- {"T"},
  MAX_SEARCH <- 3, MAX_FUZZY <- 2, MAX_APPROX_AFTER_EXACT <- 1, MAX_INLINE_RANK <- 2, MAX_INLINE_HITS <- 1,
  MAX_INLINE_LINES <- 2, MAX_CHANGED_DEFS <- 2, Gap <- 1

Import(m, t, names, aliases, star) == [module |-> m, targets |-> t, names |-> names, aliases |-> aliases, star |-> star]
FromA == Import("a", {"a"}, {"f"}, {}, FALSE)
Imports == {FromA, Import("a", {"a"}, {}, {}, FALSE), Import("a", {"a"}, {}, {<<"a", "q">>}, FALSE),
            Import("a", {"a"}, {"f"}, {<<"f", "g">>}, FALSE), Import("a", {"a"}, {}, {}, TRUE),
            Import("b", {"b"}, {"f"}, {}, FALSE), Import("b", {"a"}, {"a"}, {}, FALSE), Import("b", {"b"}, {"f"}, {<<"f", "g">>}, FALSE)}
Bases == LET none == [c \in {"A", "B", "C"} |-> {}]
         IN {none, [none EXCEPT !["B"] = {"A"}], [none EXCEPT !["B"] = {"A"}, !["C"] = {"B"}], [none EXCEPT !["C"] = {"A", "B"}], [none EXCEPT !["C"] = {"Lib"}]}
Languages == {[f \in {"a", "b", "c"} |-> "python"], [a |-> "java", b |-> "python", c |-> "python"]}
SmallProject(langs, functions, methods, bases, b, c) ==
  LET homeOf == [A |-> "a", B |-> "b", C |-> "c"]
  IN [lang |-> langs, barrel |-> [f \in {"a", "b", "c"} |-> f = "b"],
      defs |-> {[file |-> f, path |-> <<>>, name |-> "f"] : f \in functions} \cup {[file |-> homeOf[m], path |-> <<m>>, name |-> "f"] : m \in methods},
      bases |-> bases, imports |-> [a |-> <<>>, b |-> b, c |-> c]]
Use(name, on, path) == [file |-> "c", role |-> "call", name |-> name, recv |-> on[1], rtype |-> on[2], path |-> path]
Receivers == {<<"", "">>, <<"self", "">>, <<"super", "">>, <<"v", "A">>, <<"v", "C">>, <<"v", "">>, <<"v", "T">>, <<"v", "Lib">>, <<"self.x", "">>}
\* What an import binds, and as what.
BoundBy(i) == IF i.aliases # {} /\ i.names = {} THEN {<<a[2], a[1]>> : a \in i.aliases}
              ELSE IF i.star THEN {} ELSE IF i.names = {} THEN {<<i.module, i.module>>} ELSE {<<n, n>> : n \in i.names \ {"f"}}
Callings ==
  {[of |-> "callers", p |-> SmallProject(l, tops, ms, bs, <<>>, <<>>), u |-> Use("f", r, path)] :
     l \in Languages, tops \in SUBSET {"a"}, ms \in SUBSET {"A", "B", "C"}, bs \in Bases, r \in Receivers, path \in {<<>>, <<"C">>}}
  \cup UNION {{[of |-> "callers", p |-> SmallProject(l, tops, ms, CHOOSE bs \in Bases : \A c \in DOMAIN bs : bs[c] = {}, b, <<i>>), u |-> Use(n, r, path)] :
                 l \in Languages, tops \in SUBSET {"a", "b"}, ms \in {{}, {"C"}}, b \in {<<>>, <<FromA>>}, n \in {"f", "g"},
                 r \in {<<"", "">>} \cup BoundBy(i), path \in {<<>>, <<"C">>}} : i \in Imports}
Impacts == {[of |-> "impact", by |-> by, common |-> common, depth |-> n] :
              by \in [{"d", "e", "h"} -> SUBSET {"d", "e", "h"}], common \in {{}, {"e"}}, n \in 1..3}

-----------------------------------------------------------------------------
(* Dispatch: calls with and without their arguments, and pairs of files of tools *)

Tool(props, required, writes, body, routed, mine) ==
  [props |-> props, required |-> required, writes |-> writes, body |-> body, routed |-> routed, mine |-> mine]
Di == INSTANCE Dispatch WITH Indexed <- TRUE, Table <-
  [write_file |-> Tool({"path", "content"}, {"path", "content"}, "arguments", "content", FALSE, FALSE),
   edit_file |-> Tool({"path", "old_string", "new_string", "replace_all"}, {"path", "old_string", "new_string"}, "arguments", "new_string", FALSE, FALSE),
   edit_files |-> Tool({"edits"}, {"edits"}, "itself", "edits", FALSE, FALSE),
   find_files |-> Tool({"pattern"}, {"pattern"}, "none", "", TRUE, FALSE), ask |-> Tool({}, {}, "none", "", FALSE, TRUE)]
Given == {{}, {"path"}, {"path", "content"}, {"path", "old_string", "new_string"}, {"edits"}, {"pattern"}, {"path", "content", "pattern"}, {"old_string", "new_string"}}
Dispatched == [tool : {"write_file", "edit_file", "edit_files", "find_files", "ask", "other"}, given : Given, text : {"text", "placeholder", "cut"},
               fails : {"none", "record", "tool", "after"}, checkpoints : BOOLEAN, answered : BOOLEAN]
ToolFiles ==
  LET tools == {[name |-> n, builtin |-> n = "b", flaw |-> f] : n \in {"a", "b"}, f \in {Di!Good, "bad"}}
  IN {[hidden |-> h, trusted |-> t, imports |-> i, tools |-> ts] : h \in BOOLEAN, t \in BOOLEAN, i \in BOOLEAN, ts \in {<<>>} \cup {<<x>> : x \in tools}}
     \cup {[hidden |-> FALSE, trusted |-> TRUE, imports |-> TRUE, tools |-> <<x, y>>] : x, y \in tools}
Loads == {[of |-> "load", folder |-> d, files |-> <<a, b>>] : d \in {"own", "open to others"}, a, b \in ToolFiles}

-----------------------------------------------------------------------------
(* EditMatch: old strings with one slip *)

Em == INSTANCE EditMatch WITH Openers <- {"o"}, Closers <- {"c"}
TextLines(codes) == {[code |-> c, ind |-> n, sp |-> "own", curly |-> FALSE, num |-> 0] : c \in codes, n \in {0, 1}}
Slips == {[kind |-> k, by |-> 0] : k \in {"none", "curly", "spacing"}} \cup {[kind |-> "numbers", by |-> 1], [kind |-> "dedent", by |-> 1], [kind |-> "dedent", by |-> 2]}
Edits == {[of |-> "edit", file |-> f, from |-> r[1], n |-> r[2], new |-> new, slip |-> s] :
            f \in [1..2 -> TextLines({"a", "o"})], r \in {<<1, 1>>, <<1, 2>>, <<2, 1>>},
            new \in {<<>>} \cup [1..1 -> TextLines({"a", "o", "x"})] \cup [1..2 -> TextLines({"o", "x"})], s \in Slips}

-----------------------------------------------------------------------------
(* IgnoreRules: a file in the root, in a folder and in one below *)

Ig == INSTANCE IgnoreRules WITH Names <- {"a", "b"}, Always <- {"g"}
Dirs == <<<<"a">>, <<"a", "b">>, <<"b">>>>
Rules(dirs, segs) == {Ig!Line(n, d, l, s) : n \in BOOLEAN, d \in dirs, l \in BOOLEAN, s \in segs}
Wide == Rules(BOOLEAN, {<<"b">>, <<"*">>, <<"a", "b">>, <<"**", "b">>, <<"a", "**", "b">>})
Narrow == Rules({FALSE}, {<<"b">>, <<"*">>})
Ignored == {[of |-> "ignore", files |-> [d \in {<<>>, <<"a">>, <<"a", "b">>, <<"b">>} |->
                CASE d = <<>> -> r [] d = <<"a">> -> a [] d = <<"a", "b">> -> ab [] OTHER -> <<>>]] :
              r \in {<<>>} \cup {<<x>> : x \in Wide}, a \in {<<>>} \cup {<<x>> : x \in Narrow} \cup {<<x, y>> : x, y \in Narrow},
              ab \in {<<>>} \cup {<<x>> : x \in Rules({FALSE}, {<<"b">>})}}
Paths == {d \o <<n>> : d \in ToSet(Dirs) \cup {<<>>}, n \in {"a", "b", "g"}} \ ToSet(Dirs)

-----------------------------------------------------------------------------
(* CodeQueries, search: pairs of symbols, with a file or without *)

Likes == {<<"same", 0, 0>>, <<"caseless", 0, 0>>, <<"prefix", 3, 0>>, <<"words", 60, 0>>, <<"words", 30, 0>>, <<"words", 100, 100>>, <<"letters", 0, 0>>}
Symbols(rank) ==
  {[like |-> l[1], nf |-> l[2], df |-> l[3], rank |-> rank, test |-> t, kind |-> "function", value |-> FALSE, span |-> 1, there |-> TRUE] : l \in Likes, t \in BOOLEAN}
  \cup {[like |-> l, nf |-> 3, df |-> 0, rank |-> rank, test |-> FALSE, kind |-> "constant", value |-> TRUE, span |-> s, there |-> h] :
          l \in {"same", "prefix"}, s \in 1..3, h \in BOOLEAN}
\* No symbol of the tests beats every other one: see the README on search.py:304.
Unshadowed(xs) == \A x \in xs : x.test /\ Cq!Score(x) >= 90 => \A y \in xs : y.test \/ Cq!Score(y) >= 90
Searches == {[of |-> "search", symbols |-> xs, files |-> f, kind |-> k] :
               xs \in {ys \in {{}} \cup {{x, y} : x \in Symbols(1), y \in Symbols(1) \cup Symbols(2)} :
                         (\A y, z \in ys : y.rank = z.rank => y = z) /\ Unshadowed(ys)},
               f \in {{}, {[like |-> "base"]}, {[like |-> "inside"]}}, k \in {"any", "function"}}

-----------------------------------------------------------------------------
(* Trimming: two paragraphs of a thought at every budget, and three calls to sum up *)

Tr == INSTANCE Trimming WITH Pointer <- 6, MAX_REQUESTS <- 3, MAX_COMMANDS <- 1
ThoughtLine(k, n, r) == [kind |-> k, n |-> n, repeated |-> r]
Prose(n) == ThoughtLine("prose", n, FALSE)
Step(n) == ThoughtLine("step", n, FALSE)
Paragraphs == {<<Prose(3)>>, <<Prose(12)>>, <<Prose(6), Prose(9)>>, <<Step(4)>>, <<Step(4), Step(9)>>, <<Step(5), Prose(8)>>}
  \cup {<<ThoughtLine("fence", 3, r), ThoughtLine("code", c, FALSE), ThoughtLine("blank", 0, FALSE), ThoughtLine("code", 5, FALSE), ThoughtLine("fence", 3, FALSE)>> :
          r \in BOOLEAN, c \in {4, 20}}
Thoughts == {[of |-> "thought", lines |-> a \o <<ThoughtLine("blank", 0, FALSE)>> \o b, limit |-> l] : a, b \in Paragraphs, l \in 6..40}

Call(n, p, q, r) == [name |-> n, path |-> p, dst |-> q, result |-> r]
Calls == {Call("user", "", "", "ok"), Call("move", "p", "q", "ok"), Call("move", "q", "p", "ok"), Call("run", "c", "", "ok"),
          Call("run", "c", "", "fails"), Call("run", "d", "", "ok"), Call("write", "p", "", "error")}
         \cup {Call(n, p, "", "ok") : n \in {"write", "delete", "read"}, p \in {"p", "q"}}
Asked(c) == [name |-> c.name, path |-> c.path, dst |-> c.dst]
Told(c) == [role |-> "tool", result |-> c.result]
Message(c) == IF c.name = "user" THEN <<[role |-> "user", text |-> "t"]>> ELSE <<[role |-> "assistant", calls |-> <<Asked(c)>>], Told(c)>>
\* The files there after the first i calls, and that each of them could be made; nothing
\* is moved onto a path deleted before: see the README on compaction.py:216.
There(cs, i) == FoldLeft(LAMBDA f, c : IF c.name = "user" THEN f ELSE Tr!Disk(f, Message(c)), {"p"}, SubSeq(cs, 1, i))
Possible(cs) ==
  \A i \in DOMAIN cs :
    /\ cs[i].result = "ok" /\ cs[i].name \in {"delete", "read", "move"} => cs[i].path \in There(cs, i - 1)
    /\ cs[i].name = "move" => /\ cs[i].dst \notin There(cs, i - 1)
                              /\ ~\E j \in 1..i - 1 : cs[j].name = "delete" /\ cs[j].path = cs[i].dst
Histories ==
  LET possible == {cs \in [1..3 -> Calls] : Possible(cs)}
  IN {[of |-> "summary", ms |-> FlattenSeq([i \in 1..3 |-> Message(cs[i])])] : cs \in possible}
     \cup {[of |-> "summary", ms |-> <<[role |-> "assistant", calls |-> <<Asked(cs[1]), Asked(cs[2])>>], Told(cs[1]), Told(cs[2])>> \o Message(cs[3])] :
             cs \in {x \in possible : x[1].name # "user" /\ x[2].name # "user"}}

-----------------------------------------------------------------------------
(* PlanFile: plans and story sets whose texts look like the file's own lines *)

Pf == INSTANCE PlanFile
TextKinds == {Pf!Text("a"), Pf!Blank, Pf!Heading("goal"), Pf!Heading("other"), Pf!Line("step", 0, "done", "b"), Pf!Field(0, "files", "f"),
              Pf!Field(0, "stories", "2/3"), [Pf!Text("c") EXCEPT !.in = 3], Pf!Item("x"), Pf!Comment}
Texts == {l \in {<<>>} \cup {<<a>> : a \in TextKinds} \cup {<<Pf!Text("a"), b, Pf!Text("d")>> : b \in TextKinds} : Pf!Stripped(l) = l}
Criterion(examples) == [text |-> "c", examples |-> examples, covers |-> "R1", test |-> "t", retired |-> ""]
PlanSteps == [title : {"t"}, status : {"done", "pending"}, details : Texts, files : {"", "f"}, tests : {<<>>, <<"e">>}, tag : {""}, stage : {"impl", "tests"},
              outcome : {"o"}, acceptance : {<<>>, <<Criterion(<<"x", "y">>), Criterion(<<>>)>>}, note : {"", "n"}]
AStep == CHOOSE s \in PlanSteps : TRUE
APlan(kind, goal, request, interfaces, requirements, steps) ==
  [title |-> "T", kind |-> kind, dir |-> IF kind = "stories" THEN "d" ELSE "", goal |-> goal, request |-> request, interfaces |-> interfaces,
   requirements |-> requirements, command |-> IF kind = "tdd" THEN "cmd" ELSE "", steps |-> steps]
PlanTexts ==
  {[of |-> "plan", plan |-> APlan(k, g, r, i, q, ss)] :
     k \in {"normal", "tdd", "stories"}, g \in Texts, r \in {<<>>, <<Pf!Heading("other"), Pf!Line("step", 0, "done", "b")>>},
     i \in {<<>>, <<"i">>}, q \in {<<>>, <<"r">>}, ss \in {<<>>, <<AStep>>}}
  \cup {[of |-> "plan", plan |-> APlan("stories", <<>>, <<>>, <<>>, <<>>, <<s, s>>)] : s \in PlanSteps}
AStory(d, delivered) ==
  [id |-> "S1", status |-> "done", depends |-> "none", files |-> "", description |-> d, hints |-> <<"h">>,
   acceptance |-> <<Criterion(<<"x">>), Criterion(<<>>)>>, delivered |-> delivered, facts |-> "k"]
SetTexts == {[of |-> "stories", set |-> [title |-> "T", approved |-> a, stories |-> ss, report |-> r]] :
               a \in {"draft", "approved"}, r \in {x \in Texts : \A i \in DOMAIN x : x[i].kind \notin {"story", "comment"}},
               ss \in {<<>>} \cup {<<AStory(d, <<>>), AStory(<<>>, <<Pf!Text("z")>>)>> : d \in Texts}}

-----------------------------------------------------------------------------
(* StorySets: graphs of three stories, outlines, edited sets and what covers two requirements *)

St == INSTANCE StorySets WITH MAX_STORIES <- 3, MAX_COVERS <- 1
Node(id, st, ds, t) == [id |-> id, status |-> st, deps |-> ds, title |-> t, work |-> t, acceptance |-> <<>>]
Graphs == {[of |-> "graph", set |-> <<Node(1, a, d1, 1), Node(2, b, d2, t), Node(3, "pending", d3, 3)>>] :
             a \in {"pending", "done", "failed", "replaced"}, b \in {"pending", "done", "in_progress", "failed", "replaced"},
             d1 \in {<<>>, <<2>>, <<0>>}, d2 \in {<<>>, <<1>>, <<3, 1>>, <<4>>}, d3 \in {<<>>, <<1>>, <<2, 1>>, <<-1>>}, t \in {1, 2}}
Outlines == {[of |-> "outline", outline |-> <<Node(i, "pending", d, 4), Node(j, "pending", e, 5)>>, kept |-> k] :
               i \in 2..4, j \in {4, 5}, d \in {<<>>, <<1>>, <<2>>, <<5>>}, e \in {<<>>, <<1>>, <<4>>, <<2>>, <<0>>},
               k \in {<<>>} \cup {<<Node(1, a, <<>>, 1), Node(2, b, d2, 2)>> : a, b \in {"done", "failed"}, d2 \in {<<>>, <<1>>}}}
Checked(t, v) == [text |-> t, verdict |-> v]
Member(id, st, acc) == [id |-> id, status |-> st, acceptance |-> acc]
Lives == {"pending", "done", "failed", "replaced"}
SetEdits == {[of |-> "edited", set |-> <<Member(1, a, x), Member(2, b, <<Checked("q", "none")>>)>>, edit |-> e] :
               a, b \in Lives, x \in {<<Checked("p", "passed"), Checked("q", "failed")>>, <<Checked("q", "none")>>},
               e \in {<<>>} \cup {<<Member(i, s, y)>> : i \in 1..3, s \in {"pending", "done"}, y \in {<<Checked("q", "none"), Checked("z", "none")>>, <<>>}}
                       \cup {<<Member(3, "pending", <<>>), Member(i, s, <<Checked("p", "none")>>)>> : i \in {1, 2}, s \in Lives}}
Cover(cov, ex, ret, v) == [covers |-> cov, examples |-> ex, retired |-> ret, verdict |-> v]
Covers == {Cover(cov, ex, FALSE, v) : cov \in SUBSET {1, 2}, ex \in BOOLEAN, v \in {"passed", "failed"}} \cup {Cover({1}, TRUE, TRUE, "passed")}
Coverings == {[of |-> "covering",
               plan |-> [requirements |-> {[id |-> 1, phase |-> p, suite |-> FALSE], [id |-> 2, phase |-> 2, suite |-> suite]},
                         sets |-> <<<<[status |-> s, acceptance |-> <<c>>]>>, <<[status |-> "done", acceptance |-> <<d>>]>>>>,
                         phases |-> <<<<>>, <<Cover({1}, TRUE, FALSE, "failed")>>>>]] :
                p \in {0, 1, 3}, suite \in BOOLEAN, s \in {"done", "replaced"}, c, d \in Covers}

-----------------------------------------------------------------------------
(* ToolText: pairs of pieces of a reply *)

Tx == INSTANCE ToolText WITH Offered <- [write_file |-> [props |-> {"path", "content"}, required |-> {"path", "content"}],
                                         read_file |-> [props |-> {"path", "start"}, required |-> {"path"}]]
Piece(kind, name, args, wrap, outside, json, closed) ==
  [kind |-> kind, name |-> name, args |-> args, wrap |-> wrap, outside |-> outside, json |-> json, closed |-> closed, inner |-> {}]
Plain(kind) == Piece(kind, "", {}, FALSE, {}, "good", TRUE)
Reading(kind, json, closed) == Piece(kind, "read_file", {"path"}, TRUE, {}, json, closed)
Writing(kind) == Piece(kind, "write_file", {"path", "content"}, TRUE, {}, "good", TRUE)
Unknown(kind) == Piece(kind, "other", {"path"}, TRUE, {}, "good", TRUE)
Nameless(kind, json, closed) == Piece(kind, "", {"path"}, TRUE, {"start"}, json, closed)
Pieces ==
  {Plain(k) : k \in {"prose", "long", "closing"}}
  \cup {Writing(k) : k \in {"phi", "functioncall", "deepseek", "mistral", "tool_call", "json", "attributes"}}
  \cup {Reading(k, j, c) : k \in {"tool_call", "functioncall", "json"}, j \in {"good", "open", "bad"}, c \in BOOLEAN}
  \cup {Reading("call", "slip", TRUE), Unknown("tool_call"), Unknown("functioncall"), Nameless("tool_call", "good", TRUE), Nameless("fence", "good", TRUE),
        Nameless("fence", "open", FALSE), Nameless("fence", "open", TRUE), Reading("fence", "good", TRUE), Reading("command_r", "good", TRUE)}
  \cup {Writing("python"), [Writing("python") EXCEPT !.inner = {Reading("python", "good", TRUE)}], Reading("python", "bad", FALSE),
        [Reading("python", "bad", TRUE) EXCEPT !.inner = {Writing("python")}], Piece("python", "read_file", {}, FALSE, {}, "good", TRUE)}
Replies == {[of |-> "reply", text |-> t] : t \in {<<>>} \cup {<<a>> : a \in Pieces} \cup {<<a, b>> : a, b \in Pieces}}

-----------------------------------------------------------------------------
(* CodeQueries, changes: two functions and a class changed, one of them perhaps found in other files *)

Definition(n, h) == [name |-> n, cls |-> "", head |-> FALSE, how |-> h]
Hows == {"kept", "removed", "added", "changed", "signature", "grown", "shrunk"}
\* No class is removed whole, and nothing moves to a file that had one of its name: see
\* the README on changes.py:57.
Classes == {<<>>} \cup {<<[name |-> "C", cls |-> "", head |-> TRUE, how |-> h], [name |-> "m", cls |-> "C", head |-> FALSE, how |-> g]>> :
                         h \in {"kept", "signature"}, g \in {"kept", "removed", "changed", "shrunk"}}
ChangeSets ==
  {[of |-> "changes", files |-> <<<<Definition("f", f)>> \o c \o <<Definition("g", g)>>, o, q>>] :
     f, g \in Hows, c \in Classes, q \in {<<>>, <<Definition("f", "added")>>},
     o \in {<<>>, <<Definition("f", "added")>>, <<Definition("h", "changed"), Definition("f", "added")>>}}
UsesOfThem == {[rel |-> 2, line |-> 1, name |-> "f"], [rel |-> 2, line |-> 4, name |-> "g"], [rel |-> 3, line |-> 9, name |-> "C"]}

-----------------------------------------------------------------------------
(* Views: six lines of output cut at a limit, six more that repeat, and a reply of four lines *)

Vw == INSTANCE Views WITH NOTE <- 60, LONGER <- 100, NUMBER <- 3, COLLAPSED <- 90, COMPACT_MIN_SAVED <- 2
OutputLine(len, hit, pass, text, mask) == [len |-> len, hit |-> hit, pass |-> pass, text |-> text, mask |-> mask]
Outputs == {[of |-> "output", lines |-> [i \in 1..6 |-> OutputLine(f[i][1], f[i][2], FALSE, i, i)], limit |-> l] :
              f \in [1..6 -> {60, 330} \X BOOLEAN], l \in {700, 1000}}
\* How a line of each kind reads at place i: a pass, the same line again, one that
\* differs in its numbers, and two that mention trouble.
LineOf(kind, i) ==
  CASE kind = "pass" -> OutputLine(40, FALSE, TRUE, i, i)
    [] kind = "same" -> OutputLine(60, FALSE, FALSE, 0, 0)
    [] kind = "like" -> OutputLine(60, FALSE, FALSE, i, 0)
    [] kind = "trouble" -> OutputLine(60, TRUE, FALSE, i, 0)
    [] OTHER -> OutputLine(60, TRUE, TRUE, i, i)
Logs == {[of |-> "log", lines |-> [i \in 1..6 |-> LineOf(f[i], i)]] : f \in [1..6 -> {"pass", "same", "trouble", "failed"}]}
        \cup {[of |-> "log", lines |-> [i \in 1..5 |-> LineOf(f[i], i)]] : f \in [1..5 -> {"same", "like", "trouble", "pass"}]}
Cell(i, kind, w, side) == [id |-> i, kind |-> kind, w |-> w, side |-> side]
ReplyLines ==
  {[kind |-> k, cells |-> <<>>, data |-> TRUE] : k \in {"fence", "text"}}
  \cup {[kind |-> "row", cells |-> <<Cell(1, "word", 2, "left"), Cell(2, "num", 1, "left")>>, data |-> TRUE],
        [kind |-> "row", cells |-> <<Cell(3, "num", 3, "left")>>, data |-> TRUE],
        [kind |-> "row", cells |-> <<Cell(0, "dashes", 3, "left"), Cell(0, "dashes", 3, "right")>>, data |-> FALSE]}
Shown == {[of |-> "markdown", lines |-> [i \in 1..n |-> [kind |-> f[i].kind, id |-> i, cells |-> f[i].cells, data |-> f[i].data]]] :
            n \in 1..4, f \in [1..4 -> ReplyLines]}

-----------------------------------------------------------------------------

Input(i) ==
  \/ i \in Callings
  \/ i \in Impacts
  \/ \E c \in Dispatched : i = [of |-> "call", c |-> c]
  \/ i \in Loads
  \/ i \in Edits
  \/ i \in Ignored
  \/ i \in Searches
  \/ i \in Thoughts
  \/ i \in Histories
  \/ i \in PlanTexts
  \/ i \in SetTexts
  \/ i \in Graphs
  \/ i \in Outlines
  \/ i \in SetEdits
  \/ i \in Coverings
  \/ i \in Replies
  \/ i \in ChangeSets
  \/ i \in Outputs
  \/ i \in Logs
  \/ i \in Shown
ThoughtSent(lines, limit, t) == Tr!InOrderOnce(t) /\ Tr!WithinBudget(lines, limit, t) /\ Tr!EndIsKept(lines, t)
FactsKept(ms, facts) ==
  /\ Tr!FilesAreTrue(facts, Tr!Disk({"p"}, ms))
  /\ \A k \in 0..Len(ms) : (k < Len(ms) => ms[k + 1].role # "tool") => Tr!StepsAgree(facts, Tr!InTwo(ms, k))
ReplyRead(r, out, at) == Tx!HalfNotRun(r, out) /\ Tx!AnswerKept(r, out) /\ Tx!CallsAndPreamble(r, out) /\ Tx!HalfNotStored(r, out, at)
ChangesTold(p, all) == Cq!TouchedIsTold(p, all) /\ Cq!MovedIsThere(p, all) /\ Cq!GoneIsSaid(p, UsesOfThem, Cq!Looked(all))
\* What each of them must give, by the properties of its module.
Right(i) ==
  CASE i.of = "callers" -> Cq!CalleeHasCaller(i.p, i.u) /\ Cq!VirtualListed(i.p, i.u) /\ Cq!AliasFollowed(i.p, i.u)
    [] i.of = "impact" -> Cq!ImpactTotal(i.by, "d", i.common, i.depth)
    [] i.of = "call" -> Di!WritesUndoable(i.c) /\ Di!NotesNeverWritten(i.c)
    [] i.of = "load" -> Di!FilesJudgedAlone(i.folder, i.files)
    [] i.of = "edit" -> Em!SlipHarmless(i.file, i.from, i.n, i.new, i.slip) /\ Em!SymbolInPlace(i.file, i.from, i.n, i.new, i.slip)
    [] i.of = "ignore" -> \A p \in Paths : Ig!WaysAgree(i.files[<<>>] \o i.files[<<"a">>], p) /\ Ig!SeedIsGit(i.files, Dirs, p)
    [] i.of = "search" -> /\ Cq!TestsLast(i.symbols, i.files, i.kind) /\ Cq!WholeIsThere(i.symbols, i.files, i.kind)
                          /\ Cq!NothingUnsaid(i.symbols, i.files, i.kind) /\ Cq!ExactIsSaid(i.symbols, i.files, i.kind)
    [] i.of = "thought" -> ThoughtSent(i.lines, i.limit, Tr!Trim(i.lines, i.limit))
    [] i.of = "summary" -> FactsKept(i.ms, Tr!Merge(Tr!New, i.ms))
    [] i.of = "plan" -> Pf!PlanReread(i.plan)
    [] i.of = "stories" -> Pf!SetReread(i.set)
    [] i.of = "graph" -> St!ValidRuns(i.set) /\ St!BlockedNeverRun(i.set)
    [] i.of = "outline" -> St!OutlineHolds(i.outline, i.kept)
    [] i.of = "edited" -> St!DeliveredKept(i.set, i.edit)
    [] i.of = "covering" -> St!CoveredIsProven(i.plan, 2)
    [] i.of = "reply" -> ReplyRead(i.text, Tx!Recover(i.text), Tx!PartialCall(i.text))
    [] i.of = "changes" -> ChangesTold(i.files, Cq!All(i.files))
    [] i.of = "output" -> LET v == Vw!DefaultView(i.lines, i.limit, 100)
                          IN Vw!GapIsNamed(v, i.lines) /\ Vw!TroubleToldByRows(v, i.lines) /\ Vw!GapIsNamed(Vw!Window(i.lines, i.limit, 100), i.lines)
    [] i.of = "log" -> Vw!CompactKeeps(Vw!Compact(i.lines), i.lines)
    [] i.of = "markdown" -> Vw!ReplyIsShown(i.lines, Vw!Process(i.lines))

-----------------------------------------------------------------------------
(* The slots *)

VARIABLES which, s1, s2, s3, s4, s5, s6, s7, s8, s9, s10, s11, s12, s13, s14, s15, s16, s17

\* The slots from the nth on, and that a part leaves them alone.
Rest17 == <<s17>>
Rest16 == <<s16, Rest17>>
Rest15 == <<s15, Rest16>>
Rest14 == <<s14, Rest15>>
Rest13 == <<s13, Rest14>>
Rest12 == <<s12, Rest13>>
Rest11 == <<s11, Rest12>>
Rest10 == <<s10, Rest11>>
Rest9 == <<s9, Rest10>>
Rest8 == <<s8, Rest9>>
Rest7 == <<s7, Rest8>>
Rest6 == <<s6, Rest7>>
Rest5 == <<s5, Rest6>>
Rest4 == <<s4, Rest5>>
Rest3 == <<s3, Rest4>>
Rest2 == <<s2, Rest3>>
Rest1 == <<s1, Rest2>>
Free17 == s17 = 0
Free16 == s16 = 0 /\ Free17
Free15 == s15 = 0 /\ Free16
Free14 == s14 = 0 /\ Free15
Free13 == s13 = 0 /\ Free14
Free12 == s12 = 0 /\ Free13
Free11 == s11 = 0 /\ Free12
Free10 == s10 = 0 /\ Free11
Free9 == s9 = 0 /\ Free10
Free8 == s8 = 0 /\ Free9
Free7 == s7 = 0 /\ Free8
Free6 == s6 = 0 /\ Free7
Free5 == s5 = 0 /\ Free6
Free4 == s4 = 0 /\ Free5
Free3 == s3 = 0 /\ Free4
Free2 == s2 = 0 /\ Free3
all == <<which, Rest1>>

-----------------------------------------------------------------------------
(* The parts, each on a small instance of its own. *)

\* A first set of stories and four kinds of amendment.
WriterPasses ==
  LET Story(status, deps) == [status |-> status, deps |-> deps, text |-> 0]
      pass == [amend |-> TRUE, base |-> <<Story("done", {})>>, replaces |-> {}, remap |-> 0, blocks |-> 0, empty |-> FALSE]
  IN {[pass EXCEPT !.amend = FALSE, !.base = <<>>],
      [pass EXCEPT !.base = @ \o <<Story("failed", {1}), Story("pending", {2})>>, !.replaces = {2, 3}],
      [pass EXCEPT !.base = @ \o <<Story("pending", {1}), Story("pending", {2})>>, !.replaces = {2}, !.remap = 2],
      [pass EXCEPT !.base = @ \o <<Story("pending", {1})>>, !.blocks = 2],
      [pass EXCEPT !.empty = TRUE]}
SomeTools ==
  LET Tool1(n, g, rs, need, k) == [name |-> n, group |-> g, roles |-> rs, needs |-> need, kind |-> k]
  IN {Tool1("find_tools", "files", {"c", "p"}, "discover", "core"), Tool1("fetch_url", "net", {"c", "p"}, "net", "core"),
      Tool1("web_search", "net", {"c", "p"}, "net", "rare"), Tool1("callers", "index", {"c"}, "index", "core"),
      Tool1("references", "code nav", {"c"}, "no index", "core"), Tool1("mine", "custom", {"c"}, "nothing", "extension")}
EffortLevels == <<"low", "medium", "high", "max">>

\* MCP servers.
Mcp == INSTANCE McpServers WITH 
    Servers <- {"a"}, Project <- {"a"}, Entries <- {1, 2}, MaxRestarts <- 1, MaxEdits <- 4, Racing <- FALSE,
    file <- s1, config <- s2, decided <- s3, disabled <- s4, mcpState <- s5, thread <- s6, proc <- s7, closing <- s8,
    crashes <- s9, names <- s10, dirty <- s11, prompt <- s12, turn <- s13, call <- s14, edits <- s15
\* Session persistence.
Ses == INSTANCE Sessions WITH 
    Folders <- {"f", "g"}, MaxTurns <- 2, MaxStamps <- 3, up <- s1, stamp <- s2, said <- s3, folder <- s4,
    sending <- s5, recap <- s6, lines <- s7, file <- s8, prefs <- s9, sent <- s10, stamps <- s11, ended <- s12,
    cleared <- s13, dropped <- s14
\* The run store.
Run == INSTANCE RunStore WITH 
    MaxRuns <- 4, KEEP_LOGS <- 2, KEEP_BYTES <- 2, MAX_BACKGROUND <- 1, ExitsMidCall <- FALSE, momo <- s1,
    lastRun <- s2, logs <- s3, status <- s4, procs <- s5, alive <- s6, current <- s7
\* The loop guard.
Lg == INSTANCE LoopGuard WITH 
    Reads <- {"r"}, Writes <- {"w"}, Commands <- {"c", "p"}, Probe <- "p", Errors <- {"e"}, Owner <- [w |-> "d"],
    THRESHOLD <- 2, MAX_RESETS <- 1, made <- s1, seen <- s2, errs <- s3, pending <- s4, churn <- s5, nudged <- s6,
    version <- s7, rewinds <- s8, over <- s9, calls <- s10, failed <- s11
\* The code index.
Ix == INSTANCE CodeIndex WITH 
    Files <- {1, 2}, Budgets <- {1, 4}, Limits <- {1, 2}, PARALLEL_MIN <- 2, COMPACT_AFTER <- 1, MaxChanges <- 1,
    MaxCommands <- 1, Races <- FALSE, disk <- s1, set <- s2, ix <- s3, worker <- s4, workerDiff <- s5, query <- s6,
    queryDiff <- s7, flight <- s8, pool <- s9, saved <- s10, clock <- s11, used <- s12
\* Plan drafts.
Pd == INSTANCE PlanDraft WITH 
    Titles <- {"a", "b"}, MaxPhases <- 2, Numbers <- {1, 3}, PLAN_MAX_RESTARTS <- 1, MaxTurns <- 2, MaxCalls <- 2,
    draft <- s1, seen <- s2, refused <- s3, restart <- s4, restarts <- s5, asked <- s6, gate <- s7, turn <- s8,
    plan <- s9, phase <- s10, texts <- s11, wrote <- s12
\* The story verifier.
Sv == INSTANCE StoryVerifier WITH 
    Criteria <- {1, 2}, Shared <- FALSE, GATE_BATCH <- 1, MaxRefusals <- 2, MaxGates <- 2, stage <- s1, met <- s2,
    disk <- s3, test <- s4, verdict <- s5, criteria <- s6, todo <- s7, alone <- s8, later <- s9, batches <- s10,
    left <- s11, saved <- s12, wrote <- s13, found <- s14, refusals <- s15, gates <- s16
\* The story writer.
Sd == INSTANCE StoryDraft WITH 
    Passes <- WriterPasses, New <- {4, 5}, MAX_STORIES <- 4, MaxCalls <- 3, Careless <- FALSE, pass <- s1,
    replaces <- s2, outline <- s3, drafts <- s4, told <- s5, set <- s6, state <- s7, last <- s8, due <- s9,
    texts <- s10, wrote <- s11, retired <- s12
\* Editing tools.
Ed == INSTANCE Editing WITH 
    Files <- {"f", "g"}, Defs <- {"a", "b"}, Start <- {"a"}, Twins <- {}, REFUSED_MAX <- 3, MaxCalls <- 2,
    Strict <- FALSE, disk <- s1, refused <- s2, last <- s3, named <- s4, made <- s5
\* Workspace tools.
Ws == INSTANCE WorkspaceTools WITH 
    Names <- {"a", "b"}, MaxCode <- 2, MaxUsed <- 2, Racing <- FALSE, code <- s1, python <- s2, off <- s3,
    approved <- s4, denied <- s5, registered <- s6, report <- s7, venv <- s8, call <- s9, ran <- s10, used <- s11
\* Tool choices.
Tc == INSTANCE ToolChoices WITH 
    Tools <- SomeTools, Roles <- {"c", "p"}, FindTools <- "find_tools", role <- s1, net <- s2, index <- s3,
    grammar <- s4, off <- s5, discover <- s6, loaded <- s7
\* Fetched pages.
Np == INSTANCE NetPages WITH 
    Urls <- {"u", "v"}, Sizes <- {1, 3}, CACHE_MAX <- 1, CACHE_MAX_BYTES <- 5, Ceiling <- 3, Lower <- 3,
    Workers <- {"w1", "w2"}, MaxVersions <- 2, MaxCalls <- 3, site <- s1, cache <- s2, call <- s3, flights <- s4,
    shown <- s5, answer <- s6, calls <- s7
\* Search sources.
Ss == INSTANCE SearchSources WITH 
    Shipped <- {"s"}, Names <- {"s", "a", "b"}, Specs <- {1, 2}, MAX_SESSION_SOURCES <- 1, Unread <- FALSE,
    MaxAdds <- 2, MaxEdits <- 2, userFiles <- s1, sources <- s2, adding <- s3, adds <- s4, edits <- s5
\* The model server chosen.
Be == INSTANCE Backend WITH 
    Hosts <- {"o", "l"}, RunsOn <- [o |-> "ollama", l |-> "llamacpp"], Models <- {"m", "n"}, Windows <- {2, 8},
    Limits <- {4}, Percents <- {100}, FLOOR <- 1, DEFAULT_LIMIT <- 3, DEFAULT_MODEL <- "m", MaxServes <- 1,
    MaxOps <- 2, server <- s1, client <- s2, limit <- s3, fixed <- s4, pct <- s5, window <- s6, reachable <- s7,
    open <- s8, talked <- s9, saved <- s10, prefs <- s11, did <- s12, serves <- s13, ops <- s14
\* Settings and commands.
Se == INSTANCE Settings WITH 
    Folders <- {"f", "g"}, MaxSets <- 1, MaxSteps <- 2, value <- s1, prefs <- s2, lastMode <- s3, lastFolder <- s4,
    here <- s5, session <- s6, talked <- s7, prompt <- s8, follows <- s9, run <- s10, sets <- s11, steps <- s12
\* Requests to the model.
Lm == INSTANCE LlmClient WITH 
    Models <- {"q", "m"}, Hosts <- {"h", "i"}, Breaks <- {<<"h", "q">>}, Levels <- EffortLevels, MaxPieces <- 2,
    Between <- FALSE, MaxRequests <- 2, MaxAborts <- 2, host <- s1, model <- s2, current <- s3, closed <- s4,
    caps <- s5, escaped <- s6, req <- s7, esc <- s8, answered <- s9, requests <- s10, aborts <- s11
\* The web api.
Wa == INSTANCE WebApi WITH 
    Sessions <- {"s", "t"}, Requests <- {"r1", "r2"}, MaxWrites <- 1, MaxAsks <- 2, Racing <- FALSE, files <- s1,
    cache <- s2, open <- s3, busy <- s4, conf <- s5, servers <- s6, asks <- s7, shown <- s8, removed <- s9,
    reloaded <- s10, writes <- s11, asked <- s12
\* Certificates.
Wt == INSTANCE WebTls WITH 
    Base <- {"localhost"}, Machine <- {"host", "lan"}, Given <- {"x"}, LIFE <- 2, RENEW <- 1, MaxClock <- 3,
    MaxStarts <- 3, Torn <- FALSE, caKey <- s1, caPem <- s2, caJson <- s3, srvKey <- s4, srvPem <- s5, srvJson <- s6,
    names <- s7, at <- s8, clock <- s9, made <- s10, starts <- s11
\* The terminal's transcript.
Tv == INSTANCE TuiView WITH 
    Rows <- {16}, Longest <- 4, MaxEvents <- 2, MaxDeltas <- 2, MaxKeys <- 1, chatEvents <- s1, lines <- s2,
    streamStart <- s3, parts <- s4, scroll <- s5, follow <- s6, news <- s7, view <- s8, rows <- s9, wrap <- s10,
    amid <- s11, keys <- s12
\* The terminal's keys.
Ti == INSTANCE TuiInput WITH 
    MaxText <- 2, MaxHistory <- 3, MaxRows <- 2, MaxKeys <- 4, Elsewhere <- FALSE, Bursts <- FALSE, focus <- s1,
    before <- s2, after <- s3, history <- s4, idx <- s5, stash <- s6, sugg <- s7, query <- s8, picker <- s9,
    changes <- s10, servers <- s11, checkpoints <- s12, status <- s13, busy <- s14, waiting <- s15, did <- s16,
    keys <- s17
\* The web page.
Wp == INSTANCE WebPage WITH 
    Files <- {1}, MaxTyped <- 2, MaxAsks <- 0, MaxDrops <- 1, Overtaken <- FALSE, Amid <- FALSE, box <- s1,
    editing <- s2, queue <- s3, atts <- s4, posts <- s5, shown <- s6, up <- s7, timer <- s8, answer <- s9,
    then <- s10, momo <- s11, took <- s12, wire <- s13, drops <- s14, asks <- s15, typed <- s16, removed <- s17

\* What the functions of these parts take, and what must hold of it.
ShortLists == {<<>>} \cup {<<a>> : a \in 1..3} \cup {<<a, b>> : a, b \in 1..3}
PageLines == {l \in [len : {1, 4}, level : 0..2, hit : {"exact", "word", "none"}] : l.level > 0 => l.len = 4}
PasteChars == {"a", "T", "CR", "LF", "TAB", "[", "~"}
UpTo(n, S) == UNION {[1..k -> S] : k \in 0..n}
ServiceInput(i) ==
  \/ \E body \in UpTo(3, PageLines) : i = [of |-> "body", body |-> body]
  \/ \E p, a, b \in ShortLists, n \in 0..2 : i = [of |-> "merge", page |-> p, lists |-> <<a, b>>, n |-> n]
  \/ \E c \in [toggle : BOOLEAN, levels : SUBSET {"low", "medium", "max"}, can_disable : BOOLEAN], l \in {"off", "on"} \cup ToSet(EffortLevels) :
       i = [of |-> "effort", caps |-> c, level |-> l]
  \/ \E r \in UpTo(3, 0..3) \ {<<>>} : i = [of |-> "ids", reply |-> r]
  \/ \E r \in UpTo(4, 0..2) \ {<<>>} : i = [of |-> "deltas", reply |-> r]
  \/ \E m \in {"GET", "POST"}, h \in UpTo(3, [status : {302, 307}, to : {"a", "b"}]) \ {<<>>} : i = [of |-> "hops", method |-> m, hops |-> h]
  \/ \E at \in [token : BOOLEAN, ca : BOOLEAN, insecure : BOOLEAN],
        r \in [method : {"POST"}, route : {"/", "/api/state", "/api/submit", "/api/undo", "/api/upload", "/momo-ca.pem", "/x"}, host : {"own", "machine", "other"},
               cred : {"good", "bad", "none"}, query : {"good", "none"}, origin : {"none", "own", "other"}, ctype : {"json", "form"}, body : {"good", "large"}] :
       i = [of |-> "request", at |-> at, request |-> r]
  \/ \E c \in UpTo(3, PasteChars), f \in {<<>>, <<"a">>, <<"CR">>, <<"ESC">>, <<"ESC", "[", "A">>} : i = [of |-> "paste", chars |-> c, after |-> f]
ServiceRight(i) ==
  CASE i.of = "body" -> (\A m \in {0, 2, 3, 6} : Np!ReadsThrough(i.body, m)) /\ Np!SectionsEnd(i.body, Np!Sections(i.body))
    [] i.of = "merge" -> Ss!MergedFairly(i.page, i.lists, i.n)
    [] i.of = "effort" -> Lm!ThinkHonest(i.caps, i.level)
    [] i.of = "ids" -> Lm!IdsPair(i.reply)
    [] i.of = "deltas" -> Lm!CallsMerge(i.reply)
    [] i.of = "hops" -> Lm!TokenStays(i.method, "a", i.hops)
    [] i.of = "request" -> Wa!PageOnly(i.at, i.request)
    [] i.of = "paste" -> Ti!PasteIsText(i.chars, i.after)
    [] OTHER -> Right(i)

-----------------------------------------------------------------------------

Init ==
  \/ which = "mcp" /\ Mcp!Init /\ Free16
  \/ which = "sessions" /\ Ses!Init /\ Free15
  \/ which = "runs" /\ Run!Init /\ Free8
  \/ which = "loops" /\ Lg!Init /\ Free12
  \/ which = "index" /\ Ix!Init /\ Free13
  \/ which = "drafts" /\ Pd!Init /\ Free13
  \/ which = "verifier" /\ Sv!Init /\ Free17
  \/ which = "writer" /\ Sd!Init /\ Free13
  \/ which = "editing" /\ Ed!Init /\ Free6
  \/ which = "tools" /\ Ws!Init /\ Free12
  \/ which = "choices" /\ Tc!Init /\ Free8
  \/ which = "pages" /\ Np!Init /\ Free8
  \/ which = "sources" /\ Ss!Init /\ Free6
  \/ which = "backend" /\ Be!Init /\ Free15
  \/ which = "settings" /\ Se!Init /\ Free13
  \/ which = "client" /\ Lm!Init /\ Free12
  \/ which = "web" /\ Wa!Init /\ Free13
  \/ which = "tls" /\ Wt!Init /\ Free12
  \/ which = "view" /\ Tv!Init /\ Free13
  \/ which = "input" /\ Ti!Init
  \/ which = "page" /\ Wp!Init
  \/ which = "algorithm" /\ (Input(s1) \/ ServiceInput(s1)) /\ Free2

Next ==
  \/ which = "mcp" /\ Mcp!Next /\ UNCHANGED <<which, Rest16>>
  \/ which = "sessions" /\ Ses!Next /\ UNCHANGED <<which, Rest15>>
  \/ which = "runs" /\ Run!Next /\ UNCHANGED <<which, Rest8>>
  \/ which = "loops" /\ Lg!Next /\ UNCHANGED <<which, Rest12>>
  \/ which = "index" /\ Ix!Next /\ UNCHANGED <<which, Rest13>>
  \/ which = "drafts" /\ Pd!Next /\ UNCHANGED <<which, Rest13>>
  \/ which = "verifier" /\ Sv!Next /\ UNCHANGED <<which, Rest17>>
  \/ which = "writer" /\ Sd!Next /\ UNCHANGED <<which, Rest13>>
  \/ which = "editing" /\ Ed!Next /\ UNCHANGED <<which, Rest6>>
  \/ which = "tools" /\ Ws!Next /\ UNCHANGED <<which, Rest12>>
  \/ which = "choices" /\ Tc!Next /\ UNCHANGED <<which, Rest8>>
  \/ which = "pages" /\ Np!Next /\ UNCHANGED <<which, Rest8>>
  \/ which = "sources" /\ Ss!Next /\ UNCHANGED <<which, Rest6>>
  \/ which = "backend" /\ Be!Next /\ UNCHANGED <<which, Rest15>>
  \/ which = "settings" /\ Se!Next /\ UNCHANGED <<which, Rest13>>
  \/ which = "client" /\ Lm!Next /\ UNCHANGED <<which, Rest12>>
  \/ which = "web" /\ Wa!Next /\ UNCHANGED <<which, Rest13>>
  \/ which = "tls" /\ Wt!Next /\ UNCHANGED <<which, Rest12>>
  \/ which = "view" /\ Tv!Next /\ UNCHANGED <<which, Rest13>>
  \/ which = "input" /\ Ti!Next /\ UNCHANGED which
  \/ which = "page" /\ Wp!Next /\ UNCHANGED which

Spec == Init /\ [][Next]_all

-----------------------------------------------------------------------------

\* The state of every part has the shape and the bounds its module gives it.
PartsTyped ==
  /\ which = "mcp" => Mcp!TypeOK
  /\ which = "sessions" => Ses!TypeOK
  /\ which = "runs" => Run!TypeOK
  /\ which = "loops" => Lg!TypeOK
  /\ which = "index" => Ix!TypeOK
  /\ which = "drafts" => Pd!TypeOK
  /\ which = "verifier" => Sv!TypeOK
  /\ which = "writer" => Sd!TypeOK
  /\ which = "editing" => Ed!TypeOK
  /\ which = "tools" => Ws!TypeOK
  /\ which = "choices" => Tc!TypeOK
  /\ which = "pages" => Np!TypeOK
  /\ which = "sources" => Ss!TypeOK
  /\ which = "backend" => Be!TypeOK
  /\ which = "settings" => Se!TypeOK
  /\ which = "client" => Lm!TypeOK
  /\ which = "web" => Wa!TypeOK
  /\ which = "tls" => Wt!TypeOK
  /\ which = "view" => Tv!TypeOK
  /\ which = "input" => Ti!TypeOK
  /\ which = "page" => Wp!TypeOK

\* Nothing runs that was not allowed to, and nothing goes on for ever: an MCP server of the project or a tool of
\* the workspace only runs as the code the user approved, and no call waits for a server that is down; commands in
\* the background, pages in the cache, repeated calls and failing ones stay within their limits; Esc closes the
\* request that is answered; a request of the page changes nothing under a running turn; only tools whose service is
\* there are offered (mcp/manager.py, workspace.py:381, shell.py, net.py, loop_guard.py, ollama_client.py,
\* session.py:226, harness.py:1134).
OnlyAsAllowed ==
  /\ which = "mcp" => Mcp!ApprovedFirst /\ Mcp!NobodyWaitsForTheDead
  /\ which = "runs" => Run!BackgroundBounded
  /\ which = "loops" => Lg!LoopsAreStopped /\ Lg!FailuresAreNoticed
  /\ which = "tools" => Ws!ApprovedRuns
  /\ which = "choices" => Tc!ChoicesHonest
  /\ which = "pages" => Np!CacheBounded
  /\ which = "client" => Lm!EscReaches
  /\ which = "web" => Wa!NotUnderTurn

\* What was said, written, set or stored stays: turns over restarts and cleared ones gone for good, the recap with
\* the conversation it sums up, the log of a run that goes on, phases of a plan draft under their titles, stories as
\* they were written, typed and queued messages of the page, the certificate served, shipped search sources, whole
\* replies and the open session (controller.py:228-307, run_store.py, plan_runner.py:592, story_runner.py:670,
\* app.js:1323, tls.py:273, search.py:239, harness.py:2084, session.py:226).
NothingIsLost ==
  /\ which = "sessions" => Ses!ClearedStaysCleared /\ Ses!NoTurnLost /\ Ses!RecapBelongs /\ Ses!OpenIsRemembered
  /\ which = "runs" => Run!LiveLogKept
  /\ which = "drafts" => Pd!KeptByTitle /\ Pd!SubmittedWhole
  /\ which = "writer" => Sd!SetAsWritten /\ Sd!RequirementsDue
  /\ which = "sources" => Ss!ShippedStays
  /\ which = "client" => Lm!WholeReply
  /\ which = "web" => Wa!OpenKept
  /\ which = "tls" => Wt!ServedGood
  /\ which = "page" => Wp!Kept /\ Wp!QueueGoes

\* What the user or the model is shown is what there is: rows of the index of the file as it is or was asked for,
\* the state of the page from the newest answer, the transcript and its news, overlays and the rows keys act on,
\* the prompt with the settings now in force, a request within the window it is sent to, verdicts backed by tests
\* that were run (code_index/store.py, app.js:1105, tui.py:1269, tui.py:1478, main.py:394, harness.py:3570,
\* story_runner.py:1564).
ShownIsSo ==
  /\ which = "index" => Ix!RowsBelong
  /\ which = "verifier" => Sv!ShownByTests /\ Sv!FolderIsTests
  /\ which = "backend" => Be!SentFits
  /\ which = "settings" => Se!PromptCurrent /\ Se!WorkspaceFollowed
  /\ which = "client" => Lm!CapsOfHost
  /\ which = "web" => Wa!RowsCurrent
  /\ which = "view" => Tv!TranscriptShown /\ Tv!NewsReachesUser
  /\ which = "input" => Ti!OverlaysFit /\ Ti!ActsOnShown
  /\ which = "page" => Wp!ShownIsTrue

\* The parts that are functions give, for every input there is of these sizes, what the properties of their modules
\* say (Right, and what pages, lists, levels, replies, redirects, requests and pastes become).
AlgorithmsRight == which = "algorithm" => ServiceRight(s1)

\* What a step of a part may never do: answer from an index older than the question, keep half of the rows; run what
\* should be alone with others; lose a definition without naming it, repeat a refusal that no longer stands, apply
\* half an edit; forget a denial; change a choice that was not asked about; page through two downloads; take over a
\* shipped source, save another than the one shown; lose the server's own limit or a flag; lose a setting over a
\* restart; replace an authority that is trusted (code_index/store.py:240, story_runner.py, editing.py:1307,
\* workspace.py:381, harness.py:1134, net.py:962, search.py:255, harness.py:523, main.py, tls.py:273).
StepsRight ==
  [][
     /\ which = "index" => Ix!FreshAnswersStep /\ Ix!RowsCompleteStep
     /\ which = "verifier" => Sv!AloneFirstStep
     /\ which = "editing" => Ed!DropsNamedStep /\ Ed!RepeatAppliesStep /\ Ed!AllOrNoneStep
     /\ which = "tools" => Ws!DenialStandsStep
     /\ which = "choices" => Tc!OnlyThatOneStep
     /\ which = "pages" => Np!FollowUpsAgreeStep
     /\ which = "sources" => Ss!NeverTakenOverStep /\ Ss!SavedAsShownStep
     /\ which = "backend" => Be!DownKeepsStep /\ Be!FlagsBeatSessionStep /\ Be!OwnLimitReturnsStep
     /\ which = "settings" => Se!SurvivesRestartStep
     /\ which = "tls" => Wt!TrustKeptStep
    ]_all
=============================================================================
