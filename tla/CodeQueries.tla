---------------------------- MODULE CodeQueries -----------------------------
(***************************************************************************)
(* What is asked of the code index: who uses a definition and what it      *)
(* calls (index_callers), which definitions a query names (index_search),  *)
(* and what a git diff touches (index_changes).  All are functions of what *)
(* the index holds (code_index: callers.py, graph.py, search.py,           *)
(* changes.py).                                                            *)
(***************************************************************************)
EXTENDS Integers, Sequences, FiniteSets, SequencesExt, FiniteSetsExt

CONSTANTS
  Files, Names, NoFile,
  OpenTypes,           \* _OPEN_TYPES and single capitals: types that say nothing
  MAX_SEARCH, MAX_FUZZY, MAX_APPROX_AFTER_EXACT, MAX_INLINE_RANK, MAX_INLINE_HITS, MAX_INLINE_LINES,
  MAX_CHANGED_DEFS,    \* changed definitions whose uses are looked up
  Gap                  \* blank lines after a definition

(***************************************************************************)
(* Callers and callees.  Neither resolves scopes as a compiler does.       *)
(* Callers starts from every mention of the name and drops what syntax     *)
(* shows is another's; callees starts from one call and looks for the      *)
(* definition it reaches.                                                  *)
(*                                                                         *)
(* A project p has, per file, its language, its imports and whether it is  *)
(* a barrel (a package file, a JS file that exports what it imports); the  *)
(* definitions, each with the file, the name and the classes around it;    *)
(* and each class's declared bases.  A module goes by its file's name.  A  *)
(* use u gives what the parser read: role, name, receiver, the receiver's  *)
(* declared or imported type, and the classes around the use.              *)
(***************************************************************************)
Binds == {"python", "js"}                            \* imports bind names; others make all visible
SelfLike == {"self", "super"}
Owner(path) == IF path = <<>> THEN "" ELSE Last(path)

\* An import: its module's word, the files it reaches, the names taken from
\* it, the pairs <<original, alias>>, and whether it takes everything.
Aliased(i) == {a[2] : a \in i.aliases}
BoundNames(i) == i.names \ Aliased(i)
Orig(i, name) == IF name \in Aliased(i) THEN (CHOOSE a \in i.aliases : a[2] = name)[1] ELSE name
Hands(i, name) == Orig(i, name) \in i.names \/ i.star

DefsNamed(p, name) == {d \in p.defs : d.name = name}
TopLevel(p, f, name) == [file |-> f, path |-> <<>>, name |-> name] \in p.defs

(***************************************************************************)
(* Types by name.                                                          *)
(***************************************************************************)
Supers(p, t) ==
    LET up[n \in 0..6] == IF n = 0 THEN {t}
                          ELSE up[n - 1] \cup UNION {p.bases[b] : b \in up[n - 1] \cap DOMAIN p.bases}
    IN up[6] \ {t}
IsSubtype(p, t, target) == t = target \/ target \in Supers(p, t)
IsProjectClass(p, t) == t \in DOMAIN p.bases

\* The receiver's type rules cls out: it is neither a base of cls nor a
\* project class below it.
OtherType(p, rtype, cls) ==
    /\ rtype \notin OpenTypes \cup {""}
    /\ ~IsSubtype(p, cls, rtype)
    /\ IsProjectClass(p, rtype) => ~IsSubtype(p, rtype, cls)

(***************************************************************************)
(* Modules.                                                                *)
(***************************************************************************)
\* The file that defines what module f exposes as name, up to three hops away.
Definer(p, f, name) ==
    LET d[n \in 0..3, g \in Files, nm \in Names] ==
          LET from(i) == {d[n - 1, t, Orig(i, nm)] : t \in i.targets} \ {NoFile}
              hits == SelectSeq(p.imports[g], LAMBDA i : Hands(i, nm) /\ from(i) # {})
          IN CASE TopLevel(p, g, nm) -> g
               [] ~TopLevel(p, g, nm) /\ (n = 0 \/ p.lang[g] \notin Binds) -> NoFile
               [] OTHER -> IF hits = <<>> THEN NoFile ELSE CHOOSE t \in from(Head(hits)) : TRUE
    IN d[3, f, name]

\* _module_scope: the files a query for q.name means, and per file how it is reached.
DefinedIn(p, q, name) == {Definer(p, f, name) : f \in Files \cap {q}} \ {NoFile}
Exposed(p, q, name) ==
    DefinedIn(p, q, name) \cup {f \in Files : p.barrel[f] /\ Definer(p, f, name) \in DefinedIn(p, q, name)}
ImportHits(p, q, name, f) == {i \in ToSet(p.imports[f]) : i.targets \cap Exposed(p, q, name) # {}}
BindsIt(i, name) == name \in BoundNames(i) \/ i.star \/ \E a \in i.aliases : a[1] = name
ModuleWords(p, q, name) == {q} \cup Exposed(p, q, name)
ModuleAliases(p, q, name, f) ==
    UNION {{a[2] : a \in {a \in i.aliases : a[1] # name /\ (a[1] = i.module \/ a[1] \in ModuleWords(p, q, name))}}
           : i \in ImportHits(p, q, name, f)}
Reaches(p, q, name, u) ==
    IF u.recv # "" THEN {u.rtype, u.recv} \cap (ModuleWords(p, q, name) \cup ModuleAliases(p, q, name, u.file)) # {}
    ELSE \/ u.file \in DefinedIn(p, q, name)
         \/ \E i \in ImportHits(p, q, name, u.file) : p.lang[u.file] \in Binds => BindsIt(i, name)

\* `from m import f as g`: in that file g is f.
NameAliases(p, name, f) ==
    UNION {{a[2] : a \in {a \in i.aliases : a[1] = name /\ \E t \in i.targets : Definer(p, t, name) # NoFile}}
           : i \in ToSet(p.imports[f])}
ModuleNameAliases(p, q, name, f) == UNION {{a[2] : a \in {a \in i.aliases : a[1] = name}} : i \in ImportHits(p, q, name, f)}

(***************************************************************************)
(* Callers.                                                                *)
(***************************************************************************)
\* query_target: what the word before the name is.
Scope(p, q, name) ==
    CASE q = "" -> "any"
      [] q # "" /\ DefinedIn(p, q, name) # {} -> "module"
      [] q # "" /\ DefinedIn(p, q, name) = {} /\ IsProjectClass(p, q) -> "class"
      [] OTHER -> "receiver"

Meant(p, q, name) ==
    LET all == DefsNamed(p, name)
        mine == {d \in all : Owner(d.path) = q}
    IN IF Scope(p, q, name) = "class" /\ mine # {} THEN mine ELSE all
OneFamily(p, q, name, f) ==
    LET langs == {p.lang[d.file] : d \in Meant(p, q, name)} IN Cardinality(langs) = 1 => p.lang[f] \in langs

\* A bare call in a class that has the name itself is that class's.
Around(p, u, name) ==
    LET own == {k \in 1..Len(u.path) : \E d \in DefsNamed(p, name) : d.path = SubSeq(u.path, 1, k)}
    IN IF own = {} THEN "" ELSE u.path[CHOOSE k \in own : \A j \in own : j <= k]
AnothersMethod(p, cls, u, name) ==
    \/ u.recv = "self.x"
    \/ u.recv = "super" /\ cls \in ToSet(u.path)
    \/ OtherType(p, u.rtype, cls)
    \/ u.recv = "" /\ Around(p, u, name) \notin {"", cls}

External(p, name, u) ==
    /\ u.recv # "" /\ u.rtype # "" /\ u.recv \notin SelfLike \cup {"self.x"} /\ u.rtype \notin OpenTypes \cup Files
    /\ ~IsProjectClass(p, u.rtype)
    /\ \A d \in DefsNamed(p, name) : d.path # <<>> => ~IsSubtype(p, Owner(d.path), u.rtype)

Mentions(p, q, name, u) ==
    \/ u.name = name /\ OneFamily(p, q, name, u.file)
    \/ CASE Scope(p, q, name) = "any" -> u.name \in NameAliases(p, name, u.file)
         [] Scope(p, q, name) = "module" -> u.name \in ModuleNameAliases(p, q, name, u.file)
         [] OTHER -> FALSE
\* uses_of: u is listed for q.name.
Listed(p, q, name, u) ==
    LET named == DefsNamed(p, name) IN
    /\ Mentions(p, q, name, u)
    /\ (named # {} /\ \A d \in named : d.path = <<>>) => u.recv \notin {"self", "self.x"}
    /\ CASE Scope(p, q, name) = "any" -> u.role = "call" => ~External(p, name, u)
         [] Scope(p, q, name) = "module" -> Reaches(p, q, name, u)
         [] Scope(p, q, name) = "class" -> u.role = "call" => ~AnothersMethod(p, q, u, name)
         [] OTHER -> u.recv = q

(***************************************************************************)
(* Callees: the definition a call reaches, exactly or by its name alone.   *)
(***************************************************************************)
Member(defs, types) == {d \in defs : d.path # <<>> /\ Owner(d.path) \in types}
\* The nearest class first; its bases have no order of nearness.
Nearest(p, defs, t) == IF Member(defs, {t}) # {} THEN Member(defs, {t}) ELSE Member(defs, Supers(p, t))
Exactly(ds) == {[def |-> d, exact |-> TRUE] : d \in ds}

Imported(p, u, name, i) ==
    {[file |-> d, path |-> <<>>, name |-> name] : d \in {Definer(p, t, name) : t \in i.targets} \ {NoFile}}
ThroughImports(p, u) ==
    LET words(i) == Aliased(i) \cup {i.module} \cup i.names
        found(i) == IF u.recv = ""
                    THEN IF Hands(i, u.name) \/ p.lang[u.file] = "c" THEN Imported(p, u, Orig(i, u.name), i) ELSE {}
                    ELSE IF u.recv \in words(i) THEN Imported(p, u, u.name, i) ELSE {}
        hits == SelectSeq(p.imports[u.file], LAMBDA i : found(i) # {})
    IN IF hits = <<>> THEN {} ELSE found(Head(hits))

BareSteps(p, u, defs) ==
    <<IF u.path # <<>> /\ p.lang[u.file] # "python" THEN Nearest(p, defs, Owner(u.path)) ELSE {},
      {d \in defs : d.file = u.file /\ d.path = <<>>}, ThroughImports(p, u)>>
ReceiverSteps(p, u, defs) == <<ThroughImports(p, u), IF u.rtype = "" THEN {} ELSE Nearest(p, defs, u.rtype)>>
\* _resolve_call: the candidates of the first step that finds any.
Resolve(p, u) ==
    LET defs == {d \in DefsNamed(p, u.name) : p.lang[d.file] = p.lang[u.file]}
        steps == IF u.recv = "" THEN BareSteps(p, u, defs) ELSE ReceiverSteps(p, u, defs)
        found == SelectSeq(steps, LAMBDA s : s # {})
        tops == {d \in defs : d.path = <<>>}
        supers == Member(defs, Supers(p, Owner(u.path)))
    IN CASE defs = {} -> {}
         [] defs # {} /\ u.recv \in SelfLike /\ u.path # <<>> ->
              Exactly(IF u.recv = "super" THEN supers ELSE Nearest(p, defs, Owner(u.path)))
         [] OTHER -> IF found # <<>> THEN Exactly(Head(found))
                     ELSE IF u.recv = "" /\ Cardinality(tops) = 1 THEN {[def |-> d, exact |-> FALSE] : d \in tops}
                     ELSE {}

(***************************************************************************)
(* With a depth: who uses those, level by level.  by[d] is who uses the    *)
(* definitions named as d; a name too common, or the one asked about, is   *)
(* not followed.                                                           *)
(***************************************************************************)
Levels(by, asked, common, depth) ==
    LET first == by[asked]
        level[n \in 1..depth] ==
          IF n = 1 THEN [impact |-> first, frontier |-> first, visited |-> {asked} \cup first]
          ELSE LET was == level[n - 1]
                   found == UNION {by[o] : o \in was.frontier \ ({asked} \cup common)}
               IN [impact |-> was.impact \cup found, frontier |-> found \ was.visited, visited |-> was.visited \cup found]
    IN level[depth]
Impact(by, asked, common, depth) == Levels(by, asked, common, depth).impact

(***************************************************************************)
(* Properties.                                                             *)
(***************************************************************************)
Qualifier(d) == IF d.path = <<>> THEN d.file ELSE Owner(d.path)
ListedFor(p, d, u) == Listed(p, Qualifier(d), d.name, u) /\ Listed(p, "", d.name, u)

\* The two directions agree: what callees links to a definition, not by its
\* name alone, callers of that definition lists (callers.py:117-208, 519-580).
CalleeHasCaller(p, u) == \A r \in Resolve(p, u) : r.exact => ListedFor(p, r.def, u)

\* A call on an object of a declared type may run the method of any class
\* below it: the callers of that method list the call, where no class has
\* two bases (callers.py:30-69).
VirtualListed(p, u) ==
    u.rtype \in DOMAIN p.bases /\ (\A b \in DOMAIN p.bases : Cardinality(p.bases[b]) <= 1) =>
        \A k \in DOMAIN p.bases : IsSubtype(p, k, u.rtype) =>
            \A d \in Nearest(p, DefsNamed(p, u.name), k) :
                p.lang[d.file] = p.lang[u.file] => Listed(p, Owner(d.path), u.name, u)

\* A call under the name an import gave the definition is listed as its use
\* (callers.py:257-320).
AliasFollowed(p, u) ==
    u.recv = "" =>
        \A i \in ToSet(p.imports[u.file]) : \A a \in i.aliases : \A t \in i.targets :
            a[2] = u.name /\ p.lang[u.file] \in Binds /\ Definer(p, t, a[1]) # NoFile =>
                Listed(p, Definer(p, t, a[1]), a[1], u) /\ Listed(p, "", a[1], u)

\* The impact counts every definition a change may reach in that many steps,
\* unless only through one whose name the answer says it did not follow.
Within(by, asked, common, depth) ==
    {d \in DOMAIN by : \E n \in 1..depth : \E s \in [0..n -> DOMAIN by] :
        /\ s[0] = asked /\ s[n] = d
        /\ \A k \in 1..n : s[k] \in by[s[k - 1]]
        /\ \A k \in 1..n - 1 : s[k] \notin {asked} \cup common}
ImpactTotal(by, asked, common, depth) == Impact(by, asked, common, depth) = Within(by, asked, common, depth)

-----------------------------------------------------------------------------
(***************************************************************************)
(* Search: the definitions and files a query names, from exact to loosely  *)
(* alike, ordered with the tests last, and what the answer then says of    *)
(* them: exact or closest first, how many are left out, and whether there  *)
(* is anything left to read.                                               *)
(*                                                                         *)
(* A definition is a record: how its name is like the query's, its rank    *)
(* among equals (kind, length, path, line), whether it is in a test file,  *)
(* its kind, its lines, and whether the file still has them.               *)
(***************************************************************************)
AtMost(a, b) == IF a < b THEN a ELSE b
AtLeast(a, b) == IF a < b THEN b ELSE a

(***************************************************************************)
(* Scores: _score, and _overlap as percentages of the query's words found  *)
(* in the name (nf) and in the docstring's first line (df).                *)
(***************************************************************************)
NameScore(nf, several) ==
    IF nf >= 99 THEN 55 ELSE IF nf >= 50 /\ several THEN 30 + (20 * nf) \div 100
    ELSE IF nf > 0 THEN 12 + (16 * nf) \div 100 ELSE 0
DocScore(df) == IF df >= 99 THEN 45 ELSE IF df >= 50 THEN 20 + (20 * df) \div 100 ELSE 0
WordsScore(nf, df, several) ==
    LET name == NameScore(nf, several)  doc == DocScore(df)
    IN AtMost(58, AtLeast(name, doc) + IF name > 0 /\ doc > 0 THEN 6 ELSE 0)
Score(s) ==
    CASE s.like = "module" -> 100          \* the module's own top-level name, spelt with the module
      [] s.like = "same" -> 100
      [] s.like = "caseless" -> 95
      [] s.like = "spaced" -> 92
      [] s.like = "dotted" -> 90
      [] s.like = "prefix" -> 75 - AtMost(10, s.nf)
      [] s.like = "inside" -> 65
      [] s.like = "words" -> WordsScore(s.nf, s.df, TRUE)
      [] s.like = "letters" -> 20
      [] s.like = "none" -> 0
FileScore(f) == CASE f = "same" -> 100 [] f = "end" -> 95 [] f = "base" -> 90 [] f = "inside" -> 60 [] f = "none" -> 0

(***************************************************************************)
(* The answer: _search.                                                    *)
(***************************************************************************)
SearchHits(syms, kind) == {s \in syms : Score(s) > 0 /\ (kind = "any" \/ s.kind = kind)}
\* Test code ranks below every real match in the source.
SourceMatch(hits) == \E s \in hits : ~s.test /\ Score(s) >= 40
Before(s, t, hits) ==
    IF SourceMatch(hits) /\ s.test # t.test THEN t.test
    ELSE IF Score(s) # Score(t) THEN Score(s) > Score(t)
    ELSE s.rank < t.rank
Ranked(hits) == SetToSortSeq(hits, LAMBDA s, t : Before(s, t, hits))
Exact(hits) == {s \in hits : Score(s) >= 90}
Shown(sorted) ==
    LET hits == ToSet(sorted)
        most == IF Score(sorted[1]) >= 90 THEN AtMost(MAX_SEARCH, Cardinality(Exact(hits)) + MAX_APPROX_AFTER_EXACT)
                ELSE MAX_FUZZY
    IN SubSeq(sorted, 1, AtMost(most, Len(sorted)))

Inlinable(shown, i) == shown[i].value /\ shown[i].span <= MAX_INLINE_LINES /\ i <= MAX_INLINE_RANK /\ shown[i].span > 1
\* The lines of a short value are shown if the file still has them, of the first few.
Inlined(shown) ==
    FoldLeft(LAMBDA done, i : IF Inlinable(shown, i) /\ shown[i].there /\ Cardinality(done) < MAX_INLINE_HITS
                              THEN done \cup {i} ELSE done, {}, [i \in DOMAIN shown |-> i])
BestWhole(shown) == (shown[1].value /\ shown[1].span = 1) \/ 1 \in Inlined(shown)

\* The answer when only definitions of that kind are asked for.
Answered(syms, files, kind) ==
    LET hits == SearchHits(syms, kind)
        named == {f \in files : FileScore(f.like) > 0}
        best == Max({FileScore(f.like) : f \in named})
        sorted == Ranked(hits)
        shown == Shown(sorted)
        block == Score(sorted[1]) >= 90
        n == IF block THEN Cardinality(Exact(hits)) ELSE 0
        Nothing(form) == [form |-> form, shown |-> << >>, exact |-> 0, similar |-> 0, left |-> 0, whole |-> FALSE, inlined |-> {}]
    IN IF named # {} /\ (hits = {} \/ best >= Max({Score(s) : s \in hits})) THEN Nothing("files")
       ELSE IF hits = {} THEN Nothing("none")
       ELSE [form |-> "hits", shown |-> shown, exact |-> n, similar |-> Len(sorted) - n,
             left |-> Len(sorted) - Len(shown), whole |-> BestWhole(shown), inlined |-> Inlined(shown)]
\* Nothing of the kind asked for, but of another: that is shown, and said to be.
Search(syms, files, kind) ==
    IF /\ SearchHits(syms, kind) = {} /\ kind # "any" /\ SearchHits(syms, "any") # {}
       /\ \A f \in files : FileScore(f.like) = 0
    THEN [Answered(syms, files, "any") EXCEPT !.form = "other"]
    ELSE Answered(syms, files, kind)

-----------------------------------------------------------------------------
(* What is stated of an answer. *)

\* A name in the tests does not shadow the one in the source: with a real match there no test is shown
\* before a definition of the source.
TestsLast(syms, files, kind) ==
    LET a == Search(syms, files, kind)
    IN SourceMatch(SearchHits(syms, IF a.form = "other" THEN "any" ELSE kind))
       => \A i, j \in DOMAIN a.shown : i < j /\ a.shown[i].test => a.shown[j].test

\* "nothing left to read" is said of a best match only when every line it has is in the answer.
WholeIsThere(syms, files, kind) ==
    LET a == Search(syms, files, kind)
    IN a.whole => a.shown[1].span = 1 \/ (1 \in a.inlined /\ a.shown[1].there)

\* What is shown of a query and what is said to be left out make up all that is like it, and nothing is
\* said to be missing that is there: no answer is "none" for a query that names something of any kind.
NothingUnsaid(syms, files, kind) ==
    LET a == Search(syms, files, kind)
    IN /\ a.form = "none" => SearchHits(syms, "any") = {} /\ \A f \in files : FileScore(f.like) = 0
       /\ a.form \in {"hits", "other"} =>
            /\ a.exact + a.similar = Cardinality(SearchHits(syms, IF a.form = "other" THEN "any" ELSE kind))
            /\ Len(a.shown) + a.left = a.exact + a.similar

\* An answer that lists definitions and says there is no exact match is right.
ExactIsSaid(syms, files, kind) ==
    LET a == Search(syms, files, kind)
    IN a.form = "hits" /\ a.exact = 0 => Exact(SearchHits(syms, kind)) = {}

-----------------------------------------------------------------------------
(***************************************************************************)
(* Changes: the definitions removed, moved, changed or added since a       *)
(* revision, read off the hunks of each file, and who outside the change   *)
(* still uses them.                                                        *)
(*                                                                         *)
(* A file of the comparison is a sequence of blocks [name, cls, how]: a    *)
(* function of two lines, a method (cls is its class, "" for none) or the  *)
(* head line of a class ("head" is TRUE), and what became of it: "kept",   *)
(* "removed", "added", "changed" (its last line), "signature" (its first   *)
(* line), "grown" or "shrunk".  Lines are "k" (kept), "-" and "+".         *)
(***************************************************************************)
LineOps(b) ==
    LET n == IF b.head THEN 1 ELSE 2
        Of(op, k) == [i \in 1..k |-> op]
    IN CASE b.how = "removed" -> Of("-", n + Gap)
         [] b.how = "added" -> Of("+", n + Gap)
         [] b.how = "kept" -> Of("k", n + Gap)
         [] b.how = "changed" -> Of("k", n - 1) \o <<"-", "+">> \o Of("k", Gap)
         [] b.how = "signature" -> <<"-", "+">> \o Of("k", n - 1 + Gap)
         [] b.how = "grown" -> Of("k", n) \o <<"+">> \o Of("k", Gap)
         [] b.how = "shrunk" -> Of("k", n - 1) \o <<"-">> \o Of("k", Gap)
\* The lines of the old ("-") or the new ("+") file among the first i blocks.
Lines(f, i, side) == Len(SelectSeq(FlattenSeq([j \in 1..i |-> LineOps(f[j])]), LAMBDA op : op \in {"k", side}))

\* The symbols of a side: a class reaches to the end of its last method.
Symbols(f, side) ==
    LET there == {i \in DOMAIN f : f[i].how # (IF side = "-" THEN "added" ELSE "removed")}
        Until(i) == LET inner == {j \in there : f[j].cls = f[i].name /\ f[j].cls # ""}
                    IN Lines(f, IF f[i].head /\ inner # {} THEN Max(inner) ELSE i, side) - Gap
    IN {[name |-> f[i].name, cls |-> f[i].cls, head |-> f[i].head, start |-> Lines(f, i - 1, side) + 1, end |-> Until(i),
         params |-> IF side = "+" /\ f[i].how = "signature" THEN "new" ELSE "old"] : i \in there}

\* git diff -U0 as _parse_diff reads it: a run of lines that are not kept.
Span(o, n) == <<o, o + Max({n, 1}) - 1>>
Ranges(f, side) ==
    LET ops == FlattenSeq([j \in DOMAIN f |-> LineOps(f[j])])
        Count(i, s) == Cardinality({j \in 1..i : ops[j] \in {"k", s}})
        runs == {r \in (1..Len(ops)) \X (1..Len(ops)) : /\ r[1] <= r[2]
                                                        /\ \A i \in r[1]..r[2] : ops[i] # "k"
                                                        /\ r[1] = 1 \/ ops[r[1] - 1] = "k"
                                                        /\ r[2] = Len(ops) \/ ops[r[2] + 1] = "k"}
        Hunk(r) == LET n == Count(r[2], side) - Count(r[1] - 1, side)
                   IN Span(Count(r[1] - 1, side) + (IF n = 0 THEN 0 ELSE 1), n)
    IN {Hunk(r) : r \in runs}

\* _touched: the innermost definitions each changed range falls in.
FallsIn(symbols, r) == {s \in symbols : s.start <= r[2] /\ r[1] <= s.end}
Inside(s, o) == s # o /\ s.start <= o.start /\ o.end <= s.end /\ <<o.start, o.end>> # <<s.start, s.end>>
Touched(symbols, ranges) ==
    UNION {{s \in FallsIn(symbols, r) : ~\E o \in FallsIn(symbols, r) : Inside(s, o)} : r \in ranges}

Same(s, o) == s.name = o.name /\ s.cls = o.cls
\* _moved_to: defined in exactly one other file now, with the same kind.
Homes(p, rel, o) ==
    UNION {{<<q, s>> : s \in {s \in Symbols(p[q], "+") : s.name = o.name /\ s.head = o.head /\ (s.cls = "") = (o.cls = "")}} :
             q \in DOMAIN p \ {rel}}
Home(p, rel, o) == IF Cardinality(Homes(p, rel, o)) = 1 THEN {h[1] : h \in Homes(p, rel, o)} ELSE {}

\* The changes of one file of the project p.
InFile(p, rel, old, new) ==
    LET Was(s) == {o \in old : Same(s, o)}
        Kind(s) == IF Was(s) = {} THEN "added"
                   ELSE IF ~s.head /\ \E o \in Was(s) : o.params # s.params THEN "signature changed" ELSE "changed"
    IN {[kind |-> Kind(s), rel |-> rel, sym |-> s, home |-> {}] : s \in Touched(new, Ranges(p[rel], "+"))}
         \cup {[kind |-> IF Home(p, rel, o) # {} THEN "moved" ELSE "removed", rel |-> rel, sym |-> o, home |-> Home(p, rel, o)] :
                 o \in {o \in Touched(old, Ranges(p[rel], "-")) : ~\E s \in new : Same(s, o)}}
In(p, rel) == InFile(p, rel, Symbols(p[rel], "-"), Symbols(p[rel], "+"))
All(p) == UNION {In(p, rel) : rel \in DOMAIN p}

Order == <<"removed", "signature changed", "moved", "changed", "added">>
ByOrder(all) ==
    LET At(c) == CHOOSE i \in DOMAIN Order : Order[i] = c.kind
        Earlier(c, d) == \/ At(c) < At(d)
                         \/ At(c) = At(d) /\ c.rel < d.rel
                         \/ At(c) = At(d) /\ c.rel = d.rel /\ c.sym.start < d.sym.start
    IN SetToSortSeq(all, Earlier)
FirstOf(list) == SubSeq(list, 1, Min({MAX_CHANGED_DEFS, Len(list)}))
Looked(all) == FirstOf(SelectSeq(ByOrder(all), LAMBDA c : c.kind \notin {"added", "moved"}))

\* _uses_outside: uses [rel, line, name] of its name that the change does not hold itself.
UsesOutside(p, uses, c) ==
    {u \in uses : u.name = c.sym.name /\ ~\E r \in Ranges(p[u.rel], "+") : r[1] <= u.line /\ u.line <= r[2]}

-----------------------------------------------------------------------------
(* What is stated of the changes told, all, and of the first of them, whose uses are looked for. *)

\* Every definition that is gone, new or different is told, itself or by what changed inside it, as what became
\* of it; and none that did not change is.
TouchedIsTold(p, all) ==
    \A rel \in DOMAIN p : \A i \in DOMAIN p[rel] :
        LET b == p[rel][i]
            of == {c \in all : c.rel = rel /\ c.sym.name = b.name /\ c.sym.cls = b.cls}
            inner == {c \in all : c.rel = rel /\ b.head /\ c.sym.cls = b.name}
        IN /\ b.how # "kept" => of \cup inner # {}
           /\ b.how = "kept" /\ ~b.head => of = {}
           /\ \A c \in of : CASE b.how = "removed" -> c.kind \in {"removed", "moved"}
                              [] b.how = "added" -> c.kind = "added"
                              [] b.how = "signature" -> b.head \/ c.kind = "signature changed"
                              [] OTHER -> c.kind = "changed"

\* What is said to have moved came with the change to the one place it is said to be at.
MovedIsThere(p, all) ==
    \A c \in all : c.kind = "moved" =>
        \E q \in DOMAIN p : c.home = {q} /\ \E b \in ToSet(p[q]) : b.name = c.sym.name /\ b.how = "added"

\* A use that is left of a definition that is gone is shown, unless so many are gone that the answer says it
\* stopped looking.
GoneIsSaid(p, uses, looked) ==
    \A rel \in DOMAIN p : \A b \in ToSet(p[rel]) : \A u \in uses :
        b.how = "removed" /\ u.name = b.name /\ (\A q \in DOMAIN p : \A d \in ToSet(p[q]) : d.name = b.name => d.how = "removed") =>
            \/ \E c \in ToSet(looked) : c.kind = "removed" /\ c.sym.name = b.name /\ u \in UsesOutside(p, uses, c)
            \/ Len(looked) = MAX_CHANGED_DEFS
            \/ \E r \in Ranges(p[u.rel], "+") : r[1] <= u.line /\ u.line <= r[2]
=============================================================================
