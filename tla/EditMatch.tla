------------------------------ MODULE EditMatch ------------------------------
(***************************************************************************)
(* Where edit_file puts a change whose old_string is not quite the file's  *)
(* text (editing.py, _find_edit).  A model copies read_file's line         *)
(* numbers, writes its own indentation, curly quotes or other spacing; the *)
(* edit is still made when one block of the file answers to old_string,    *)
(* and new_string is then moved to the file's indentation.                 *)
(*                                                                         *)
(* A line has its code without the white space around it ("" when blank),  *)
(* its indentation, how it is spaced inside, whether its quotes are curly, *)
(* and the number a copied read_file prefix gives it (0: none).  Tabs are  *)
(* left out: one step of a tab file is one step of a space file.           *)
(***************************************************************************)
EXTENDS Integers, FiniteSets, Sequences, SequencesExt

CONSTANTS Openers, Closers     \* the codes that end with an opening bracket or colon; that start with a closer

Blank(l) == l.code = ""
Texts(lines) == {i \in DOMAIN lines : ~Blank(lines[i])}
Plain(l) == [l EXCEPT !.num = 0]
Straight(l) == [l EXCEPT !.curly = FALSE]

\* _lineno_start: 0 unless every line of text carries a number, one up each line.
Numbered(lines) ==
    Texts(lines) # {} /\ \E n \in 1..9 : \A i \in Texts(lines) : lines[i].num = n + i - 1
LineStart(lines) == IF Numbered(lines) THEN CHOOSE n \in 1..9 : \A i \in Texts(lines) : lines[i].num = n + i - 1 ELSE 0
Unnumbered(lines) == [i \in DOMAIN lines |-> Plain(lines[i])]
Strip(lines) == IF Numbered(lines) THEN Unnumbered(lines) ELSE lines
StripFrom(lines, start) == IF Numbered(lines) /\ LineStart(lines) = start THEN Unnumbered(lines) ELSE lines

(***************************************************************************)
(* Blocks of the file: where old stands, under a key of its lines.         *)
(***************************************************************************)
WsKey(l) == IF l.num # 0 THEN l ELSE [l EXCEPT !.ind = 0]
NormKey(l) == [WsKey(l) EXCEPT !.sp = "", !.curly = FALSE]
Keyed(key, l) == CASE key = "exact" -> l [] key = "ws" -> WsKey(l) [] key = "norm" -> NormKey(l)
Blocks(file, old, key) ==
    {i \in 1..Len(file) - Len(old) + 1 : \A j \in DOMAIN old : Keyed(key, file[i + j - 1]) = Keyed(key, old[j])}
BlockAt(file, i, old) == SubSeq(file, i, i + Len(old) - 1)
Spliced(file, i, k, lines) == SubSeq(file, 1, i - 1) \o lines \o SubSeq(file, i + k, Len(file))

\* As text, old may begin in the middle of its first line's indentation.
Occurs(file, old) ==
    {i \in 1..Len(file) - Len(old) + 1 : \A j \in DOMAIN old :
        IF j = 1 THEN old[1].ind <= file[i].ind /\ [file[i] EXCEPT !.ind = old[1].ind] = old[1]
        ELSE file[i + j - 1] = old[j]}
\* The rest of that indentation stays in front of new's first line.
Hanging(file, i, old, new) ==
    [j \in DOMAIN new |-> IF j = 1 /\ ~Blank(new[1]) THEN [new[1] EXCEPT !.ind = @ + file[i].ind - old[1].ind] ELSE new[j]]

(***************************************************************************)
(* How far the file indents where the model indents by one.                *)
(***************************************************************************)
Ratio(a, b) == <<a, b>>
Same(r, s) == r[1] * s[2] = s[1] * r[2]
Commonest(xs, Eq(_, _)) ==
    LET count(i) == Cardinality({j \in DOMAIN xs : Eq(xs[i], xs[j])})
    IN xs[CHOOSE i \in DOMAIN xs : \A j \in DOMAIN xs : count(j) < count(i) \/ (count(j) = count(i) /\ i <= j)]

\* _unit: the commonest increase from one line of text to the next, 0 when none.
Unit(lines) ==
    LET text == SelectSeq(lines, LAMBDA l : ~Blank(l))
        steps == {i \in 1..Len(text) - 1 : text[i + 1].ind > text[i].ind}
        size(i) == text[i + 1].ind - text[i].ind
        count(s) == Cardinality({i \in steps : size(i) = s})
        sizes == {size(i) : i \in steps}
    IN IF steps = {} THEN 0
       ELSE CHOOSE s \in sizes : \A t \in sizes : count(t) < count(s) \/ (count(t) = count(s) /\ s <= t)
Either(x, y) == IF x # 0 THEN x ELSE y

Scale(old, new, block, file, a) ==
    LET dm(i) == old[i].ind - old[a].ind
        df(i) == block[i].ind - block[a].ind
        votes == SelectSeq([i \in DOMAIN old |-> IF Blank(old[i]) THEN <<0, 0>> ELSE Ratio(df(i), dm(i))],
                           LAMBDA r : r[1] # 0 /\ r[2] # 0)
        um == Either(Unit(old), Unit(new))
    IN CASE votes # <<>> -> Commonest(votes, Same)
         [] votes = <<>> /\ um # 0 /\ Unit(file) # 0 -> Ratio(Unit(file), um)
         [] OTHER -> Ratio(1, 1)

Abs(x) == IF x < 0 THEN -x ELSE x
\* round(n * r): a half goes to the even side.
Rounded(n, r) ==
    LET p == Abs(n * r[1]) q == Abs(r[2])
        up == p \div q + (IF 2 * (p % q) > q \/ (2 * (p % q) = q /\ (p \div q) % 2 = 1) THEN 1 ELSE 0)
    IN IF (n * r[1] < 0) # (r[2] < 0) THEN -up ELSE up
Shift(base, from, to, scale) ==
    LET n == base + Rounded(to - from, scale) IN IF n < 0 THEN 0 ELSE n

(***************************************************************************)
(* difflib.SequenceMatcher: the pairs of lines the two strings share.      *)
(***************************************************************************)
Pairs(a, b) ==
    LET runs(q) == {<<i, j, n>> \in (q[1]..q[2]) \X (q[3]..q[4]) \X (1..Len(a)) :
                      /\ i + n - 1 <= q[2] /\ j + n - 1 <= q[4] /\ \A k \in 0..n - 1 : a[i + k] = b[j + k]}
        better(x, y) == x[3] > y[3] \/ (x[3] = y[3] /\ (x[1] < y[1] \/ (x[1] = y[1] /\ x[2] <= y[2])))
        in[q \in (1..Len(a) + 1) \X (0..Len(a)) \X (1..Len(b) + 1) \X (0..Len(b))] ==
          IF runs(q) = {} THEN {}
          ELSE LET r == CHOOSE x \in runs(q) : \A y \in runs(q) : better(x, y)
               IN {<<r[1] + k, r[2] + k>> : k \in 0..r[3] - 1}
                  \cup in[<<q[1], r[1] - 1, q[3], r[2] - 1>>]
                  \cup in[<<r[1] + r[3], q[2], r[2] + r[3], q[4]>>]
    IN in[<<1, Len(a), 1, Len(b)>>]

Greatest(S) == CHOOSE x \in S : \A y \in S : y <= x
Least(S) == CHOOSE x \in S : \A y \in S : x <= y
\* The gap between shared lines that new line j is in: old i1..i2, new from j1.
Gap(pairs, k, j) ==
    LET before == {p \in pairs : p[2] < j}
        after == {p \in pairs : p[2] > j}
    IN [i1 |-> Greatest({p[1] : p \in before} \cup {0}) + 1, j1 |-> Greatest({p[2] : p \in before} \cup {0}) + 1,
        i2 |-> Least({p[1] : p \in after} \cup {k + 1}) - 1]
\* The old line whose place new line j takes, or after which it is put.
PlaceOf(pairs, k, j) ==
    LET g == Gap(pairs, k, j)
        at == g.i1 + j - g.j1
    IN IF \E i \in 1..k : <<i, j>> \in pairs THEN CHOOSE i \in 1..k : <<i, j>> \in pairs
       ELSE IF g.i2 >= g.i1 THEN Least({at, g.i2}) ELSE Greatest({1, g.i1 - 1})

(***************************************************************************)
(* _block_replace and _tolerant_replace: {} when they do not apply.        *)
(***************************************************************************)
Depths(lines) == {lines[i].ind : i \in Texts(lines)}
OpensBlock(lines) ==
    LET text == SelectSeq(lines, LAMBDA l : ~Blank(l))
    IN \E i \in 1..Len(text) - 1 : text[i].code \in Openers /\ text[i + 1].code \notin Closers
\* Some gap has not as many old lines as new ones.
GrowsOrShrinks(pairs, k, n) ==
    \/ \E j \in 1..n : (\A i \in 1..k : <<i, j>> \notin pairs)
          /\ LET g == Gap(pairs, k, j)
                 j2 == Least({p[2] : p \in {p \in pairs : p[2] > j}} \cup {n + 1}) - 1
             IN g.i2 - g.i1 # j2 - g.j1
    \/ \E i \in 1..k : (\A j \in 1..n : <<i, j>> \notin pairs)
          /\ LET before == {p \in pairs : p[1] < i}
                 after == {p \in pairs : p[1] > i}
             IN Least({p[2] : p \in after} \cup {n + 1}) - Greatest({p[2] : p \in before} \cup {0}) = 1
Guess(old, new, block, pairs) ==
    /\ Cardinality(Depths(old)) = 1 /\ GrowsOrShrinks(pairs, Len(old), Len(new))
    /\ Cardinality(Depths(block)) > 1 \/ (Cardinality(Depths(new)) <= 1 /\ OpensBlock(new))

Rebuilt(file, old, new, i, key, block, pairs, a, scale) ==
    LET straighten == key = "norm" /\ \A x \in DOMAIN block : ~block[x].curly
        line(n) == IF straighten THEN Straight(n) ELSE n
        placed(n, o) == IF Blank(n) THEN [n EXCEPT !.ind = 0]
                        ELSE [line(n) EXCEPT !.ind = Shift(block[o].ind, old[o].ind, n.ind, scale)]
        own(o) == IF Blank(old[o]) THEN a ELSE o
        put(o, j) == IF <<o, j>> \in pairs /\ old[o] = new[j] THEN block[o] ELSE placed(new[j], own(o))
    IN IF Guess(old, new, block, pairs) THEN {}
       ELSE {Spliced(file, i, Len(old), [j \in DOMAIN new |-> put(PlaceOf(pairs, Len(old), j), j)])}
Aligned(file, old, new, i, key, block, a) ==
    Rebuilt(file, old, new, i, key, block, Pairs([x \in DOMAIN old |-> Keyed(key, old[x])], [x \in DOMAIN new |-> Keyed(key, new[x])]), a,
            Scale(old, new, block, file, a))
InPlaceOf(file, old, new, i, key) == Aligned(file, old, new, i, key, BlockAt(file, i, old), Least(Texts(old)))
BlockReplace(file, old, new, key) ==
    IF Texts(old) # {} /\ Cardinality(Blocks(file, old, key)) = 1
    THEN InPlaceOf(file, old, new, CHOOSE i \in Blocks(file, old, key) : TRUE, key) ELSE {}

\* Line for line, each with the file's indentation and the edit's change of it.
Tolerant(file, old, new) ==
    LET i == CHOOSE x \in Blocks(file, old, "ws") : TRUE
        put(j) == LET to == file[i + j - 1].ind + new[j].ind - old[j].ind
                  IN IF Blank(new[j]) THEN [new[j] EXCEPT !.ind = 0]
                     ELSE [new[j] EXCEPT !.ind = Greatest({0, to})]
    IN IF Len(old) = Len(new) /\ Cardinality(Blocks(file, old, "ws")) = 1
       THEN {Spliced(file, i, Len(old), [j \in DOMAIN new |-> put(j)])} ELSE {}

(***************************************************************************)
(* _find_edit.                                                             *)
(***************************************************************************)
Answer(kind, text) == [kind |-> kind, text |-> text]
\* The ways tried, in their order: each with the strings as given, then without numbers.
Tiers(match) == IF match THEN <<"line", "ws", "norm">> ELSE <<"line">>
Attempts(file, old, new, match) ==
    LET pairs == <<<<old, new>>, <<Strip(old), IF Numbered(old) THEN StripFrom(new, LineStart(old)) ELSE new>>>>
        try(tier, s) == IF tier = "line" THEN Tolerant(file, s[1], s[2]) ELSE BlockReplace(file, s[1], s[2], tier)
    IN FlattenSeq([t \in DOMAIN Tiers(match) |-> [s \in 1..2 |-> try(Tiers(match)[t], pairs[s])]])

Distinctive(new) == Len(new) >= 2
Already(file, old, new) ==
    \E s \in {new, IF Numbered(old) THEN StripFrom(new, LineStart(old)) ELSE new} :
        /\ s # <<>> /\ Distinctive(s) /\ Cardinality(Blocks(file, s, "exact")) = 1
        /\ \A o \in {old, Strip(old)} : Blocks(o, s, "exact") = {}

\* All the occurrences that replace takes, one after the other.
ReplaceEach(file, old, new) ==
    LET at(i) == i \in Occurs(file, old)
        from[i \in 1..Len(file) + 1] ==
          IF i > Len(file) THEN <<>>
          ELSE IF at(i) THEN Hanging(file, i, old, new) \o from[Greatest({i + Len(old), i + 1})] ELSE <<file[i]>> \o from[i + 1]
    IN from[1]

Numbers(file, given) == Occurs(file, given) = {} /\ Strip(given) # given /\ Occurs(file, Strip(given)) # {}
Exact(file, old, new, at, replace_all) ==
    IF replace_all THEN Answer("applied", ReplaceEach(file, old, new))
    ELSE IF Cardinality(at) > 1 THEN Answer("many", file)
    ELSE LET i == CHOOSE x \in at : TRUE IN Answer("applied", Spliced(file, i, Len(old), Hanging(file, i, old, new)))
Approximate(file, given, new_given, found) ==
    IF found # <<>>
    THEN LET text == CHOOSE t \in Head(found) : TRUE IN Answer(IF text = file THEN "no change" ELSE "applied", text)
    ELSE Answer(IF Already(file, given, new_given) THEN "already" ELSE "missing", file)
Found(file, given, new_given, old, new, at, replace_all, match) ==
    IF at # {} THEN Exact(file, old, new, at, replace_all)
    ELSE Approximate(file, given, new_given,
                     IF replace_all THEN <<>> ELSE SelectSeq(Attempts(file, given, new_given, match), LAMBDA t : t # {}))
Sought(file, given, new_given, old, new, replace_all, match) ==
    Found(file, given, new_given, old, new, Occurs(file, old), replace_all, match)
FindEdit(file, given, new_given, replace_all, match) ==
    Sought(file, given, new_given, IF Numbers(file, given) THEN Strip(given) ELSE given,
           IF Numbers(file, given) THEN StripFrom(new_given, LineStart(given)) ELSE new_given, replace_all, match)

\* replace_symbol: the definition on lines i..i+k-1 keeps its place.
ReplaceSymbol(file, i, k, source) ==
    LET new == Strip(source)
        head == IF Texts(new) = {} THEN file[i].ind ELSE new[Least(Texts(new))].ind
        placed(l) == IF Blank(l) THEN [l EXCEPT !.ind = 0] ELSE [l EXCEPT !.ind = Shift(file[i].ind, head, l.ind, Ratio(1, 1))]
    IN Spliced(file, i, k, [j \in DOMAIN new |-> IF head = file[i].ind THEN new[j] ELSE placed(new[j])])

(***************************************************************************)
(* Properties.  The edit meant is block i..i+k-1 of the file to become the *)
(* lines new, written as the file writes them; the model gives both with   *)
(* the same slip in every line.                                            *)
(***************************************************************************)
Slipped(slip, lines) ==
    [j \in DOMAIN lines |-> IF Blank(lines[j]) THEN lines[j] ELSE
       CASE slip.kind = "numbers" -> [lines[j] EXCEPT !.num = slip.by + j - 1]
         [] slip.kind = "dedent" -> [lines[j] EXCEPT !.ind = @ - slip.by]
         [] slip.kind = "half" -> [lines[j] EXCEPT !.ind = @ \div 2]
         [] slip.kind = "double" -> [lines[j] EXCEPT !.ind = @ * 2]
         [] slip.kind = "curly" -> [lines[j] EXCEPT !.curly = TRUE]
         [] slip.kind = "spacing" -> [lines[j] EXCEPT !.sp = "other"]
         [] slip.kind = "flat" -> [lines[j] EXCEPT !.ind = 0]
         [] OTHER -> lines[j]]
\* A line the edit adds is spaced as the model spaces it.
Alike(a, b) == Len(a) = Len(b) /\ \A i \in DOMAIN a : [a[i] EXCEPT !.sp = ""] = [b[i] EXCEPT !.sp = ""]
\* The edit keeps the file's steps, and what the model writes is not the text
\* of another place, nor found as text without its indentation: what new_string
\* adds would stay as the model indents it.  With steps of its own, the model
\* shows them in old_string, and an edit line for line does not change them:
\* the tier that keeps the number of lines does not scale.
\* New lines are at the old depth, or below it under a line that opens a block.
Nested(old, new) ==
    \A j \in DOMAIN new : LET up == IF j = 1 THEN old[1] ELSE new[j - 1] IN
        /\ new[j].ind >= Least(Depths(old))
        /\ new[j].ind > up.ind => up.code \in Openers /\ j > 1
        /\ (j > 1 /\ new[j].ind = up.ind) => up.code \notin Openers
Fits(file, i, slip, old, new) ==
    LET given == Slipped(slip, old) IN
    /\ Unit(file) # 0 => \A l \in ToSet(file \o new) : l.ind % Unit(file) = 0
    /\ Unit(new) \in {0, Unit(file)}
    /\ Occurs(file, given) \subseteq {i} /\ (i \in Occurs(file, given) => given[1].ind = old[1].ind)
    /\ slip.kind = "dedent" => \A l \in ToSet(old \o new) : Blank(l) \/ l.ind >= slip.by
    /\ slip.kind = "half" => \A l \in ToSet(old \o new) : l.ind % 2 = 0
    /\ slip.kind \in {"half", "double"} =>
         Cardinality(Depths(old)) > 1 /\ (Len(old) = Len(new) => \A j \in DOMAIN old : old[j].ind = new[j].ind)
    /\ slip.kind = "flat" => Occurs(file, given) = {} /\ Len(old) # Len(new) /\ Nested(old, new)

Meant(file, i, k, new) == Spliced(file, i, k, new)
Made(file, i, k, new, slip) ==
    FindEdit(file, Slipped(slip, SubSeq(file, i, i + k - 1)), Slipped(slip, new), FALSE, TRUE)

Harmless(made, meant) == made.kind = "applied" => Alike(made.text, meant)
\* A slip that is the same in every line never puts the change elsewhere or at
\* another depth: the edit meant is made, or nothing is (editing.py:267-417).
SlipHarmless(file, i, k, new, slip) ==
    Fits(file, i, slip, SubSeq(file, i, i + k - 1), new) => Harmless(Made(file, i, k, new, slip), Meant(file, i, k, new))

\* A definition written at another depth replaces the old one at the depth the
\* file has it, its inside moved with it (editing.py:1246-1268).
SymbolInPlace(file, i, k, new, slip) ==
    /\ new # <<>> /\ ~Blank(new[1]) /\ new[1].ind = file[i].ind /\ slip.kind \in {"none", "numbers", "dedent"}
    /\ slip.kind = "dedent" => \A l \in ToSet(new) : Blank(l) \/ l.ind >= slip.by
    => ReplaceSymbol(file, i, k, Slipped(slip, new)) = Meant(file, i, k, [j \in DOMAIN new |-> IF Blank(new[j]) THEN [new[j] EXCEPT !.ind = 0] ELSE new[j]])
=============================================================================
