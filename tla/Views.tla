-------------------------------- MODULE Views --------------------------------
(***************************************************************************)
(* What the model sees of a command's output (the views of run_store.py,   *)
(* picked by tools/shell.py log_view) and the user of a reply.             *)
(*                                                                         *)
(* A line is [len, hit, pass, text, mask]: its length, whether it mentions *)
(* trouble, whether a test runner printed it for a pass, and what it reads *)
(* with and without its numbers.  A view says which lines it shows and     *)
(* which ones its notes name; the wording of a note has a constant length. *)
(***************************************************************************)
EXTENDS Integers, SequencesExt, FiniteSetsExt

CONSTANTS
  NOTE,              \* what _room keeps for a note
  LONGER,            \* what default_view keeps for its longer one
  NUMBER,            \* the characters of a line number and its colon
  COLLAPSED,         \* the characters of a note of compact
  COMPACT_MIN_SAVED

\* The characters of lines a..b, each with its end of line.
Size(lines, a, b) == FoldLeft(LAMBDA n, l : n + l.len + 1, 0, SubSeq(lines, a, b))
Chars(lines) == Size(lines, 1, Len(lines)) - 1
Hits(lines) == {i \in 1..Len(lines) : lines[i].hit}

\* _fit_head, _fit_tail: how many lines fit in budget; one that is too long is cut.
Fit(lines, budget) ==
  IF lines = <<>> \/ budget <= 0 THEN 0
  ELSE Max({1} \cup {n \in 1..Len(lines) : Size(lines, 1, n) <= budget})
FitHead(lines, budget) == Fit(lines, budget)
FitTail(lines, budget) == Fit(Reverse(lines), budget)
After(lines, n) == SubSeq(lines, n + 1, Len(lines))

Room(limit, how) == Max({limit \div 2, limit - how - NOTE})

\* A cut view: lines 1..head, the named rows of the gap, and the last tail lines.
Cut(head, rows, tail, more) == [head |-> head, rows |-> rows, tail |-> tail, more |-> more]
Whole(lines) == Cut(Len(lines), {}, 0, FALSE)
Shows(v, lines) == 1..v.head \cup v.rows \cup (Len(lines) - v.tail + 1)..Len(lines)

Window(lines, limit, how) ==
  LET room == Room(limit, how)
      head == FitHead(lines, room \div 4)
  IN IF limit = 0 \/ Chars(lines) <= limit THEN Whole(lines)
     ELSE Cut(head, {}, FitTail(After(lines, head), room - room \div 4), FALSE)

\* The leading rows of the middle that fit.
RowSize(lines, i) == Min({NUMBER + lines[i].len, 301}) + 1
RowsFit(lines, middle, budget) ==
  {i \in middle :
     MapThenSumSet(LAMBDA k : RowSize(lines, k), {k \in middle : k <= i}) <= budget}

\* The trouble lines of the gap the rows do not name.
Rest(hits, shown) == hits \ shown # {}

DefaultView(lines, limit, how) ==
  LET room   == Room(limit, how) - LONGER
      head   == FitHead(lines, (room * 15) \div 100)
      half   == room \div 2
      middle == {i \in Hits(lines) : i > head /\
                   i <= Len(lines) - FitTail(After(lines, head), half)}
      budget == room - (room * 15) \div 100 - half
      rows   == RowsFit(lines, middle, budget)
      used   == MapThenSumSet(LAMBDA k : RowSize(lines, k), rows)
      tail   == FitTail(After(lines, head), half + budget - used)
      end    == Len(lines) - tail
      shown  == {i \in rows : i <= end}
      rest   == Rest({i \in Hits(lines) : i > head /\ i <= end}, shown)
  IN IF limit = 0 \/ Chars(lines) <= limit THEN Whole(lines)
     ELSE IF middle = {} THEN Window(lines, limit, how)
     ELSE IF shown = {} THEN [Window(lines, limit, how) EXCEPT !.more = rest]
     ELSE Cut(head, shown, tail, rest)

-----------------------------------------------------------------------------
(* compact: runs of redundant lines become a note *)

RunEnd(lines, i, Same(_)) ==
  Max({j \in i..Len(lines) : \A k \in (i + 1)..j : Same(lines[k])})

\* The runs that start at i, in the order they are tried: the lines that stay and those
\* the note stands for.
Passing(lines, i) ==
  LET Pass(l) == l.pass /\ ~l.hit
      j == RunEnd(lines, i, Pass)
  IN IF Pass(lines[i]) /\ j - i + 1 >= 5 THEN {[kept |-> {}, gone |-> i..j]} ELSE {}
Repeated(lines, i) ==
  LET j == RunEnd(lines, i, LAMBDA l : l.text = lines[i].text)
  IN IF j - i + 1 >= 3 THEN {[kept |-> {i}, gone |-> (i + 1)..j]} ELSE {}
Similar(lines, i) ==
  LET j == RunEnd(lines, i, LAMBDA l : l.mask = lines[i].mask)
  IN IF j - i + 1 >= 4 THEN {[kept |-> {i, j}, gone |-> (i + 1)..(j - 1)]} ELSE {}

\* A note is only written when it is shorter than the lines it stands for.
Shorter(lines, c) == COLLAPSED + 1 < MapThenSumSet(LAMBDA k : lines[k].len + 1, c.gone)

First(S, T, U) == IF S # {} THEN S ELSE IF T # {} THEN T ELSE U

CompactStep(lines, st) ==
  LET i == st.next
      Ok(S) == {c \in S : Shorter(lines, c)}
      best == First(Ok(Passing(lines, i)), Ok(Repeated(lines, i)), Ok(Similar(lines, i)))
  IN IF i > Len(lines) THEN st
     ELSE IF best = {} THEN [st EXCEPT !.next = i + 1, !.shown = @ \cup {i}]
     ELSE LET c == CHOOSE c \in best : TRUE
          IN [next |-> Max(c.kept \cup c.gone) + 1, shown |-> st.shown \cup c.kept,
              notes |-> st.notes \cup {c.gone}, saved |-> st.saved + Cardinality(c.gone) - 1]

Compact(lines) ==
  LET all == FoldLeft(LAMBDA st, k : CompactStep(lines, st),
                      [next |-> 1, shown |-> {}, notes |-> {}, saved |-> 0],
                      [k \in 1..Len(lines) |-> k])
  IN IF all.saved >= COMPACT_MIN_SAVED THEN all
     ELSE [all EXCEPT !.shown = 1..Len(lines), !.notes = {}]

-----------------------------------------------------------------------------
(* The parts the model asks for *)

-----------------------------------------------------------------------------
(* A reply in the terminal (md_render.py): fences, tables and the rest.  A  *)
(* line is [kind, id, cells]; a cell is [id, w, kind] with what it says, the *)
(* width and whether it is "empty", a "word", a "num" or "dashes" with their *)
(* colons (side: "left", "right", "center").                                 *)

Separator(row) == row.cells # <<>> /\ \A i \in 1..Len(row.cells) : row.cells[i].kind \in {"empty", "dashes"}
NoCell == [id |-> 0, w |-> 0, kind |-> "empty", side |-> "left"]

\* _parse_table: each row shown as its cells with what pads them left and right.
Sides(seps) == FlattenSeq([k \in 1..Len(seps) |-> [c \in 1..Len(seps[k].cells) |-> seps[k].cells[c].side]])
Laid(parsed, ncols, seps, sides) ==
  LET Cell(i, c) == IF c <= Len(parsed[i].cells) THEN parsed[i].cells[c] ELSE NoCell
      width(c) == Max({Cell(i, c).w : i \in 1..Len(parsed)})
      data   == (IF Len(parsed) > 1 THEN 2 ELSE 1)..Len(parsed)
      filled(c) == {i \in data : Cell(i, c).kind # "empty"}
      Side(i, c) == IF seps # <<>> /\ i = 1 THEN "center"
                    ELSE IF seps # <<>> THEN IF c <= Len(sides) THEN sides[c] ELSE "left"
                    ELSE IF filled(c) # {} /\ \A k \in filled(c) : Cell(k, c).kind = "num" THEN "right" ELSE "left"
      Left(side, free) == CASE side = "right" -> free [] side = "center" -> free \div 2 [] OTHER -> 0
      Shown(i) == [id |-> parsed[i].id,
                   cells |-> [c \in 1..ncols |-> [id |-> Cell(i, c).id, before |-> Left(Side(i, c), width(c) - Cell(i, c).w), room |-> width(c)]]]
  IN [i \in 1..Len(parsed) |-> Shown(i)]
Table(rows, parsed, seps) ==
  IF parsed = <<>> THEN [i \in 1..Len(rows) |-> [id |-> rows[i].id, cells |-> <<>>]]
  ELSE Laid(parsed, Max({Len(parsed[i].cells) : i \in 1..Len(parsed)}), seps, Sides(seps))
ParseTable(rows) == Table(rows, SelectSeq(rows, LAMBDA r : ~Separator(r)), SelectSeq(rows, Separator))

Flushed(acc) == IF acc.table = <<>> THEN acc
                ELSE [acc EXCEPT !.out = @ \o ParseTable(acc.table), !.table = <<>>]
Put(acc, line) == [acc EXCEPT !.out = Append(@, [id |-> line.id, cells |-> <<>>])]
Opened(acc) == [Flushed(acc) EXCEPT !.code = TRUE]
\* process, for a line: fence lines are not shown; all other text of a line is, wrapped.
Rendered(acc, line) ==
  CASE line.kind = "fence" -> IF acc.code THEN [acc EXCEPT !.code = FALSE] ELSE Opened(acc)
    [] line.kind # "fence" /\ acc.code -> Put(acc, line)
    [] line.kind = "row" /\ ~acc.code -> [acc EXCEPT !.table = Append(@, line)]
    [] line.kind = "text" /\ ~acc.code -> Put(Flushed(acc), line)
Process(lines) == Flushed(FoldLeft(Rendered, [out |-> <<>>, table |-> <<>>, code |-> FALSE], lines)).out

-----------------------------------------------------------------------------
(* Properties *)

\* A cut view names the lines it leaves out: what is before its gap and after it is
\* shown, nothing twice, and the rows are of the gap (run_store.py:282, 308).
GapIsNamed(v, lines) ==
  /\ v.head + v.tail <= Len(lines)
  /\ v.rows \subseteq (v.head + 1)..(Len(lines) - v.tail)

\* A view that hides a line that mentions trouble says so, so that the footer tells
\* how to list it ("more_trouble: some trouble lines are still not shown",
\* run_store.py:315).
TroubleTold(v, lines) == Hits(lines) \subseteq Shows(v, lines) \/ v.more
TroubleToldByRows(v, lines) == v.rows # {} => TroubleTold(v, lines)

\* What compact leaves out is in a note that names its lines in the log, and a line
\* that mentions trouble only goes when one that differs in its numbers at most stays.
CompactKeeps(c, lines) ==
  /\ c.shown \cup UNION c.notes = 1..Len(lines)
  /\ \A i \in Hits(lines) : \E k \in c.shown : lines[k].mask = lines[i].mask

\* A reply is shown whole and in its order: every line but the fences and the lines that only draw a table, and
\* every cell of a row under the column it is in.
ReplyIsShown(lines, out) ==
  LET Quoted(i) == Cardinality({j \in 1..(i - 1) : lines[j].kind = "fence"}) % 2 = 1
      Said(i) == lines[i].kind # "fence" /\ (lines[i].kind = "row" /\ ~Quoted(i) => lines[i].data)
      said == {i \in 1..Len(lines) : Said(i)}
  IN /\ SelectSeq([k \in 1..Len(out) |-> out[k].id], LAMBDA i : i \in said) = SetToSortSeq(said, <)
     /\ \A k \in 1..Len(out) : \A c \in 1..Len(lines[out[k].id].cells) :
          out[k].cells # <<>> => out[k].cells[c].id = lines[out[k].id].cells[c].id
=============================================================================
