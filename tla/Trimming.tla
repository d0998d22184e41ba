------------------------------ MODULE Trimming ------------------------------
(***************************************************************************)
(* What is kept of a conversation that grows too long.                     *)
(* /think-keep (think_trim.py): what of a thought is sent back with the    *)
(* call it led to: the plan's steps, then from the end whole paragraphs,   *)
(* the one where the room runs out cut to its last whole sentences; code   *)
(* whole or not at all, or a pointer to the call that repeats it.          *)
(*                                                                         *)
(* A line has a kind and a length: a line of prose is one sentence.  What  *)
(* is sent is the plan steps and the pieces of the tail, each with its     *)
(* lines and its length.                                                   *)
(***************************************************************************)
EXTENDS Integers, Sequences, FiniteSets, SequencesExt, FiniteSetsExt, Functions

CONSTANTS Pointer,           \* length of "[repeated in the … call below]"
          MAX_REQUESTS,      \* requests kept: the first two and the newest
          MAX_COMMANDS

Fence(line) == line.kind = "fence"
Blank(line) == line.kind = "blank"
Total(lens) == FoldFunctionOnSet(+, 0, lens, DOMAIN lens)
Joined(lens, gap) == Total(lens) + gap * (IF lens = << >> THEN 0 ELSE Len(lens) - 1)
Lens(lines) == [i \in DOMAIN lines |-> lines[i].n]
Chars(lines) == Joined(Lens(lines), 1)

\* _paragraphs: blank lines separate, but not within a fence.
Fenced(lines, a, i) == Cardinality({j \in a .. i - 1 : Fence(lines[j])}) % 2 = 1
EndOf(lines, a) == Min({j \in a .. Len(lines) : Blank(lines[j]) /\ ~Fenced(lines, a, j)} \cup {Len(lines) + 1})
RECURSIVE ParagraphsFrom(_, _)
ParagraphsFrom(lines, i) ==
    IF i > Len(lines) THEN << >>
    ELSE IF Blank(lines[i]) THEN ParagraphsFrom(lines, i + 1)
    ELSE <<[from |-> i, to |-> EndOf(lines, i)]>> \o ParagraphsFrom(lines, EndOf(lines, i))
Paragraphs(lines) == ParagraphsFrom(lines, 1)

\* The plan's steps outside code, in order.
Candidates(lines) ==
    SelectSeq([i \in DOMAIN lines |-> i], LAMBDA i : lines[i].kind = "step" /\ ~Fenced(lines, 1, i))
StepsBefore(lines, end, limit) ==
    FoldLeft(LAMBDA out, i : IF i < end /\ Total([k \in DOMAIN out |-> lines[out[k]].n + 1]) + lines[i].n <= limit \div 2
                             THEN Append(out, i) ELSE out, << >>, Candidates(lines))
Room(lines, steps, limit) == limit - Total([k \in DOMAIN steps |-> lines[steps[k]].n + 1])

\* _closing: the last sentences of the prose lines (by number) that fit; with force the last one, its end if need be.
\* A cut text takes no more than its room; without room what is left of it is the mark of the cut.
Closing(lines, prose, limit, force) ==
    LET Grown(out, i) == IF out.full \/ (out.used + lines[i].n + 1 > limit /\ (out.taken # << >> \/ ~force))
                         THEN [out EXCEPT !.full = TRUE]
                         ELSE [out EXCEPT !.taken = <<i>> \o @, !.used = @ + lines[i].n + 1]
        taken == FoldLeft(Grown, [taken |-> << >>, used |-> 0, full |-> FALSE], Reverse(prose)).taken
        n == Joined([k \in DOMAIN taken |-> lines[taken[k]].n], 1)
    IN IF n <= limit THEN [lines |-> ToSet(taken), n |-> n, code |-> FALSE]
       ELSE [lines |-> ToSet(taken), n |-> IF limit < 0 THEN 1 ELSE limit + 1, code |-> FALSE]

\* _point_at_call
CodePiece(lines, p) ==
    [lines |-> p.from .. p.to - 1, code |-> TRUE,
     n |-> IF lines[p.from].repeated THEN Pointer ELSE Chars(SubSeq(lines, p.from, p.to - 1))]
\* _tail: the pieces from the end, and the line before which plan steps can still be sent.
RECURSIVE TailFrom(_, _, _, _, _, _)
TailFrom(lines, paras, k, limit, kept, used) ==
    IF k = 0 THEN [kept |-> kept, end |-> 0]
    ELSE LET p == paras[k]
             block == SubSeq(lines, p.from, p.to - 1)
             code == CodePiece(lines, p)
             prose == SelectSeq([i \in 1 .. Len(block) |-> p.from + i - 1], LAMBDA i : lines[i].kind # "step")
             part == Closing(lines, prose, limit - used, kept = << >>)
             whole == [lines |-> p.from .. p.to - 1, code |-> FALSE, n |-> Chars(block)]
         IN IF Fence(lines[p.from])
            THEN IF kept # << >> /\ used + code.n > limit THEN [kept |-> kept, end |-> p.to]
                 ELSE TailFrom(lines, paras, k - 1, limit, <<code>> \o kept, used + code.n + 2)
            ELSE IF used + whole.n > limit
            THEN [kept |-> IF prose # << >> /\ part.n > 0 THEN <<part>> \o kept ELSE kept, end |-> p.to]
            ELSE TailFrom(lines, paras, k - 1, limit, <<whole>> \o kept, used + whole.n + 2)
TailOf(lines, limit) == TailFrom(lines, Paragraphs(lines), Len(Paragraphs(lines)), limit, << >>, 0)

\* trim, of a thought longer than its budget: [all], or the steps and the tail.  The steps take their room
\* first; the tail is laid out once more with what its own steps free.
Pass(lines, steps, limit) == [steps |-> steps, tail |-> TailOf(lines, Room(lines, steps, limit))]
Again(lines, limit, pass) == [pass EXCEPT !.steps = StepsBefore(lines, pass.tail.end, limit)]
Laid(lines, limit, first, inside) ==
    IF Len(inside) < Len(first.steps) THEN Again(lines, limit, Pass(lines, inside, limit)) ELSE first
Sent(lines, steps, tail) ==
    Joined((IF steps = << >> THEN << >> ELSE <<Joined([k \in DOMAIN steps |-> lines[steps[k]].n], 1)>>)
           \o [k \in DOMAIN tail |-> tail[k].n], 2)
Worthwhile(paras, lines, limit, n, kept) ==
    /\ n - limit >= n \div 4
    /\ paras # << >> /\ ~(Len(paras) = 1 /\ Fence(lines[paras[1].from]))
    /\ n - kept >= n \div 4
Chosen(lines, limit, laid, n, kept) ==
    IF Worthwhile(Paragraphs(lines), lines, limit, n, kept)
    THEN [all |-> FALSE, steps |-> laid.steps, tail |-> laid.tail.kept, n |-> kept]
    ELSE [all |-> TRUE, steps |-> << >>, tail |-> << >>, n |-> n]
LaidOut(lines, limit, first) == Laid(lines, limit, first, StepsBefore(lines, first.tail.end, limit))
Measured(lines, limit, laid) == Chosen(lines, limit, laid, Chars(lines), Sent(lines, laid.steps, laid.tail.kept))
Trim(lines, limit) ==
    Measured(lines, limit, LaidOut(lines, limit, Pass(lines, StepsBefore(lines, Len(lines) + 1, limit), limit)))

-----------------------------------------------------------------------------
(* What is stated of t, what is sent of the lines of a thought. *)

\* No line is sent twice, and a plan step is sent before the tail that it comes before: the thought sent is
\* the thought with gaps.
InOrderOnce(t) ==
    ~t.all => /\ \A i, j \in DOMAIN t.tail : i < j => \A a \in t.tail[i].lines, b \in t.tail[j].lines : a < b
              /\ \A i \in DOMAIN t.steps : \A j \in DOMAIN t.tail : \A b \in t.tail[j].lines : t.steps[i] < b

\* What is sent is no longer than its budget, but for what is between its pieces, and the code the thought ends with,
\* which is never cut.
WithinBudget(lines, limit, t) ==
    ~t.all => t.n <= limit + 2 * (Len(t.tail) + 1) \/ Fence(lines[Last(Paragraphs(lines)).from])

\* "The last sentence is always kept", unless the thought ends with steps.
EndIsKept(lines, t) ==
    LET last == Max({i \in DOMAIN lines : ~Blank(lines[i])})
    IN ~t.all /\ lines[last].kind # "step" => \E i \in DOMAIN t.tail : last \in t.tail[i].lines

-----------------------------------------------------------------------------
(***************************************************************************)
(* The facts a compaction keeps of what it drops (compaction.py,           *)
(* merge_facts): the user's requests, the files the tools touched and the  *)
(* commands run, read off the dropped messages and merged into those of    *)
(* the compactions before.                                                 *)
(***************************************************************************)
New == [requests |-> << >>, elided |-> 0, modified |-> << >>, moved |-> << >>, deleted |-> << >>, read |-> << >>, commands |-> << >>]

\* _add: moved to the end when it is there already.
Added(list, x) == Append(SelectSeq(list, LAMBDA y : y # x), x)
Without(list, x) == SelectSeq(list, LAMBDA y : y # x)

(***************************************************************************)
(* Messages: [role "user", text], [role "assistant", calls], [role "tool", *)
(* result].  A call is [name, path, dst]: of run_command the path is the   *)
(* command.  A result is "ok", "unchanged" (No change), "error", "fails"   *)
(* (another exit code), "background"; "none" when it is not there.         *)
(***************************************************************************)
\* _paired_calls: results follow their message in the order of its calls.
Paired(ms) ==
    LET Late(pending) == [i \in DOMAIN pending |-> <<pending[i], "none">>]
        Step(acc, m) ==
            CASE m.role = "assistant" -> [pending |-> m.calls, out |-> acc.out \o Late(acc.pending)]
              [] m.role = "tool" /\ acc.pending # << >> ->
                   [pending |-> Tail(acc.pending), out |-> Append(acc.out, <<Head(acc.pending), m.result>>)]
              [] OTHER -> acc
        end == FoldLeft(Step, [pending |-> << >>, out |-> << >>], ms)
    IN end.out \o Late(end.pending)

Elided(st, all, cut) ==
    [st EXCEPT !.requests = SubSeq(all, 1, IF cut = 0 THEN 0 ELSE 2) \o SubSeq(all, IF cut = 0 THEN 1 ELSE 3 + cut, Len(all)),
               !.elided = @ + cut]
Asking(st, asks) ==
    LET all == st.requests \o [i \in DOMAIN asks |-> asks[i].text]
    IN Elided(st, all, IF Len(all) > MAX_REQUESTS THEN Len(all) - MAX_REQUESTS ELSE 0)
Requests(st, ms) == Asking(st, SelectSeq(ms, LAMBDA m : m.role = "user"))

Failing(status) == status \in {"error", "fails"}
Command(st, cmd, status) ==
    LET before == {i \in DOMAIN st.commands : st.commands[i].cmd = cmd}
        failed == \E i \in before : st.commands[i].failed \/ Failing(st.commands[i].status)
    IN [st EXCEPT !.commands = Append(SelectSeq(@, LAMBDA c : c.cmd # cmd),
                                      [cmd |-> cmd, status |-> status, failed |-> failed /\ status = "ok"])]
Written(st, p) == [st EXCEPT !.read = Without(@, p), !.deleted = Without(@, p), !.modified = Added(@, p)]
Deleted(st, p) == [st EXCEPT !.read = Without(@, p), !.modified = Without(@, p), !.deleted = Added(@, p)]
Taken(list, src, dst) == IF src \in ToSet(list) THEN Added(Without(list, src), dst) ELSE list
Moved(st, src, dst) ==
    [st EXCEPT !.read = Taken(@, src, dst), !.modified = Taken(@, src, dst), !.moved = Added(@, <<src, dst>>)]
Read(st, p) == IF p \in ToSet(st.modified) THEN st ELSE [st EXCEPT !.read = Added(@, p)]
Call(st, pair) ==
    LET c == pair[1]  result == pair[2]
    IN IF c.name = "run" THEN Command(st, c.path, result)
       ELSE IF result \in {"none", "error", "unchanged"} THEN st
       ELSE CASE c.name = "write" -> Written(st, c.path)
              [] c.name = "delete" -> Deleted(st, c.path)
              [] c.name = "move" -> Moved(st, c.path, c.dst)
              [] c.name = "read" -> Read(st, c.path)
\* merge_facts
Newest(st, n) == [st EXCEPT !.commands = SubSeq(@, IF Len(@) > n THEN Len(@) - n + 1 ELSE 1, Len(@))]
Merge(st, ms) == Newest(FoldLeft(Call, Requests(st, ms), Paired(ms)), MAX_COMMANDS)

\* What the calls did to the files, from those that were there.
Disk(files, ms) ==
    FoldLeft(LAMBDA d, pair : IF pair[2] # "ok" THEN d
                              ELSE CASE pair[1].name = "write" -> d \cup {pair[1].path}
                                     [] pair[1].name = "delete" -> d \ {pair[1].path}
                                     [] pair[1].name = "move" -> (d \ {pair[1].path}) \cup {pair[1].dst}
                                     [] OTHER -> d, files, Paired(ms))

\* The summary does not mislead about files: what it says is modified or was read is there, what it says is
\* deleted is not, and nothing is in two of these lists.
FilesAreTrue(st, disk) ==
    /\ ToSet(st.modified) \cup ToSet(st.read) \subseteq disk
    /\ ToSet(st.deleted) \cap disk = {}
    /\ ToSet(st.modified) \cap ToSet(st.read) = {}

\* The facts of the messages dropped in two compactions, the first of them of k.
InTwo(ms, k) == Merge(Merge(New, SubSeq(ms, 1, k)), SubSeq(ms, k + 1, Len(ms)))

\* It does not matter how many compactions dropped the messages: merged in two steps they give the facts that
\* they give at once, but for the note that a command, long out of the list, had failed before.
StepsAgree(once, twice) ==
    LET Listed(st) == [i \in DOMAIN st.commands |-> <<st.commands[i].cmd, st.commands[i].status>>]
    IN [once EXCEPT !.commands = << >>] = [twice EXCEPT !.commands = << >>] /\ Listed(once) = Listed(twice)
=============================================================================
