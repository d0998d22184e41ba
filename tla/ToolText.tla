------------------------------ MODULE ToolText ------------------------------
(***************************************************************************)
(* Tool calls a model writes into its reply's text (toolcall_text.py).     *)
(* Many local models do, in a dozen forms.  A call in one of the tagged    *)
(* formats is run wherever it stands; one written as Python, as arguments  *)
(* in a code fence, as a tag with attributes or as bare JSON only when it  *)
(* ends the reply, since an answer may well show one.  What is read is     *)
(* cut from the text, and the rest is the reply the history keeps.         *)
(*                                                                         *)
(* A reply is a sequence of segments.  A segment has a kind; the name and  *)
(* the keys the call's object gives (wrap: under an "arguments" key, with  *)
(* the keys beside it in outside); how well the object reads (json); and   *)
(* whether its closing tag, fence or parenthesis is there.                 *)
(***************************************************************************)
EXTENDS Integers, FiniteSets, Sequences, SequencesExt

CONSTANTS Offered   \* the offered tools: name -> [props, required], the argument names

Known == DOMAIN Offered
Call(name, args) == [name |-> name, args |-> args]
Min2(S) == CHOOSE x \in S : \A y \in S : x <= y

(***************************************************************************)
(* Reading one object.                                                     *)
(***************************************************************************)
Strict(s) == s.json = "good"
\* A payload the reply ends in may be cut off: only a closed one is completed.
\* Mutant of Lenient: what is left open is closed whatever follows.
LenientAlways(s, closed) == s.json \in {"good", "slip", "open"}
Lenient(s, closed) == s.json \in {"good", "slip"} \/ (s.json = "open" /\ closed)

\* {"name": ..., "arguments": {...}}; the arguments key must be there.
AcceptFull(s) == IF s.wrap /\ s.name \in Known THEN {Call(s.name, s.args)} ELSE {}
AcceptArgs(s) == IF s.name \in Known THEN {Call(s.name, s.args)} ELSE {}

\* An object with no known name: its arguments, and what slipped out of them;
\* the keys stand for the one tool that has them all and needs no more.
Unwrapped(s) == IF s.wrap THEN s.args \cup s.outside ELSE s.args \cup (IF s.name = "" THEN {} ELSE {"name"})
Nameless(s) ==
    LET keys == Unwrapped(s)
        fits == {t \in Known : keys \subseteq Offered[t].props /\ Offered[t].required \subseteq keys}
    IN CASE "content" \in keys /\ "write_file" \in Known -> {Call("write_file", keys \cap {"path", "content"})}
         [] OTHER -> IF keys # {} /\ Cardinality(fits) = 1 THEN {Call(t, keys) : t \in fits} ELSE {}
NamelessUnlessKnown(s) == IF s.name \in Known THEN {} ELSE Nameless(s)

(***************************************************************************)
(* The tagged formats, in the order they are looked for.                   *)
(***************************************************************************)
Formats == <<"phi", "functioncall", "deepseek", "mistral", "command_r", "tool_call">>
Ended == {"functioncall", "deepseek", "mistral"}      \* a closing mark belongs to the format
At(r, kind) == {i \in DOMAIN r : r[i].kind = kind}

\* A pattern with a closing mark runs from an opening to the first closing.
\* Where one is missing, the next call's is taken, and the text between.
Closing(r, kind, i) == {j \in At(r, kind) : j >= i /\ r[j].closed}
Swallowed(r, kind, i) == \E k \in At(r, kind) : k < i /\ Closing(r, kind, k) = Closing(r, kind, i)
Spans(r, kind) ==
    {<<i, Min2(Closing(r, kind, i))>> : i \in {i \in At(r, kind) : Closing(r, kind, i) # {} /\ ~Swallowed(r, kind, i)}}

Whole(r, kind, i) == Strict(r[i]) /\ (kind \in Ended => <<i, i>> \in Spans(r, kind))

\* A <tool_call> payload ends at its closing tag, at the next call or with
\* the reply, and nothing else may stand in it.
PayloadEnd(r, i) ==
    LET next == {j \in At(r, "tool_call") \cup At(r, "call") : j > i}
    IN IF r[i].closed THEN i ELSE IF next = {} THEN Len(r) ELSE Min2(next) - 1
Payload(r, i) ==
    IF PayloadEnd(r, i) = i /\ Lenient(r[i], r[i].closed \/ i < Len(r))
    THEN IF AcceptFull(r[i]) # {} THEN AcceptFull(r[i]) ELSE NamelessUnlessKnown(r[i])
    ELSE {}

TaggedHit(r, kind, i) ==
    CASE kind = "tool_call" -> Payload(r, i)
      [] kind \in {"deepseek", "command_r"} -> IF Whole(r, kind, i) THEN AcceptArgs(r[i]) ELSE {}
      [] OTHER -> IF Whole(r, kind, i) THEN AcceptFull(r[i]) ELSE {}

\* Each call once, where it is first met.
Once(calls) == FoldLeft(LAMBDA out, c : IF c \in ToSet(out) THEN out ELSE Append(out, c), <<>>, calls)

\* The hits at the segments ids, in the order written.
InOrder(ids, Hit(_)) == FlattenSeq([n \in 1..Cardinality(ids) |->
    SetToSeq(Hit(CHOOSE i \in ids : Cardinality({j \in ids : j < i}) = n - 1))])

Payloads(r) == At(r, "tool_call") \cup At(r, "call")
TaggedCalls(r) ==
    Once(FlattenSeq([f \in DOMAIN Formats |->
        InOrder(IF Formats[f] = "tool_call" THEN Payloads(r) ELSE At(r, Formats[f]),
                LAMBDA i : TaggedHit(r, Formats[f], i))]))

\* _strip_text_tool_calls: the markup that goes whether its call was read or not.
Without(r, kept) == LET ids == {i \in DOMAIN r : kept[i]} IN InOrder(ids, LAMBDA i : {r[i]})
OutOfSpans(r, spans) == Without(r, [i \in DOMAIN r |-> \A s \in spans : i < s[1] \/ i > s[2]])
StripOne(r, kind) ==
    OutOfSpans(r, IF kind \in {"phi", "command_r"} THEN {<<i, i>> : i \in {i \in At(r, kind) : Strict(r[i])}}
                  ELSE Spans(r, kind))
Strip(r) == FoldLeft(StripOne, r, <<"tool_call", "functioncall", "mistral", "deepseek", "phi", "command_r">>)

(***************************************************************************)
(* The untagged forms: candidates, and those of them that end the reply.   *)
(* Segment i stands at 10 * i .. 10 * i + 9; a call in a string argument   *)
(* of a Python call stands inside it.                                      *)
(***************************************************************************)
Candidate(call, first, last) == [call |-> call, first |-> first, last |-> last]
Cands(i, calls) == {Candidate(c, 10 * i, 10 * i + 9) : c \in calls}

\* read_file("a"): parsed as Python; one that gives no argument is a mention.
PythonHit(s) == IF s.kind = "python" /\ s.closed /\ s.json = "good" /\ s.args # {} THEN AcceptArgs(s) ELSE {}
PythonCands(r) ==
    UNION {Cands(i, PythonHit(r[i]))
           \cup UNION {{Candidate(c, 10 * i + 3, 10 * i + 6) : c \in PythonHit(q)} : q \in r[i].inner} : i \in DOMAIN r}
\* ```json {...} ``` with the arguments alone.
FenceCands(r) ==
    UNION {Cands(i, IF Lenient(r[i], r[i].closed) THEN NamelessUnlessKnown(r[i]) ELSE {}) : i \in At(r, "fence")}
\* <read_file path="a"/>
AttributeCands(r) == UNION {Cands(i, IF r[i].args # {} THEN AcceptArgs(r[i]) ELSE {}) : i \in At(r, "attributes")}

\* The object of any segment that is written {"name": ..., "arguments": ...}.
Objects(r) == {i \in DOMAIN r : /\ r[i].kind \in {"json", "fence", "call", "tool_call", "functioncall", "mistral", "phi"}
                                 /\ r[i].wrap /\ r[i].name \in Known}

\* In a tag that could not be read, the object is the call, without the tag.
JsonCand(r, i) ==
    {[c EXCEPT !.first = @ + (IF r[i].kind \in {"json", "fence"} THEN 0 ELSE 3)] : c \in Cands(i, AcceptFull(r[i]))}
\* Bare JSON: from 300 characters before each mention of a tool, the first
\* object that is a call of it.
MentionsAt(r) == {i \in DOMAIN r : r[i].name \in Known}
WindowStart(r, i) == LET far == {j \in 1..(i - 1) : r[j].kind = "long"} IN 1 + (IF far = {} THEN 0 ELSE CHOOSE j \in far : \A k \in far : j >= k)
JsonCands(r) ==
    UNION {LET found == {j \in Objects(r) : j >= WindowStart(r, i) /\ Strict(r[j]) /\ r[j].name = r[i].name}
           IN IF found = {} THEN {} ELSE JsonCand(r, Min2(found)) : i \in MentionsAt(r)}

AllCands(r) ==
    LET Or(first, second) == IF first # {} THEN first ELSE second
    IN Or(PythonCands(r) \cup FenceCands(r) \cup AttributeCands(r), JsonCands(r))

\* _only_closing
OnlyClosing(r, last, cursor) ==
    last % 10 = 9 /\ cursor % 10 = 0 /\ \A j \in DOMAIN r : 10 * j > last /\ 10 * j < cursor => r[j].kind = "closing"

\* _trailing: walking back from the end.
Trailing(r, cands) ==
    LET step(st, c) ==
          CASE st.over \/ c.last > st.cursor -> st
            [] ~st.over /\ c.last <= st.cursor /\ OnlyClosing(r, c.last, st.cursor) ->
                 [st EXCEPT !.kept = <<c>> \o @, !.cursor = c.first]
            [] OTHER -> [st EXCEPT !.over = TRUE]
    IN FoldLeft(step, [kept |-> <<>>, cursor |-> 10 * Len(r) + 10, over |-> FALSE],
                SetToSortSeq(cands, LAMBDA a, b : a.last > b.last)).kept

(***************************************************************************)
(* recover_text_calls: the calls, and the text that is left.               *)
(***************************************************************************)
ReadPayloads(r) == {<<i, i>> : i \in {i \in Payloads(r) : TaggedHit(r, "tool_call", i) # {}}}
Left(r, cut) ==
    OutOfSpans([i \in DOMAIN r |-> IF 10 * i + 3 \in cut THEN [r[i] EXCEPT !.kind = "opening"] ELSE r[i]],
               {<<i, i>> : i \in {i \in DOMAIN r : 10 * i \in cut}})
Untagged(r, kept) ==
    [calls |-> Once([i \in DOMAIN kept |-> kept[i].call]), rest |-> Left(r, {kept[i].first : i \in DOMAIN kept})]
Recovered(r, tagged) ==
    IF tagged # <<>> THEN [calls |-> tagged, rest |-> Strip(OutOfSpans(r, ReadPayloads(r)))]
    ELSE Untagged(r, Trailing(r, AllCands(r)))
Recover(r) == Recovered(r, TaggedCalls(r))

(***************************************************************************)
(* A reply the output limit cut off, and a call nothing could read.        *)
(***************************************************************************)
CallStarts == {"tool_call", "phi", "functioncall", "mistral", "deepseek"}
Unparsed(r) == {i \in Objects(r) : ~Strict(r[i])}
Unbalanced(r) == {i \in DOMAIN r : r[i].kind = "python" /\ r[i].name \in Known /\ ~r[i].closed}

\* partial_text_call: where the unfinished call starts, 0 when there is none.
PartialCall(r) ==
    LET tags == {i \in DOMAIN r : r[i].kind \in CallStarts}
    IN CASE tags # {} -> Min2(tags)
         [] tags = {} /\ Unparsed(r) # {} -> Min2(Unparsed(r))
         [] tags = {} /\ Unparsed(r) = {} /\ Unbalanced(r) # {} -> Min2(Unbalanced(r))
         [] OTHER -> 0

\* text_call_error: the call whose parse error the model is told, 0 for none.
\* Only the first Python call is looked at, then the first JSON one.
ToldError(r) ==
    LET python == {i \in At(r, "python") : r[i].name \in Known}
    IN CASE python # {} -> IF r[Min2(python)].closed /\ Strict(r[Min2(python)]) THEN 0 ELSE Min2(python)
         [] python = {} /\ Objects(r) # {} -> IF Strict(r[Min2(Objects(r))]) THEN 0 ELSE Min2(Objects(r))
         [] OTHER -> 0

(***************************************************************************)
(* Properties of every reply r and of what is recovered of it, out.        *)
(***************************************************************************)
Prose(s) == s.kind \in {"prose", "long"}
Answer(r) == \E i \in DOMAIN r : Prose(r[i]) /\ \A j \in (i + 1)..Len(r) : r[j].kind = "closing"
Tidy(r) == \A i \in DOMAIN r : r[i].kind \in CallStarts => r[i].closed
Reading(s) == {Call(s.name, s.args)} \cup Nameless(s)

\* A call the reply ends in the middle of is never run: half a file's text
\* must not replace the file (toolcall_text.py:70-82).
HalfNotRun(r, out) ==
    (r # <<>> /\ Last(r).json = "open" /\ ~Last(r).closed)
        => ToSet(out.calls) \subseteq UNION {UNION {Reading(q) : q \in {r[i]} \cup r[i].inner} : i \in 1..(Len(r) - 1)}

\* A reply that goes on after the calls it shows, outside tags, is an answer:
\* nothing of it is run and all of it is kept (toolcall_text.py:251-268).
AnswerKept(r, out) == (TaggedCalls(r) = <<>> /\ Answer(r)) => out = [calls |-> <<>>, rest |-> r]

\* What the model says beside its calls stays, no call runs twice, and every
\* call a closed tag ends and the reader can read is run (toolcall_text.py:278-292).
CallsAndPreamble(r, out) ==
    /\ IsInjective(out.calls)
    /\ Tidy(r) => SelectSeq(out.rest, Prose) = SelectSeq(r, Prose)
    /\ Tidy(r) => \A i \in DOMAIN r : r[i].kind \in CallStarts \ {"deepseek"} /\ Strict(r[i]) /\ r[i].wrap /\ r[i].name \in Known
                     => Call(r[i].name, r[i].args) \in ToSet(out.calls) /\ r[i] \notin ToSet(out.rest)

\* A reply cut off in the middle of its only unread call is stored without
\* the half of it; a call that could not be read is the one the model is told
\* of (toolcall_text.py:520-562, :570-594).
HalfNotStored(r, out, at) ==
    LET whole == SubSeq(r, 1, at - 1)
    IN out.calls = <<>> =>
         /\ (r # <<>> /\ ~Last(r).closed /\ ~Strict(Last(r)) /\ Last(r).name \in Known
             /\ Last(r).kind \in CallStarts \cup {"python", "json", "call"} /\ (\A i \in 1..(Len(r) - 1) : r[i].closed /\ Strict(r[i])))
            => at \in 1..Len(r) /\ Last(r) \notin ToSet(whole) /\ PartialCall(whole) = 0
         /\ ToldError(r) # 0 => ~Strict(r[ToldError(r)]) \/ ~r[ToldError(r)].closed
=============================================================================
