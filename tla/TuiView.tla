------------------------------- MODULE TuiView ------------------------------
(***************************************************************************)
(* The terminal's chat pane (tui.py): the events drained from the bus, the *)
(* buffer of wrapped lines made from them, the live preview of the reply   *)
(* being streamed, which stands below the last message until the final     *)
(* events replace it, and the place the user reads at.                     *)
(*                                                                         *)
(* A line of the buffer is <<what it belongs to, its number>>: the number  *)
(* of an event, or one of the preview's two blocks.                        *)
(***************************************************************************)
EXTENDS Integers, Sequences, FiniteSets, SequencesExt

CONSTANTS Rows,         \* the terminal's heights
          Longest,      \* the source lines of a long message
          MaxEvents, MaxDeltas, MaxKeys

VARIABLES
    chatEvents,  \* _chat_events: what every rebuild renders from
    lines,       \* _chat_buf
    streamStart, \* _stream_start: the lines before the preview, -1 without one
    parts,       \* _stream: the source lines of the two blocks so far, 0 for none
    scroll,      \* the last visible line, from 0
    follow, news, \* following new output; the mark "more below"
    view,        \* the view options that are on
    rows, wrap,  \* the terminal's height; the screen lines one source line takes
    amid,        \* history: the view was last placed for a message above the preview
    keys

vars == <<chatEvents, lines, streamStart, parts, scroll, follow, news, view, rows, wrap, amid, keys>>

Blocks == {"thinking", "content"}
Options == {"think_output", "tool_output", "companion"}
STATUS_H == 3
INPUT_H == 5
COMPANION_H == 3

Greatest(a, b) == IF a > b THEN a ELSE b
Least(a, b) == IF a < b THEN a ELSE b

\* _compute_layout, _build_windows: the chat pane takes the slack; its last row
\* is the scroll bar.  (Nothing is drawn in a terminal lower than the regions.)
ChatH == Greatest(4, rows - STATUS_H - INPUT_H - IF "companion" \in view THEN COMPANION_H ELSE 0)
Visible(len, at, height) ==
    LET first == IF len <= height - 1 THEN 0 ELSE Greatest(0, at + 1 - (height - 1))
    IN (first + 1)..Least(len, first + height - 1)

(***************************************************************************)
(* Rendering.                                                              *)
(***************************************************************************)
Block(tag, n) == [k \in 1..n |-> <<tag, k>>]

\* _render_event: an option that is off hides its events; a message ends with a blank line.
EventLines(e, shown, width) ==
    IF \/ e.kind = "think" /\ "think_output" \notin shown
       \/ e.kind = "tool" /\ "tool_output" \notin shown
    THEN <<>> ELSE Block(e.id, e.n * width + 1)
Rendered(events, shown, width) ==
    FlattenSeq([i \in DOMAIN events |-> EventLines(events[i], shown, width)])

\* _render_stream_preview
Preview(p, shown, width) ==
    (IF p["thinking"] > 0 /\ "think_output" \in shown THEN Block("thinking", p["thinking"] * width + 2) ELSE <<>>)
    \o (IF p["content"] > 0 THEN Block("content", p["content"] * width + 1) ELSE <<>>)
Silent == [b \in Blocks |-> 0]

(***************************************************************************)
(* _drain_events, one event after another; s is the state of the drain.    *)
(***************************************************************************)
\* _add: above the live preview while a reply streams.
Placed(s, e, rendered) ==
    [s EXCEPT !.lines = SubSeq(@, 1, s.streamStart) \o rendered \o Preview(s.parts, view, wrap),
              !.streamStart = @ + Len(rendered)]
Add(s, e) ==
    LET rendered == EventLines(e, view, wrap)
        told == [s EXCEPT !.events = Append(@, e), !.last = IF e.kind = "chat" THEN Len(s.lines) ELSE @,
                           !.above = IF e.kind = "chat" THEN s.streamStart # -1 ELSE @]
    IN IF s.streamStart = -1 THEN [told EXCEPT !.lines = @ \o rendered] ELSE Placed(told, e, rendered)

EndPreview(s) ==
    [s EXCEPT !.lines = IF s.streamStart = -1 THEN @ ELSE SubSeq(@, 1, s.streamStart),
              !.streamStart = -1, !.parts = Silent, !.dirty = FALSE]

Reset(s) ==
    [EndPreview([s EXCEPT !.lines = <<>>, !.streamStart = -1]) EXCEPT
        !.events = <<>>, !.last = -1, !.before = 0, !.follow = TRUE, !.news = FALSE, !.dirty = s.dirty]

Delta(s, block) ==
    [s EXCEPT !.streamStart = IF @ = -1 THEN Len(s.lines) ELSE @, !.parts[block] = @ + 1, !.dirty = TRUE]

Apply(s, ev) ==
    CASE ev.type = "reset" -> Reset(s)
      [] ev.type = "end"   -> EndPreview(s)
      [] ev.type = "delta" -> Delta(s, ev.block)
      [] ev.type = "event" -> Add(s, [id |-> Len(s.events) + 1, kind |-> ev.kind, n |-> ev.n])

ScrollToBottom(len) == Greatest(0, len - 1)
\* scroll_to_top_of
TopOf(line, height, len) == Least(line + height - 1, Greatest(0, len - 1))

\* The preview is drawn once per drain, and the view moved.
Settled(s) ==
    LET drawn == IF s.dirty /\ s.streamStart # -1
                 THEN SubSeq(s.lines, 1, s.streamStart) \o Preview(s.parts, view, wrap) ELSE s.lines
        changed == Len(drawn) # s.before \/ s.dirty
    IN [s EXCEPT !.lines = drawn,
                 !.news = @ \/ (changed /\ ~s.follow),
                 !.scroll = CASE ~changed \/ ~s.follow -> @
                              [] s.last # -1 /\ ~s.dirty -> TopOf(s.last, ChatH, Len(drawn))
                              [] OTHER -> ScrollToBottom(Len(drawn)),
                 !.amid = CASE ~changed \/ ~s.follow -> @
                            [] s.last # -1 /\ ~s.dirty -> s.above
                            [] OTHER -> FALSE]

Become(s) ==
    /\ chatEvents' = s.events /\ lines' = s.lines /\ streamStart' = s.streamStart /\ parts' = s.parts
    /\ scroll' = s.scroll /\ follow' = s.follow /\ news' = s.news /\ amid' = s.amid

Harness ==
    [type : {"event"}, kind : {"chat", "think", "tool"}, n : {1, Longest}]
        \cup [type : {"delta"}, block : Blocks] \cup [type : {"end", "reset"}]

Drain(batch) ==
    LET start == [events |-> chatEvents, lines |-> lines, streamStart |-> streamStart, parts |-> parts, scroll |-> scroll,
                  follow |-> follow, news |-> news, last |-> -1, above |-> FALSE, amid |-> amid, dirty |-> FALSE,
                  before |-> Len(lines)]
    IN /\ Become(Settled(FoldLeft(Apply, start, batch)))
       /\ Len(chatEvents') <= MaxEvents /\ parts'["thinking"] + parts'["content"] <= MaxDeltas
       /\ UNCHANGED <<view, rows, wrap, keys>>

(***************************************************************************)
(* The user: keys that scroll, view options, a new terminal size, Enter.   *)
(***************************************************************************)
Key == keys < MaxKeys /\ keys' = keys + 1

\* _rebuild_chat_buf: everything again, the preview below it, the place kept.
Rebuilt(events, p, shown, width, at) ==
    LET all == Rendered(events, shown, width) IN [lines |-> all \o Preview(p, shown, width), at |-> Len(all)]

Rebuild(shown, width) ==
    LET full == Rebuilt(chatEvents, parts, shown, width, streamStart)
        now == IF streamStart = -1 THEN Rendered(chatEvents, shown, width) ELSE full.lines
    IN /\ lines' = now
       /\ streamStart' = IF streamStart = -1 THEN -1 ELSE full.at
       /\ scroll' = IF follow THEN ScrollToBottom(Len(now)) ELSE Greatest(0, Least(scroll, Len(now) - 1))
       /\ amid' = (amid /\ ~follow)
       /\ UNCHANGED <<chatEvents, parts, follow, news>>

SetView(option) ==
    /\ Key
    /\ view' = IF option \in view THEN view \ {option} ELSE view \cup {option}
    /\ Rebuild(view', wrap)
    /\ UNCHANGED <<rows, wrap>>

Resize(height, width) ==
    /\ Key /\ <<height, width>> # <<rows, wrap>>
    /\ rows' = height /\ wrap' = width
    /\ Rebuild(view, width)
    /\ UNCHANGED view

\* scroll_up, scroll_down by a few lines or a page, then _scrolled.
Following(at) == at >= Len(lines) - 1
Scroll(step) ==
    /\ Key
    /\ scroll' = IF step < 0 THEN Greatest(0, scroll + step) ELSE Least(Greatest(0, Len(lines) - 1), scroll + step)
    /\ follow' = Following(scroll')
    /\ news' = (news /\ ~follow')
    /\ UNCHANGED <<chatEvents, lines, streamStart, parts, view, rows, wrap, amid>>

\* _submit shows the user's own message and what follows.
Submit ==
    /\ Key
    /\ scroll' = ScrollToBottom(Len(lines)) /\ follow' = TRUE /\ news' = FALSE /\ amid' = FALSE
    /\ UNCHANGED <<chatEvents, lines, streamStart, parts, view, rows, wrap>>

Init ==
    /\ chatEvents = <<>> /\ lines = <<>> /\ streamStart = -1 /\ parts = Silent
    /\ scroll = 0 /\ follow = TRUE /\ news = FALSE
    /\ view = {"think_output", "tool_output", "companion"} /\ rows \in Rows /\ wrap = 1 /\ amid = FALSE /\ keys = 0

Next ==
    \/ \E ev \in Harness : Drain(<<ev>>)
    \/ \E ev, more \in Harness : Drain(<<ev, more>>)
    \/ \E option \in Options : SetView(option)
    \/ \E height \in Rows, width \in {1, 2} : Resize(height, width)
    \/ \E step \in {-(ChatH - 1), -3, 3, ChatH - 1} : Scroll(step)
    \/ Submit

Spec == Init /\ [][Next]_vars

(***************************************************************************)
(* Properties.                                                             *)
(***************************************************************************)
TypeOK ==
    /\ \A i \in DOMAIN chatEvents : chatEvents[i].kind \in {"chat", "think", "tool"} /\ chatEvents[i].id = i
    /\ streamStart \in -1..Len(lines) /\ parts \in [Blocks -> 0..MaxDeltas]
    /\ scroll \in Nat /\ follow \in BOOLEAN /\ news \in BOOLEAN
    /\ view \subseteq Options /\ rows \in Rows /\ wrap \in {1, 2} /\ keys \in 0..MaxKeys

\* The pane holds every message once and in order, as the options and the width
\* now have it, and the reply being streamed below them all, whatever came while
\* it streamed (tui.py:1108-1118, 1242-1337).
TranscriptShown ==
    LET all == Rendered(chatEvents, view, wrap) IN
    /\ lines = IF streamStart = -1 THEN all ELSE all \o Preview(parts, view, wrap)
    /\ streamStart \in {-1, Len(all)}

\* Whoever follows new output sees its end, or the newest message or what came
\* after it, but for a message that came above a live preview; whoever does not
\* follow is told of news, and only while away (tui.py:1327-1337, 1439-1448).
NewsReachesUser ==
    LET shown == Visible(Len(lines), scroll, ChatH)
        chats == {i \in DOMAIN chatEvents : chatEvents[i].kind = "chat"}
        newest == CHOOSE i \in chats : \A j \in chats : j <= i
    IN /\ follow /\ ~amid /\ lines # <<>> =>
              Len(lines) \in shown \/ (chats # {} /\ \E k \in shown : \E j \in 1..k : lines[j][1] = newest)
       /\ news => ~follow

\* Violated: the start of a long message that just came is in view.
StartShown ==
    [][\A kind \in {"chat"} :
        Drain(<<[type |-> "event", kind |-> kind, n |-> Longest]>>) /\ follow /\ streamStart = -1 =>
            (Len(lines) + 1) \in Visible(Len(lines'), scroll', ChatH)]_vars
\* Violated: as long as there are lines, some are in view.
SomethingShown == lines # <<>> => Visible(Len(lines), scroll, ChatH) # {}
=============================================================================
