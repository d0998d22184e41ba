------------------------------- MODULE TuiInput -----------------------------
(***************************************************************************)
(* The terminal's keys (tui.py): which of the open layers takes a key (the *)
(* /tools and /mcp pickers, the Changes overlay, the suggestions, the chat *)
(* or the input box), the input history shared with the session, and how   *)
(* raw input is read into keys and pasted blocks.                          *)
(*                                                                         *)
(* The text is the number of characters before and after the caret; the    *)
(* rows of an overlay are their number.  Every key is handled after the    *)
(* queued events are drained, and each key but a burst of typed ones is    *)
(* followed by a redraw, which computes the suggestions.                   *)
(***************************************************************************)
EXTENDS Integers, Sequences, FiniteSets, SequencesExt

CONSTANTS MaxText,     \* characters typed
          MaxHistory,  \* entries of the input history
          MaxRows,     \* rows of a picker or of the Changes overlay
          MaxKeys,
          Elsewhere,   \* sessions are opened from the browser too
          Bursts       \* keys come faster than the screen is drawn

VARIABLES
    focus,               \* "input" or "chat"
    before, after,       \* the text around the caret
    history, idx, stash, \* the entries (their lengths), the one browsed (-1), the text put aside
    sugg,                \* the open suggestions, or None: [row, for] with for the text they were made for
    query,               \* _sugg_query: what the list was last computed for, "none" before
    picker,              \* the open picker, or None: [kind, n, row]
    changes,             \* the open Changes overlay, or None: [n, row, diff]
    servers, checkpoints,\* what the pickers list
    status,              \* a StatusEvent waits in the subscription
    busy, waiting,       \* the controller's state
    did,                 \* what the last key did
    keys

vars == <<focus, before, after, history, idx, stash, sugg, query, picker, changes, servers, checkpoints, status, busy,
          waiting, did, keys>>

None == [none |-> TRUE]
Tools == 1                                   \* the tool picker is never empty
Rows(kind) == IF kind = "mcp" THEN servers ELSE Tools
Least(a, b) == IF a < b THEN a ELSE b
Clamped(row, n) == Least(row, IF n = 0 THEN 0 ELSE n - 1)

(***************************************************************************)
(* The layers.                                                             *)
(***************************************************************************)
\* _reload_picker, _reload_changes: on every StatusEvent; an open diff stays.
Reloaded(layer, n) == IF layer = None THEN None ELSE [layer EXCEPT !.n = n, !.row = Clamped(@, n)]
PickerNow == IF picker = None \/ ~status THEN picker ELSE Reloaded(picker, Rows(picker.kind))
ChangesNow == IF changes = None \/ ~status THEN changes
              ELSE IF changes.diff THEN changes ELSE Reloaded(changes, checkpoints)

PickerKeys(p) == {"esc", "q"} \cup IF p.n = 0 THEN {} ELSE {"up", "down", " ", "enter", "?"} \cup
                     IF p.kind = "mcp" THEN {"r", "a", "d", "l"} ELSE {}
ChangesKeys(c) ==
    IF c.diff THEN {"esc", "q", "left", "up", "down", "page", "r"}
    ELSE {"esc", "q", "tab"} \cup IF c.n = 0 THEN {} ELSE {"up", "down", "enter", "u", "r", "k"}
PickerTakes(key) == PickerNow # None /\ key \in PickerKeys(PickerNow)
ChangesTakes(key) == ~PickerTakes(key) /\ ChangesNow # None /\ key \in ChangesKeys(ChangesNow)
Free(key) == ~PickerTakes(key) /\ ~ChangesTakes(key)

Moved(layer, key) == [layer EXCEPT !.row = IF key = "down" THEN (@ + 1) % layer.n ELSE (@ + layer.n - 1) % layer.n]

\* _update_suggest, on a redraw: unchanged text keeps the list, and a list
\* dismissed with Esc closed.
Suggestions(text) == IF text = 0 THEN None ELSE [row |-> -1, for |-> text]
Draw ==
    LET now == IF focus' = "input" THEN before' ELSE -1 IN
    /\ query' = now
    /\ sugg' = IF now = query THEN sugg ELSE IF now = -1 THEN None ELSE Suggestions(now)
\* A key that changed only the input box is drawn when the keys stop coming.
DrawInput == Draw \/ (Bursts /\ UNCHANGED <<query, sugg>>)

\* The drain before every key, and what the key leaves alone.
Key(what) == keys < MaxKeys /\ keys' = keys + 1 /\ did' = what /\ status' = FALSE
Layers == picker' = PickerNow /\ changes' = ChangesNow
Text == UNCHANGED <<before, after, history, idx, stash>>
World == UNCHANGED <<servers, checkpoints, busy, waiting>>

(***************************************************************************)
(* The pickers and the Changes overlay (_picker_key, _mcp_picker_key,      *)
(* _changes_key).                                                          *)
(***************************************************************************)
PickerKey(key) ==
    /\ PickerTakes(key)
    /\ picker' = CASE key \in {"esc", "q"}    -> None
                   [] key \in {"up", "down"}  -> Moved(PickerNow, key)
                   [] key = "?" \/ (PickerNow.kind = "mcp" /\ key \in {"l", "enter"}) -> None
                   [] OTHER                   -> PickerNow
    /\ changes' = ChangesNow
    /\ Key(CASE key \in {"esc", "q"} -> "closed" [] key \in {"up", "down"} -> "moved" [] OTHER -> "command")
    /\ UNCHANGED focus /\ Text /\ World /\ Draw

ChangesKey(key) ==
    /\ ChangesTakes(key)
    /\ LET c == ChangesNow IN
       /\ changes' = CASE c.diff /\ key \in {"esc", "q", "left"} -> Reloaded([c EXCEPT !.diff = FALSE], checkpoints)
                       [] key \in {"esc", "q", "u", "r", "k"}    -> None
                       [] ~c.diff /\ key \in {"up", "down"}      -> Moved(c, key)
                       [] key = "tab"                            -> [n |-> checkpoints, row |-> 0, diff |-> FALSE]
                       [] key = "enter"                          -> [c EXCEPT !.diff = TRUE]
                       [] OTHER                                  -> c
       /\ Key(IF key \in {"u", "r", "k"} THEN "command" ELSE IF changes' = None THEN "closed" ELSE "moved")
    /\ sugg' = IF key = "tab" THEN None ELSE sugg
    /\ picker' = PickerNow /\ UNCHANGED <<focus, query>> /\ Text /\ World

(***************************************************************************)
(* Suggestions, Esc, focus and modes.                                      *)
(***************************************************************************)
\* A list of one row: moving highlights it, Tab picks the first, Enter only a
\* highlighted one.
SuggestMove ==
    /\ Free("up") /\ sugg # None /\ focus = "input"
    /\ sugg' = [sugg EXCEPT !.row = 0] /\ query' = query
    /\ Key("moved") /\ Layers /\ UNCHANGED focus /\ Text /\ World

VALUE == 1
Highlighted == sugg # None /\ focus = "input" /\ sugg.row >= 0
Pick(key) ==
    /\ Free(key) /\ IF key = "tab" THEN sugg # None /\ focus = "input" ELSE Highlighted
    /\ before' = VALUE /\ UNCHANGED <<after, history, idx, stash>>
    /\ sugg' = None /\ query' = before'
    /\ Key(IF sugg.for = before THEN "picked" ELSE "misfit")
    /\ Layers /\ UNCHANGED focus /\ World

Esc ==
    /\ Free("esc")
    /\ Key(CASE sugg # None -> "closed" [] busy /\ ~waiting -> "cancel" [] OTHER -> "nothing")
    /\ sugg' = None /\ UNCHANGED query /\ Layers /\ UNCHANGED focus /\ Text /\ World

Tab ==
    /\ Free("tab") /\ (sugg = None \/ focus = "chat")
    /\ focus' = IF focus = "chat" THEN "input" ELSE "chat"
    /\ Key("moved") /\ Layers /\ Text /\ World /\ Draw

\* Shift+Tab cycles the modes, whose tools an open picker then lists.
BackTab == /\ Key("mode") /\ UNCHANGED focus /\ Text /\ World /\ changes' = ChangesNow
           /\ picker' = IF picker = None THEN None ELSE Reloaded(picker, Rows(picker.kind))
           /\ Draw

\* Capitals with the chat focused: a view option, the interrupt, run confirm.
ChatKey(key) ==
    /\ focus = "chat" /\ key \in {"T", "C", "P"}
    /\ Key(IF key = "C" THEN "cancel" ELSE "option") /\ Layers /\ UNCHANGED focus /\ Text /\ World /\ Draw

(***************************************************************************)
(* The input box.                                                          *)
(***************************************************************************)
Edit(b, a, what) ==
    /\ b + a <= MaxText /\ before' = b /\ after' = a
    /\ UNCHANGED <<history, idx, stash, focus>> /\ Key(what) /\ Layers /\ World /\ DrawInput

Typed == (focus = "input" \/ ~Bursts) /\ Free("a") /\ Edit(before + 1, after, "typed")
Caret == \E b \in 0..(before + after) : b # before /\ Edit(b, before + after - b, "moved")
Backspace == before > 0 /\ Edit(before - 1, after, "typed")
Kill == (after > 0 /\ Edit(before, 0, "typed")) \/ (before > 0 /\ Edit(0, after, "typed"))

\* _history_prev, _history_next.
\* Mutant of Older: the newest one is one too far.
OlderBeyond == IF idx = -1 THEN Len(history) ELSE IF idx > 0 THEN idx - 1 ELSE idx
Older == IF idx = -1 THEN Len(history) - 1 ELSE IF idx > 0 THEN idx - 1 ELSE idx
HistoryPrev ==
    /\ Free("up") /\ history # <<>>
    /\ stash' = (IF idx = -1 THEN before + after ELSE stash) /\ idx' = Older
    /\ before' = 0 /\ after' = (IF Older < Len(history) THEN history[Older + 1] ELSE 0)
    /\ Key(IF Older < Len(history) THEN "browsed" ELSE "IndexError")
    /\ Layers /\ UNCHANGED <<history, focus>> /\ World /\ Draw
HistoryNext ==
    /\ Free("down") /\ idx # -1
    /\ LET more == idx < Len(history) - 1 IN
       /\ idx' = IF more THEN idx + 1 ELSE -1
       /\ before' = (IF more THEN history[idx + 2] ELSE stash) /\ after' = 0
    /\ Key("browsed") /\ Layers /\ UNCHANGED <<history, stash, focus>> /\ World /\ Draw

\* Enter: a message, or a command that opens one of the overlays, or /session,
\* which replaces the history (_submit).
Enter(opens) ==
    /\ Free("enter") /\ ~Highlighted
    /\ before' = 0 /\ after' = 0 /\ idx' = -1 /\ stash' = 0
    /\ history' = IF opens = "session" THEN <<1>>
                  ELSE IF before + after = 0 \/ Len(history) = MaxHistory
                          \/ (history # <<>> /\ Last(history) = before + after) THEN history
                  ELSE Append(history, before + after)
    /\ picker' = CASE opens \in {"tools", "mcp"} -> [kind |-> opens, n |-> Rows(opens), row |-> 0]
                   [] opens = "changes" -> None
                   [] OTHER -> PickerNow
    /\ changes' = CASE opens \in {"tools", "mcp"} -> None
                    [] opens = "changes" -> [n |-> checkpoints, row |-> 0, diff |-> FALSE]
                    [] OTHER -> ChangesNow
    /\ sugg' = None /\ query' = 0 /\ Key("submit") /\ UNCHANGED focus /\ World

(***************************************************************************)
(* Meanwhile: the other frontends, the harness and its workers.            *)
(***************************************************************************)
Outside ==
    /\ keys < MaxKeys /\ keys' = keys + 1 /\ did' = "nothing" /\ status' = TRUE
    /\ servers' \in 0..MaxRows /\ checkpoints' \in 0..MaxRows
    /\ busy' \in BOOLEAN /\ waiting' \in (IF busy' THEN BOOLEAN ELSE {FALSE})
    /\ history' \in {history} \cup (IF Elsewhere THEN {<<1>>} ELSE {})
    /\ UNCHANGED <<focus, before, after, idx, stash, sugg, query, picker, changes>>

Init ==
    /\ focus = "input" /\ before = 0 /\ after = 0 /\ history = <<1, 1, 1>> /\ idx = -1 /\ stash = 0
    /\ sugg = None /\ query = -1 /\ picker = None /\ changes = None /\ servers = 0 /\ checkpoints = 0
    /\ status = FALSE /\ busy = FALSE /\ waiting = FALSE /\ did = "nothing" /\ keys = 0

KeyNames == {"esc", "q", "up", "down", "left", "page", "tab", " ", "enter", "?", "r", "a", "d", "l", "u", "k"}
Next ==
    \/ \E key \in KeyNames : PickerKey(key)
    \/ \E key \in KeyNames : ChangesKey(key)
    \/ SuggestMove
    \/ \E key \in {"tab", "enter"} : Pick(key)
    \/ Esc \/ Tab \/ BackTab
    \/ \E key \in {"T", "C", "P"} : ChatKey(key)
    \/ Typed \/ Caret \/ Backspace \/ Kill
    \/ HistoryPrev
    \/ HistoryNext
    \/ \E opens \in {"message", "tools", "mcp", "changes", "session"} : Enter(opens)
    \/ Outside

Spec == Init /\ [][Next]_vars

(***************************************************************************)
(* _next_key, _read_sequence and _read_paste: what is buffered read into   *)
(* keys.  A raw key is a character or one of ESC, CR, LF, TAB; the result  *)
(* of one reading is [key, rest], a pasted block a sequence of characters. *)
(***************************************************************************)
From(raw, n) == SubSeq(raw, n, Len(raw))
Upper == {"A", "B", "T", "~"}                 \* @..~ ends a CSI sequence

\* The rest of an escape sequence: through its final byte, or up to a control key.
SequenceEnd(raw, intro, n) ==
    LET Ends(i) == i > Len(raw) \/ raw[i] \in {"ESC", "CR", "LF", "TAB"} \/ intro = "O"
                   \/ raw[i] \in Upper
        end == CHOOSE i \in n..(Len(raw) + 1) : Ends(i) /\ \A j \in n..(i - 1) : ~Ends(j)
    IN IF end <= Len(raw) /\ raw[end] \notin {"ESC", "CR", "LF", "TAB"} THEN end + 1 ELSE end

RECURSIVE Paste(_, _, _)
\* Everything up to the end marker as literal text; a CR LF pair is one newline.
PairLf(buf, lastCr) == buf # <<>> /\ Last(buf) = "\n" /\ lastCr
Paste(raw, buf, lastCr) ==
    IF raw = <<>> THEN [key |-> buf, rest |-> <<>>]           \* the end marker never came
    ELSE CASE Head(raw) = "ESC" ->
                LET end == IF Len(raw) > 1 /\ raw[2] = "[" THEN SequenceEnd(raw, "[", 3) ELSE Least(3, Len(raw) + 1)
                IN IF SubSeq(raw, 2, end - 1) = <<"[", "2", "0", "1", "~">> THEN [key |-> buf, rest |-> From(raw, end)]
                   ELSE Paste(From(raw, end), buf, lastCr)
           [] Head(raw) = "CR"  -> Paste(Tail(raw), Append(buf, "\n"), TRUE)
           [] Head(raw) = "LF"  -> Paste(Tail(raw), IF PairLf(buf, lastCr) THEN buf ELSE Append(buf, "\n"), FALSE)
           [] Head(raw) = "TAB" -> Paste(Tail(raw), Append(buf, "\t"), FALSE)
           [] OTHER             -> Paste(Tail(raw), Append(buf, Head(raw)), FALSE)

NextKey(raw) ==
    LET one == [key |-> Head(raw), rest |-> Tail(raw)] IN
    CASE Head(raw) # "ESC"                -> one
      [] Len(raw) = 1                     -> [key |-> "Esc", rest |-> <<>>]
      [] raw[2] \in {"CR", "LF"}          -> [key |-> "ShiftEnter", rest |-> From(raw, 3)]
      [] raw[2] = "ESC"                   -> [key |-> "Esc", rest |-> Tail(raw)]
      [] raw[2] \in {"[", "O"}            ->
             LET end == SequenceEnd(raw, raw[2], 3) IN
             IF SubSeq(raw, 2, end - 1) = <<"[", "2", "0", "0", "~">> THEN Paste(From(raw, end), <<>>, FALSE)
             ELSE [key |-> "ignored", rest |-> From(raw, end)]
      [] OTHER                            -> [key |-> raw[2], rest |-> From(raw, 3)]

RECURSIVE Keys(_)
Keys(raw) == IF raw = <<>> THEN <<>> ELSE LET one == NextKey(raw) IN <<one.key>> \o Keys(one.rest)

RECURSIVE Typeset(_)
\* The text a pasted block stands for.
Typeset(raw) ==
    IF raw = <<>> THEN <<>>
    ELSE IF Len(raw) > 1 /\ raw[1] = "CR" /\ raw[2] = "LF" THEN <<"\n">> \o Typeset(From(raw, 3))
    ELSE <<CASE raw[1] \in {"CR", "LF"} -> "\n" [] raw[1] = "TAB" -> "\t" [] OTHER -> raw[1]>> \o Typeset(Tail(raw))

(***************************************************************************)
(* Properties.                                                             *)
(***************************************************************************)
TypeOK ==
    /\ focus \in {"input", "chat"} /\ before + after \in 0..MaxText /\ idx \in -1..(MaxHistory - 1)
    /\ Len(history) <= MaxHistory /\ query \in -1..MaxText /\ keys \in 0..MaxKeys
    /\ servers \in 0..MaxRows /\ checkpoints \in 0..MaxRows /\ {status, busy, waiting} \subseteq BOOLEAN

\* At most one overlay is open, and its highlighted row is one of its rows,
\* however what it lists changed meanwhile (tui.py:844-853, 985-993, 1023-1063).
OverlaysFit ==
    /\ picker = None \/ changes = None
    /\ \A layer \in {picker, changes} \ {None} : layer.row \in 0..(IF layer.n = 0 THEN 0 ELSE layer.n - 1)

\* A key acts on what the screen shows: a suggestion picked was made for the
\* text it replaces, and the history walked has the entry (tui.py:756-800, 1471-1491).
ActsOnShown == did \notin {"misfit", "IndexError"}

\* Pasted text arrives as one block with its newlines and tabs, whatever keys
\* it would have been, and the keys after it work as before (tui.py:1595-1687).
PasteIsText(content, following) ==
    Keys(<<"ESC", "[", "2", "0", "0", "~">> \o content \o <<"ESC", "[", "2", "0", "1", "~">> \o following)
        = <<Typeset(content)>> \o Keys(following)
=============================================================================
