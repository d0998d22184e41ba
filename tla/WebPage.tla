------------------------------- MODULE WebPage ------------------------------
(***************************************************************************)
(* The composer of the web page (web/static/app.js): a message on its way  *)
(* from the input box to momo, by a request that may fail, over a          *)
(* connection that may be lost, past the queue of what is typed offline,   *)
(* while an earlier message is edited and files are being converted; and   *)
(* what the page believes of momo, from the events and from answers to     *)
(* api/state.                                                              *)
(*                                                                         *)
(* Each await ends an action.  Events arrive in order; an answer to a      *)
(* request comes on a connection of its own.  The stream's replay is in    *)
(* EventBus, the turns in Controller: momo is here the list of what it     *)
(* took, and whether it is busy.                                           *)
(***************************************************************************)
EXTENDS Integers, Sequences, FiniteSets, SequencesExt

CONSTANTS Files,       \* files picked
          MaxTyped,    \* messages typed
          MaxAsks,     \* edits, and requests for api/state but those of a connect
          MaxDrops,    \* times the connection is lost
          Overtaken,   \* an answer of api/state may come after a newer busy event
          Amid         \* while a message is sent, files become ready, more is sent and typed

VARIABLES
    box,       \* the message in the input box, 0 for none
    editing,   \* whether it is the last message, edited
    queue,     \* messages typed while offline: [msg, atts]
    atts,      \* file -> "none", "loading", "ready"
    posts,     \* requests under way: [msg, atts, from, at]
    shown,     \* busy
    up,        \* connected
    timer,     \* the 150 ms after a turn are running
    answer,    \* the request for api/state: "none", "asked", "idle", "busy"; then: whether a connect made it
    then,
    momo,      \* whether momo is busy
    took,      \* what it took: messages, in order, with the files
    wire,      \* busy events under way
    drops, asks, typed, removed

pageVars == <<box, editing, queue, atts, posts, shown, up, timer, answer, then, momo, took, wire, drops, asks, typed,
              removed>>

Item(m, f) == [msg |-> m, atts |-> f]
Post(m, f, from) == [msg |-> m, atts |-> f, from |-> from, at |-> "out"]
Ready == {f \in Files : atts[f] = "ready"}
Without(fs) == [f \in Files |-> IF f \in fs THEN "none" ELSE atts[f]]
Loading == {f \in Files : atts[f] = "loading"}
\* queueMessage
Queued(m, f, q) == Append(q, Item(m, f))

-----------------------------------------------------------------------------
(* What the user does. *)

\* An edit under way gives way to what is typed since, should it be refused.
Alone == Amid \/ \A p \in posts : p.from # "edit"
Type ==
    /\ box = 0 /\ typed < MaxTyped /\ Alone
    /\ box' = typed + 1 /\ typed' = typed + 1
    /\ UNCHANGED <<editing, queue, atts, posts, shown, up, timer, answer, then, momo, took, wire, drops, asks, removed>>
\* uploadOne
Pick(f) ==
    /\ atts[f] = "none" /\ f \notin removed
    /\ atts' = [atts EXCEPT ![f] = "loading"] /\ removed' = removed \cup {f}
    /\ UNCHANGED <<box, editing, queue, posts, shown, up, timer, answer, then, momo, took, wire, drops, asks, typed>>
Converted(f) ==
    /\ atts[f] = "loading" /\ (Amid \/ posts = {})
    /\ atts' = [atts EXCEPT ![f] = "ready"]
    /\ UNCHANGED <<box, editing, queue, posts, shown, up, timer, answer, then, momo, took, wire, drops, asks, typed, removed>>

\* submitInput: nothing is sent while a file is converted, nor an edited message with a new file.
Submit ==
    /\ Loading = {} /\ (box # 0 \/ Ready # {} \/ editing)
    /\ Amid \/ \A p \in posts : p.atts \cap Ready = {}
    /\ IF editing
       THEN /\ Ready = {}
            /\ posts' = posts \cup {Post(box, {}, "edit")} /\ box' = 0 /\ editing' = FALSE
            /\ UNCHANGED <<queue, atts>>
       ELSE IF ~up
       THEN /\ queue' = Queued(box, Ready, queue) /\ atts' = Without(Ready) /\ box' = 0
            /\ UNCHANGED <<posts, editing>>
       ELSE /\ posts' = posts \cup {Post(box, Ready, "box")} /\ box' = 0
            /\ UNCHANGED <<queue, atts, editing>>
    /\ UNCHANGED <<shown, up, timer, answer, then, momo, took, wire, drops, asks, typed, removed>>

\* startEdit, showEdit, for the last message momo took; the box is empty (what was in it would be given up).
Edit ==
    /\ asks < MaxAsks /\ asks' = asks + 1
    /\ took # << >> /\ ~editing /\ box = 0 /\ (Amid \/ (posts = {} /\ queue = << >>))
    /\ box' = Last(took).msg /\ editing' = TRUE
    /\ UNCHANGED <<queue, atts, posts, shown, up, timer, answer, then, momo, took, wire, drops, typed, removed>>
\* The pencil on a queued message: back to the box, with its files.
EditQueued(i) ==
    /\ box = 0 /\ ~editing /\ (Amid \/ posts = {})
    /\ box' = queue[i].msg /\ queue' = RemoveAt(queue, i)
    /\ atts' = [f \in Files |-> IF f \in queue[i].atts THEN "ready" ELSE atts[f]]
    /\ UNCHANGED <<editing, posts, shown, up, timer, answer, then, momo, took, wire, drops, asks, typed, removed>>

-----------------------------------------------------------------------------
(* What momo does. *)

Steady == Overtaken \/ answer \notin {"idle", "busy"}
\* A message starts a turn, or is read within the one under way; an edit is refused then, else it takes
\* the place of the last message, whichever that is by now.
Taken(p) ==
    /\ p.at = "out" /\ Steady
    /\ LET refused == p.from = "edit" /\ momo
       IN /\ posts' = (posts \ {p}) \cup {[p EXCEPT !.at = IF refused THEN "refused" ELSE "taken"]}
          /\ took' = IF refused THEN took
                     ELSE IF p.from = "edit" THEN Append(Front(took), Item(p.msg, Last(took).atts))
                     ELSE Append(took, Item(p.msg, p.atts))
          /\ momo' = TRUE
          /\ wire' = IF momo \/ ~up THEN wire ELSE Append(wire, TRUE)
    /\ UNCHANGED <<box, editing, queue, atts, shown, up, timer, answer, then, drops, asks, typed, removed>>
TurnEnds ==
    /\ momo /\ Steady /\ momo' = FALSE
    /\ wire' = IF up THEN Append(wire, FALSE) ELSE wire
    /\ UNCHANGED <<box, editing, queue, atts, posts, shown, up, timer, answer, then, took, drops, asks, typed, removed>>
\* GET api/state is answered from what momo is then.
StateTaken ==
    /\ answer = "asked" /\ answer' = IF momo THEN "busy" ELSE "idle"
    /\ UNCHANGED <<box, editing, queue, atts, posts, shown, up, timer, then, momo, took, wire, drops, asks, typed, removed>>

-----------------------------------------------------------------------------
(* What the page does with it. *)

\* applyBusy: at the end of a turn a timer is set for the next queued message.
ApplyBusy(b) == shown' = b /\ timer' = (timer \/ (shown /\ ~b /\ queue # << >>))
Event ==
    /\ wire # << >> /\ ApplyBusy(Head(wire)) /\ wire' = Tail(wire)
    /\ UNCHANGED <<box, editing, queue, atts, posts, up, answer, then, momo, took, drops, asks, typed, removed>>

\* sendNextQueued
MaySend(b) == up /\ queue # << >> /\ ~b
SendNext(b) ==
    IF MaySend(b) THEN posts' = posts \cup {Post(Head(queue).msg, Head(queue).atts, "queue")} /\ queue' = Tail(queue)
    ELSE UNCHANGED <<posts, queue>>
TimerFires ==
    /\ timer /\ timer' = FALSE
    /\ SendNext(shown)
    /\ UNCHANGED <<box, editing, atts, shown, up, answer, then, momo, took, wire, drops, asks, typed, removed>>

\* refreshState: the answer is applied as it comes, and after a connect the queue goes if momo is idle.
Refresh ==
    /\ answer = "none" /\ asks < MaxAsks /\ asks' = asks + 1
    /\ answer' = "asked" /\ then' = FALSE
    /\ UNCHANGED <<box, editing, queue, atts, posts, shown, up, timer, momo, took, wire, drops, typed, removed>>
StateApplied ==
    /\ answer \in {"idle", "busy"} /\ answer' = "none" /\ then' = FALSE
    /\ ApplyBusy(answer = "busy")
    /\ IF then THEN SendNext(answer = "busy") ELSE UNCHANGED <<posts, queue>>
    /\ UNCHANGED <<box, editing, atts, up, momo, took, wire, drops, asks, typed, removed>>
\* The answer to a POST: the files of a sent message go from the box, a refused edit comes back to it.
Answered(p) ==
    /\ p.at \in {"taken", "refused"}
    /\ posts' = posts \ {p}
    /\ atts' = IF p.from = "box" /\ p.atts # {} THEN Without(Ready) ELSE atts
    /\ IF p.at = "refused" /\ box = 0 THEN box' = p.msg /\ editing' = TRUE ELSE UNCHANGED <<box, editing>>
    /\ UNCHANGED <<queue, shown, up, timer, answer, then, momo, took, wire, drops, asks, typed, removed>>

\* lostConnection, found by the stream or by a POST that fails; a message that was on its way is queued.
Lost ==
    /\ up' = FALSE /\ wire' = << >> /\ drops' = drops + 1
Drop ==
    /\ up /\ drops < MaxDrops /\ Lost
    /\ UNCHANGED <<box, editing, queue, atts, posts, shown, timer, answer, then, momo, took, asks, typed, removed>>
Fails(p) ==
    /\ p.at = "out" /\ drops < MaxDrops
    /\ posts' = posts \ {p} /\ Lost
    /\ queue' = CASE p.from = "queue" -> <<Item(p.msg, p.atts)>> \o queue
                  [] p.from = "box" -> Queued(p.msg, p.atts, queue)
                  [] p.from = "edit" -> queue
    /\ atts' = IF p.from = "box" THEN Without(Ready) ELSE atts
    /\ IF p.from = "edit" /\ box = 0 THEN box' = p.msg /\ editing' = TRUE ELSE UNCHANGED <<box, editing>>
    /\ UNCHANGED <<shown, timer, answer, then, momo, took, asks, typed, removed>>
\* connect, onopen: the replay brings the latest busy event, and the state is asked for.
Connect ==
    /\ ~up /\ up' = TRUE /\ wire' = <<momo>> /\ answer' = "asked" /\ then' = TRUE
    /\ UNCHANGED <<box, editing, queue, atts, posts, shown, timer, momo, took, drops, asks, typed, removed>>

Init ==
    /\ box = 0 /\ editing = FALSE /\ queue = << >> /\ atts = [f \in Files |-> "none"] /\ posts = {}
    /\ shown = FALSE /\ up = TRUE /\ timer = FALSE /\ answer = "none" /\ then = FALSE
    /\ momo = FALSE /\ took = << >> /\ wire = << >>
    /\ drops = 0 /\ asks = 0 /\ typed = 0 /\ removed = {}
Next ==
    \/ Type
    \/ \E f \in Files : Pick(f)
    \/ \E f \in Files : Converted(f)
    \/ Submit
    \/ Edit
    \/ \E i \in DOMAIN queue : EditQueued(i)
    \/ \E p \in posts : Taken(p)
    \/ TurnEnds
    \/ StateTaken
    \/ Event
    \/ TimerFires
    \/ Refresh
    \/ StateApplied
    \/ \E p \in posts : Answered(p)
    \/ Drop
    \/ \E p \in posts : Fails(p)
    \/ Connect
Spec == Init /\ [][Next]_pageVars

-----------------------------------------------------------------------------
TypeOK ==
    /\ box \in 0 .. MaxTyped /\ editing \in BOOLEAN /\ typed \in 0 .. MaxTyped
    /\ atts \in [Files -> {"none", "loading", "ready"}]
    /\ \A p \in posts : /\ p.msg \in 0 .. MaxTyped /\ p.atts \subseteq Files
                        /\ p.from \in {"box", "queue", "edit"} /\ p.at \in {"out", "taken", "refused"}
    /\ answer \in {"none", "asked", "idle", "busy"} /\ {shown, up, timer, then, momo} \subseteq BOOLEAN

\* What was typed, and each file picked, is at every moment in the box, in the queue, on its way, or
\* with momo; an edit that is refused gives way only to what was typed since.
Kept ==
    LET here == ToSet(queue) \cup ToSet(took) \cup {Item(p.msg, p.atts) : p \in posts}
    IN /\ \A m \in 1 .. typed : m = box \/ \E i \in here : i.msg = m
       /\ \A f \in removed : atts[f] # "none" \/ \E i \in here : f \in i.atts

\* Nothing is left in the queue: with the connection back, momo idle and nothing under way that would
\* send the next message, it is empty ("Messages typed while offline go once momo is back and idle").
QueueGoes == up /\ ~momo /\ wire = << >> /\ posts = {} /\ answer = "none" /\ ~timer => queue = << >>

\* Once everything sent is there, the page shows what momo does: Stop, the spinner and the queue go by it.
ShownIsTrue == up /\ wire = << >> /\ answer = "none" => shown = momo
=============================================================================
