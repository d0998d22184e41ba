------------------------------ MODULE EventBus ------------------------------
(***************************************************************************)
(* The event bus (harness/events.py) between the worker, the controller    *)
(* and the windows: the terminal, and web pages that come and go.          *)
(* Events go into one queue per window; a bounded backlog is replayed to   *)
(* a window that connects.  "busy" events carry the controller's busy and  *)
(* waiting flags, read before the event is put.                            *)
(***************************************************************************)
EXTENDS Naturals, Sequences, SequencesExt

CONSTANTS
  Pages,       \* web pages: they lose their connection and connect again
  Terminals,   \* the terminal UI: subscribed from the start to the end
  BacklogMax,  \* _BACKLOG_MAX
  MaxPuts      \* bound: events put

Windows == Pages \cup Terminals

\* StatusEvent, BusyEvent and CompanionEvent are kept in their latest form only;
\* the values of BusyEvent stand for them.
Busy    == {"idle", "working", "waiting"}
Kinds   == {"line", "reset", "delta", "stream_end"} \cup Busy
Event   == [kind : Kinds, line : 0..MaxPuts]
Signal(kind) == [kind |-> kind, line |-> 0]

ASSUME EventBusAssumption ==
  /\ BacklogMax \in Nat \ {0} /\ MaxPuts \in Nat
  /\ Pages \cap Terminals = {}

VARIABLES
  backlog,    \* EventBus._backlog
  latest,     \* EventBus._latest
  subs,       \* EventBus._subs
  queue,      \* Subscription._q and the connection behind it
  view,       \* the transcript a window shows
  preview,    \* the windows that show a half-streamed reply
  shown,      \* the busy state a page shows; the terminal reads the controller's
  worker,     \* where the worker thread is
  awaiting,   \* Harness.awaiting_input
  answered,   \* an answer is in _user_input_queue
  submit,     \* where the holder of the controller lock is
  puts,       \* events put so far; numbers the lines
  said        \* history variable: the lines put since the last reset

bus     == <<backlog, latest, subs, queue>>
windows == <<view, preview, shown>>
vars    == <<bus, windows, worker, awaiting, answered, submit, puts, said>>

Suffix(s, n) == SubSeq(s, IF Len(s) > n THEN Len(s) - n + 1 ELSE 1, Len(s))
IsLine(e)    == e.kind = "line"

\* A transcript v after one event.
Rendered(v, e) == IF IsLine(e) THEN Append(v, e.line)
                  ELSE IF e.kind = "reset" THEN <<>> ELSE v

TypeOK ==
  /\ backlog \in Seq(Event) /\ Len(backlog) <= BacklogMax
  /\ latest \in Busy
  /\ subs \subseteq Windows
  /\ queue \in [Windows -> Seq(Event)]
  /\ view \in [Windows -> Seq(1..MaxPuts)]
  /\ preview \subseteq Windows
  /\ shown \in [Pages -> Busy]
  /\ worker \in {"idle", "working", "streaming", "asking", "asked", "blocked"}
  /\ awaiting \in BOOLEAN /\ answered \in BOOLEAN
  /\ submit \in {"none", "echoed", "answered", "clearing", "replaying", "working", "waiting"}
  /\ puts \in 0..MaxPuts
  /\ said \in Seq(1..MaxPuts)

\* What Controller.busy and Controller.waiting make of the flags.
Now == IF worker = "idle" THEN "idle" ELSE IF awaiting THEN "waiting" ELSE "working"

Init ==
  /\ backlog = <<>>
  /\ latest = "idle"
  /\ subs = Terminals
  /\ queue = [w \in Windows |-> IF w \in Terminals THEN <<Signal("idle")>> ELSE <<>>]
  /\ view = [w \in Windows |-> <<>>]
  /\ preview = {}
  /\ shown = [w \in Pages |-> "idle"]
  /\ worker = "idle"
  /\ awaiting = FALSE /\ answered = FALSE
  /\ submit = "none"
  /\ puts = 0
  /\ said = <<>>

-----------------------------------------------------------------------------
(* EventBus.                                                               *)

\* The deque drops its oldest event.
Bounded(s) == Suffix(s, BacklogMax)

\* put: one step under the bus lock.
Put(e) ==
  /\ puts < MaxPuts
  /\ puts' = puts + 1
  /\ latest' = IF e.kind \in Busy THEN e.kind ELSE latest
  /\ backlog' = IF e.kind \in {"line", "reset"} THEN Bounded(Append(backlog, e)) ELSE backlog
  /\ queue' = [w \in Windows |-> IF w \in subs THEN Append(queue[w], e) ELSE queue[w]]
  /\ said' = IF IsLine(e) THEN Append(said, e.line) ELSE IF e.kind = "reset" THEN <<>> ELSE said
  /\ UNCHANGED subs

PutLine == Put([kind |-> "line", line |-> puts + 1])

\* subscribe: the backlog is replayed, then the latest values.
Subscription == Append(backlog, Signal(latest))

\* Mutation: the page keeps the half-streamed reply.
ConnectMidReply(w) ==
  /\ w \in Pages \ subs
  /\ subs' = subs \cup {w}
  /\ queue' = [queue EXCEPT ![w] = Subscription]
  /\ view' = [view EXCEPT ![w] = <<>>]
  /\ UNCHANGED <<backlog, latest, preview, shown, worker, awaiting, answered,
                 submit, puts, said>>

\* Mutation: the page adds the replay to what it showed.
ConnectOver(w) ==
  /\ w \in Pages \ subs
  /\ subs' = subs \cup {w}
  /\ queue' = [queue EXCEPT ![w] = Subscription]
  /\ preview' = preview \ {w}
  /\ UNCHANGED <<backlog, latest, view, shown, worker, awaiting, answered,
                 submit, puts, said>>

\* A page's stream opens: it starts from a clean slate.
Connect(w) ==
  /\ w \in Pages \ subs
  /\ subs' = subs \cup {w}
  /\ queue' = [queue EXCEPT ![w] = Subscription]
  /\ view' = [view EXCEPT ![w] = <<>>]
  /\ preview' = preview \ {w}
  /\ UNCHANGED <<backlog, latest, shown, worker, awaiting, answered, submit,
                 puts, said>>

\* The connection breaks: what was on its way is lost; unsubscribe.
Disconnect(w) ==
  /\ w \in Pages \cap subs
  /\ subs' = subs \ {w}
  /\ queue' = [queue EXCEPT ![w] = <<>>]
  /\ UNCHANGED <<backlog, latest, windows, worker, awaiting, answered, submit, puts, said>>

-----------------------------------------------------------------------------
(* The windows.                                                            *)

\* One event of _drain_events or handleEvents.
Render(w) ==
  /\ queue[w] # <<>>
  /\ queue' = [queue EXCEPT ![w] = Tail(@)]
  /\ LET e == Head(queue[w]) IN
     /\ view' = [view EXCEPT ![w] = Rendered(@, e)]
     /\ preview' = IF e.kind = "delta" THEN preview \cup {w}
                   ELSE IF e.kind \in {"reset", "stream_end"} THEN preview \ {w} ELSE preview
     /\ shown' = IF e.kind \in Busy /\ w \in Pages THEN [shown EXCEPT ![w] = e.kind] ELSE shown
  /\ UNCHANGED <<backlog, latest, subs, worker, awaiting, answered, submit, puts, said>>

-----------------------------------------------------------------------------
(* The worker's events.                                                    *)

\* A message, a tool call, a result.
Say ==
  /\ worker = "working"
  /\ PutLine
  /\ UNCHANGED <<windows, worker, awaiting, answered, submit>>

Delta ==
  /\ worker \in {"working", "streaming"}
  /\ worker' = "streaming"
  /\ Put(Signal("delta"))
  /\ UNCHANGED <<windows, awaiting, answered, submit>>

StreamEnd ==
  /\ worker = "streaming"
  /\ worker' = "working"
  /\ Put(Signal("stream_end"))
  /\ UNCHANGED <<windows, awaiting, answered, submit>>

\* _ask_user: the flag, the question, the busy event, then the wait.
Ask ==
  /\ worker = "working"
  /\ worker' = "asking"
  /\ awaiting' = TRUE
  /\ UNCHANGED <<bus, windows, answered, submit, puts, said>>

PutQuestion ==
  /\ worker = "asking"
  /\ worker' = "asked"
  /\ PutLine
  /\ UNCHANGED <<windows, awaiting, answered, submit>>

PutWaiting ==
  /\ worker = "asked"
  /\ worker' = "blocked"
  /\ Put(Signal("waiting"))
  /\ UNCHANGED <<windows, awaiting, answered, submit>>

TakeAnswer ==
  /\ worker = "blocked" /\ answered
  /\ worker' = "working"
  /\ answered' = FALSE
  /\ awaiting' = FALSE
  /\ UNCHANGED <<bus, windows, submit, puts, said>>

\* Mutation: busy is cleared without the busy event.
EndTurnSilent ==
  /\ worker = "working" /\ submit = "none"
  /\ worker' = "idle"
  /\ UNCHANGED <<bus, windows, awaiting, answered, submit, puts, said>>

\* _set_busy(False), under the controller lock.
EndTurn ==
  /\ worker = "working" /\ submit = "none"
  /\ worker' = "idle"
  /\ Put(Signal("idle"))
  /\ UNCHANGED <<windows, awaiting, answered, submit>>

-----------------------------------------------------------------------------
(* The controller, under its lock, and threads without it.                 *)

\* submit: the user's message is echoed in every window.
Submit ==
  /\ submit = "none"
  /\ submit' = "echoed"
  /\ PutLine
  /\ UNCHANGED <<windows, worker, awaiting, answered>>

\* Then it starts a turn, answers the question or is queued for the running turn.
StartTurn ==
  /\ submit = "echoed" /\ worker = "idle"
  /\ submit' = "none"
  /\ worker' = "working"
  /\ Put(Signal("working"))
  /\ UNCHANGED <<windows, awaiting, answered>>

Answer ==
  /\ submit = "echoed" /\ worker # "idle" /\ awaiting
  /\ submit' = "answered"
  /\ awaiting' = FALSE
  /\ answered' = TRUE
  /\ UNCHANGED <<bus, windows, worker, puts, said>>

Steer ==
  /\ submit = "echoed" /\ worker # "idle" /\ ~awaiting
  /\ submit' = "none"
  /\ UNCHANGED <<bus, windows, worker, awaiting, answered, puts, said>>

\* _emit_busy after an answer: the flags are read, then the event is put.
ReadBusy ==
  /\ submit = "answered"
  /\ submit' = Now
  /\ UNCHANGED <<bus, windows, worker, awaiting, answered, puts, said>>

EmitBusy ==
  /\ submit \in Busy
  /\ submit' = "none"
  /\ Put(Signal(submit))
  /\ UNCHANGED <<windows, worker, awaiting, answered>>

\* EventBus.reset, when a session is loaded or replaced: the backlog is dropped in
\* one step, the windows are told in another; the new conversation follows.
Clear ==
  /\ submit = "none" /\ (worker = "idle" \/ awaiting)
  /\ submit' = "clearing"
  /\ backlog' = <<>>
  /\ UNCHANGED <<latest, subs, queue, windows, worker, awaiting, answered, puts, said>>

PutReset ==
  /\ submit = "clearing"
  /\ submit' = "replaying"
  /\ Put(Signal("reset"))
  /\ UNCHANGED <<windows, worker, awaiting, answered>>

Replay ==
  /\ submit = "replaying"
  /\ submit' \in {"replaying", "none"}
  /\ PutLine
  /\ UNCHANGED <<windows, worker, awaiting, answered>>

\* A system line of a web request, the idle loop or an MCP thread.
Note ==
  /\ PutLine
  /\ UNCHANGED <<windows, worker, awaiting, answered, submit>>

WorkerStep == Say \/ Delta \/ StreamEnd \/ Ask \/ PutQuestion \/ PutWaiting \/ TakeAnswer \/ EndTurn

ControllerStep ==
  Submit \/ StartTurn \/ Answer \/ Steer \/ ReadBusy \/ EmitBusy \/ Clear \/ PutReset \/ Replay

WindowStep(w) == Render(w) \/ Connect(w) \/ Disconnect(w)

Next ==
  \/ WorkerStep
  \/ ControllerStep
  \/ Note
  \/ \E w \in Windows : WindowStep(w)

Spec == Init /\ [][Next]_vars

-----------------------------------------------------------------------------
(* Correctness.                                                            *)

\* What a window that shows v comes to show with the events of q, one by one.
Course(v, q) ==
  LET f[n \in 0..Len(q)] == IF n = 0 THEN v ELSE Rendered(f[n - 1], q[n]) IN f
After(v, q) == Course(v, q)[Len(q)]

\* What a window shows once it has rendered all that is queued for it.
Eventual(w) == After(view[w], queue[w])

\* "A message typed in either window appears in both": what every window comes to
\* show is one conversation, in one order.  See SharedTranscript.
Shared == INSTANCE SharedTranscript WITH
  Texts <- 1..MaxPuts,
  Most <- BacklogMax,
  there <- subs,
  shows <- [w \in Windows |-> IF w \in subs THEN Eventual(w) ELSE <<>>],
  clearing <- (submit = "clearing")

SharedConversation == Shared!Spec

CaughtUp(w) == w \in subs /\ queue[w] = <<>>

\* A window that has caught up shows no half-streamed reply once the stream is over,
\* also when it lost the connection in the middle of one.
NoStalePreview == \A w \in Windows : CaughtUp(w) /\ worker # "streaming" => w \notin preview

\* "While the model works, both windows show it as busy": a page that has caught up
\* shows the model busy when it is and idle when it is not.
BusyShown ==
  \A w \in Pages : CaughtUp(w) => (shown[w] = "idle" <=> worker = "idle")
=============================================================================
