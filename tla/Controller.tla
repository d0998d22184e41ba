----------------------------- MODULE Controller -----------------------------
(***************************************************************************)
(* The controller both frontends share (harness/controller.py) and the     *)
(* worker threads it starts to run a turn, a plan or a compaction on the   *)
(* one Harness (harness/harness.py).                                       *)
(*                                                                         *)
(* The terminal and the browser act under the controller lock, so each of  *)
(* their actions is one step; only Esc takes no lock and is two.           *)
(* A worker holds no lock while it works: its turn is cut at every point   *)
(* where another thread's step changes what it does next (the cancel flag, *)
(* the steering queue, the answer queue).                                  *)
(***************************************************************************)
EXTENDS Naturals, Sequences, SequencesExt, TLC

CONSTANTS
  MaxMsgs,       \* bound: the chat lines the user types
  Threads,       \* worker thread slots
  MaxRounds,     \* iteration cap of _run_loop (100, 40 in design mode), here of
                 \* a whole turn or plan run
  Commands,      \* the /commands typed, a subset of CommandKinds
  WaitingCommands, \* those of them also typed while the model waits for an answer
  Buttons        \* TRUE: the web page's Retry and Edit buttons are used

\* What a command does to the state below: start a compaction or a plan run,
\* replace the conversation (/new, /clear, /session), ask for a y/N before it
\* undoes or keeps files (/undo, /keep), resend the last message (/retry).
CommandKinds == {"compact", "plan", "new", "files", "retry"}

\* The commands that put a second piece of work on the harness.
Starters == {"compact", "plan"}

\* A message is the number under which it was typed.
Msgs == 1..MaxMsgs

ASSUME ControllerAssumption ==
  /\ MaxMsgs \in Nat
  /\ MaxRounds \in Nat \ {0}
  /\ Commands \subseteq CommandKinds
  /\ WaitingCommands \subseteq Commands
  /\ Buttons \in BOOLEAN

VARIABLES
  busy,      \* Controller._busy
  pending,   \* Controller._pending_confirm: what a "y" would do
  esc,       \* an Esc past its check that has not set the flag yet
  cancel,    \* Harness._cancel, an Event
  awaiting,  \* Harness.awaiting_input
  answers,   \* Harness._user_input_queue
  steer,     \* Harness._steer
  history,   \* the typed messages among the user messages of Harness.messages
  calls,     \* workers whose open tool-call message is in Harness.messages
  pc, fn, text, rounds,  \* per worker: where it is, what it runs, its message
  how,       \* history variable: where each message went when it was typed
  escaped    \* history variable: the messages queued when Esc set the flag, and
             \* whether it did so amid the work or at its edge

shared == <<busy, pending, esc, cancel, awaiting, answers, steer, history, calls>>
worker == <<pc, fn, text, rounds>>
ghosts == <<how, escaped>>
vars   == <<shared, worker, ghosts>>

Work == {"turn", "plan", "compact"}
PCs  == {"off", "start", "prepare", "round", "request", "tools", "call",
         "asking", "leave", "ended"}
How  == {"new", "sent", "answer"} \cup Work

TypeOK ==
  /\ busy \in BOOLEAN
  /\ pending \in {"none", "files", "resend"}
  /\ esc \in BOOLEAN
  /\ cancel \in BOOLEAN
  /\ awaiting \in BOOLEAN
  /\ answers \in Seq(Msgs)
  /\ steer \in Seq(Msgs)
  /\ history \in Seq(Msgs)
  /\ calls \subseteq Threads
  /\ pc \in [Threads -> PCs]
  /\ fn \in [Threads -> Work]
  /\ text \in [Threads -> Seq(Msgs)]
  /\ rounds \in [Threads -> 0..MaxRounds]
  /\ how \in [Msgs -> How]
  /\ escaped \subseteq Msgs \X {"amid", "edge"}

-----------------------------------------------------------------------------

Alive(t) == pc[t] # "off"
AtWork(t) == pc[t] \notin {"off", "start", "ended"}
Waiting  == busy /\ awaiting

\* What the most recent worker runs; with one worker at a time, the running one.
Running == IF \E t \in Threads : Alive(t)
           THEN fn[CHOOSE t \in Threads : Alive(t)] ELSE "turn"

Init ==
  /\ busy = FALSE
  /\ pending = "none"
  /\ esc = FALSE
  /\ cancel = FALSE
  /\ awaiting = FALSE
  /\ answers = <<>>
  /\ steer = <<>>
  /\ history = <<>>
  /\ calls = {}
  /\ pc = [t \in Threads |-> "off"]
  /\ fn = [t \in Threads |-> "turn"]
  /\ text = [t \in Threads |-> <<>>]
  /\ rounds = [t \in Threads |-> 0]
  /\ how = [m \in Msgs |-> "new"]
  /\ escaped = {}

-----------------------------------------------------------------------------
(* The frontends.                                                          *)

\* _run_bg: mark busy and start a worker thread.
RunBg(work, msgs) ==
  \E t \in Threads :
    /\ ~Alive(t)
    /\ busy' = TRUE
    /\ pc' = [pc EXCEPT ![t] = "start"]
    /\ fn' = [fn EXCEPT ![t] = work]
    /\ text' = [text EXCEPT ![t] = msgs]
    /\ UNCHANGED rounds

\* A chat line reaches the controller only when no y/N question takes it.
Typable(m) ==
  /\ pending = "none"
  /\ how[m] = "new" /\ \A k \in 1..(m - 1) : how[k] # "new"

\* Idle: the line starts a turn.
StartTurn(m) ==
  /\ Typable(m) /\ ~busy
  /\ RunBg("turn", <<m>>)
  /\ how' = [how EXCEPT ![m] = "sent"]
  /\ UNCHANGED <<pending, esc, cancel, awaiting, answers, steer, history, calls, escaped>>

\* Mutation: the flag is left to the asker, so a second line is an answer too.
AnswerKeepsFlag(m) ==
  /\ Typable(m) /\ Waiting
  /\ answers' = Append(answers, m)
  /\ how' = [how EXCEPT ![m] = "answer"]
  /\ UNCHANGED <<busy, pending, esc, cancel, awaiting, steer, history, calls, worker, escaped>>

\* A worker runs and waits for an answer: the line is the answer.
Answer(m) ==
  /\ Typable(m) /\ Waiting
  /\ awaiting' = FALSE
  /\ answers' = Append(answers, m)
  /\ how' = [how EXCEPT ![m] = "answer"]
  /\ UNCHANGED <<busy, pending, esc, cancel, steer, history, calls, worker, escaped>>

\* A worker runs: the line is queued for the turn's next request.
Steer(m) ==
  /\ Typable(m) /\ busy /\ ~awaiting
  /\ steer' = Append(steer, m)
  /\ how' = [how EXCEPT ![m] = Running]
  /\ UNCHANGED <<busy, pending, esc, cancel, awaiting, answers, history, calls, worker, escaped>>

\* Mutation: no busy check.
TypedAnytime(c) == c \in Commands /\ pending = "none"

\* _blocked_while_busy: these commands are refused while a worker runs, unless
\* it waits for an answer.
Typed(c) ==
  /\ c \in Commands
  /\ pending = "none"
  /\ ~busy \/ (Waiting /\ c \in WaitingCommands)

Compact ==
  /\ Typed("compact")
  /\ RunBg("compact", <<>>)
  /\ UNCHANGED <<pending, esc, cancel, awaiting, answers, steer, history, calls, ghosts>>

RunPlan ==
  /\ Typed("plan")
  /\ RunBg("plan", <<>>)
  /\ UNCHANGED <<pending, esc, cancel, awaiting, answers, steer, history, calls, ghosts>>

\* /new, /clear and /session replace Harness.messages; the steering queue stays.
NewConversation ==
  /\ Typed("new")
  /\ history' = <<>>
  /\ calls' = {}
  /\ UNCHANGED <<busy, pending, esc, cancel, awaiting, answers, steer, worker, ghosts>>

\* /undo and /keep ask first; the next line typed in either window answers.
AskAboutFiles ==
  /\ Typed("files")
  /\ pending' = "files"
  /\ UNCHANGED <<busy, esc, cancel, awaiting, answers, steer, history, calls, worker, ghosts>>

\* truncate_at_last_user, then the dropped message (or its edit) runs again.  It
\* may be several typed messages that _append_user merged into one.
Resend ==
  \E k \in 1..Len(history) :
    /\ history' = SubSeq(history, 1, k - 1)
    /\ calls' = {}
    /\ RunBg("turn", SubSeq(history, k, Len(history)))

\* retry_last and edit_last: refused while busy; when the last turn changed
\* files the user is asked first whether they go back too.
RetryAsked ==
  /\ Typed("retry") \/ Buttons
  /\ ~busy
  /\ \/ /\ pending' = "resend"
        /\ UNCHANGED <<busy, history, calls, worker>>
     \/ /\ Resend
        /\ UNCHANGED pending
  /\ UNCHANGED <<esc, cancel, awaiting, answers, steer, ghosts>>

\* The line that answers a y/N question.  For files a "y" runs undo or keep;
\* for a resend either answer runs retry_last again, which checks busy again.
Confirm ==
  /\ pending # "none"
  /\ pending' = "none"
  /\ \/ /\ pending = "resend" /\ ~busy
        /\ Resend
     \/ /\ pending = "files" \/ busy \/ history = <<>>
        /\ UNCHANGED <<busy, history, calls, worker>>
  /\ UNCHANGED <<esc, cancel, awaiting, answers, steer, ghosts>>

\* Controller.cancel, without the lock: ignored when idle and while the model
\* waits for an answer; the flag is set a moment after that check.
Esc ==
  /\ busy /\ ~awaiting
  /\ esc' = TRUE
  /\ UNCHANGED <<busy, pending, cancel, awaiting, answers, steer, history, calls, worker, ghosts>>

EscLands ==
  /\ esc
  /\ esc' = FALSE
  /\ cancel' = TRUE
  /\ escaped' = escaped \cup (ToSet(steer) \X
                   {IF \E t \in Threads : AtWork(t) THEN "amid" ELSE "edge"})
  /\ UNCHANGED <<busy, pending, awaiting, answers, steer, history, calls, worker, how>>

-----------------------------------------------------------------------------
(* A worker thread.                                                        *)

Goto(t, where) == pc' = [pc EXCEPT ![t] = where]

\* The first statement of send, compact_threaded and execute_plan_threaded
\* clears the cancel flag.
Begin(t) ==
  /\ pc[t] = "start"
  /\ cancel' = FALSE
  /\ rounds' = [rounds EXCEPT ![t] = 0]
  /\ Goto(t, CASE fn[t] = "turn"    -> "prepare"
               [] fn[t] = "plan"    -> "round"
               [] fn[t] = "compact" -> "request")
  /\ UNCHANGED <<busy, pending, esc, awaiting, answers, steer, history, calls, fn, text, ghosts>>

\* send: the MCP servers and the backend are checked, the message appended.
Prepare(t) ==
  /\ pc[t] = "prepare"
  /\ history' = history \o text[t]
  /\ text' = [text EXCEPT ![t] = <<>>]
  /\ Goto(t, "round")
  /\ UNCHANGED <<busy, pending, esc, cancel, awaiting, answers, steer, calls, fn, rounds, ghosts>>

\* The newest queued message is taken, one per request.
RoundTakesNewest(t) ==
  /\ pc[t] = "round" /\ ~cancel /\ rounds[t] < MaxRounds
  /\ rounds' = [rounds EXCEPT ![t] = @ + 1]
  /\ history' = IF steer = <<>> THEN history ELSE Append(history, Last(steer))
  /\ steer' = IF steer = <<>> THEN steer ELSE Front(steer)
  /\ Goto(t, "request")
  /\ UNCHANGED <<busy, pending, esc, cancel, awaiting, answers, calls, fn, text, ghosts>>

\* The cap is off by one, or the counter is not advanced, or Esc is checked only
\* after the queue was taken.
RoundOnce(t, over, step, interrupted) ==
  /\ pc[t] = "round"
  /\ IF interrupted \/ over
     THEN Goto(t, "leave") /\ UNCHANGED <<steer, history, rounds>>
     ELSE /\ rounds' = [rounds EXCEPT ![t] = @ + step]
          /\ history' = history \o steer
          /\ steer' = <<>>
          /\ Goto(t, "request")
  /\ UNCHANGED <<busy, pending, esc, cancel, awaiting, answers, calls, fn, text, ghosts>>
RoundOffByOne(t) == RoundOnce(t, rounds[t] > MaxRounds, 1, cancel)
RoundUncounted(t) == RoundOnce(t, rounds[t] >= MaxRounds, 0, cancel)
RoundDeaf(t) == RoundOnce(t, rounds[t] >= MaxRounds, 1, FALSE)

\* Top of the loop: interrupted, or out of rounds (after a last request for a
\* summary), or the queued messages are taken in before the next request.
Round(t) ==
  /\ pc[t] = "round"
  /\ IF cancel \/ rounds[t] >= MaxRounds
     THEN /\ Goto(t, "leave")
          /\ UNCHANGED <<steer, history, rounds>>
     ELSE /\ rounds' = [rounds EXCEPT ![t] = @ + 1]
          /\ history' = history \o steer
          /\ steer' = <<>>
          /\ Goto(t, "request")
  /\ UNCHANGED <<busy, pending, esc, cancel, awaiting, answers, calls, fn, text, ghosts>>

\* The request ended: with tool calls, with a note that asks for another round,
\* or for good (a reply, an error, the interrupt).  A compaction is one request.
Reply(t) ==
  /\ pc[t] = "request"
  /\ \/ /\ fn[t] # "compact"
        /\ Goto(t, "tools")
        /\ calls' = calls \cup {t}
     \/ /\ fn[t] # "compact"
        /\ Goto(t, "round")
        /\ UNCHANGED calls
     \/ /\ Goto(t, "leave")
        /\ UNCHANGED calls
  /\ UNCHANGED <<busy, pending, esc, cancel, awaiting, answers, steer, history, fn, text, rounds, ghosts>>

\* The batch: after Esc the remaining calls are settled without running.
NextCall(t) ==
  /\ pc[t] = "tools"
  /\ ~cancel
  /\ Goto(t, "call")
  /\ UNCHANGED <<shared, fn, text, rounds, ghosts>>

EndBatch(t) ==
  /\ pc[t] = "tools"
  /\ calls' = calls \ {t}
  /\ \E where \in {"round", "leave"} : Goto(t, where)
  /\ UNCHANGED <<busy, pending, esc, cancel, awaiting, answers, steer, history, fn, text, rounds, ghosts>>

\* A call that asks nothing.
RunCall(t) ==
  /\ pc[t] = "call"
  /\ Goto(t, "tools")
  /\ UNCHANGED <<shared, fn, text, rounds, ghosts>>

\* ask_user, ask_choice, a permission prompt: raise the flag, then block.
Ask(t) ==
  /\ pc[t] = "call"
  /\ awaiting' = TRUE
  /\ Goto(t, "asking")
  /\ UNCHANGED <<busy, pending, esc, cancel, answers, steer, history, calls, fn, text, rounds, ghosts>>

Answered(t) ==
  /\ pc[t] = "asking"
  /\ answers # <<>>
  /\ answers' = Tail(answers)
  /\ awaiting' = FALSE
  /\ Goto(t, "tools")
  /\ UNCHANGED <<busy, pending, esc, cancel, steer, history, calls, fn, text, rounds, ghosts>>

\* send's finally: an interrupted turn drops the queue.  A plan run started by
\* /plan and a compaction have no such step.
Leave(t) ==
  /\ pc[t] = "leave"
  /\ steer' = IF fn[t] = "turn" /\ cancel THEN <<>> ELSE steer
  /\ Goto(t, "ended")
  /\ UNCHANGED <<busy, pending, esc, cancel, awaiting, answers, history, calls, fn, text, rounds, ghosts>>

\* Mutations: the queue is not looked at; busy is cleared before it is.
FinishIgnoresQueue(t) ==
  /\ pc[t] = "ended"
  /\ busy' = FALSE
  /\ Goto(t, "off")
  /\ UNCHANGED <<pending, esc, cancel, awaiting, answers, steer, history, calls, fn, text, rounds, ghosts>>

\* _finish_bg, under the controller lock: a turn runs what is still queued as
\* one more turn; otherwise the controller is idle again.
Finish(t) ==
  /\ pc[t] = "ended"
  /\ IF fn[t] = "turn" /\ steer # <<>>
     THEN /\ text' = [text EXCEPT ![t] = steer]
          /\ steer' = <<>>
          /\ Goto(t, "start")
          /\ UNCHANGED busy
     ELSE /\ busy' = FALSE
          /\ Goto(t, "off")
          /\ UNCHANGED <<steer, text>>
  /\ UNCHANGED <<pending, esc, cancel, awaiting, answers, history, calls, fn, rounds, ghosts>>

WorkerStep(t) ==
  \/ Begin(t) \/ Prepare(t) \/ Round(t) \/ Reply(t)
  \/ NextCall(t) \/ EndBatch(t) \/ RunCall(t) \/ Ask(t) \/ Answered(t)
  \/ Leave(t) \/ Finish(t)

UserStep ==
  \/ \E m \in Msgs : StartTurn(m) \/ Answer(m) \/ Steer(m)
  \/ Compact \/ RunPlan \/ NewConversation \/ AskAboutFiles
  \/ RetryAsked \/ Confirm \/ Esc \/ EscLands

Next == UserStep \/ \E t \in Threads : WorkerStep(t)

Spec == Init /\ [][Next]_vars

\* A worker thread keeps running: its requests end (the client has timeouts),
\* its tools return, and a batch has finitely many calls.  A pressed Esc sets the
\* flag.  Nobody makes the user type, answer or press Esc.
FairSpec ==
  /\ Spec
  /\ \A t \in Threads : WF_vars(WorkerStep(t)) /\ SF_vars(EndBatch(t))
  /\ WF_vars(EscLands)

-----------------------------------------------------------------------------
(* Correctness.                                                            *)

\* Two pieces of work never run on the one harness at the same time (_run_bg is
\* only reached when no worker runs).
OneWorker == \A t, u \in Threads : Alive(t) /\ Alive(u) => t = u

\* busy tells exactly whether a worker runs: it is not cleared under a worker
\* that still has something to do, nor left set after the last one.
BusyIsWorker == busy <=> \E t \in Threads : Alive(t)

\* The answer queue serves the question that was asked: an answer is only there
\* while its asker blocks on it, one at a time, and an asker without an answer
\* still has the next line routed to it (awaiting_input).
AnswerReachesAsker ==
  /\ awaiting \/ answers # <<>> => \E t \in Threads : pc[t] = "asking"
  /\ \A t \in Threads : pc[t] = "asking" => (awaiting <=> answers = <<>>)
  /\ Len(answers) <= 1

\* _finish_bg: no message stays queued with nobody left to send it.
NothingStranded == ~busy => steer = <<>>

\* What holds of that beside /compact and /plan run: a message stranded when the
\* work ends was typed while one of those two ran, never during a turn.
StrandedOnlyByHelpers == ~busy => \A m \in ToSet(steer) : how[m] \in {"plan", "compact"}

Texts == UNION {ToSet(text[t]) : t \in Threads}

\* A message is in one place: waiting in the queue, carried by a worker, given as
\* an answer, or in the conversation once.
OnePlace ==
  /\ \A q \in {steer, answers, history} \cup {text[t] : t \in Threads} : IsInjective(q)
  /\ \A q, r \in {steer, answers, history} :
       q # r => ToSet(q) \cap ToSet(r) = {}
  /\ \A q \in {steer, answers, history} : ToSet(q) \cap Texts = {}

Increasing(q) == \A i, j \in 1..Len(q) : i < j => q[i] < q[j]

\* The model gets the messages in the order in which they were typed, across the
\* queue, the turn that runs and the extra turn _finish_bg adds.
TypedOrder == \A t \in Threads : Increasing(history \o text[t] \o steer)

\* A queued message leaves the queue for the conversation or for the worker's next
\* turn; only an interrupt drops it.
QueuedIsKept ==
  [][\A m \in ToSet(steer) \ ToSet(steer') :
       cancel \/ m \in ToSet(history') \cup Texts']_vars

\* "Esc drops queued messages": unless the flag was set before the turn's first
\* statement cleared it or after its last one dropped the queue, the queued
\* messages never reach the conversation, in this turn or a later one.
EscDropsAmid == \A e \in escaped : e[2] = "amid" => e[1] \notin ToSet(history)

\* The tool calls of a reply are in the conversation while their worker runs them,
\* so every result follows its call.
CallsAnswered == \A t \in Threads : t \in calls <=> pc[t] \in {"tools", "call", "asking"}

\* A "y" undoes or keeps files while no tool of a running turn can write them.
ConfirmedWhileIdle ==
  [][pending = "files" /\ pending' = "none" => ~busy \/ awaiting]_vars

\* A message typed during a turn gets to the model, is dropped by an interrupt, or
\* the turn waits for the user's answer.
QueuedGetsThrough ==
  \A m \in Msgs : m \in ToSet(steer) ~> (m \notin ToSet(steer) \/ awaiting)

\* Every piece of work ends, unless it waits for the user's answer.
WorkEnds == busy ~> (~busy \/ awaiting)

\* For model checking: the threads are alike.
Symmetry == Permutations(Threads)

=============================================================================
