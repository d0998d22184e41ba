------------------------------ MODULE RunLoop -------------------------------
(***************************************************************************)
(* One conversation and the turns run on it: Harness.send and _run_loop    *)
(* (harness/harness.py), the compaction of the history                     *)
(* (harness/compaction.py), and Retry (truncate_at_last_user).             *)
(*                                                                         *)
(* A message is its role, the typed messages whose text it holds and the   *)
(* number of tool calls it makes; a user message that holds no typed text  *)
(* is a note the harness wrote.  The system message, always first, is left *)
(* out: position k here is messages[k] there.  What decides between the    *)
(* branches of the loop but is not in the history (texts, token counts,    *)
(* modes, the loop guard's counts) is the model's choice, so the model     *)
(* may send any note in any round; the rounds bound them all.              *)
(***************************************************************************)
EXTENDS Naturals, Sequences, FiniteSets, SequencesExt, Positions

CONSTANTS
  MaxMsgs,     \* bound: the messages the user types
  MaxTurns,    \* bound: the turns run (_turn_count)
  MaxRounds,   \* the iteration cap of _run_loop (100; 40 in design mode)
  MaxCalls,    \* bound: the tool calls of one reply
  MaxResets,   \* Harness.loop_resets
  MaxRetries   \* len(_SERVER_RETRY_DELAYS)

\* The bounds are numbers: each caps a counter of the program.
Bounds ==
  /\ MaxMsgs \in Nat /\ MaxTurns \in Nat /\ MaxRounds \in Nat
  /\ MaxCalls \in Nat /\ MaxResets \in Nat /\ MaxRetries \in Nat

ASSUME NumericBounds == Bounds

VARIABLES
  msgs,       \* Harness.messages, without the system message
  turnUser,   \* where _turn_user is in it, 0 when it is not there
  cancel,     \* Harness._cancel
  steer,      \* Harness._steer, as a set: its order is the controller's matter
  pc,         \* where the worker is
  iteration, emptied, resets, overflowed,  \* locals of _run_loop
  retryMsg,   \* where retry_msg is in msgs, 0 when it is None or gone
  retries,    \* server_retries
  left,       \* the calls of the batch that have no result yet
  typed, turns,  \* how many messages were typed, how many turns were begun
  given       \* history variable: what the last _append_user added

locals == <<iteration, emptied, resets, overflowed, retryMsg, retries, left>>
world  == <<typed, turns>>
vars   == <<msgs, turnUser, cancel, steer, pc, locals, world, given>>

Roles == {"user", "assistant", "tool", "thinking"}
PCs   == {"idle", "top", "compact", "request", "overflow", "batch", "after"}

TypeOK ==
  /\ msgs \in Seq([role : Roles, says : SUBSET (1..MaxMsgs), calls : 0..MaxCalls])
  /\ turnUser \in 0..Len(msgs) /\ retryMsg \in 0..Len(msgs)
  /\ cancel \in BOOLEAN /\ emptied \in BOOLEAN /\ overflowed \in BOOLEAN
  /\ steer \subseteq 1..typed /\ given \subseteq 1..typed
  /\ pc \in PCs
  /\ iteration \in 0..MaxRounds /\ resets \in 0..MaxResets
  /\ retries \in 0..MaxRetries /\ left \in 0..MaxCalls
  /\ typed \in 0..MaxMsgs /\ turns \in 0..MaxTurns

-----------------------------------------------------------------------------
(* Messages *)

Msg(role) == [role |-> role, says |-> {}, calls |-> 0]
User(said) == [Msg("user") EXCEPT !.says = said]
Calls(n) == [Msg("assistant") EXCEPT !.calls = n]
Assistant == Msg("assistant")
Note == User({})

Follows == {"tool", "thinking"}

LastRole(m) == IF m = <<>> THEN "system" ELSE m[Len(m)].role
UserAt(m) == {i \in DOMAIN m : m[i].role = "user"}
CallsAt(m) == {i \in DOMAIN m : m[i].calls > 0}
Newest(S) == CHOOSE i \in S : \A j \in S : j <= i

\* The empty assistant turn between a tool result and a user message.
Bridge(m) == IF LastRole(m) = "tool" THEN Append(m, Assistant) ELSE m

\* _append_user: merges into a user message at the end of the history.
AppendUser(m, said) ==
  IF LastRole(m) = "user" THEN [m EXCEPT ![Len(m)].says = @ \cup said]
                          ELSE Append(Bridge(m), User(said))

\* Mutant of Ask: a text merged into an earlier message keeps the old _turn_user.
AskStale(m, said) ==
  /\ msgs' = AppendUser(m, said)
  /\ turnUser' = IF LastRole(m) = "user" THEN turnUser ELSE Len(msgs')
  /\ given' = said

\* _append_user, which also sets _turn_user.
Ask(m, said) ==
  /\ msgs' = AppendUser(m, said)
  /\ turnUser' = Len(msgs')
  /\ given' = said

\* The messages at D are gone.
DropAt(D) ==
  /\ msgs' = Without(msgs, D)
  /\ turnUser' = Moved(turnUser, D)
  /\ retryMsg' = Moved(retryMsg, D)

-----------------------------------------------------------------------------
(* Compaction: what _compact may drop.  How far it gets depends on tokens. *)

\* The running turn's question, and the first message of its latest tool group.
Anchor == IF turnUser # 0 THEN turnUser
          ELSE IF UserAt(msgs) # {} THEN Newest(UserAt(msgs)) ELSE Len(msgs) + 1

\* Mutant of LatestGroup: no group is spared.
LatestGroupNone == Len(msgs) + 1

LatestGroup ==
  LET groups == {i \in CallsAt(msgs) : i > Anchor}
  IN IF groups = {} THEN Len(msgs) + 1 ELSE Newest(groups)

\* Pass 1 drops groups (an assistant message and the tool and thinking messages
\* after it) and lone tool and thinking messages, oldest first.
Grouped(i) ==
  \/ msgs[i].role \in Follows
  \/ msgs[i].role = "assistant" /\ i + 1 < LatestGroup /\ msgs[i + 1].role \in Follows
InsideGroup(i) ==
  \E h \in 1..(i - 1) : /\ msgs[h].role = "assistant"
                        /\ \A k \in (h + 1)..i : msgs[k].role \in Follows
GroupsBefore(cut) == {i \in 1..(cut - 1) : Grouped(i)}
Pass1 == {GroupsBefore(cut) : cut \in {c \in 1..LatestGroup : c = LatestGroup \/ ~InsideGroup(c)}}

\* Mutant of Pass2: the next turn's first message goes with the last one dropped.
Pass2Over == {GroupsBefore(LatestGroup) \cup 1..cut :
                cut \in {u \in UserAt(msgs) : u < Anchor} \cup {Anchor - 1}}

\* Pass 2 drops whole turns before the running one.
Pass2 == {GroupsBefore(LatestGroup) \cup 1..(cut - 1) :
            cut \in {u \in UserAt(msgs) : u < Anchor} \cup {Anchor}}

Drops == Pass1 \cup Pass2

\* A pass may also change texts only: trim results, stop sending reasoning back.
Lighter == \E i \in DOMAIN msgs : msgs[i].role \in Follows

-----------------------------------------------------------------------------
(* The user *)

Init ==
  /\ msgs = <<>> /\ turnUser = 0
  /\ cancel = FALSE /\ steer = {} /\ pc = "idle"
  /\ iteration = 0 /\ emptied = FALSE /\ resets = 0 /\ overflowed = FALSE
  /\ retryMsg = 0 /\ retries = 0 /\ left = 0
  /\ typed = 0 /\ turns = 0 /\ given = {}

\* Harness.send of a text, on a history it may have been cut from.
Send(m, said) ==
  /\ pc = "idle" /\ turns < MaxTurns
  /\ Ask(m, said)
  /\ cancel' = FALSE
  /\ turns' = turns + 1
  /\ pc' = "top"
  /\ UNCHANGED locals

\* A typed line starts a turn; so does what a turn that ended left queued.
Type ==
  /\ steer = {} /\ typed < MaxMsgs
  /\ typed' = typed + 1
  /\ Send(msgs, {typed'})
  /\ UNCHANGED steer

SendQueued ==
  /\ steer # {}
  /\ Send(msgs, steer)
  /\ steer' = {}
  /\ UNCHANGED typed

\* Retry: the last user message is cut off with what follows it and sent again.
LastUser == Newest(UserAt(msgs))
Retry ==
  /\ steer = {} /\ UserAt(msgs) # {}
  /\ Send(SubSeq(msgs, 1, LastUser - 1), msgs[LastUser].says)
  /\ UNCHANGED <<steer, typed>>

\* /compact at rest; an Esc during the summary leaves the history alone.
CompactAtRest ==
  /\ pc = "idle" /\ steer = {}
  /\ \E D \in Drops \ {{}} : DropAt(D)
  /\ cancel' = FALSE
  /\ UNCHANGED <<steer, pc, iteration, emptied, resets, overflowed, retries, left,
                 world, given>>

Steer ==
  /\ pc # "idle" /\ typed < MaxMsgs
  /\ typed' = typed + 1
  /\ steer' = steer \cup {typed'}
  /\ UNCHANGED <<msgs, turnUser, cancel, pc, locals, turns, given>>

Esc ==
  /\ pc # "idle" /\ ~cancel
  /\ cancel' = TRUE
  /\ UNCHANGED <<msgs, turnUser, steer, pc, locals, world, given>>

-----------------------------------------------------------------------------
(* The worker: the top of the loop *)

\* _run_loop returns and send is left: its locals are gone, and an Esc during
\* the turn drops what is queued.
Return ==
  /\ pc' = "idle"
  /\ steer' = IF cancel THEN {} ELSE steer
  /\ iteration' = 0 /\ emptied' = FALSE /\ resets' = 0 /\ overflowed' = FALSE
  /\ retryMsg' = 0 /\ retries' = 0 /\ left' = 0
  /\ UNCHANGED <<cancel, world, given>>

Interrupted ==
  /\ pc = "top" /\ cancel
  /\ Return
  /\ UNCHANGED <<msgs, turnUser>>

\* The cap: one request without tools for a summary, which may fail.
WrapUp ==
  /\ pc = "top" /\ ~cancel /\ iteration = MaxRounds
  /\ msgs' \in {msgs, Append(msgs, Assistant)}
  /\ Return
  /\ UNCHANGED turnUser

\* A round: what was typed meanwhile joins the history, which may be too long.
NextRound ==
  /\ pc = "top" /\ ~cancel /\ iteration < MaxRounds
  /\ iteration' = iteration + 1
  /\ IF steer = {} THEN UNCHANGED <<msgs, turnUser, given>> ELSE Ask(msgs, steer)
  /\ steer' = {}
  /\ pc' \in {"compact", "request"}
  /\ UNCHANGED <<cancel, emptied, resets, overflowed, retryMsg, retries, left, world>>

\* Mutant of Compact: the flag is not looked at after the compaction.
CompactDeaf ==
  /\ pc = "compact"
  /\ \E D \in Drops : DropAt(D)
  /\ pc' = "request"
  /\ UNCHANGED <<cancel, steer, iteration, emptied, resets, overflowed, retries,
                 left, world, given>>

\* _compact asks the model for a summary first.  An Esc before that reply is in
\* leaves the history alone, and an Esc at any time ends the turn.
Compact ==
  /\ pc = "compact" /\ ~cancel
  /\ \E D \in Drops : DropAt(D)
  /\ pc' = "request"
  /\ UNCHANGED <<cancel, steer, iteration, emptied, resets, overflowed, retries,
                 left, world, given>>

CompactInterrupted ==
  /\ pc = "compact" /\ cancel
  /\ Return
  /\ \E D \in Drops : msgs' = Without(msgs, D) /\ turnUser' = Moved(turnUser, D)

-----------------------------------------------------------------------------
(* The worker: one request and its outcomes *)

\* Mutant of TooLong: it is not noted that the turn was compacted for it.
TooLongAlways ==
  /\ pc = "request" /\ ~cancel /\ ~overflowed
  /\ pc' = "overflow"
  /\ UNCHANGED <<msgs, turnUser, cancel, steer, iteration, emptied, resets,
                 overflowed, retryMsg, retries, left, world, given>>

\* The server said the prompt is too long: one compaction a turn answers that.
TooLong ==
  /\ pc = "request" /\ ~cancel /\ ~overflowed
  /\ overflowed' = TRUE
  /\ pc' = "overflow"
  /\ UNCHANGED <<msgs, turnUser, cancel, steer, iteration, emptied, resets,
                 retryMsg, retries, left, world, given>>

SendShorter ==
  /\ pc = "overflow" /\ ~cancel
  /\ \E D \in Drops : (D # {} \/ Lighter) /\ DropAt(D)
  /\ iteration' = iteration - 1
  /\ pc' = "top"
  /\ UNCHANGED <<cancel, steer, emptied, resets, overflowed, retries, left, world,
                 given>>

\* Nothing could be dropped, or Esc: the error ends the turn.
TooLongStill ==
  /\ pc = "overflow"
  /\ Return
  /\ \E D \in IF cancel THEN Drops ELSE {{}} :
       msgs' = Without(msgs, D) /\ turnUser' = Moved(turnUser, D)

\* A transient error: the round is tried again.
TryAgain ==
  /\ pc = "request" /\ ~cancel /\ retries < MaxRetries
  /\ retries' = retries + 1
  /\ iteration' = iteration - 1
  /\ pc' = "top"
  /\ UNCHANGED <<msgs, turnUser, cancel, steer, emptied, resets, overflowed,
                 retryMsg, left, world, given>>

\* Any other error, and the error that Esc makes of the aborted request.
Failed ==
  /\ pc = "request"
  /\ Return
  /\ UNCHANGED <<msgs, turnUser>>

\* The reasoning watch stopped the reply (_think_overrun): its reasoning is kept,
\* when it has some, and a note asks the model to act.
Overrun ==
  /\ pc = "request"
  /\ LET spoken == SelectSeq(msgs, LAMBDA m : m.role # "thinking")
         bridge == IF LastRole(spoken) \in {"user", "tool"} THEN <<Assistant>> ELSE <<>>
     IN \E thought \in {<<>>, <<Msg("thinking")>>} :
          msgs' = msgs \o thought \o bridge \o <<Note>>
  /\ pc' = "top"
  /\ UNCHANGED <<turnUser, cancel, steer, locals, world, given>>

\* A reply is in.  Its reasoning is stored first, in front of what it says.
Replied == {msgs, Append(msgs, Msg("thinking"))}

ToolCalls ==
  /\ pc = "request"
  /\ \E m \in Replied, n \in 1..MaxCalls : msgs' = Append(m, Calls(n)) /\ left' = n
  /\ emptied' = FALSE /\ retries' = 0
  /\ pc' = "batch"
  /\ UNCHANGED <<turnUser, cancel, steer, iteration, resets, overflowed, retryMsg,
                 world, given>>

\* A text that does not end the turn: a call cut off (which may leave no text),
\* a design announced and not written, a next step announced and not taken.
TextAndNote ==
  /\ pc = "request"
  /\ \E m \in Replied : msgs' = m \o <<Assistant, Note>>
  /\ emptied' \in {FALSE, emptied}
  /\ retries' = 0
  /\ pc' = "top"
  /\ UNCHANGED <<turnUser, cancel, steer, iteration, resets, overflowed, retryMsg,
                 left, world, given>>

FinalText ==
  /\ pc = "request"
  /\ \E m \in Replied : msgs' = Append(m, Assistant)
  /\ Return
  /\ UNCHANGED turnUser

\* The first empty reply: a prompt to go on, unless a user message is last.
Empty ==
  /\ pc = "request" /\ ~emptied
  /\ \E m \in Replied :
       IF LastRole(m) = "user" THEN msgs' = m /\ UNCHANGED retryMsg
       ELSE msgs' = Append(Bridge(m), Note) /\ retryMsg' = Len(msgs')
  /\ emptied' = TRUE /\ retries' = 0
  /\ pc' = "top"
  /\ UNCHANGED <<turnUser, cancel, steer, iteration, resets, overflowed, left, world,
                 given>>

\* What the second empty reply leaves: nothing more,
\* its reasoning, or that and the same text as the answer.
EmptyTails == {<<>>, <<Msg("thinking")>>, <<Msg("thinking"), Assistant>>}

\* Mutant of EmptyAgain: the last user message is taken for the prompt.
EmptyAgainLast ==
  /\ pc = "request" /\ emptied
  /\ LET prompt == {Newest(UserAt(msgs))}
     IN /\ \E rest \in EmptyTails : msgs' = Without(msgs, prompt) \o rest
        /\ turnUser' = Moved(turnUser, prompt)
  /\ Return

\* The second one: the prompt is removed, the reasoning becomes the answer.
EmptyAgain ==
  /\ pc = "request" /\ emptied
  /\ LET prompt == {retryMsg} \ {0}
     IN /\ \E rest \in EmptyTails : msgs' = Without(msgs, prompt) \o rest
        /\ turnUser' = Moved(turnUser, prompt)
  /\ Return

-----------------------------------------------------------------------------
(* The worker: the batch of calls and what follows it *)

\* Mutant of RunCall: after Esc the rest of the batch is left as it is.
RunCallSkips ==
  /\ pc = "batch"
  /\ msgs' = IF cancel THEN msgs ELSE Append(msgs, Msg("tool"))
  /\ left' = left - 1
  /\ pc' = IF left = 1 THEN "after" ELSE "batch"
  /\ UNCHANGED <<turnUser, cancel, steer, iteration, emptied, resets, overflowed,
                 retryMsg, retries, world, given>>

\* Each call gets a result, those that an Esc keeps from running included.
RunCall ==
  /\ pc = "batch"
  /\ msgs' = Append(msgs, Msg("tool"))
  /\ left' = left - 1
  /\ pc' = IF left = 1 THEN "after" ELSE "batch"
  /\ UNCHANGED <<turnUser, cancel, steer, iteration, emptied, resets, overflowed,
                 retryMsg, retries, world, given>>

\* The batch ended the turn: a plan approved, a step completed or paused; or it
\* repeated a loop that was reset often enough.
BatchEnds ==
  /\ pc = "after"
  /\ Return
  /\ UNCHANGED <<msgs, turnUser>>

\* On to the next round, with or without a note: edits that fail again and again,
\* calls that change nothing, many calls without a text.
GoOn ==
  /\ pc = "after"
  /\ msgs' \in {msgs, Append(msgs, Note)}
  /\ pc' = "top"
  /\ UNCHANGED <<turnUser, cancel, steer, locals, world, given>>

\* The messages from the first call of the loop on, with the reasoning before it.
LoopFrom(first) ==
  CHOOSE c \in 1..first :
    /\ \A k \in c..(first - 1) : k > turnUser /\ msgs[k].role = "thinking"
    /\ c - 1 > turnUser => msgs[c - 1].role # "thinking"

\* _break_loop: the loop is cut out, the model's analysis of it put in its place.
Rewind ==
  /\ pc = "after" /\ ~cancel /\ resets < MaxResets
  /\ \E first \in {i \in CallsAt(msgs) : i > turnUser} :
       LET cut == LoopFrom(first)
       IN /\ msgs' = SubSeq(msgs, 1, cut - 1) \o <<Assistant, Note>>
          /\ retryMsg' = IF retryMsg < cut THEN retryMsg ELSE 0
  /\ resets' = resets + 1
  /\ pc' = "top"
  /\ UNCHANGED <<turnUser, cancel, steer, iteration, emptied, overflowed, retries,
                 left, world, given>>

WorkerStep ==
  \/ Interrupted \/ WrapUp \/ NextRound \/ Compact \/ CompactInterrupted
  \/ TooLong \/ SendShorter \/ TooLongStill \/ TryAgain \/ Failed \/ Overrun
  \/ ToolCalls \/ TextAndNote \/ FinalText \/ Empty \/ EmptyAgain
  \/ RunCall \/ BatchEnds \/ GoOn \/ Rewind

UserStep == Type \/ SendQueued \/ Retry \/ CompactAtRest \/ Steer \/ Esc

Next == WorkerStep \/ UserStep

\* The worker is a thread that keeps running; the user need not do anything.
Spec == Init /\ [][Next]_vars /\ WF_vars(WorkerStep)

-----------------------------------------------------------------------------
(* Properties *)

\* Every tool-call message is followed by the results of all its calls and by
\* nothing else before the next message of the model or the user, and there is no
\* result without a call, whatever was compacted, rewound, retried or interrupted:
\* a server rejects a history where they do not pair up.
Paired ==
  LET open == IF pc = "batch" THEN Newest(CallsAt(msgs)) ELSE 0
      results(i) == IF i = open THEN msgs[i].calls - left ELSE msgs[i].calls
  IN /\ \A i \in CallsAt(msgs) :
          /\ i + results(i) <= Len(msgs)
          /\ \A k \in (i + 1)..(i + results(i)) : msgs[k].role = "tool"
     /\ \A k \in DOMAIN msgs : msgs[k].role = "tool" =>
          \E i \in CallsAt(msgs) : k \in (i + 1)..(i + results(i))

\* While a turn runs, the message it answers is in the history, with every text
\* that was last given to it, where the loop looks for it: neither compaction nor a
\* rewind takes it away.
QuestionKept ==
  pc # "idle" => turnUser # 0 /\ given \subseteq msgs[turnUser].says

Said(m) == UNION {m[i].says : i \in DOMAIN m}

\* The texts merged into a prompt that a second empty reply takes back.
InPrompt == IF pc = "request" /\ emptied /\ retryMsg # 0 THEN msgs[retryMsg].says ELSE {}

\* Outside compaction and Retry nothing the user typed leaves the history, but for
\* a text merged into the prompt that answered an empty reply.
TypedKept ==
  [][(pc \in {"top", "request", "batch", "after"}) =>
       Said(msgs) \ Said(msgs') \subseteq InPrompt]_vars

\* From the latest tool-call message of the running turn to the end.
InFlight ==
  LET groups == {i \in CallsAt(msgs) : i > turnUser}
  IN IF groups = {} THEN <<>> ELSE SubSeq(msgs, Newest(groups), Len(msgs))

\* A compaction leaves the running turn's latest tool group, and all after it, as
\* it is: the model would ask for the dropped result again.
LatestGroupKept ==
  [][(pc \in {"compact", "overflow"}) => IsSuffix(InFlight, msgs')]_vars

\* What a compaction leaves still starts with a user message.
StartsWithUser ==
  [][(pc \in {"idle", "compact", "overflow"}) /\ msgs # <<>> /\ msgs[1].role = "user"
       => msgs'[1].role = "user"]_vars

\* After Esc no further request is sent, whatever the worker was at.
EscSendsNothing == [][cancel /\ pc # "request" => pc' # "request"]_vars

\* A turn ends, whatever the model replies and the server says.
TurnEnds == [](pc # "idle" => <>(pc = "idle"))

\* A message steered into the running turn stays in the conversation.
SteeredKept ==
  [][(pc \in {"top", "request", "batch", "after"}) => Said(msgs) \subseteq Said(msgs')]_vars

\* Retry sends the user's message again.
RetrySendsTyped == [][Retry => given' # {}]_vars
=============================================================================
