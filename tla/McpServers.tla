----------------------------- MODULE McpServers -----------------------------
(***************************************************************************)
(* The MCP servers of one harness: their configuration and approval, the   *)
(* threads that start them, crashes and restarts, the tools they offer,    *)
(* and the calls that wait on them (harness/mcp, mcp_mixin.py).            *)
(*                                                                         *)
(* A server's entry in the files is a number: another number is another    *)
(* launch specification.  A call is made by the turn or by a page that     *)
(* lists resources.  close() waits for the process to end; the reader that *)
(* then wakes its calls is one step with it here.                          *)
(***************************************************************************)
EXTENDS Naturals, FiniteSets

CONSTANTS
  Servers, Project, \* the servers; those that come from the project's .mcp.json
  Entries,          \* bound: the entries a server may have in its file; 0 is none
  MaxRestarts,      \* MAX_RESTARTS
  MaxEdits,         \* bound: what the user does to files, approvals and servers
  Racing            \* the user may act on a server that is still starting

VARIABLES
  file,      \* the entry in the configuration file
  config,    \* cfg.raw of the server's client, 0 when there is no client
  decided,   \* what approval.status says of each entry
  disabled,  \* MCPManager.disabled
  mcpState,  \* MCPClient.state
  thread,    \* its connect(): none, start, shake (the handshake), set
  proc,      \* its process and peer: none, up, dead (exited), lost (and noticed)
  closing,   \* MCPClient._closing
  crashes, names, dirty, \* crashes; the servers in _names; _dirty
  prompt,    \* the servers whose tools the system prompt declares
  turn,      \* a turn runs
  call,      \* the calls of the turn and of a page
  edits

clients == <<mcpState, thread, proc, closing, crashes, names, dirty>>
vars == <<file, config, decided, disabled, clients, prompt, turn, call, edits>>

Callers == {"turn", "page"}
NoCall == [server |-> "none", at |-> "none", old |-> FALSE]

Init ==
  /\ file = [s \in Servers |-> 1] /\ config = [s \in Servers |-> 0]
  /\ decided = [s \in Servers |-> [e \in Entries |->
                  IF s \in Project THEN "pending" ELSE "approved"]]
  /\ disabled = {}
  /\ mcpState = [s \in Servers |-> "disabled"] /\ thread = [s \in Servers |-> "none"]
  /\ proc = [s \in Servers |-> "none"] /\ closing = [s \in Servers |-> FALSE]
  /\ crashes = [s \in Servers |-> 0] /\ names = {} /\ dirty = FALSE /\ prompt = {}
  /\ turn = FALSE /\ call = [c \in Callers |-> NoCall] /\ edits = 0

-----------------------------------------------------------------------------
(* State changes *)

\* _changed and _rebuild_names: the tools of the servers that are ready.
Rebuilt(st) == {s \in Servers : st[s] = "ready"}
SetState(s, st) ==
  /\ mcpState' = [mcpState EXCEPT ![s] = st]
  /\ names' = Rebuilt(mcpState') /\ dirty' = TRUE

\* Mutant of Verdict: an approval counts for every entry of the server.
VerdictByName(s, e) ==
  IF \E x \in Entries : decided[s][x] = "approved" THEN "approved" ELSE decided[s][e]
Verdict(s, e) == decided[s][e]

\* What _activate makes of a server with entry e.
Activated(s, e, off) ==
  IF s \in off THEN "disabled"
  ELSE CASE Verdict(s, e) = "approved" -> "connecting"
         [] Verdict(s, e) = "denied"   -> "denied"
         [] OTHER                      -> "needs-approval"
Begin(s, st) == IF st = "connecting" THEN "start" ELSE thread[s]

\* A peer that is closed wakes the calls that wait on it.
Woken(S) == [c \in Callers |->
  IF call[c].server \notin S \/ call[c].at = "none" THEN call[c]
  ELSE [call[c] EXCEPT !.at = IF @ = "waiting" THEN "woken" ELSE @, !.old = TRUE]]

Free == ~turn /\ edits < MaxEdits
Quiet(s) == Racing \/ thread[s] = "none"
Edit == edits' = edits + 1

-----------------------------------------------------------------------------
(* The configuration and the user *)

EditFile(s, e) ==
  /\ edits < MaxEdits /\ file[s] # e
  /\ file' = [file EXCEPT ![s] = e] /\ Edit
  /\ UNCHANGED <<config, decided, disabled, clients, prompt, turn, call>>

\* reload: servers whose entry changed are closed and started afresh.
Reload ==
  LET new == {s \in Servers : file[s] # config[s]}
      st  == [s \in new |-> IF file[s] = 0 THEN "disabled" ELSE Activated(s, file[s], disabled)]
  IN /\ Free /\ \A s \in new : Quiet(s)
     /\ config' = file
     /\ mcpState' = [s \in Servers |-> IF s \in new THEN st[s] ELSE mcpState[s]]
     /\ thread' = [s \in Servers |-> IF s \in new THEN Begin(s, st[s]) ELSE thread[s]]
     /\ proc' = [s \in Servers |-> IF s \in new THEN "none" ELSE proc[s]]
     /\ closing' = [s \in Servers |-> s \notin new /\ closing[s]]
     /\ crashes' = [s \in Servers |-> IF s \in new THEN 0 ELSE crashes[s]]
     /\ names' = Rebuilt(mcpState') /\ prompt' = names' /\ dirty' = FALSE
     /\ call' = Woken(new) /\ Edit
     /\ UNCHANGED <<file, decided, disabled, turn>>

\* close(): the process ends, its calls fail.
Closed(s, st) ==
  /\ closing' = [closing EXCEPT ![s] = TRUE] /\ proc' = [proc EXCEPT ![s] = "none"]
  /\ SetState(s, st) /\ call' = Woken({s})

\* restart: close, forget the crashes, start.
Restart(s) ==
  LET st == Activated(s, config[s], disabled)
  IN /\ Free /\ config[s] # 0 /\ Quiet(s)
     /\ Closed(s, st) /\ thread' = [thread EXCEPT ![s] = Begin(s, st)]
     /\ crashes' = [crashes EXCEPT ![s] = 0] /\ Edit
     /\ UNCHANGED <<file, config, decided, disabled, prompt, turn>>

Enable(s) ==
  LET st == IF mcpState[s] \in {"disabled", "error"}
            THEN Activated(s, config[s], disabled \ {s}) ELSE mcpState[s]
  IN /\ Free /\ config[s] # 0 /\ Quiet(s)
     /\ disabled' = disabled \ {s}
     /\ SetState(s, st)
     /\ IF mcpState[s] \in {"disabled", "error"}
        THEN /\ crashes' = [crashes EXCEPT ![s] = 0]
             /\ thread' = [thread EXCEPT ![s] = Begin(s, st)]
        ELSE UNCHANGED <<crashes, thread>>
     /\ Edit /\ UNCHANGED <<file, config, decided, proc, closing, prompt, turn, call>>

Disable(s) ==
  /\ Free /\ config[s] # 0 /\ Quiet(s)
  /\ disabled' = disabled \cup {s} /\ Closed(s, "disabled") /\ Edit
  /\ UNCHANGED <<file, config, decided, thread, crashes, prompt, turn>>

\* decide: only project servers need approval; the entry as it was read counts.
Decide(s, approve) ==
  LET e  == config[s]
      now == [decided EXCEPT ![s][e] = IF approve THEN "approved" ELSE "denied"]
      up == approve /\ mcpState[s] \in {"needs-approval", "denied"}
      st == IF up THEN (IF s \in disabled THEN "disabled" ELSE "connecting")
            ELSE IF approve THEN mcpState[s] ELSE "denied"
  IN /\ Free /\ s \in Project /\ e # 0 /\ Quiet(s)
     /\ decided' = now
     /\ IF approve THEN SetState(s, st) /\ UNCHANGED <<proc, closing, call>>
                   ELSE Closed(s, st)
     /\ thread' = [thread EXCEPT ![s] = IF up THEN Begin(s, st) ELSE @]
     /\ Edit /\ UNCHANGED <<file, config, disabled, crashes, prompt, turn>>

-----------------------------------------------------------------------------
(* Starting, crashing, restarting *)

\* connect() takes its lock; the command may be missing.
Start(s) ==
  /\ thread[s] = "start" /\ closing' = [closing EXCEPT ![s] = FALSE]
  /\ \/ /\ proc' = [proc EXCEPT ![s] = "up"] /\ thread' = [thread EXCEPT ![s] = "shake"]
        /\ mcpState' = [mcpState EXCEPT ![s] = "connecting"] /\ UNCHANGED <<names, dirty>>
     \/ /\ thread' = [thread EXCEPT ![s] = "none"] /\ SetState(s, "error") /\ UNCHANGED proc
  /\ UNCHANGED <<file, config, decided, disabled, crashes, prompt, turn, call, edits>>

\* initialize, tools/list and resources/list are answered; then _set("ready").
Shake(s) ==
  /\ thread[s] = "shake" /\ proc[s] = "up"
  /\ thread' = [thread EXCEPT ![s] = "set"]
  /\ UNCHANGED <<file, config, decided, disabled, mcpState, proc, closing, crashes, names,
                 dirty, prompt, turn, call, edits>>
SetReady(s) ==
  /\ thread[s] = "set" /\ thread' = [thread EXCEPT ![s] = "none"] /\ SetState(s, "ready")
  /\ UNCHANGED <<file, config, decided, disabled, proc, closing, crashes, prompt, turn, call, edits>>
ShakeFails(s) ==
  /\ thread[s] = "shake" /\ thread' = [thread EXCEPT ![s] = "none"]
  /\ Closed(s, "error")
  /\ UNCHANGED <<file, config, decided, disabled, crashes, prompt, turn, edits>>

Exit(s) ==
  /\ proc[s] = "up" /\ crashes[s] <= MaxRestarts /\ proc' = [proc EXCEPT ![s] = "dead"]
  /\ UNCHANGED <<file, config, decided, disabled, mcpState, thread, closing, crashes, names,
                 dirty, prompt, turn, call, edits>>

\* Peer._on_close and MCPClient._on_close, on the reader's thread.
Notice(s) ==
  /\ proc[s] = "dead" /\ proc' = [proc EXCEPT ![s] = "lost"]
  /\ call' = [c \in Callers |-> IF call[c].server = s /\ ~call[c].old /\ call[c].at = "waiting"
                                THEN [call[c] EXCEPT !.at = "woken"] ELSE call[c]]
  /\ IF closing[s] \/ mcpState[s] # "ready" THEN UNCHANGED <<mcpState, names, dirty, crashes>>
     ELSE SetState(s, "error") /\ crashes' = [crashes EXCEPT ![s] = @ + 1]
  /\ UNCHANGED <<file, config, decided, disabled, thread, closing, prompt, turn, edits>>

\* tick, after the backoff: the idle loop runs it while no turn runs.
Tick(s) ==
  LET st == Activated(s, config[s], disabled)
  IN /\ ~turn /\ mcpState[s] = "error" /\ crashes[s] \in 1..MaxRestarts
     /\ mcpState' = [mcpState EXCEPT ![s] = st] /\ thread' = [thread EXCEPT ![s] = Begin(s, st)]
     /\ call' = Woken({s})
     /\ UNCHANGED <<file, config, decided, disabled, proc, closing, crashes, names, dirty,
                    prompt, turn, edits>>

-----------------------------------------------------------------------------
(* Turns and calls *)

\* _mcp_before_turn: the prompt is rebuilt when something changed since.
BeginTurn ==
  /\ ~turn /\ turn' = TRUE /\ dirty' = FALSE
  /\ prompt' = IF dirty THEN names ELSE prompt
  /\ UNCHANGED <<file, config, decided, disabled, mcpState, thread, proc, closing, crashes,
                 names, call, edits>>
EndTurn ==
  /\ turn /\ call["turn"].at = "none" /\ turn' = FALSE
  /\ UNCHANGED <<file, config, decided, disabled, clients, prompt, call, edits>>

At(c, at) == call' = [call EXCEPT ![c].at = at]
Return(c) == call' = [call EXCEPT ![c] = NoCall]
Keep == UNCHANGED <<file, config, decided, disabled, clients, prompt, turn, edits>>

\* _require_ready, and request's first look at `closed`.
Call(c, s) ==
  /\ call[c].at = "none" /\ (c = "turn" => turn /\ s \in prompt \cap names)
  /\ mcpState[s] = "ready" /\ proc[s] \in {"up", "dead"}
  /\ call' = [call EXCEPT ![c] = [server |-> s, at |-> "checked", old |-> FALSE]] /\ Keep

Register(c) == call[c].at = "checked" /\ At(c, "pending") /\ Keep

\* StdioTransport.send raises when the process has ended.
Alive(c) == ~call[c].old /\ proc[call[c].server] = "up"
Send(c) == /\ call[c].at = "pending"
           /\ IF Alive(c) THEN At(c, "waiting") ELSE Return(c)
           /\ Keep

Answer(c) == call[c].at = "waiting" /\ ~call[c].old /\ proc[call[c].server] = "up" /\ Return(c) /\ Keep
GiveUp(c) == call[c].at = "waiting" /\ Return(c) /\ Keep
Fails(c)  == call[c].at = "woken" /\ Return(c) /\ Keep

Next ==
  \/ \E s \in Servers, e \in Entries \cup {0} : EditFile(s, e)
  \/ Reload \/ BeginTurn \/ EndTurn
  \/ \E s \in Servers : \/ Restart(s) \/ Enable(s) \/ Disable(s)
                        \/ Decide(s, TRUE) \/ Decide(s, FALSE)
                        \/ Start(s) \/ Shake(s) \/ SetReady(s) \/ ShakeFails(s)
                        \/ Exit(s) \/ Notice(s) \/ Tick(s)
  \/ \E c \in Callers : \/ \E s \in Servers : Call(c, s)
                        \/ Register(c) \/ Send(c) \/ Answer(c) \/ GiveUp(c) \/ Fails(c)

Spec == Init /\ [][Next]_vars

-----------------------------------------------------------------------------
(* Properties *)

TypeOK ==
  /\ config \in [Servers -> Entries \cup {0}] /\ disabled \subseteq Servers
  /\ mcpState \in [Servers -> {"disabled", "needs-approval", "denied", "connecting", "ready", "error"}]
  /\ thread \in [Servers -> {"none", "start", "shake", "set"}]
  /\ crashes \in [Servers -> 0..(MaxRestarts + 1)]
  /\ names \subseteq Servers /\ prompt \subseteq Servers

\* A project's server is only ever started with an entry the user approved, and a
\* server the user denied or disabled does not run: an edited entry, a restart after
\* a crash or a reload asks again (mcp/approval.py:1, client.py:65).
ApprovedFirst ==
  \A s \in Servers : proc[s] = "up" =>
    decided[s][config[s]] = "approved" /\ s \notin disabled

\* A call waits only on a server that can still answer or whose end is yet to be
\* noticed; request() looks at `closed` before it registers, so a server that ends in
\* between would be missed but for the send (jsonrpc.py:51).
NobodyWaitsForTheDead ==
  \A c \in Callers : call[c].at = "waiting" =>
    ~call[c].old /\ proc[call[c].server] \in {"up", "dead"}
=============================================================================
