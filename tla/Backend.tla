------------------------------ MODULE Backend ------------------------------
(***************************************************************************)
(* The model server momo talks to (harness/harness.py, llm/): which         *)
(* provider, host and model, the model's window, and the compaction limit   *)
(* derived from it or set by the user.  A server comes up, goes down and is *)
(* relaunched with another model or window at any time; "ollama" serves     *)
(* several models by name, "llamacpp" the one it was launched with.         *)
(*                                                                         *)
(* 0 is a window the server does not report; a pct of 0 is none set.        *)
(***************************************************************************)
EXTENDS Integers, FiniteSets, FiniteSetsExt

CONSTANTS
  Hosts, RunsOn,           \* the hosts, and the provider of the server at each
  Models, Windows,         \* Windows \subseteq Nat \ {0}
  Limits, Percents,        \* what the user sets with /context
  FLOOR, DEFAULT_LIMIT,    \* 256, and the limit before a window is known
  DEFAULT_MODEL,
  MaxServes, MaxOps        \* bounds: server changes, the user's commands

VARIABLES
  server,    \* host -> [up, served, loaded, window]
  client,    \* [provider, host, model]
  limit, fixed, pct,       \* context_limit, context_fixed, context_pct
  window,    \* model_max_ctx
  reachable, \* backend_reachable
  open, talked, saved,     \* the session open, those with a message, what each was saved with
  prefs,     \* [provider, model]
  did,       \* the last step
  serves, ops

backendVars == <<server, client, limit, fixed, pct, window, reachable, open, talked, saved,
                 prefs, did, serves, ops>>

Sessions == {1, 2}
NoSession == [client |-> [provider |-> "", host |-> "", model |-> ""], limit |-> 0,
              fixed |-> FALSE, pct |-> 0]
DefaultHost(provider) == CHOOSE h \in Hosts : RunsOn[h] = provider
CanSwitch(provider) == provider = "ollama"

-----------------------------------------------------------------------------
(* What the server answers (ollama_client.py, llamacpp_client.py) *)

Answers(c) == RunsOn[c.host] = c.provider /\ server[c.host].up
ListModels(c) == IF Answers(c) THEN server[c.host].served ELSE {}
LoadedModels(c) == IF Answers(c) THEN {server[c.host].loaded} \ {"none"} ELSE {}
\* The window is asked of the named model (ollama) or of the server (llama.cpp).
ContextLength(c) ==
  IF Answers(c) /\ (CanSwitch(c.provider) => c.model \in server[c.host].served)
  THEN server[c.host].window[c.model] ELSE 0

Share(p, w) == Max({FLOOR, (w * (IF p = 0 THEN 50 ELSE p)) \div 100})

\* _reconcile_fixed_model: the client as the server has it.
Reconciled(c) ==
  IF CanSwitch(c.provider) \/ ListModels(c) = {} THEN c
  ELSE [c EXCEPT !.model = CHOOSE m \in ListModels(c) : TRUE]

\* _sync_context_limit: [limit, fixed, window] for the client, from those given.
Synced(c, lim, fix, p) ==
  LET w == ContextLength(c)
  IN [limit |-> IF w # 0 /\ ~fix THEN Share(p, w) ELSE lim, fixed |-> fix, window |-> w]

\* _fit_fixed_limit
Fitted(c, s, p) ==
  IF s.fixed /\ s.window # 0 /\ s.limit > s.window THEN Synced(c, s.limit, FALSE, p) ELSE s

Set(c, s) == client' = c /\ limit' = s.limit /\ fixed' = s.fixed /\ window' = s.window

SavePrefs(c) == prefs' = [provider |-> c.provider, model |-> c.model]
Record == [client |-> client, limit |-> limit, fixed |-> fixed, pct |-> pct]

-----------------------------------------------------------------------------
(* The server's side *)

Served == [up : BOOLEAN, served : SUBSET Models \ {{}}, loaded : Models \cup {"none"},
           window : [Models -> Windows \cup {0}]]
Possible(h, s) ==
  IF RunsOn[h] = "ollama" THEN s.loaded \in s.served \cup {"none"}
                               /\ s.window = server[h].window    \* each model's own
  ELSE s.served = {s.loaded} /\ Cardinality({s.window[m] : m \in Models}) = 1

Relaunch(h) ==
  /\ serves < MaxServes /\ serves' = serves + 1 /\ did' = "relaunch"
  /\ \E s \in {x \in Served : Possible(h, x)} : server' = [server EXCEPT ![h] = s]
  /\ UNCHANGED <<client, limit, fixed, pct, window, reachable, open, talked, saved, prefs, ops>>

-----------------------------------------------------------------------------
(* The harness's *)

Command(name) == ops < MaxOps /\ ops' = ops + 1 /\ did' = name /\ UNCHANGED <<server, serves>>

\* refresh_backend: an unreachable server leaves the values last known.
Refreshed(c) ==
  IF ListModels(c) = {} THEN client' = c /\ UNCHANGED <<limit, fixed, window>>
  ELSE LET known == Reconciled(c)
       IN Set(known, Fitted(known, Synced(known, limit, fixed, pct), pct))

RefreshBackend(c) ==
  /\ reachable' = (ListModels(c) # {}) /\ Refreshed(c)
  /\ IF client'.model # c.model THEN SavePrefs(client') ELSE UNCHANGED prefs
  /\ UNCHANGED <<pct, open, talked>>

\* A message: send re-reads the server, and the turn's end saves the session.
Send ==
  /\ Command("send") /\ reachable' = (ListModels(client) # {}) /\ Refreshed(client)
  /\ UNCHANGED <<pct, open>> /\ talked' = talked \cup {open}
  /\ SavePrefs(client') /\ saved' = [saved EXCEPT ![open] = Record']

\* The idle poll: only a fixed-model server is asked between turns.
BackendTick ==
  /\ ~CanSwitch(client.provider) /\ Command("poll")
  /\ RefreshBackend(client) /\ UNCHANGED saved

Host(h) == Command("host") /\ RefreshBackend([client EXCEPT !.host = h]) /\ UNCHANGED saved

\* /model: refused where the server serves one model.
SetModel(m) ==
  /\ CanSwitch(client.provider) /\ Command("model")
  /\ LET c == [client EXCEPT !.model = m] IN Set(c, Synced(c, limit, fixed, pct))
  /\ UNCHANGED <<pct, reachable, open, talked, saved, prefs>>

Context(n) ==
  /\ Command("context") /\ pct' = 0 /\ fixed' = TRUE /\ limit' = n
  /\ UNCHANGED <<client, window, reachable, open, talked, saved, prefs>>

ContextPercent(p) ==
  /\ ContextLength(client) # 0 /\ Command("context") /\ pct' = p
  /\ Set(client, Synced(client, limit, FALSE, p))
  /\ UNCHANGED <<reachable, open, talked, saved, prefs>>

\* load_session: what the session was saved with, as far as the server has it.
Loaded(s, lim) ==
  LET c == Reconciled(s.client)
      fix == s.fixed /\ s.pct = 0
  IN [client |-> c, sync |-> Synced(c, IF fix THEN s.limit ELSE lim, fix, s.pct), pct |-> s.pct]

LoadSession(n) ==
  /\ n # open /\ saved[n] # NoSession /\ Command("load")
  /\ LET l == Loaded(saved[n], limit) IN Set(l.client, l.sync) /\ pct' = l.pct
  /\ saved' = [saved EXCEPT ![open] = Record]
  /\ open' = n /\ SavePrefs(client)
  /\ UNCHANGED <<reachable, talked>>

\* new_session: a file of its own; the settings stay.
NewSession ==
  /\ \E n \in Sessions : saved[n] = NoSession /\ n # open /\ open' = n
  /\ Command("new") /\ saved' = [saved EXCEPT ![open] = Record] /\ SavePrefs(client)
  /\ UNCHANGED <<client, limit, fixed, pct, window, reachable, talked>>

\* check_backend: the startup check of what was restored.
Checked(l) ==
  LET found == LoadedModels(l.client) \cap ListModels(l.client)
      c == IF ListModels(l.client) = {} THEN l.client
           ELSE IF ~CanSwitch(l.client.provider) THEN Reconciled(l.client)
           ELSE IF l.client.model \notin ListModels(l.client) /\ found # {}
           THEN [l.client EXCEPT !.model = CHOOSE m \in found : TRUE]
           ELSE l.client
  IN IF ListModels(l.client) = {} THEN [client |-> c, sync |-> l.sync]
     ELSE [client |-> c,
           sync |-> Fitted(c, Synced(c, l.sync.limit, l.sync.fixed, l.pct), l.pct)]

\* switch_backend, when --provider was given: its own host, the last model.
Flagged(l, flag) ==
  IF flag = "none" THEN l
  ELSE LET same == flag = l.client.provider
           c == Reconciled([provider |-> flag,
                            host |-> IF same THEN l.client.host ELSE DefaultHost(flag),
                            model |-> IF same THEN l.client.model ELSE client.model])
       IN [l EXCEPT !.client = c, !.sync = Synced(c, l.sync.limit, l.sync.fixed, l.pct)]

\* main: momo ends (its session saved) and starts again, with --provider and
\* --context or without.  The last session with a message is opened again;
\* with --fresh, or without one, a new session starts.
Restart(flag, context, fresh) ==
  /\ Command("restart")
  /\ LET kept == [saved EXCEPT ![open] = Record]
         last == IF fresh THEN {} ELSE IF open \in talked THEN {open} ELSE talked
         new == [client |-> [provider |-> IF flag = "none" THEN client.provider ELSE flag,
                             host |-> DefaultHost(IF flag = "none" THEN client.provider ELSE flag),
                             model |-> client.model],
                 sync |-> [limit |-> DEFAULT_LIMIT, fixed |-> FALSE, window |-> 0], pct |-> 0]
         restored == IF last = {} THEN new
                     ELSE Flagged(Loaded(kept[Max(last)], DEFAULT_LIMIT), flag)
         asked == IF context = 0 THEN restored
                  ELSE [restored EXCEPT !.sync.limit = context, !.sync.fixed = TRUE, !.pct = 0]
         r == Checked(asked)
     IN /\ Set(r.client, r.sync) /\ pct' = asked.pct
        /\ reachable' = (ListModels(asked.client) # {})
        /\ open' = IF last = {} THEN CHOOSE n \in Sessions : n # open ELSE Max(last)
        /\ saved' = IF last = {} THEN [kept EXCEPT ![open'] = NoSession] ELSE kept
        /\ talked' = IF last = {} THEN talked \ {open'} ELSE talked
        /\ SavePrefs(r.client)

Init ==
  /\ server \in [Hosts -> {[up |-> TRUE, served |-> {DEFAULT_MODEL}, loaded |-> DEFAULT_MODEL,
                            window |-> [m \in Models |-> Max(Windows)]]}]
  /\ client = [provider |-> "ollama", host |-> DefaultHost("ollama"), model |-> DEFAULT_MODEL]
  /\ limit = Share(0, Max(Windows)) /\ fixed = FALSE /\ pct = 0 /\ window = Max(Windows)
  /\ reachable = TRUE /\ open = 1 /\ talked = {} /\ saved = [n \in Sessions |-> NoSession]
  /\ prefs = [provider |-> "ollama", model |-> DEFAULT_MODEL]
  /\ did = "start" /\ serves = 0 /\ ops = 0

Next ==
  \/ \E h \in Hosts : Relaunch(h) \/ Host(h)
  \/ Send \/ BackendTick \/ NewSession
  \/ \E m \in Models : SetModel(m)
  \/ \E n \in Limits : Context(n)
  \/ \E p \in Percents : ContextPercent(p)
  \/ \E n \in Sessions : LoadSession(n)
  \/ \E flag \in {"none", "ollama", "llamacpp"}, n \in {0} \cup Limits, fresh \in BOOLEAN :
       Restart(flag, n, fresh)

Spec == Init /\ [][Next]_backendVars

-----------------------------------------------------------------------------
\* The client, the limit and its source, the saved sessions and preferences.
TypeOK ==
  /\ client \in [provider : {"ollama", "llamacpp"}, host : Hosts, model : Models]
  /\ limit \in Nat \ {0} /\ fixed \in BOOLEAN /\ pct \in {0} \cup Percents
  /\ window \in {0} \cup Windows /\ reachable \in BOOLEAN /\ open \in Sessions
  /\ prefs \in [provider : {"ollama", "llamacpp"}, model : Models]
  /\ fixed => pct = 0

\* _fit_fixed_limit's comment: "A limit the user set above the model's window
\* can't be honoured".  So no message goes out with a compaction limit that the
\* window known does not hold, whatever was set, loaded or relaunched before.
SentFits ==
  did \in {"send", "restart"} /\ reachable /\ window # 0 => limit <= window

\* refresh_backend's docstring: "An unreachable (or still loading) server only
\* flips backend_reachable, so the last-known values survive a restart".
DownKeepsStep ==
  (did' \in {"send", "poll", "host"} /\ ops' # ops /\ ~reachable')
  => UNCHANGED <<limit, fixed, window, pct>> /\ client'.model = client.model
DownKeeps == [][DownKeepsStep]_backendVars

\* main.py: "Backend flags given on the command line beat the backend the
\* restored session was saved with"; --context beats its limit unless the
\* server's window is smaller.
FlagsBeatSessionStep ==
  \A flag \in {"none", "ollama", "llamacpp"}, n \in {0} \cup Limits, fresh \in BOOLEAN :
    Restart(flag, n, fresh) =>
      /\ flag # "none" => client'.provider = flag
      /\ n # 0 => limit' = n \/ (window' # 0 /\ window' < n)
FlagsBeatSession == [][FlagsBeatSessionStep]_backendVars

\* "An absolute limit the user set ...: kept across sessions" (harness.py): the
\* limit of a session opened again is the one set in it, while the window allows.
OwnLimitReturnsStep ==
  \A n \in Sessions : LoadSession(n) /\ saved[n].fixed =>
    fixed' /\ limit' = saved[n].limit
OwnLimitReturns == [][OwnLimitReturnsStep]_backendVars

\* Not so for a limit that follows the window: with the server unreachable the
\* session opened keeps the limit of the one it replaces.
LimitIsItsOwn ==
  [][\A n \in Sessions : LoadSession(n) /\ window' = 0 => limit' = saved[n].limit]_backendVars
=============================================================================
