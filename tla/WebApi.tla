------------------------------- MODULE WebApi -------------------------------
(***************************************************************************)
(* The web UI's server (harness/web/server.py): which requests it answers,  *)
(* and the handlers whose request thread looks at something and acts on it  *)
(* later: the session drawer's rows, their deletion, the MCP servers.       *)
(*                                                                         *)
(* What a POST then does to a turn is in Controller.tla, what the event     *)
(* stream sends in EventBus.tla.                                            *)
(***************************************************************************)
EXTENDS Integers, FiniteSets

CONSTANTS
  Sessions,     \* saved sessions, by name
  Requests,     \* request threads
  Racing,       \* whether a turn may start, a session be opened, within a request
  MaxWrites, MaxAsks     \* bounds: saves of sessions, requests

VARIABLES
  files,      \* session file -> [mtime, info]; mtime 0: none
  cache,      \* _session_cache: the same
  open,       \* the session open
  busy,       \* a turn is under way
  conf,       \* mcp.json, counted
  servers,    \* the configuration the MCP servers were started from
  asks,       \* request thread -> what it is at
  shown,      \* the rows last shown: session -> info, 0 for none
  removed,    \* the session deleted last and whether it was open then
  reloaded,   \* whether a turn was under way when the servers were reloaded last
  writes, asked

webVars == <<files, cache, open, busy, conf, servers, asks, shown, removed, reloaded, writes, asked>>

Idle == [step |-> "none", left |-> {}, name |-> "", mtime |-> 0, current |-> "", rows |-> << >>]
Gone == [mtime |-> 0, info |-> 0]
Here == {s \in Sessions : files[s].mtime # 0}
At(t, step) == asks[t].step = step
Ask(t, step) == At(t, "none") /\ asked < MaxAsks /\ asked' = asked + 1
                /\ asks' = [asks EXCEPT ![t] = [Idle EXCEPT !.step = step]]
Quiet == Racing \/ \A t \in Requests : ~(asks[t].step \in {"delete", "servers"})

-----------------------------------------------------------------------------
(* The session drawer: GET /api/sessions *)

\* list_sessions, and the cache forgets files that are gone.
ListSessions(t) ==
  /\ Ask(t, "rows")
  /\ cache' = [s \in Sessions |-> IF s \in Here THEN cache[s] ELSE Gone]
  /\ UNCHANGED <<files, open, busy, conf, servers, shown, removed, reloaded, writes>>
Listed(t) ==
  /\ At(t, "rows") /\ asks[t].rows = << >>
  /\ asks' = [asks EXCEPT ![t].step = "next", ![t].left = Here, ![t].rows = [s \in Sessions |-> 0]]
  /\ UNCHANGED <<files, cache, open, busy, conf, servers, shown, removed, reloaded, writes, asked>>

\* _session_info: the file's time, and its row if the cache has that time.
Stat(t, s) ==
  /\ At(t, "next") /\ s \in asks[t].left
  /\ LET left == [asks[t] EXCEPT !.left = @ \ {s}]
     IN asks' = [asks EXCEPT ![t] =
          IF s \notin Here THEN left
          ELSE IF cache[s].mtime = files[s].mtime THEN [left EXCEPT !.rows[s] = cache[s].info]
          ELSE [left EXCEPT !.step = "read", !.name = s, !.mtime = files[s].mtime]]
  /\ UNCHANGED <<files, cache, open, busy, conf, servers, shown, removed, reloaded, writes, asked>>

\* Mutant of Stamp: the row is kept with the time the file has by then.
StampNow(t, s) == files[s].mtime
Stamp(t, s) == asks[t].mtime

\* The file is read, and its row cached; it may have gone.
Read(t) ==
  /\ At(t, "read")
  /\ LET s == asks[t].name
     IN asks' = [asks EXCEPT ![t].step = IF s \in Here THEN "keep" ELSE "next",
                             ![t].rows[s] = files[s].info]
  /\ UNCHANGED <<files, cache, open, busy, conf, servers, shown, removed, reloaded, writes, asked>>
Cached(t) ==
  /\ At(t, "keep")
  /\ LET s == asks[t].name
     IN cache' = [cache EXCEPT ![s] = [mtime |-> Stamp(t, s), info |-> asks[t].rows[s]]]
  /\ asks' = [asks EXCEPT ![t].step = "next"]
  /\ UNCHANGED <<files, open, busy, conf, servers, shown, removed, reloaded, writes, asked>>
Show(t) ==
  /\ At(t, "next") /\ asks[t].left = {}
  /\ shown' = asks[t].rows /\ asks' = [asks EXCEPT ![t] = Idle]
  /\ UNCHANGED <<files, cache, open, busy, conf, servers, removed, reloaded, writes, asked>>

-----------------------------------------------------------------------------
(* POST /api/sessions/delete and /api/mcp/servers *)

\* The open session is named first, then the files go.
DeleteSessions(t) ==
  /\ Ask(t, "delete_")
  /\ UNCHANGED <<files, cache, open, busy, conf, servers, shown, removed, reloaded, writes>>
Current(t) ==
  /\ At(t, "delete_") /\ asks' = [asks EXCEPT ![t].step = "delete", ![t].current = open]
  /\ UNCHANGED <<files, cache, open, busy, conf, servers, shown, removed, reloaded, writes, asked>>
Deletable(t) == Here \ {asks[t].current}
Delete(t, names) ==
  /\ At(t, "delete")
  /\ LET gone == names \cap Deletable(t)
     IN /\ files' = [s \in Sessions |-> IF s \in gone THEN Gone ELSE files[s]]
        /\ removed' = (open \in gone)
  /\ asks' = [asks EXCEPT ![t] = Idle]
  /\ UNCHANGED <<cache, open, busy, conf, servers, shown, reloaded, writes, asked>>

\* "Busy: finish or interrupt the turn first"
McpServers(t) ==
  /\ ~busy /\ Ask(t, "servers")
  /\ UNCHANGED <<files, cache, open, busy, conf, servers, shown, removed, reloaded, writes>>
Edit(t) ==
  /\ At(t, "servers") /\ conf' = conf + 1 /\ servers' = conf'
  /\ reloaded' = busy /\ asks' = [asks EXCEPT ![t] = Idle]
  /\ UNCHANGED <<files, cache, open, busy, shown, removed, writes, asked>>

-----------------------------------------------------------------------------
(* Meanwhile *)

\* A session is saved: the open one.
Save ==
  /\ writes < MaxWrites /\ writes' = writes + 1
  /\ files' = [files EXCEPT ![open] = [mtime |-> writes + 2, info |-> writes + 2]]
  /\ UNCHANGED <<cache, open, busy, conf, servers, asks, shown, removed, reloaded, asked>>
Open(s) ==
  /\ s \in Here /\ ~busy /\ Quiet /\ open' = s
  /\ UNCHANGED <<files, cache, busy, conf, servers, asks, shown, removed, reloaded, writes, asked>>
Turn ==
  /\ Quiet /\ busy' = ~busy
  /\ UNCHANGED <<files, cache, open, conf, servers, asks, shown, removed, reloaded, writes, asked>>

Init ==
  /\ files = [s \in Sessions |-> [mtime |-> 1, info |-> 1]] /\ cache = [s \in Sessions |-> Gone]
  /\ open \in Sessions /\ busy = FALSE /\ conf = 0 /\ servers = 0
  /\ asks = [t \in Requests |-> Idle] /\ shown = [s \in Sessions |-> 0]
  /\ removed = FALSE /\ reloaded = FALSE /\ writes = 0 /\ asked = 0

Next ==
  \/ \E t \in Requests :
       \/ ListSessions(t) \/ Listed(t) \/ Read(t) \/ Cached(t) \/ Show(t)
       \/ \E s \in Sessions : Stat(t, s)
       \/ DeleteSessions(t) \/ Current(t) \/ \E names \in SUBSET Sessions : Delete(t, names)
       \/ McpServers(t) \/ Edit(t)
  \/ Save \/ Turn \/ \E s \in Sessions : Open(s)

Spec == Init /\ [][Next]_webVars

-----------------------------------------------------------------------------
TypeOK ==
  /\ open \in Sessions /\ busy \in BOOLEAN /\ removed \in BOOLEAN /\ reloaded \in BOOLEAN
  /\ \A t \in Requests : asks[t].left \subseteq Sessions /\ asks[t].name \in Sessions \cup {""}
  /\ \A s \in Sessions : {files[s].mtime, cache[s].mtime} \subseteq 0..(MaxWrites + 1)

\* A row the drawer would show without reading the file is what the file says, however
\* saves, deletions and two requests fell between the steps that put it there.
RowsCurrent ==
  \A s \in Here : cache[s].mtime = files[s].mtime => cache[s].info = files[s].info

\* "The session that is open is never deleted", and servers are not reloaded under a
\* turn: both were looked at in a step of their own, so only as long as nothing moves.
OpenKept == ~removed
NotUnderTurn == ~reloaded

-----------------------------------------------------------------------------
(* Which requests are answered (_make_handler) *)

\* at: [token, ca]: started with an access token, with momo's own certificate.
\* r: [method, route, host, cred, query, origin, ctype, body]; host and origin are
\* "own", "machine" (a name --web-insecure adds) or "other"; cred "good", "bad", "none".
Static == {"/", "/app.css", "/app.js"}
Reads == {"/api/state", "/api/events", "/api/sessions", "/api/file"}
Acts == {"/api/submit", "/api/cancel", "/api/mode", "/api/sessions/delete", "/api/retry",
         "/api/index-filter", "/api/mcp/servers", "/api/undo", "/api/changes/revert", "/api/keep",
         "/api/edit"}
NeedsBody == Acts \ {"/api/cancel", "/api/retry", "/api/keep", "/api/undo"}

HostOk(at, r) == at.token \/ r.host = "own" \/ (r.host = "machine" /\ at.insecure)
Authed(at, r) == ~at.token \/ r.cred = "good"

DoGet(at, r) ==
  IF ~HostOk(at, r) THEN 403
  ELSE IF r.route = "/momo-ca.pem" /\ at.ca THEN 200
  ELSE IF r.route = "/" /\ at.token /\ r.query = "good" THEN 303
  ELSE IF ~Authed(at, r) THEN 401
  ELSE IF r.route \in Static \cup Reads THEN 200 ELSE 404
DoHead(at, r) == IF r.route \in Static THEN DoGet(at, r) ELSE 405

\* "browsers always send Origin on cross-site POSTs"
SameOrigin(r) == r.origin = "none" \/ r.origin = r.host

Upload(r) ==
  IF r.ctype # "octets" THEN 415 ELSE IF r.body = "large" THEN 413
  ELSE IF r.body = "bad" THEN 422 ELSE 200

DoPost(at, r, isBusy) ==
  IF ~HostOk(at, r) THEN 403
  ELSE IF ~Authed(at, r) THEN 401
  ELSE IF ~SameOrigin(r) THEN 403
  ELSE IF r.route = "/api/upload" THEN Upload(r)
  ELSE IF r.ctype # "json" THEN 415
  ELSE IF r.body = "large" THEN 413
  ELSE IF r.body = "bad" THEN 400
  ELSE IF r.route \notin Acts THEN 404
  ELSE IF r.route = "/api/mcp/servers" /\ r.origin = "none" THEN 403
  ELSE IF r.body = "empty" /\ r.route \in NeedsBody THEN 400
  ELSE IF isBusy /\ r.route \in {"/api/mcp/servers", "/api/undo", "/api/changes/revert", "/api/keep"}
       THEN 409
  ELSE 200

\* "POSTs must be JSON and same-origin", on a token bind with the token, else to a name
\* of this machine: nothing else makes momo act; and what the page itself sends, and a
\* script with the token but no Origin, is never turned away.
PageOnly(at, r) ==
  LET status == DoPost(at, r, FALSE)
      known == IF at.token THEN r.cred = "good"
               ELSE r.host = "own" \/ (at.insecure /\ r.host = "machine")
  IN /\ r.route \in Acts /\ status = 200 =>
          known /\ r.ctype = "json" /\ r.origin \in {"none", r.host}
     /\ r.route \in Acts /\ known /\ r.ctype = "json" /\ r.body = "good"
          /\ (r.origin = r.host \/ (r.origin = "none" /\ r.route # "/api/mcp/servers")) => status = 200
     /\ 200 \in {DoGet(at, r), DoHead(at, r)} /\ ~known => r.route = "/momo-ca.pem"
=============================================================================
