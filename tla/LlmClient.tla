------------------------------ MODULE LlmClient ------------------------------
(***************************************************************************)
(* A request to the model server (harness/llm): the HTTP client under it,   *)
(* which another thread may close at any point, what is read of the model   *)
(* once, the one retry, and what goes into a request and comes out of it.   *)
(*                                                                         *)
(* Closing shuts down the sockets that are open: a worker blocked on one    *)
(* reads what had arrived and then an end, the same end a finished reply    *)
(* has.  The adapter then carries on with a new HTTP client.                *)
(***************************************************************************)
EXTENDS Integers, Sequences, SequencesExt, FiniteSets, FiniteSetsExt, Functions

CONSTANTS
  Models, Hosts,        \* by name
  Breaks,               \* <<host, model>>: the template there fails on < > & (_is_qwen ones)
  Levels,               \* EFFORT_LEVELS: least to most
  MaxPieces,            \* pieces of a reply
  Between,              \* whether Esc may come after the loop looked, before the request
  MaxRequests, MaxAborts   \* bounds: requests, times the client is closed or moved

VARIABLES
  host, model,
  current,     \* LLMClient._client, counted
  closed,      \* HTTPClient._closed
  caps,        \* _think_caps: model -> [known, at] of the last probe, or Unread
  escaped,     \* _xml_escape_models
  req,         \* the request under way
  esc,         \* "no", "set": _cancel; "done": the client was closed too
  answered,    \* <<host, model>>: that answered with the XML error
  requests, aborts

llmVars == <<host, model, current, closed, caps, escaped, req, esc, answered, requests, aborts>>

Unread == [read |-> FALSE, known |-> FALSE, host |-> CHOOSE h \in Hosts : TRUE]
NoReq == [step |-> "none", client |-> 0, model |-> CHOOSE m \in Models : TRUE, raw |-> TRUE,
          sock |-> "none", sent |-> 0, got |-> 0, over |-> FALSE, known |-> FALSE]
At(step) == req.step = step
Aborted == req.client \in closed
Connected == {"send", "read"}

-----------------------------------------------------------------------------
(* HTTPClient and the adapters' chat() *)

End(how) == req' = [req EXCEPT !.step = how, !.sock = "none"]

\* _run_loop looked at _cancel and calls chat(): the model and whether its messages
\* are escaped are settled first.
Chat ==
  /\ req.step \in {"none", "done", "failed"} /\ esc = "no"
  /\ requests < MaxRequests /\ requests' = requests + 1
  /\ req' = [NoReq EXCEPT !.step = "think", !.model = model, !.raw = model \notin escaped]
  /\ UNCHANGED <<host, model, current, closed, caps, escaped, esc, answered, aborts>>

\* thinking_caps: read once per model, an unanswered probe too.
ThinkingCaps(answers) ==
  /\ At("think")
  /\ IF caps[req.model].read THEN UNCHANGED caps
     ELSE caps' = [caps EXCEPT ![req.model] = [read |-> TRUE, known |-> answers, host |-> host]]
  /\ req' = [req EXCEPT !.step = "pick", !.known = caps'[req.model].known]
  /\ UNCHANGED <<host, model, current, closed, escaped, esc, answered, requests, aborts>>

\* client = self._client
Pick ==
  /\ At("pick") /\ req' = [req EXCEPT !.step = "connect", !.client = current]
  /\ UNCHANGED <<host, model, current, closed, caps, escaped, esc, answered, requests, aborts>>

\* _connect, to the lock: refused on a closed client, and known to close() from here on,
\* though it has no socket yet.
Connect ==
  /\ At("connect")
  /\ IF Aborted THEN End("failed") ELSE req' = [req EXCEPT !.step = "connecting"]
  /\ UNCHANGED <<host, model, current, closed, caps, escaped, esc, answered, requests, aborts>>

\* close() ran while we were connecting: the socket it could not see is not used.
Kept == ~Aborted

\* The connection stands, or the server is not there.
Connecting(ok) ==
  /\ At("connecting")
  /\ IF ok /\ Kept THEN req' = [req EXCEPT !.step = "send", !.sock = "open"] ELSE End("failed")
  /\ UNCHANGED <<host, model, current, closed, caps, escaped, esc, answered, requests, aborts>>

\* The request goes out and an answer comes: a reply, an error, or the XML error, upon
\* which chat() sends the escaped copy, once for all for that model.
Send(answer) ==
  /\ At("send")
  /\ answer = "xml" => req.raw /\ <<host, req.model>> \in Breaks /\ req.sock = "open"
  /\ LET a == IF req.sock = "shut" THEN "error" ELSE answer
     IN CASE a = "reply" -> req' = [req EXCEPT !.step = "read"] /\ UNCHANGED <<escaped, answered>>
          [] a = "error" -> End("failed") /\ UNCHANGED <<escaped, answered>>
          [] a = "xml" ->
               /\ escaped' = escaped \cup {req.model}
               /\ answered' = answered \cup {<<host, req.model>>}
               /\ req' = [req EXCEPT !.step = "pick", !.raw = FALSE, !.sock = "none"]
  /\ UNCHANGED <<host, model, current, closed, caps, esc, requests, aborts>>

\* The server generates: nothing reaches a socket that is shut down.
Generate ==
  /\ At("read") /\ req.sock = "open" /\ ~req.over
  /\ IF req.sent < MaxPieces THEN req' = [req EXCEPT !.sent = @ + 1]
     ELSE req' = [req EXCEPT !.over = TRUE]
  /\ UNCHANGED <<host, model, current, closed, caps, escaped, esc, answered, requests, aborts>>

\* stream_lines: a line that has arrived.
Line ==
  /\ At("read") /\ req.got < req.sent /\ req' = [req EXCEPT !.got = @ + 1]
  /\ UNCHANGED <<host, model, current, closed, caps, escaped, esc, answered, requests, aborts>>

\* _raise_if_aborted: a shut-down socket reads as a clean end of stream.
Finished == ~Aborted

\* No line is left and none will come: the end, or the stream was interrupted.
EndOfStream(dies) ==
  /\ At("read") /\ req.got = req.sent
  /\ IF dies THEN End("failed")
     ELSE /\ req.over \/ req.sock = "shut"
          /\ IF Finished THEN End("done") ELSE End("failed")
  /\ UNCHANGED <<host, model, current, closed, caps, escaped, esc, answered, requests, aborts>>

-----------------------------------------------------------------------------
(* The other threads *)

\* HTTPClient.close: every open socket of the client.
Shut == IF req.client = current /\ req.step \in Connected THEN [req EXCEPT !.sock = "shut"] ELSE req

Swap == aborts < MaxAborts /\ aborts' = aborts + 1
        /\ closed' = closed \cup {current} /\ current' = current + 1 /\ req' = Shut

\* Harness.cancel: the flag, then the client.
Cancel ==
  /\ req.step \in {"think", "pick", "connect", "connecting"} \cup Connected /\ esc = "no"
  /\ aborts < MaxAborts     \* the bound leaves room for the abort
  /\ esc' = "set"
  /\ UNCHANGED <<host, model, current, closed, caps, escaped, req, answered, requests, aborts>>
Abort ==
  /\ esc = "set" /\ esc' = "done" /\ (Between \/ ~(req.step \in {"think", "pick"}))
  /\ Swap /\ UNCHANGED <<host, model, caps, escaped, answered, requests>>
\* The turn ends with the request.
Settle ==
  /\ esc = "done" /\ req.step \in {"done", "failed"} /\ esc' = "no"
  /\ UNCHANGED <<host, model, current, closed, caps, escaped, req, answered, requests, aborts>>

Forgotten == [m \in Models |-> Unread]

\* set_host, of a controller that is not busy.
SetHost(h) ==
  /\ req.step \in {"none", "done", "failed"} /\ esc = "no"
  /\ host' = h /\ caps' = Forgotten /\ Swap
  /\ UNCHANGED <<model, escaped, esc, answered, requests>>
\* Harness.set_model; and refresh_thinking_caps when the controller is idle.
SetModel(m) ==
  /\ req.step \in {"none", "done", "failed"} /\ model' = m
  /\ caps' = [n \in Models |-> Unread]
  /\ UNCHANGED <<host, current, closed, escaped, req, esc, answered, requests, aborts>>

Init ==
  /\ host \in Hosts /\ model \in Models /\ current = 1 /\ closed = {}
  /\ caps = [m \in Models |-> Unread] /\ escaped = {} /\ req = NoReq /\ esc = "no"
  /\ answered = {} /\ requests = 0 /\ aborts = 0

Next ==
  \/ Chat \/ Pick \/ Connect \/ Generate \/ Line
  \/ \E b \in BOOLEAN : ThinkingCaps(b) \/ Connecting(b) \/ EndOfStream(b)
  \/ \E a \in {"reply", "error", "xml"} : Send(a)
  \/ Cancel \/ Abort \/ Settle
  \/ \E h \in Hosts : SetHost(h)
  \/ \E m \in Models : SetModel(m)

Spec == Init /\ [][Next]_llmVars

-----------------------------------------------------------------------------
TypeOK ==
  /\ host \in Hosts /\ model \in Models /\ escaped \subseteq Models
  /\ closed = 1..(current - 1) /\ req.client \in 0..current /\ esc \in {"no", "set", "done"}
  /\ req.sock \in {"none", "open", "shut"} /\ req.got <= req.sent /\ req.sent <= MaxPieces
  /\ (req.step \in Connected) = (req.sock # "none")

\* "the caller must not mistake an aborted reply for a finished one": a reply that
\* chat() returns is all of what the model wrote.
WholeReply == At("done") => req.got = MaxPieces

\* "Interrupt the running LLM call immediately" (Harness.cancel): once the client is
\* closed, no request of this turn has a socket open, whatever it was doing.
EscReaches == esc = "done" => req.sock # "open"

\* What a request says about thinking goes by what this server answered, never by what
\* the one before it did.
CapsOfHost == \A m \in Models : caps[m].read => caps[m].host = host

\* A model's messages are escaped "only for a model whose server answered that 500":
\* false after /host, for the set goes by the model's name.
EscapedAsAsked == \A m \in escaped : <<host, m>> \in answered

-----------------------------------------------------------------------------
(* What a request says about thinking (base.py) *)

Rank(level) == CHOOSE k \in DOMAIN Levels : Levels[k] = level

NearestEffort(level, levels) ==
  LET far(l) == IF Rank(l) < Rank(level) THEN Rank(level) - Rank(l) ELSE Rank(l) - Rank(level)
  IN CHOOSE l \in levels : \A k \in levels :
       far(l) < far(k) \/ (far(l) = far(k) /\ Rank(l) >= Rank(k))
Least(levels) == CHOOSE l \in levels : \A k \in levels : Rank(l) <= Rank(k)

\* ThinkingCaps: c = [toggle, levels, can_disable].  "": nothing is sent.
Resolve(c, level) ==
  IF ~c.toggle /\ c.levels = {} THEN ""
  ELSE IF level = "off" THEN IF c.can_disable \/ c.levels = {} THEN "off" ELSE Least(c.levels)
  ELSE IF level = "on" \/ c.levels = {} THEN "on"
  ELSE IF level \in c.levels THEN level ELSE NearestEffort(level, c.levels)
ThinkChoices(c) ==
  IF ~c.toggle /\ c.levels = {} THEN {}
  ELSE (IF c.can_disable THEN {"off"} ELSE {}) \cup {"on"} \cup c.levels

\* What is sent is something the model takes: a choice of its own is sent as it is,
\* and another level as the closest it has, the higher of two.
ThinkHonest(c, level) ==
  LET sent == Resolve(c, level)
  IN /\ sent \in ThinkChoices(c) \cup {""} \/ (sent = "off" /\ c.levels = {})
     /\ level \in ThinkChoices(c) => sent = level
     /\ \A other \in Range(Levels) :     \* asking for more never gets less
          LET got == Resolve(c, other)
          IN level \in Range(Levels) /\ {sent, got} \subseteq c.levels /\ Rank(level) <= Rank(other)
               => /\ Rank(sent) <= Rank(got)
                  /\ sent # got => 2 * Rank(level) < Rank(sent) + Rank(got)

-----------------------------------------------------------------------------
(* The messages sent and the calls received (llamacpp_client.py) *)

NextId(pending) == Head(pending)

\* _to_openai_messages: a message is [role, calls]; the ids given, in the order given.
Translate(messages) ==
  FoldLeft(LAMBDA s, m :
      IF m.role = "assistant" /\ m.calls > 0
      THEN LET ids == [k \in 1..m.calls |-> s.count + k]
           IN [s EXCEPT !.out = Append(@, ids), !.pending = @ \o ids, !.count = @ + m.calls]
      ELSE IF m.role # "tool" THEN [s EXCEPT !.out = Append(@, <<>>)]
      ELSE IF s.pending = <<>>
           THEN [s EXCEPT !.out = Append(@, <<s.count + 1>>), !.count = @ + 1]
           ELSE [s EXCEPT !.out = Append(@, <<NextId(s.pending)>>),
                                !.pending = SelectSeq(@, LAMBDA id : id # NextId(s.pending))],
    [out |-> <<>>, pending |-> <<>>, count |-> 0], messages).out

\* Histories as the loop keeps them: every call answered before the next reply.
History(rounds) ==
  FlattenSeq([k \in DOMAIN rounds |->
    <<[role |-> "assistant", calls |-> rounds[k]]>>
      \o [j \in 1..rounds[k] |-> [role |-> "tool", calls |-> 0]]])

\* "a FIFO of generated ids pairs them up": a result carries the id of the call it
\* answers, and no id is given twice.
IdsPair(rounds) ==
  LET out == Translate(History(rounds))
      at(k) == k + FoldLeft(+, 0, SubSeq(rounds, 1, k - 1))     \* where round k starts
  IN /\ \A k \in DOMAIN rounds, j \in 1..3 :
          j <= rounds[k] => out[at(k) + j] = <<out[at(k)][j]>>
     /\ \A k, l \in DOMAIN rounds : k # l => ToSet(out[at(k)]) \cap ToSet(out[at(l)]) = {}

Slot(calls, index) == index
\* _consume_stream: fragments [index, name, args] by index; a call keeps its first name.
Merged(fragments) ==
  FoldLeft(LAMBDA calls, f :
      LET i == Slot(calls, f.index)
          was == IF i \in DOMAIN calls THEN calls[i] ELSE [name |-> 0, args |-> <<>>]
          is == [name |-> IF was.name = 0 THEN f.name ELSE was.name, args |-> was.args \o f.args]
      IN [k \in DOMAIN calls \cup {i} |-> IF k = i THEN is ELSE calls[k]],
    << >>, fragments)
\* The calls, in the order of their indexes.
Calls(fragments) ==
  LET calls == Merged(fragments)
  IN [k \in 1..Cardinality(DOMAIN calls) |-> calls[SetToSortSeq(DOMAIN calls, <)[k]]]

\* However the server interleaves them, a call has all its fragments in order and none
\* of another's, and the name it was opened with.
CallsMerge(indexes) ==
  LET nth(k) == Cardinality({j \in 1..k : indexes[j] = indexes[k]})
      fragments == [k \in DOMAIN indexes |->
        [index |-> indexes[k], name |-> IF nth(k) = 1 THEN 1 + indexes[k] ELSE 0,
         args |-> <<nth(k)>>]]
      order == SetToSortSeq(ToSet(indexes), <)
  IN Calls(fragments) = [k \in DOMAIN order |->
       [name |-> 1 + order[k],
        args |-> [n \in 1..Cardinality({j \in DOMAIN indexes : indexes[j] = order[k]}) |-> n]]]

-----------------------------------------------------------------------------
(* Redirects (http.py _send): hops are [status, to], to an origin *)

MAX_REDIRECTS == 5
KeepsToken(had, base, from, to) == had /\ to = base
\* What is sent: <<origin, with the token>> of each request, and how it ends.
Sends(method, base, hops) ==
  FoldLeft(LAMBDA s, hop :
      IF s.end # "" THEN s
      ELSE IF method # "GET" /\ ~(hop.status \in {307, 308}) THEN [s EXCEPT !.end = "redirected"]
      ELSE IF Len(s.sent) > MAX_REDIRECTS THEN [s EXCEPT !.end = "too many"]
      ELSE [s EXCEPT !.sent = Append(@, <<hop.to, KeepsToken(Last(@)[2], base, Last(@)[1], hop.to)>>)],
    [sent |-> <<<<base, TRUE>>>>, end |-> ""], hops)

\* "a token is never replayed to another server": it is sent to the base's origin only,
\* and not again once a redirect has left it; a POST keeps its method or is not sent.
TokenStays(method, base, hops) ==
  LET sent == Sends(method, base, hops).sent
  IN /\ \A k \in DOMAIN sent : sent[k][2] <=> (\A j \in 1..k : sent[j][1] = base)
     /\ Len(sent) <= MAX_REDIRECTS + 1
     /\ method # "GET" => \A k \in 1..(Len(sent) - 1) : hops[k].status \in {307, 308}
=============================================================================
