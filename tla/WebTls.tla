------------------------------- MODULE WebTls -------------------------------
(***************************************************************************)
(* --web-tls auto (harness/web/tls.py): momo's own certificate authority,   *)
(* which a device trusts once, and the server certificate it signs again    *)
(* whenever the machine's names change or it runs out.  Six files, replaced *)
(* one after the other; the user may delete some, momo may die in between.  *)
(***************************************************************************)
EXTENDS Integers, FiniteSets

CONSTANTS
  Base,          \* names the CA permits whatever else: localhost, private addresses
  Machine,       \* the machine's other names, which come and go
  Given,         \* --web-tls-name
  LIFE, RENEW,   \* SERVER_DAYS and RENEW_BEFORE_S, in clock steps
  Torn,          \* whether momo may die between a certificate and its .json, a key and its certificate
  MaxClock, MaxStarts    \* bounds

VARIABLES
  caKey, caPem, caJson,      \* momo-ca.key (a number), .pem [key, permits], .json (names); 0: none
  srvKey, srvPem, srvJson,   \* server.key, .pem [key, ca, names, ends], .json [ca, names, ends]
  names,                     \* Machine's names now
  at,                        \* how far ensure is
  clock, made, starts

tlsVars == <<caKey, caPem, caJson, srvKey, srvPem, srvJson, names, at, clock, made, starts>>

NoPem == [key |-> 0, permits |-> {}]
NoJson == {"none"}
NoSrv == [key |-> 0, ca |-> 0, names |-> {}, ends |-> 0]
Resting == [step |-> "none", extra |-> {}, key |-> 0]
At(step) == at.step = step
Ca == <<caKey, caPem, caJson>>
Srv == <<srvKey, srvPem, srvJson>>

-----------------------------------------------------------------------------

HasCa == caKey # 0 /\ caPem # NoPem /\ caJson # NoJson

\* A start with these --web-tls-name: the CA that is there is used as it is.
Ensure(extra) ==
  /\ At("none") /\ starts < MaxStarts /\ starts' = starts + 1
  /\ IF HasCa THEN at' = [step |-> "names", extra |-> extra, key |-> 0] /\ UNCHANGED made
     ELSE at' = [step |-> "ca_key", extra |-> extra, key |-> made + 1] /\ made' = made + 1
  /\ UNCHANGED <<Ca, Srv, names, clock>>

\* _ensure_ca: made in a folder of its own, then the files are put in place in this order.
Permitted == Base \cup at.extra \cup {n \in Machine : n = "host"}
CaKey == /\ At("ca_key") /\ caKey' = at.key /\ at' = [at EXCEPT !.step = "ca_pem"]
         /\ UNCHANGED <<caPem, caJson, Srv, names, clock, made, starts>>
CaPem == /\ At("ca_pem") /\ caPem' = [key |-> at.key, permits |-> Permitted]
         /\ at' = [at EXCEPT !.step = "ca_json"]
         /\ UNCHANGED <<caKey, caJson, Srv, names, clock, made, starts>>
CaJson == /\ At("ca_json") /\ caJson' = Permitted /\ at' = [at EXCEPT !.step = "old"]
          /\ UNCHANGED <<caKey, caPem, Srv, names, clock, made, starts>>
\* The server's files were signed by a CA that no longer exists.
Unlink == /\ At("old") /\ srvKey' = 0 /\ srvPem' = NoSrv /\ srvJson' = NoSrv
          /\ at' = [at EXCEPT !.step = "names"]
          /\ UNCHANGED <<Ca, names, clock, made, starts>>

\* Auto-detected names the CA may not vouch for are left out; a given one is refused.
Vouched == {n \in Base \cup names \cup at.extra : n \in caJson}

\* The server certificate is there, for these names, by this CA, and lasts.
Usable ==
  /\ srvPem # NoSrv /\ srvKey # 0 /\ srvJson # NoSrv
  /\ srvJson.names = Vouched /\ srvJson.ca = caPem.key /\ srvJson.ends - clock >= RENEW

Names ==
  /\ At("names")
  /\ IF ~(at.extra \subseteq caJson) THEN at' = [at EXCEPT !.step = "refused"] /\ UNCHANGED made
     ELSE IF Usable THEN at' = [at EXCEPT !.step = "served"] /\ UNCHANGED made
     ELSE at' = [at EXCEPT !.step = "key", !.key = made + 1] /\ made' = made + 1
  /\ UNCHANGED <<Ca, Srv, names, clock, starts>>
\* _issue_server: signed with momo-ca.key, then put in place in this order.
New == [key |-> at.key, ca |-> caPem.key, names |-> Vouched, ends |-> clock + LIFE]
IssueKey == /\ At("key") /\ srvKey' = at.key /\ at' = [at EXCEPT !.step = "pem"]
            /\ UNCHANGED <<Ca, srvPem, srvJson, names, clock, made, starts>>
IssuePem == /\ At("pem") /\ srvPem' = New /\ at' = [at EXCEPT !.step = "json"]
            /\ UNCHANGED <<Ca, srvKey, srvJson, names, clock, made, starts>>
IssueJson == /\ At("json") /\ srvJson' = [New EXCEPT !.key = 0]
             /\ at' = [at EXCEPT !.step = "served"]
             /\ UNCHANGED <<Ca, srvKey, srvPem, names, clock, made, starts>>

\* momo ends, or dies part of the way.
Quit ==
  /\ at # Resting /\ (Torn \/ ~(at.step \in {"ca_json", "pem", "json"})) /\ at' = Resting
  /\ UNCHANGED <<Ca, Srv, names, clock, made, starts>>

\* The user follows the message: "Delete momo-ca.pem and momo-ca.key".
DeleteCa ==
  /\ At("none") /\ HasCa /\ caKey' = 0 /\ caPem' = NoPem
  /\ UNCHANGED <<caJson, Srv, names, at, clock, made, starts>>
\* Another network; time.
Moves(now) ==
  /\ At("none") /\ names' = now /\ UNCHANGED <<Ca, Srv, at, clock, made, starts>>
Tick ==
  /\ At("none") /\ clock < MaxClock /\ clock' = clock + 1
  /\ UNCHANGED <<Ca, Srv, names, at, made, starts>>

Init ==
  /\ caKey = 0 /\ caPem = NoPem /\ caJson = NoJson
  /\ srvKey = 0 /\ srvPem = NoSrv /\ srvJson = NoSrv
  /\ names = {"host"} /\ at = Resting /\ clock = 0 /\ made = 0 /\ starts = 0

Next ==
  \/ \E extra \in SUBSET Given : Ensure(extra)
  \/ CaKey \/ CaPem \/ CaJson \/ Unlink \/ Names \/ IssueKey \/ IssuePem \/ IssueJson
  \/ Quit \/ DeleteCa \/ Tick
  \/ \E now \in SUBSET Machine : Moves(now \cup {"host"})

Spec == Init /\ [][Next]_tlsVars

-----------------------------------------------------------------------------
TypeOK ==
  /\ caKey \in 0..made /\ caPem.key \in 0..made /\ srvKey \in 0..made /\ names \subseteq Machine
  /\ caJson = NoJson \/ caJson \subseteq Base \cup Machine \cup Given

\* What a start serves: a certificate for every name this machine has that the CA may
\* vouch for, signed by the CA that is there and within its constraints, with its own
\* key, and good for RENEW more, whatever died or was deleted before.
ServedGood ==
  At("served") =>
    /\ srvPem.key = srvKey /\ srvPem.ca = caPem.key /\ caKey = caPem.key
    /\ srvPem.names = (Base \cup names \cup at.extra) \cap caPem.permits
    /\ srvPem.ends - clock >= RENEW

\* "re-issued whenever those change or it nears expiry, without a new trust step": the
\* CA is made anew only when one of its files is gone, and the names never ask for it.
TrustKeptStep == caPem' \notin {caPem, NoPem} => caPem = NoPem \/ caJson = NoJson \/ caKey # caPem.key
TrustKept == [][TrustKeptStep]_tlsVars
=============================================================================
