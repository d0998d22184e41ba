--------------------------- MODULE ServicesProofs ---------------------------
(***************************************************************************)
(* What is proved of the services around a turn, each by itself: the       *)
(* command logs and background processes (RunStore), the MCP servers with  *)
(* their approvals and calls (McpServers), the workspace's own tools       *)
(* (WorkspaceTools), the web UI's certificate (WebTls), the sessions       *)
(* (Sessions) and the requests to the model (LlmClient).                   *)
(***************************************************************************)
EXTENDS Integers, FiniteSets, FiniteSetTheorems, Positions, TLAPS

CONSTANTS MaxRuns, KEEP_LOGS, KEEP_BYTES, MAX_BACKGROUND, ExitsMidCall
VARIABLES momo, lastRun, logs, status, procs, alive, current

Run == INSTANCE RunStore

CONSTANTS Servers, Project, Entries, MaxRestarts, MaxEdits, Racing
VARIABLES file, config, decided, disabled, mcpState, thread, proc, closing, crashes, names, dirty,
          prompt, turn, call, edits

Mcp == INSTANCE McpServers

-----------------------------------------------------------------------------
(***************************************************************************)
(* Commands.  A command that lives is a background command or the one of   *)
(* the call in progress, which has room for it if it is to stay behind.    *)
(***************************************************************************)
RunTyped ==
  /\ procs \subseteq 1..MaxRuns /\ alive \subseteq 1..MaxRuns /\ lastRun \in 0..MaxRuns
  /\ Run!On \subseteq 1..MaxRuns
  /\ current = [id |-> current.id, background |-> current.background]
  /\ current.id \in 0..lastRun /\ current.background \in BOOLEAN
  /\ momo \in {"runs", "ended", "killed"}
  /\ status = [r \in 1..MaxRuns |-> status[r]]
  /\ \A r \in 1..MaxRuns : status[r] \in {"none", "running", "exit", "stopped"}

RoomLeft ==
  /\ Cardinality(procs) <= MAX_BACKGROUND
  /\ current.id # 0 /\ current.background => Cardinality(procs) < MAX_BACKGROUND

OnlyOurs ==
  /\ momo = "runs" => alive \subseteq procs \cup {current.id}
  /\ momo # "runs" => current.id = 0 /\ procs = {}
  /\ momo = "ended" /\ ~ExitsMidCall => alive = {}

RunInv == RunTyped /\ Run!LiveLogKept /\ RoomLeft /\ OnlyOurs

RunBounds == MaxRuns \in Nat /\ MAX_BACKGROUND \in Nat

LEMMA RunCounts ==
  ASSUME NEW S
  PROVE  Run!Cardinality(S) = Cardinality(S)
BY DEF Run!Cardinality, Cardinality

LEMMA RunInit ==
  ASSUME RunBounds, Run!Init
  PROVE  RunInv
<1>1. Cardinality({}) = 0
  BY FS_EmptySet
<1>2. /\ momo = "runs" /\ lastRun = 0 /\ logs = [r \in {} |-> 0] /\ procs = {} /\ alive = {}
      /\ current = [id |-> 0, background |-> FALSE] /\ status = [r \in 1..MaxRuns |-> "none"]
  BY DEF Run!Init, Run!NoCommand, Run!Runs
<1>3. RunTyped
  BY <1>2 DEF RunBounds, RunTyped, Run!On
<1>4. QED
  BY <1>1, <1>2, <1>3 DEF RunInv, RunBounds, RoomLeft, OnlyOurs, Run!On, Run!LiveLogKept

\* What is left of the background commands once those that ended are dropped.
LEMMA FewerRun ==
  ASSUME RunBounds, RunInv, NEW S \in SUBSET procs
  PROVE  /\ S \subseteq 1..MaxRuns /\ S \subseteq Run!On /\ IsFiniteSet(S)
         /\ Cardinality(S) \in Nat /\ Cardinality(S) <= Cardinality(procs)
<1>1. IsFiniteSet(1..MaxRuns)
  BY FS_Interval DEF RunBounds
<1>2. IsFiniteSet(procs)
  BY <1>1, FS_Subset DEF RunInv, RunTyped
<1>3. IsFiniteSet(S) /\ Cardinality(S) <= Cardinality(procs) /\ Cardinality(S) \in Nat
  BY <1>2, FS_Subset, FS_CardinalityType
<1>4. QED
  BY <1>3 DEF RunInv, RunTyped, Run!LiveLogKept

LEMMA TopLog ==
  ASSUME RunBounds, RunInv, Run!On # {}
  PROVE  Run!Max(Run!On) \in 1..MaxRuns
<1>1. PICK S : S = Run!On
  OBVIOUS
<1>2. 1 \in Int /\ MaxRuns \in Int /\ S \in SUBSET (1..MaxRuns) /\ S # {}
  BY <1>1 DEF RunBounds, RunInv, RunTyped
<1>3. \E g \in S : \A j \in S : j <= g
  BY <1>2, HasGreatest
<1>4. \E g \in S : \A j \in S : g >= j
  <2>1. \A g, j \in S : (j <= g) <=> (g >= j)
    BY <1>2
  <2>2. QED
    BY <1>3, <2>1
<1>5. Run!Max(S) \in S
  BY <1>4 DEF Run!Max
<1>6. QED
  BY <1>1, <1>2, <1>5

LEMMA StartStep ==
  ASSUME RunBounds, RunInv, NEW background \in BOOLEAN, Run!Start(background)
  PROVE  RunInv'
<1>1. PICK ps : ps = IF background THEN Run!Running(procs) ELSE procs
  OBVIOUS
<1>2. PICK gone : gone = Run!Pruned(ps)
  OBVIOUS
<1>3. /\ momo = "runs" /\ momo' = momo /\ current.id = 0 /\ lastRun < MaxRuns
      /\ background => Cardinality(ps) < MAX_BACKGROUND
      /\ procs' = ps /\ lastRun' = lastRun + 1
      /\ status' = status \/ status' = Run!Told(procs)
      /\ \/ logs' = Run!Without(gone) /\ alive' = alive /\ current' = current
         \/ \E n \in Run!Sizes :
              /\ logs' = [r \in (Run!On \ gone) \cup {lastRun + 1} |-> IF r = lastRun + 1 THEN n ELSE logs[r]]
              /\ alive' = alive \cup {lastRun + 1}
              /\ current' = [id |-> lastRun + 1, background |-> background]
  BY <1>1, <1>2, RunCounts DEF Run!Start, Run!Idle, Run!MayRun
<1>4. ps \subseteq procs /\ alive \subseteq ps
  BY <1>1, <1>3 DEF RunInv, RunTyped, OnlyOurs, Run!Running
<1>5. gone \subseteq Run!On \ ps
  BY <1>2 DEF Run!Pruned, Run!Prunable
<1>6. lastRun + 1 \in 1..MaxRuns /\ lastRun' \in 0..MaxRuns /\ 0 \in 0..lastRun' /\ lastRun + 1 \in 0..lastRun'
  BY <1>3 DEF RunBounds, RunInv, RunTyped
<1>7. /\ ps \subseteq 1..MaxRuns /\ ps \subseteq Run!On
      /\ Cardinality(ps) \in Nat /\ Cardinality(procs) \in Nat /\ Cardinality(ps) <= Cardinality(procs)
  BY <1>4, FewerRun
<1>8. /\ status' = [r \in 1..MaxRuns |-> status'[r]]
      /\ \A r \in 1..MaxRuns : status'[r] \in {"none", "running", "exit", "stopped"}
  BY <1>3 DEF RunInv, RunTyped, Run!Told, Run!Runs
<1>9. CASE logs' = Run!Without(gone) /\ alive' = alive /\ current' = current
  <2>1. Run!On' = Run!On \ gone
    BY <1>9 DEF Run!On, Run!Without
  <2>2. RunTyped'
    BY <1>3, <1>6, <1>7, <1>8, <1>9, <2>1 DEF RunInv, RunTyped
  <2>3. Run!LiveLogKept' /\ OnlyOurs'
    BY <1>3, <1>4, <1>5, <1>7, <1>9, <2>1 DEF RunInv, OnlyOurs, Run!LiveLogKept
  <2>4. RoomLeft'
    <3>1. Cardinality(procs') <= MAX_BACKGROUND
      <4>1. Cardinality(procs) <= MAX_BACKGROUND /\ MAX_BACKGROUND \in Nat
        BY DEF RunBounds, RunInv, RoomLeft
      <4>2. Cardinality(ps) <= MAX_BACKGROUND
        BY <1>7, <4>1
      <4>3. QED
        BY <1>3, <4>2
    <3>2. current'.id = 0
      BY <1>3, <1>9
    <3>3. QED
      BY <3>1, <3>2 DEF RoomLeft
  <2>5. QED
    BY <2>2, <2>3, <2>4 DEF RunInv
<1>10. CASE \E n \in Run!Sizes :
              /\ logs' = [r \in (Run!On \ gone) \cup {lastRun + 1} |-> IF r = lastRun + 1 THEN n ELSE logs[r]]
              /\ alive' = alive \cup {lastRun + 1}
              /\ current' = [id |-> lastRun + 1, background |-> background]
  <2>1. Run!On' = (Run!On \ gone) \cup {lastRun + 1}
    BY <1>10 DEF Run!On
  <2>2. current'.id = lastRun + 1 /\ current'.background = background /\ alive' = alive \cup {lastRun + 1}
        /\ current' = [id |-> current'.id, background |-> current'.background]
    BY <1>10
  <2>3. RunTyped'
    BY <1>3, <1>6, <1>7, <1>8, <2>1, <2>2 DEF RunInv, RunTyped
  <2>4. Run!LiveLogKept' /\ OnlyOurs'
    BY <1>3, <1>4, <1>5, <1>7, <2>1, <2>2 DEF RunInv, OnlyOurs, Run!LiveLogKept
  <2>5. RoomLeft'
    <3>1. Cardinality(procs') <= MAX_BACKGROUND
      <4>1. Cardinality(procs) <= MAX_BACKGROUND /\ MAX_BACKGROUND \in Nat
        BY DEF RunBounds, RunInv, RoomLeft
      <4>2. Cardinality(ps) <= MAX_BACKGROUND
        BY <1>7, <4>1
      <4>3. QED
        BY <1>3, <4>2
    <3>2. background => Cardinality(procs') < MAX_BACKGROUND
      BY <1>3
    <3>3. QED
      BY <2>2, <3>1, <3>2 DEF RoomLeft
  <2>6. QED
    BY <2>3, <2>4, <2>5 DEF RunInv
<1>11. QED
  BY <1>3, <1>9, <1>10

\* A call that ends, its command left in the background or not.
LEMMA ReturnStep ==
  ASSUME RunBounds, RunInv, Run!Ended \/ Run!Stopped \/ Run!Ready
  PROVE  RunInv'
<1>1. /\ momo = "runs" /\ momo' = momo /\ current.id # 0 /\ current' = [id |-> 0, background |-> FALSE]
      /\ lastRun' = lastRun /\ logs' = logs
      /\ \E how \in {"exit", "stopped", "running"} : status' = [status EXCEPT ![current.id] = how]
  BY DEF Run!Ended, Run!Stopped, Run!Ready, Run!Return, Run!NoCommand
<1>2. \/ current.id \notin alive /\ procs' = procs /\ alive' = alive
      \/ procs' = procs /\ alive' = alive \ {current.id}
      \/ current.background /\ current.id \in alive /\ procs' = procs \cup {current.id} /\ alive' = alive
  BY DEF Run!Ended, Run!Stopped, Run!Ready
<1>3. IsFiniteSet(procs) /\ Cardinality(procs) \in Nat
  BY FewerRun
<1>4. Cardinality(procs \cup {current.id}) <= Cardinality(procs) + 1 /\ Cardinality(procs \cup {current.id}) \in Nat
  BY <1>3, FS_AddElement
<1>5. RunTyped'
  <2>1. procs' \subseteq 1..MaxRuns /\ alive' \subseteq 1..MaxRuns
    BY <1>2 DEF RunInv, RunTyped
  <2>2. current'.id = 0 /\ current'.background = FALSE /\ Run!On' = Run!On
    BY <1>1 DEF Run!On
  <2>3. /\ status' = [r \in 1..MaxRuns |-> status'[r]]
        /\ \A r \in 1..MaxRuns : status'[r] \in {"none", "running", "exit", "stopped"}
    BY <1>1 DEF RunInv, RunTyped
  <2>4. QED
    BY <1>1, <2>1, <2>2, <2>3 DEF RunBounds, RunInv, RunTyped
<1>6. Run!LiveLogKept'
  BY <1>1, <1>2 DEF RunInv, RunTyped, Run!On, Run!LiveLogKept
<1>7. OnlyOurs'
  BY <1>1, <1>2 DEF RunInv, OnlyOurs
<1>8. RoomLeft'
  <2>1. current'.id = 0
    BY <1>1
  <2>2. Cardinality(procs') <= MAX_BACKGROUND
    <3>1. Cardinality(procs) <= MAX_BACKGROUND
      BY DEF RunInv, RoomLeft
    <3>2. CASE procs' = procs
      BY <3>1, <3>2
    <3>3. CASE current.background /\ procs' = procs \cup {current.id}
      <4>1. Cardinality(procs) < MAX_BACKGROUND
        BY <1>1, <3>3 DEF RunInv, RoomLeft
      <4>2. QED
        BY <1>3, <1>4, <3>3, <4>1 DEF RunBounds
    <3>4. QED
      BY <1>2, <3>2, <3>3
  <2>3. QED
    BY <2>1, <2>2 DEF RoomLeft
<1>9. QED
  BY <1>5, <1>6, <1>7, <1>8 DEF RunInv

\* What only drops commands that ended, or were stopped.
LEMMA DropStep ==
  ASSUME RunBounds, RunInv, NEW r \in 1..MaxRuns, Run!Exit(r) \/ Run!Output(r) \/ Run!Stop(r)
  PROVE  RunInv'
<1>1. /\ momo' = momo /\ lastRun' = lastRun /\ logs' = logs /\ current' = current
      /\ alive' \subseteq alive
      /\ \/ procs' = procs
         \/ momo = "runs" /\ current.id = 0 /\ procs' \subseteq procs /\ alive' \cap procs \subseteq procs'
  BY DEF Run!Exit, Run!Output, Run!Stop, Run!Running, Run!Idle
<1>2. /\ status' = [q \in 1..MaxRuns |-> status'[q]]
      /\ \A q \in 1..MaxRuns : status'[q] \in {"none", "running", "exit", "stopped"}
  <2>1. \/ status' = status
        \/ \E ps : status' = Run!Told(ps) \/ status' = [Run!Told(ps) EXCEPT ![r] = "stopped"]
    BY DEF Run!Exit, Run!Output, Run!Stop
  <2>2. QED
    BY <2>1 DEF RunInv, RunTyped, Run!Told, Run!Runs
<1>3. procs' \in SUBSET procs /\ Run!On' = Run!On
  BY <1>1 DEF Run!On
<1>4. /\ procs' \subseteq 1..MaxRuns /\ procs' \subseteq Run!On /\ Cardinality(procs') \in Nat
      /\ Cardinality(procs') <= Cardinality(procs) /\ Cardinality(procs) \in Nat
  BY <1>3, FewerRun
<1>5. RunTyped'
  BY <1>1, <1>2, <1>3, <1>4 DEF RunInv, RunTyped
<1>6. Run!LiveLogKept' /\ OnlyOurs'
  BY <1>1, <1>3, <1>4 DEF RunInv, OnlyOurs, Run!LiveLogKept
<1>7. RoomLeft'
  BY <1>1, <1>4 DEF RunBounds, RunInv, RoomLeft
<1>8. QED
  BY <1>5, <1>6, <1>7 DEF RunInv

\* Sessions and exits: nothing of momo's stays behind.
LEMMA EndStep ==
  ASSUME RunBounds, RunInv, Run!Clear \/ Run!Leave \/ Run!Killed \/ Run!Launch
  PROVE  RunInv'
<1>1. Cardinality({}) = 0
  BY FS_EmptySet
<1>2. current'.id = 0 /\ current' = [id |-> current'.id, background |-> current'.background]
      /\ current'.background \in BOOLEAN /\ procs' = {}
  <2>1. current = [id |-> current.id, background |-> current.background] /\ current.background \in BOOLEAN
    BY DEF RunInv, RunTyped
  <2>2. \/ current' = current /\ current.id = 0
        \/ current' = [id |-> 0, background |-> FALSE]
    BY DEF RunInv, OnlyOurs, Run!Clear, Run!Leave, Run!Killed, Run!Launch, Run!Idle, Run!NoCommand
  <2>3. procs' = {}
    BY DEF RunInv, OnlyOurs, Run!Clear, Run!Leave, Run!Killed, Run!Launch
  <2>4. /\ current'.id = 0 /\ current' = [id |-> current'.id, background |-> current'.background]
        /\ current'.background \in BOOLEAN
    <3>1. PICK c : c = current'
      OBVIOUS
    <3>2. CASE c = current /\ current.id = 0
      BY <2>1, <3>1, <3>2
    <3>3. CASE c = [id |-> 0, background |-> FALSE]
      <4>1. c.id = 0 /\ c.background = FALSE
        BY <3>3
      <4>2. QED
        BY <3>1, <3>3, <4>1
    <3>4. QED
      BY <2>2, <3>1, <3>2, <3>3
  <2>5. QED
    BY <2>3, <2>4
<1>3. /\ alive' \subseteq alive /\ momo' \in {"runs", "ended", "killed"}
      /\ status' = status \/ status' = [r \in 1..MaxRuns |-> "none"]
      /\ Run!On' \subseteq Run!On /\ lastRun' \in 0..MaxRuns
  <2>1. CASE Run!Clear
    BY <2>1 DEF RunBounds, RunInv, RunTyped, Run!Clear, Run!Idle, Run!KillAll, Run!On, Run!Runs
  <2>2. CASE Run!Leave \/ Run!Killed
    BY <2>2 DEF RunInv, RunTyped, Run!Leave, Run!Killed, Run!KillAll, Run!On
  <2>3. CASE Run!Launch
    <3>1. Run!On' = Run!On /\ alive' = {} /\ momo' = "runs" /\ status' = [r \in 1..MaxRuns |-> "none"]
          /\ lastRun' = IF Run!On = {} THEN 0 ELSE Run!Max(Run!On)
      BY <2>3 DEF Run!Launch, Run!On, Run!Runs
    <3>2. lastRun' \in 0..MaxRuns
      BY <3>1, TopLog DEF RunBounds
    <3>3. QED
      BY <3>1, <3>2
  <2>4. QED
    BY <2>1, <2>2, <2>3
<1>4. RunTyped'
  <2>1. /\ status' = [r \in 1..MaxRuns |-> status'[r]]
        /\ \A r \in 1..MaxRuns : status'[r] \in {"none", "running", "exit", "stopped"}
    BY <1>3 DEF RunInv, RunTyped
  <2>2. current'.id \in 0..lastRun'
    BY <1>2, <1>3
  <2>3. QED
    BY <1>2, <1>3, <2>1, <2>2 DEF RunInv, RunTyped
<1>5. Run!LiveLogKept'
  BY <1>2 DEF Run!LiveLogKept
<1>6. RoomLeft'
  BY <1>1, <1>2 DEF RunBounds, RoomLeft
<1>7. OnlyOurs'
  <2>1. CASE Run!Clear
    BY <1>2, <2>1 DEF RunInv, OnlyOurs, Run!Clear, Run!Idle, Run!KillAll
  <2>2. CASE Run!Leave
    <3>1. momo = "runs" /\ momo' = "ended" /\ alive' = alive \ procs /\ (current.id = 0 \/ ExitsMidCall)
      BY <2>2 DEF Run!Leave, Run!KillAll
    <3>2. ~ExitsMidCall => alive \ procs \subseteq {0}
      BY <3>1 DEF RunInv, OnlyOurs
    <3>3. 0 \notin alive
      BY DEF RunInv, RunTyped
    <3>4. ~ExitsMidCall => alive' = {}
      BY <3>1, <3>2, <3>3
    <3>5. QED
      BY <1>2, <3>1, <3>4 DEF OnlyOurs
  <2>3. CASE Run!Killed \/ Run!Launch
    BY <1>2, <2>3 DEF OnlyOurs, Run!Killed, Run!Launch
  <2>4. QED
    BY <2>1, <2>2, <2>3
<1>8. QED
  BY <1>4, <1>5, <1>6, <1>7 DEF RunInv

LEMMA RunStep ==
  ASSUME RunBounds, RunInv, [Run!Next]_Run!runVars
  PROVE  RunInv'
<1>1. CASE UNCHANGED Run!runVars
  BY <1>1 DEF RunInv, RunTyped, RoomLeft, OnlyOurs, Run!LiveLogKept, Run!On, Run!runVars
<1>2. CASE Run!Next
  <2>1. CASE Run!Start(TRUE) \/ Run!Start(FALSE)
    BY <2>1, StartStep
  <2>2. CASE Run!Ended \/ Run!Stopped \/ Run!Ready
    BY <2>2, ReturnStep
  <2>3. CASE \E r \in Run!Runs : Run!Exit(r) \/ Run!Output(r) \/ Run!Stop(r)
    BY <2>3, DropStep DEF Run!Runs
  <2>4. CASE Run!Clear \/ Run!Leave \/ Run!Killed \/ Run!Launch
    BY <2>4, EndStep
  <2>5. QED
    BY <1>2, <2>1, <2>2, <2>3, <2>4 DEF Run!Next
<1>3. QED
  BY <1>1, <1>2

\* The log of every background command and of the call in progress is on disk, for
\* any number of logs and bytes that are kept: no pruning, restart or /clear takes
\* it (run_store.py, _prune).
THEOREM LiveLogs ==
  ASSUME RunBounds
  PROVE  Run!Spec => []Run!LiveLogKept
<1>1. Run!Init => RunInv
  BY RunInit
<1>2. RunInv /\ [Run!Next]_Run!runVars => RunInv'
  BY RunStep
<1>3. RunInv => Run!LiveLogKept
  BY DEF RunInv
<1>4. QED
  BY <1>1, <1>2, <1>3, PTL DEF Run!Spec

\* No more commands live in the background than MAX_BACKGROUND, and none outlives an
\* exit, where momo does not exit amid a call (run_store.py, stop_all).
THEOREM BoundedBackground ==
  ASSUME RunBounds, ExitsMidCall = FALSE
  PROVE  Run!Spec => []Run!BackgroundBounded
<1>1. Run!Init => RunInv
  BY RunInit
<1>2. RunInv /\ [Run!Next]_Run!runVars => RunInv'
  BY RunStep
<1>3. RunInv => Run!BackgroundBounded
  BY RunCounts DEF RunInv, RoomLeft, OnlyOurs, Run!BackgroundBounded
<1>4. QED
  BY <1>1, <1>2, <1>3, PTL DEF Run!Spec

\* The commands, logs and what is said of them are of their types.
THEOREM RunTyping ==
  ASSUME RunBounds
  PROVE  Run!Spec => []Run!TypeOK
<1>1. Run!Init => RunInv
  BY RunInit
<1>2. RunInv /\ [Run!Next]_Run!runVars => RunInv'
  BY RunStep
<1>3. RunInv => Run!TypeOK
  BY DEF RunInv, RunTyped, Run!TypeOK, Run!Runs
<1>4. QED
  BY <1>1, <1>2, <1>3, PTL DEF Run!Spec

-----------------------------------------------------------------------------
(***************************************************************************)
(* Calls to the MCP servers.  A call that waits is registered with a peer  *)
(* that is not closed, and whoever closes a peer, or hears that its        *)
(* process ended, wakes the calls that wait.                               *)
(***************************************************************************)
CallSet == [server : Servers \cup {"none"}, at : {"none", "checked", "pending", "waiting", "woken"}, old : BOOLEAN]

CallInv ==
  /\ call \in [Mcp!Callers -> CallSet] /\ proc \in [Servers -> {"none", "up", "dead", "lost"}]
  /\ \A c \in Mcp!Callers : call[c].at # "none" => call[c].server \in Servers
  /\ Mcp!NobodyWaitsForTheDead

LEMMA WokenCalls ==
  ASSUME CallInv, NEW S \in SUBSET Servers, call' = Mcp!Woken(S),
         proc' \in [Servers -> {"none", "up", "dead", "lost"}], \A s \in Servers \ S : proc'[s] = proc[s]
  PROVE  CallInv'
<1>1. ASSUME NEW c \in Mcp!Callers
      PROVE  /\ call'[c] \in CallSet /\ call'[c].server = call[c].server
             /\ call'[c].at # "none" => call[c].at # "none"
             /\ call'[c].at = "waiting" => call'[c] = call[c] /\ call[c].server \notin S
  <2>1. PICK k : k = call[c]
    OBVIOUS
  <2>2. k \in CallSet
    BY <2>1 DEF CallInv
  <2>3. call'[c] = IF k.server \notin S \/ k.at = "none" THEN k
                   ELSE [k EXCEPT !.at = IF @ = "waiting" THEN "woken" ELSE @, !.old = TRUE]
    BY <2>1 DEF Mcp!Woken
  <2>4. CASE k.server \notin S \/ k.at = "none"
    BY <2>1, <2>2, <2>3, <2>4
  <2>5. CASE ~(k.server \notin S \/ k.at = "none")
    <3>1. call'[c] = [server |-> k.server, at |-> IF k.at = "waiting" THEN "woken" ELSE k.at, old |-> TRUE]
      BY <2>2, <2>3, <2>5 DEF CallSet
    <3>2. QED
      BY <2>1, <2>2, <2>5, <3>1 DEF CallSet
  <2>6. QED
    BY <2>4, <2>5
<1>2. call' \in [Mcp!Callers -> CallSet]
  BY <1>1 DEF Mcp!Woken
<1>3. \A c \in Mcp!Callers : call'[c].at # "none" => call'[c].server \in Servers
  BY <1>1 DEF CallInv
<1>4. Mcp!NobodyWaitsForTheDead'
  BY <1>1 DEF CallInv, Mcp!NobodyWaitsForTheDead
<1>5. QED
  BY <1>2, <1>3, <1>4 DEF CallInv

\* A server's process starts, or ends before anyone hears of it.
LEMMA ProcessStep ==
  ASSUME CallInv, NEW s \in Servers, Mcp!Start(s) \/ Mcp!Exit(s)
  PROVE  CallInv'
<1>1. /\ call' = call
      /\ \/ proc' = proc
         \/ proc' = [proc EXCEPT ![s] = "up"]
         \/ proc[s] = "up" /\ proc' = [proc EXCEPT ![s] = "dead"]
  BY DEF Mcp!Start, Mcp!Exit
<1>2. \A t \in Servers : proc'[t] \in {"none", "up", "dead", "lost"} /\ (proc[t] \in {"up", "dead"} => proc'[t] \in {"up", "dead"})
  BY <1>1 DEF CallInv
<1>3. proc' \in [Servers -> {"none", "up", "dead", "lost"}]
  BY <1>1, <1>2 DEF CallInv
<1>4. QED
  BY <1>1, <1>2, <1>3 DEF CallInv, Mcp!NobodyWaitsForTheDead

\* A peer is closed, by the user, by a handshake that failed or by a new start.
LEMMA CloseStep ==
  ASSUME CallInv,
         \/ Mcp!Reload
         \/ \E s \in Servers : \/ Mcp!Restart(s) \/ Mcp!Disable(s) \/ Mcp!Decide(s, FALSE)
                               \/ Mcp!ShakeFails(s) \/ Mcp!Tick(s)
  PROVE  CallInv'
<1>1. CASE Mcp!Reload
  <2>1. PICK new \in SUBSET Servers :
             /\ call' = Mcp!Woken(new)
             /\ proc' = [s \in Servers |-> IF s \in new THEN "none" ELSE proc[s]]
    BY <1>1 DEF Mcp!Reload
  <2>2. proc' \in [Servers -> {"none", "up", "dead", "lost"}] /\ \A s \in Servers \ new : proc'[s] = proc[s]
    BY <2>1 DEF CallInv
  <2>3. QED
    BY <2>1, <2>2, WokenCalls
<1>2. CASE \E s \in Servers : \/ Mcp!Restart(s) \/ Mcp!Disable(s) \/ Mcp!Decide(s, FALSE)
                              \/ Mcp!ShakeFails(s) \/ Mcp!Tick(s)
  <2>1. PICK s \in Servers : \/ Mcp!Restart(s) \/ Mcp!Disable(s) \/ Mcp!Decide(s, FALSE)
                             \/ Mcp!ShakeFails(s) \/ Mcp!Tick(s)
    BY <1>2
  <2>2. call' = Mcp!Woken({s}) /\ (proc' = proc \/ proc' = [proc EXCEPT ![s] = "none"])
    BY <2>1 DEF Mcp!Restart, Mcp!Disable, Mcp!Decide, Mcp!ShakeFails, Mcp!Tick, Mcp!Closed
  <2>3. proc' \in [Servers -> {"none", "up", "dead", "lost"}] /\ \A t \in Servers \ {s} : proc'[t] = proc[t]
    BY <2>2 DEF CallInv
  <2>4. {s} \in SUBSET Servers
    OBVIOUS
  <2>5. QED
    BY <2>2, <2>3, <2>4, WokenCalls
<1>3. QED
  BY <1>1, <1>2

\* The reader hears that the process ended, and wakes the calls of its peer.
LEMMA NoticeStep ==
  ASSUME CallInv, NEW s \in Servers, Mcp!Notice(s)
  PROVE  CallInv'
<1>1. /\ proc[s] = "dead" /\ proc' = [proc EXCEPT ![s] = "lost"]
      /\ call' = [c \in Mcp!Callers |-> IF call[c].server = s /\ ~call[c].old /\ call[c].at = "waiting"
                                        THEN [call[c] EXCEPT !.at = "woken"] ELSE call[c]]
  BY DEF Mcp!Notice
<1>2. ASSUME NEW c \in Mcp!Callers
      PROVE  /\ call'[c] \in CallSet /\ call'[c].server = call[c].server
             /\ call'[c].at # "none" => call[c].at # "none"
             /\ call'[c].at = "waiting" => call'[c] = call[c] /\ call[c].server # s
  <2>1. PICK k : k = call[c]
    OBVIOUS
  <2>2. k \in CallSet
    BY <2>1 DEF CallInv
  <2>3. call'[c] = IF k.server = s /\ ~k.old /\ k.at = "waiting" THEN [k EXCEPT !.at = "woken"] ELSE k
    BY <1>1, <2>1
  <2>4. CASE k.at = "waiting" /\ k.server = s
    <3>1. ~k.old
      BY <2>1, <2>4 DEF CallInv, Mcp!NobodyWaitsForTheDead
    <3>2. call'[c] = [k EXCEPT !.at = "woken"]
      BY <2>3, <2>4, <3>1
    <3>3. call'[c] = [server |-> k.server, at |-> "woken", old |-> k.old]
      BY <2>2, <3>2 DEF CallSet
    <3>4. QED
      BY <2>1, <2>2, <2>4, <3>3 DEF CallSet
  <2>5. CASE ~(k.at = "waiting" /\ k.server = s)
    BY <2>1, <2>2, <2>3, <2>5
  <2>6. QED
    BY <2>4, <2>5
<1>3. call' \in [Mcp!Callers -> CallSet] /\ proc' \in [Servers -> {"none", "up", "dead", "lost"}]
  BY <1>1, <1>2 DEF CallInv
<1>4. \A c \in Mcp!Callers : call'[c].at # "none" => call'[c].server \in Servers
  BY <1>2 DEF CallInv
<1>5. Mcp!NobodyWaitsForTheDead'
  BY <1>1, <1>2 DEF CallInv, Mcp!NobodyWaitsForTheDead
<1>6. QED
  BY <1>3, <1>4, <1>5 DEF CallInv

\* A call goes on: it is sent only to a process that lives.
LEMMA RequestStep ==
  ASSUME CallInv, NEW c \in Mcp!Callers,
         \/ \E s \in Servers : Mcp!Call(c, s)
         \/ Mcp!Register(c) \/ Mcp!Send(c) \/ Mcp!Answer(c) \/ Mcp!GiveUp(c) \/ Mcp!Fails(c)
  PROVE  CallInv'
<1>1. PICK k : k = call[c]
  OBVIOUS
<1>2. k \in CallSet /\ (k.at # "none" => k.server \in Servers)
  BY <1>1 DEF CallInv
<1>3. proc' = proc
  BY DEF Mcp!Call, Mcp!Register, Mcp!Send, Mcp!Answer, Mcp!GiveUp, Mcp!Fails, Mcp!Keep, Mcp!clients
<1>4. \E new \in CallSet :
         /\ call' = [call EXCEPT ![c] = new]
         /\ new.at # "none" => new.server \in Servers
         /\ new.at = "waiting" => ~new.old /\ proc[new.server] = "up"
  <2>1. CASE \E s \in Servers : Mcp!Call(c, s)
    <3>1. PICK s \in Servers : call' = [call EXCEPT ![c] = [server |-> s, at |-> "checked", old |-> FALSE]]
      BY <2>1 DEF Mcp!Call
    <3>2. PICK new : new = [server |-> s, at |-> "checked", old |-> FALSE]
      OBVIOUS
    <3>3. new \in CallSet /\ new.server \in Servers /\ new.at = "checked"
      BY <3>2 DEF CallSet
    <3>4. QED
      BY <3>1, <3>2, <3>3
  <2>2. CASE call' = [call EXCEPT ![c] = Mcp!NoCall]
    <3>1. PICK new : new = Mcp!NoCall
      OBVIOUS
    <3>2. new \in CallSet /\ new.at = "none"
      BY <3>1 DEF Mcp!NoCall, CallSet
    <3>3. QED
      BY <2>2, <3>1, <3>2
  <2>3. CASE Mcp!Register(c)
    <3>1. k.at = "checked" /\ call' = [call EXCEPT ![c] = [k EXCEPT !.at = "pending"]]
      BY <1>1, <2>3 DEF Mcp!Register, Mcp!At
    <3>2. [k EXCEPT !.at = "pending"] = [server |-> k.server, at |-> "pending", old |-> k.old]
      BY <1>2 DEF CallSet
    <3>3. QED
      BY <1>2, <3>1, <3>2 DEF CallSet
  <2>4. CASE Mcp!Send(c) /\ Mcp!Alive(c)
    <3>1. k.at = "pending" /\ ~k.old /\ proc[k.server] = "up"
          /\ call' = [call EXCEPT ![c] = [k EXCEPT !.at = "waiting"]]
      BY <1>1, <2>4 DEF Mcp!Send, Mcp!Alive, Mcp!At
    <3>2. [k EXCEPT !.at = "waiting"] = [server |-> k.server, at |-> "waiting", old |-> k.old]
      BY <1>2 DEF CallSet
    <3>3. QED
      BY <1>2, <3>1, <3>2 DEF CallSet
  <2>5. QED
    BY <2>1, <2>2, <2>3, <2>4 DEF Mcp!Send, Mcp!Answer, Mcp!GiveUp, Mcp!Fails, Mcp!Return
<1>5. PICK new \in CallSet :
         /\ call' = [call EXCEPT ![c] = new]
         /\ new.at # "none" => new.server \in Servers
         /\ new.at = "waiting" => ~new.old /\ proc[new.server] = "up"
  BY <1>4
<1>6. \A d \in Mcp!Callers : call'[d] = IF d = c THEN new ELSE call[d]
  BY <1>5 DEF CallInv
<1>7. call' \in [Mcp!Callers -> CallSet]
  BY <1>5 DEF CallInv
<1>8. \A d \in Mcp!Callers : call'[d].at # "none" => call'[d].server \in Servers
  BY <1>5, <1>6 DEF CallInv
<1>9. Mcp!NobodyWaitsForTheDead'
  BY <1>3, <1>5, <1>6 DEF CallInv, Mcp!NobodyWaitsForTheDead
<1>10. QED
  BY <1>3, <1>7, <1>8, <1>9 DEF CallInv

\* No call waits on a server whose end was noticed, or that was closed, replaced or
\* never started: whatever the user does and however the processes end, one that
\* waits is answered or woken (mcp/jsonrpc.py, request and _on_close).
THEOREM CallsAreWoken ==
  Mcp!Spec => []Mcp!NobodyWaitsForTheDead
<1>1. Mcp!Init => CallInv
  <2>1. ASSUME Mcp!Init
        PROVE  CallInv
    <3>1. proc = [s \in Servers |-> "none"] /\ call = [c \in Mcp!Callers |-> Mcp!NoCall]
      BY <2>1 DEF Mcp!Init
    <3>2. Mcp!NoCall \in CallSet /\ Mcp!NoCall.at = "none"
      BY DEF Mcp!NoCall, CallSet
    <3>3. call \in [Mcp!Callers -> CallSet] /\ \A c \in Mcp!Callers : call[c].at = "none"
      BY <3>1, <3>2
    <3>4. QED
      BY <3>1, <3>3 DEF CallInv, Mcp!NobodyWaitsForTheDead
  <2>2. QED
    BY <2>1
<1>2. CallInv /\ [Mcp!Next]_Mcp!vars => CallInv'
  <2>1. CASE call' = call /\ proc' = proc
    BY <2>1 DEF CallInv, Mcp!NobodyWaitsForTheDead
  <2>2. ASSUME CallInv, Mcp!Next
        PROVE  CallInv'
    <3>1. CASE \E s \in Servers, e \in Entries \cup {0} : Mcp!EditFile(s, e)
      BY <2>1, <2>2, <3>1 DEF Mcp!EditFile, Mcp!clients
    <3>2. CASE Mcp!BeginTurn \/ Mcp!EndTurn
      BY <2>1, <2>2, <3>2 DEF Mcp!BeginTurn, Mcp!EndTurn, Mcp!clients
    <3>3. CASE \E s \in Servers : Mcp!Enable(s) \/ Mcp!Decide(s, TRUE) \/ Mcp!Shake(s) \/ Mcp!SetReady(s)
      BY <2>1, <2>2, <3>3 DEF Mcp!Enable, Mcp!Decide, Mcp!Shake, Mcp!SetReady
    <3>4. CASE \E s \in Servers : Mcp!Start(s) \/ Mcp!Exit(s)
      BY <2>2, <3>4, ProcessStep
    <3>5. CASE \/ Mcp!Reload
               \/ \E s \in Servers : \/ Mcp!Restart(s) \/ Mcp!Disable(s) \/ Mcp!Decide(s, FALSE)
                                     \/ Mcp!ShakeFails(s) \/ Mcp!Tick(s)
      BY <2>2, <3>5, CloseStep
    <3>6. CASE \E s \in Servers : Mcp!Notice(s)
      BY <2>2, <3>6, NoticeStep
    <3>7. CASE \E c \in Mcp!Callers :
                  \/ \E s \in Servers : Mcp!Call(c, s)
                  \/ Mcp!Register(c) \/ Mcp!Send(c) \/ Mcp!Answer(c) \/ Mcp!GiveUp(c) \/ Mcp!Fails(c)
      BY <2>2, <3>7, RequestStep
    <3>8. QED
      BY <2>2, <3>1, <3>2, <3>3, <3>4, <3>5, <3>6, <3>7 DEF Mcp!Next
  <2>3. CASE UNCHANGED Mcp!vars
    BY <2>1, <2>3 DEF Mcp!vars, Mcp!clients
  <2>4. QED
    BY <2>2, <2>3
<1>3. CallInv => Mcp!NobodyWaitsForTheDead
  BY DEF CallInv
<1>4. QED
  BY <1>1, <1>2, <1>3, PTL DEF Mcp!Spec

-----------------------------------------------------------------------------
(***************************************************************************)
(* The servers themselves.  Where the user does not act on one that is     *)
(* still starting, its thread and its process belong to an entry that is   *)
(* approved; a server without an entry is only ever disabled.              *)
(***************************************************************************)
States == {"disabled", "needs-approval", "denied", "connecting", "ready", "error"}

ServersTyped ==
  /\ file \in [Servers -> Entries \cup {0}] /\ config \in [Servers -> Entries \cup {0}]
  /\ decided \in [Servers -> [Entries -> {"pending", "approved", "denied"}]] /\ disabled \subseteq Servers
  /\ mcpState \in [Servers -> States] /\ thread \in [Servers -> {"none", "start", "shake", "set"}]
  /\ proc \in [Servers -> {"none", "up", "dead", "lost"}] /\ names \subseteq Servers /\ prompt \subseteq Servers

Allowed(s) == config[s] \in Entries /\ decided[s][config[s]] = "approved" /\ s \notin disabled

ServersInv ==
  /\ ServersTyped
  /\ \A s \in Servers : thread[s] # "none" \/ proc[s] = "up" => Allowed(s)
  /\ \A s \in Servers : config[s] = 0 => mcpState[s] = "disabled"

CrashesInv ==
  /\ crashes \in [Servers -> 0..(MaxRestarts + 1)]
  /\ \A s \in Servers : proc[s] = "dead" => crashes[s] <= MaxRestarts

McpBounds == 0 \notin Entries /\ 1 \in Entries /\ MaxRestarts \in Nat

\* The same, of one server in a state where the rest are as they were.
LEMMA OneServer ==
  ASSUME McpBounds, ServersInv, ServersTyped', NEW s \in Servers,
         \A t \in Servers \ {s} : /\ config'[t] = config[t] /\ decided'[t] = decided[t] /\ (t \in disabled' <=> t \in disabled)
                                  /\ mcpState'[t] = mcpState[t] /\ thread'[t] = thread[t] /\ proc'[t] = proc[t],
         thread'[s] # "none" \/ proc'[s] = "up" =>
           config'[s] \in Entries /\ decided'[s][config'[s]] = "approved" /\ s \notin disabled',
         config'[s] = 0 => mcpState'[s] = "disabled"
  PROVE  ServersInv'
<1>1. ASSUME NEW t \in Servers
      PROVE  /\ thread'[t] # "none" \/ proc'[t] = "up" => Allowed(t)'
             /\ config'[t] = 0 => mcpState'[t] = "disabled"
  <2>1. CASE t = s
    BY <2>1 DEF Allowed
  <2>2. CASE t # s
    BY <2>2 DEF ServersInv, Allowed
  <2>3. QED
    BY <2>1, <2>2
<1>2. QED
  BY <1>1 DEF ServersInv

\* _activate starts a server only with an approved entry, and one that is not off.
LEMMA ActivatedIs ==
  ASSUME ServersTyped, NEW s \in Servers, NEW e \in Entries, NEW off
  PROVE  /\ Mcp!Activated(s, e, off) \in {"disabled", "needs-approval", "denied", "connecting"}
         /\ Mcp!Activated(s, e, off) = "connecting" => decided[s][e] = "approved" /\ s \notin off
<1>1. decided[s][e] \in {"pending", "approved", "denied"}
  BY DEF ServersTyped
<1>2. QED
  BY <1>1 DEF Mcp!Activated, Mcp!Verdict

\* A server is started, or is not, as _activate says.
LEMMA BeginIs ==
  ASSUME ServersTyped, NEW s \in Servers, NEW st
  PROVE  /\ Mcp!Begin(s, st) \in {"none", "start", "shake", "set"}
         /\ Mcp!Begin(s, st) # "none" => st = "connecting" \/ thread[s] # "none"
BY DEF Mcp!Begin, ServersTyped

LEMMA ReloadStep ==
  ASSUME McpBounds, Racing = FALSE, ServersInv, Mcp!Reload
  PROVE  ServersInv'
<1>1. PICK new \in SUBSET Servers : new = {s \in Servers : file[s] # config[s]}
  OBVIOUS
<1>2. PICK st : st = [s \in new |-> IF file[s] = 0 THEN "disabled" ELSE Mcp!Activated(s, file[s], disabled)]
  OBVIOUS
<1>3. /\ \A s \in new : thread[s] = "none"
      /\ file' = file /\ config' = file /\ decided' = decided /\ disabled' = disabled
      /\ mcpState' = [s \in Servers |-> IF s \in new THEN st[s] ELSE mcpState[s]]
      /\ thread' = [s \in Servers |-> IF s \in new THEN Mcp!Begin(s, st[s]) ELSE thread[s]]
      /\ proc' = [s \in Servers |-> IF s \in new THEN "none" ELSE proc[s]]
      /\ names' = Mcp!Rebuilt(mcpState') /\ prompt' = names'
  BY <1>1, <1>2 DEF Mcp!Reload, Mcp!Quiet
<1>4. ServersTyped
  BY DEF ServersInv
<1>5. ASSUME NEW s \in Servers
      PROVE  /\ mcpState'[s] \in States /\ thread'[s] \in {"none", "start", "shake", "set"}
             /\ proc'[s] \in {"none", "up", "dead", "lost"}
             /\ thread'[s] # "none" \/ proc'[s] = "up" =>
                  file[s] \in Entries /\ decided[s][file[s]] = "approved" /\ s \notin disabled
             /\ file[s] = 0 => mcpState'[s] = "disabled"
  <2>1. CASE s \in new /\ file[s] = 0
    <3>1. st[s] = "disabled"
      BY <1>2, <2>1
    <3>2. mcpState'[s] = "disabled" /\ thread'[s] = "none" /\ proc'[s] = "none"
      BY <1>3, <2>1, <3>1 DEF Mcp!Begin
    <3>3. QED
      BY <2>1, <3>2 DEF States
  <2>2. CASE s \in new /\ file[s] # 0
    <3>1. PICK e \in Entries : e = file[s]
      BY <1>4, <2>2 DEF ServersTyped
    <3>2. PICK x : x = Mcp!Activated(s, e, disabled)
      OBVIOUS
    <3>3. x \in {"disabled", "needs-approval", "denied", "connecting"}
          /\ (x = "connecting" => decided[s][e] = "approved" /\ s \notin disabled)
      BY <1>4, <3>2, ActivatedIs
    <3>4. mcpState'[s] = x /\ thread'[s] = Mcp!Begin(s, x) /\ proc'[s] = "none"
      BY <1>2, <1>3, <2>2, <3>1, <3>2
    <3>5. thread[s] = "none" /\ Mcp!Begin(s, x) = IF x = "connecting" THEN "start" ELSE "none"
      BY <1>3, <2>2 DEF Mcp!Begin
    <3>6. QED
      BY <2>2, <3>1, <3>3, <3>4, <3>5 DEF States
  <2>3. CASE s \notin new
    <3>1. file[s] = config[s]
      BY <1>1, <2>3
    <3>2. mcpState'[s] = mcpState[s] /\ thread'[s] = thread[s] /\ proc'[s] = proc[s]
      BY <1>3, <2>3
    <3>3. QED
      BY <3>1, <3>2 DEF ServersInv, ServersTyped, Allowed
  <2>4. QED
    BY <2>1, <2>2, <2>3
<1>6. ServersTyped'
  BY <1>3, <1>4, <1>5 DEF ServersTyped, Mcp!Rebuilt
<1>7. QED
  BY <1>3, <1>5, <1>6 DEF ServersInv, Allowed

\* The user's commands.
LEMMA UserStep ==
  ASSUME McpBounds, Racing = FALSE, ServersInv, NEW s \in Servers,
         Mcp!Restart(s) \/ Mcp!Enable(s) \/ Mcp!Disable(s)
  PROVE  ServersInv'
<1>1. ServersTyped
  BY DEF ServersInv
<1>2. /\ thread[s] = "none" /\ config[s] # 0 /\ file' = file /\ config' = config /\ decided' = decided /\ prompt' = prompt
  BY DEF Mcp!Restart, Mcp!Enable, Mcp!Disable, Mcp!Quiet
<1>3. PICK e \in Entries : e = config[s]
  BY <1>1, <1>2 DEF ServersTyped
<1>4. \E st \in States, th \in {"none", "start"}, off \in {disabled, disabled \ {s}, disabled \cup {s}} :
        /\ mcpState' = [mcpState EXCEPT ![s] = st] /\ names' = Mcp!Rebuilt(mcpState')
        /\ thread' = [thread EXCEPT ![s] = th] /\ disabled' = off
        /\ th = "start" => decided[s][e] = "approved" /\ s \notin off
        /\ \/ proc' = [proc EXCEPT ![s] = "none"]
           \/ proc' = proc /\ off = disabled \ {s}
  <2>1. CASE Mcp!Restart(s)
    <3>1. PICK x : x = Mcp!Activated(s, e, disabled)
      OBVIOUS
    <3>2. x \in States /\ (x = "connecting" => decided[s][e] = "approved" /\ s \notin disabled)
      BY <1>1, <3>1, ActivatedIs DEF States
    <3>3. /\ mcpState' = [mcpState EXCEPT ![s] = x] /\ names' = Mcp!Rebuilt(mcpState')
          /\ thread' = [thread EXCEPT ![s] = Mcp!Begin(s, x)] /\ disabled' = disabled
          /\ proc' = [proc EXCEPT ![s] = "none"]
      BY <1>3, <2>1, <3>1 DEF Mcp!Restart, Mcp!Closed, Mcp!SetState
    <3>4. Mcp!Begin(s, x) = IF x = "connecting" THEN "start" ELSE "none"
      BY <1>2 DEF Mcp!Begin
    <3>5. QED
      BY <3>2, <3>3, <3>4
  <2>2. CASE Mcp!Enable(s)
    <3>1. PICK x : x = IF mcpState[s] \in {"disabled", "error"} THEN Mcp!Activated(s, e, disabled \ {s}) ELSE mcpState[s]
      OBVIOUS
    <3>2. x \in States /\ (mcpState[s] \in {"disabled", "error"} /\ x = "connecting" => decided[s][e] = "approved")
      BY <1>1, <3>1, ActivatedIs DEF States, ServersTyped
    <3>3. /\ mcpState' = [mcpState EXCEPT ![s] = x] /\ names' = Mcp!Rebuilt(mcpState')
          /\ disabled' = disabled \ {s} /\ proc' = proc
          /\ IF mcpState[s] \in {"disabled", "error"} THEN thread' = [thread EXCEPT ![s] = Mcp!Begin(s, x)]
             ELSE thread' = thread
      BY <1>3, <2>2, <3>1 DEF Mcp!Enable, Mcp!SetState
    <3>4. Mcp!Begin(s, x) = IF x = "connecting" THEN "start" ELSE "none"
      BY <1>2 DEF Mcp!Begin
    <3>5. thread = [thread EXCEPT ![s] = "none"]
      BY <1>1, <1>2 DEF ServersTyped
    <3>6. QED
      BY <3>2, <3>3, <3>4, <3>5
  <2>3. CASE Mcp!Disable(s)
    <3>1. /\ mcpState' = [mcpState EXCEPT ![s] = "disabled"] /\ names' = Mcp!Rebuilt(mcpState')
          /\ disabled' = disabled \cup {s} /\ proc' = [proc EXCEPT ![s] = "none"] /\ thread' = thread
      BY <2>3 DEF Mcp!Disable, Mcp!Closed, Mcp!SetState
    <3>2. thread = [thread EXCEPT ![s] = "none"]
      BY <1>1, <1>2 DEF ServersTyped
    <3>3. QED
      BY <3>1, <3>2 DEF States
  <2>4. QED
    BY <2>1, <2>2, <2>3
<1>5. PICK st \in States, th \in {"none", "start"}, off \in {disabled, disabled \ {s}, disabled \cup {s}} :
        /\ mcpState' = [mcpState EXCEPT ![s] = st] /\ names' = Mcp!Rebuilt(mcpState')
        /\ thread' = [thread EXCEPT ![s] = th] /\ disabled' = off
        /\ th = "start" => decided[s][e] = "approved" /\ s \notin off
        /\ \/ proc' = [proc EXCEPT ![s] = "none"]
           \/ proc' = proc /\ off = disabled \ {s}
  BY <1>4
<1>6. ServersTyped'
  BY <1>1, <1>2, <1>5 DEF ServersTyped, Mcp!Rebuilt
<1>7. \A t \in Servers \ {s} : /\ config'[t] = config[t] /\ decided'[t] = decided[t] /\ (t \in disabled' <=> t \in disabled)
                               /\ mcpState'[t] = mcpState[t] /\ thread'[t] = thread[t] /\ proc'[t] = proc[t]
  BY <1>1, <1>2, <1>5 DEF ServersTyped
<1>8. thread'[s] # "none" \/ proc'[s] = "up" =>
        config'[s] \in Entries /\ decided'[s][config'[s]] = "approved" /\ s \notin disabled'
  <2>1. thread'[s] = th /\ proc'[s] \in {"none", proc[s]} /\ (proc'[s] = "up" => proc[s] = "up" /\ off = disabled \ {s})
    BY <1>1, <1>5 DEF ServersTyped
  <2>2. CASE th = "start"
    BY <1>2, <1>3, <1>5, <2>2
  <2>3. CASE proc'[s] = "up"
    <3>1. Allowed(s)
      BY <2>1, <2>3 DEF ServersInv
    <3>2. QED
      BY <1>2, <1>5, <2>1, <2>3, <3>1 DEF Allowed
  <2>4. QED
    BY <1>5, <2>1, <2>2, <2>3
<1>9. config'[s] # 0
  BY <1>2
<1>10. QED
  BY <1>6, <1>7, <1>8, <1>9, OneServer

\* The user's word about the entry as it was read.
LEMMA DecideStep ==
  ASSUME McpBounds, Racing = FALSE, ServersInv, NEW s \in Servers, NEW approve \in BOOLEAN, Mcp!Decide(s, approve)
  PROVE  ServersInv'
<1>1. ServersTyped
  BY DEF ServersInv
<1>2. /\ thread[s] = "none" /\ config[s] # 0 /\ file' = file /\ config' = config /\ disabled' = disabled /\ prompt' = prompt
  BY DEF Mcp!Decide, Mcp!Quiet
<1>3. PICK e \in Entries : e = config[s]
  BY <1>1, <1>2 DEF ServersTyped
<1>4. CASE approve
  <2>1. PICK up : up = (mcpState[s] \in {"needs-approval", "denied"})
    OBVIOUS
  <2>2. \E st \in States, th \in {"none", "start"} :
          /\ decided' = [decided EXCEPT ![s][e] = "approved"]
          /\ mcpState' = [mcpState EXCEPT ![s] = st] /\ names' = Mcp!Rebuilt(mcpState') /\ proc' = proc
          /\ thread' = [thread EXCEPT ![s] = th] /\ (th = "start" => s \notin disabled)
    <3>1. PICK st : st = IF mcpState[s] \in {"needs-approval", "denied"}
                         THEN IF s \in disabled THEN "disabled" ELSE "connecting" ELSE mcpState[s]
      OBVIOUS
    <3>2. st \in States
      BY <1>1, <3>1 DEF ServersTyped, States
    <3>3. /\ decided' = [decided EXCEPT ![s][e] = "approved"]
          /\ mcpState' = [mcpState EXCEPT ![s] = st] /\ names' = Mcp!Rebuilt(mcpState') /\ proc' = proc
          /\ thread' = [thread EXCEPT ![s] = IF mcpState[s] \in {"needs-approval", "denied"} THEN Mcp!Begin(s, st) ELSE @]
      BY <1>3, <1>4, <3>1 DEF Mcp!Decide, Mcp!SetState
    <3>4. PICK th : th = IF mcpState[s] \in {"needs-approval", "denied"} THEN Mcp!Begin(s, st) ELSE thread[s]
      OBVIOUS
    <3>5. th \in {"none", "start"} /\ (th = "start" => s \notin disabled)
      BY <1>2, <3>1, <3>4 DEF Mcp!Begin
    <3>6. thread' = [thread EXCEPT ![s] = th]
      BY <1>1, <3>3, <3>4 DEF ServersTyped
    <3>7. QED
      BY <3>2, <3>3, <3>5, <3>6
  <2>3. PICK st \in States, th \in {"none", "start"} :
          /\ decided' = [decided EXCEPT ![s][e] = "approved"]
          /\ mcpState' = [mcpState EXCEPT ![s] = st] /\ names' = Mcp!Rebuilt(mcpState') /\ proc' = proc
          /\ thread' = [thread EXCEPT ![s] = th] /\ (th = "start" => s \notin disabled)
    BY <2>2
  <2>4. ServersTyped'
    BY <1>1, <1>2, <2>3 DEF ServersTyped, Mcp!Rebuilt
  <2>5. \A t \in Servers \ {s} : /\ config'[t] = config[t] /\ decided'[t] = decided[t] /\ (t \in disabled' <=> t \in disabled)
                                 /\ mcpState'[t] = mcpState[t] /\ thread'[t] = thread[t] /\ proc'[t] = proc[t]
    BY <1>1, <1>2, <2>3 DEF ServersTyped
  <2>6. decided'[s][e] = "approved" /\ thread'[s] = th
    BY <1>1, <2>3 DEF ServersTyped
  <2>7. proc'[s] = "up" => s \notin disabled
    BY <2>3 DEF ServersInv, Allowed
  <2>8. QED
    BY <1>2, <1>3, <2>3, <2>4, <2>5, <2>6, <2>7, OneServer
<1>5. CASE ~approve
  <2>1. /\ decided' = [decided EXCEPT ![s][e] = "denied"]
        /\ mcpState' = [mcpState EXCEPT ![s] = "denied"] /\ names' = Mcp!Rebuilt(mcpState')
        /\ proc' = [proc EXCEPT ![s] = "none"] /\ thread' = [thread EXCEPT ![s] = @]
    BY <1>3, <1>5 DEF Mcp!Decide, Mcp!Closed, Mcp!SetState
  <2>2. thread' = thread
    BY <1>1, <2>1 DEF ServersTyped
  <2>3. ServersTyped'
    BY <1>1, <1>2, <2>1, <2>2 DEF ServersTyped, Mcp!Rebuilt, States
  <2>4. \A t \in Servers \ {s} : /\ config'[t] = config[t] /\ decided'[t] = decided[t] /\ (t \in disabled' <=> t \in disabled)
                                 /\ mcpState'[t] = mcpState[t] /\ thread'[t] = thread[t] /\ proc'[t] = proc[t]
    BY <1>1, <1>2, <2>1, <2>2 DEF ServersTyped
  <2>5. thread'[s] = "none" /\ proc'[s] = "none" /\ config'[s] # 0
    BY <1>1, <1>2, <2>1, <2>2 DEF ServersTyped
  <2>6. QED
    BY <2>3, <2>4, <2>5, OneServer
<1>6. QED
  BY <1>4, <1>5

\* Starting, crashing and restarting: no one asks here, for no one has to.
LEMMA LifeStep ==
  ASSUME McpBounds, ServersInv, NEW s \in Servers,
         \/ Mcp!Start(s) \/ Mcp!Shake(s) \/ Mcp!SetReady(s) \/ Mcp!ShakeFails(s)
         \/ Mcp!Exit(s) \/ Mcp!Notice(s) \/ Mcp!Tick(s)
  PROVE  ServersInv'
<1>1. ServersTyped
  BY DEF ServersInv
<1>2. /\ file' = file /\ config' = config /\ decided' = decided /\ disabled' = disabled /\ prompt' = prompt
  BY DEF Mcp!Start, Mcp!Shake, Mcp!SetReady, Mcp!ShakeFails, Mcp!Exit, Mcp!Notice, Mcp!Tick
<1>3. thread[s] # "none" \/ proc[s] = "up" => Allowed(s)
  BY DEF ServersInv
<1>4. config[s] = 0 => mcpState[s] = "disabled"
  BY DEF ServersInv
<1>5. /\ mcpState[s] \in States /\ thread[s] \in {"none", "start", "shake", "set"}
      /\ proc[s] \in {"none", "up", "dead", "lost"}
      /\ mcpState = [mcpState EXCEPT ![s] = mcpState[s]] /\ thread = [thread EXCEPT ![s] = thread[s]]
      /\ proc = [proc EXCEPT ![s] = proc[s]]
  BY <1>1 DEF ServersTyped
<1>6. Allowed(s) => config[s] # 0
  BY DEF Allowed, McpBounds
<1> DEFINE Becomes(st, th, pr) ==
      /\ mcpState' = [mcpState EXCEPT ![s] = st] /\ thread' = [thread EXCEPT ![s] = th] /\ proc' = [proc EXCEPT ![s] = pr]
      /\ names' = names \/ names' = Mcp!Rebuilt(mcpState')
      /\ th # "none" \/ pr = "up" => Allowed(s)
      /\ config[s] = 0 => st = "disabled"
<1>7. \E st \in States, th \in {"none", "start", "shake", "set"}, pr \in {"none", "up", "dead", "lost"} : Becomes(st, th, pr)
  <2>1. CASE Mcp!Start(s)
    <3>1. Allowed(s)
      BY <1>3, <2>1 DEF Mcp!Start
    <3>2. CASE /\ proc' = [proc EXCEPT ![s] = "up"] /\ thread' = [thread EXCEPT ![s] = "shake"]
               /\ mcpState' = [mcpState EXCEPT ![s] = "connecting"] /\ UNCHANGED <<names, dirty>>
      <4>1. Becomes("connecting", "shake", "up")
        BY <1>6, <3>1, <3>2
      <4>2. QED
        BY <4>1 DEF States
    <3>3. CASE thread' = [thread EXCEPT ![s] = "none"] /\ Mcp!SetState(s, "error") /\ UNCHANGED proc
      <4>1. Becomes("error", "none", proc[s])
        BY <1>5, <1>6, <3>1, <3>3 DEF Mcp!SetState
      <4>2. QED
        BY <1>5, <4>1 DEF States
    <3>4. QED
      BY <2>1, <3>2, <3>3 DEF Mcp!Start
  <2>2. CASE Mcp!Shake(s)
    <3>1. Becomes(mcpState[s], "set", proc[s])
      BY <1>3, <1>4, <1>5, <2>2 DEF Mcp!Shake
    <3>2. QED
      BY <1>5, <3>1
  <2>3. CASE Mcp!SetReady(s)
    <3>1. Becomes("ready", "none", proc[s])
      BY <1>3, <1>5, <1>6, <2>3 DEF Mcp!SetReady, Mcp!SetState
    <3>2. QED
      BY <1>5, <3>1 DEF States
  <2>4. CASE Mcp!ShakeFails(s)
    <3>1. Becomes("error", "none", "none")
      BY <1>3, <1>6, <2>4 DEF Mcp!ShakeFails, Mcp!Closed, Mcp!SetState
    <3>2. QED
      BY <3>1 DEF States
  <2>5. CASE Mcp!Exit(s)
    <3>1. Becomes(mcpState[s], thread[s], "dead")
      BY <1>3, <1>4, <1>5, <2>5 DEF Mcp!Exit
    <3>2. QED
      BY <1>5, <3>1
  <2>6. CASE Mcp!Notice(s)
    <3>1. proc' = [proc EXCEPT ![s] = "lost"] /\ thread' = thread
      BY <2>6 DEF Mcp!Notice
    <3>2. CASE mcpState' = mcpState /\ names' = names
      <4>1. Becomes(mcpState[s], thread[s], "lost")
        BY <1>3, <1>4, <1>5, <3>1, <3>2
      <4>2. QED
        BY <1>5, <4>1
    <3>3. CASE mcpState[s] = "ready" /\ Mcp!SetState(s, "error")
      <4>1. Becomes("error", thread[s], "lost")
        BY <1>3, <1>4, <1>5, <3>1, <3>3 DEF Mcp!SetState
      <4>2. QED
        BY <1>5, <4>1 DEF States
    <3>4. QED
      BY <2>6, <3>2, <3>3 DEF Mcp!Notice
  <2>7. CASE Mcp!Tick(s)
    <3>1. mcpState[s] = "error"
      BY <2>7 DEF Mcp!Tick
    <3>2. PICK e \in Entries : e = config[s]
      BY <1>1, <1>4, <3>1 DEF ServersTyped
    <3>3. PICK x : x = Mcp!Activated(s, e, disabled)
      OBVIOUS
    <3>4. x \in States /\ (x = "connecting" => Allowed(s))
      BY <1>1, <3>2, <3>3, ActivatedIs DEF States, Allowed
    <3>5. PICK th : th = Mcp!Begin(s, x)
      OBVIOUS
    <3>6. th \in {"none", "start", "shake", "set"} /\ (th # "none" => x = "connecting" \/ thread[s] # "none")
      BY <1>1, <3>5, BeginIs
    <3>7. /\ mcpState' = [mcpState EXCEPT ![s] = x] /\ thread' = [thread EXCEPT ![s] = th]
          /\ proc' = proc /\ names' = names
      BY <2>7, <3>2, <3>3, <3>5 DEF Mcp!Tick
    <3>8. Becomes(x, th, proc[s])
      BY <1>3, <1>4, <1>5, <3>1, <3>4, <3>6, <3>7
    <3>9. QED
      BY <1>5, <3>4, <3>6, <3>8
  <2>8. QED
    BY <2>1, <2>2, <2>3, <2>4, <2>5, <2>6, <2>7
<1>8. PICK st \in States, th \in {"none", "start", "shake", "set"}, pr \in {"none", "up", "dead", "lost"} : Becomes(st, th, pr)
  BY <1>7
<1>9. ServersTyped'
  BY <1>1, <1>2, <1>8 DEF ServersTyped, Mcp!Rebuilt
<1>10. \A t \in Servers \ {s} : /\ config'[t] = config[t] /\ decided'[t] = decided[t] /\ (t \in disabled' <=> t \in disabled)
                                /\ mcpState'[t] = mcpState[t] /\ thread'[t] = thread[t] /\ proc'[t] = proc[t]
  BY <1>1, <1>2, <1>8 DEF ServersTyped
<1>11. mcpState'[s] = st /\ thread'[s] = th /\ proc'[s] = pr
  BY <1>1, <1>8 DEF ServersTyped
<1>12. thread'[s] # "none" \/ proc'[s] = "up" =>
         config'[s] \in Entries /\ decided'[s][config'[s]] = "approved" /\ s \notin disabled'
  BY <1>2, <1>8, <1>11 DEF Allowed
<1>13. config'[s] = 0 => mcpState'[s] = "disabled"
  BY <1>2, <1>8, <1>11
<1>14. QED
  BY <1>9, <1>10, <1>12, <1>13, OneServer

\* What leaves the servers as they are.
LEMMA QuietStep ==
  ASSUME ServersInv, file' \in [Servers -> Entries \cup {0}],
         config' = config, decided' = decided, disabled' = disabled, mcpState' = mcpState,
         thread' = thread, proc' = proc, names' = names, prompt' \in SUBSET Servers
  PROVE  ServersInv'
BY DEF ServersInv, ServersTyped, Allowed

LEMMA ServersStep ==
  ASSUME McpBounds, Racing = FALSE, ServersInv, [Mcp!Next]_Mcp!vars
  PROVE  ServersInv'
<1>1. ServersTyped
  BY DEF ServersInv
<1>2. CASE \E s \in Servers, e \in Entries \cup {0} : Mcp!EditFile(s, e)
  <2>1. file' \in [Servers -> Entries \cup {0}]
    BY <1>1, <1>2 DEF ServersTyped, Mcp!EditFile
  <2>2. QED
    BY <1>1, <1>2, <2>1, QuietStep DEF ServersTyped, Mcp!EditFile, Mcp!clients
<1>3. CASE Mcp!BeginTurn \/ Mcp!EndTurn
  <2>1. prompt' \in SUBSET Servers
    BY <1>1, <1>3 DEF ServersTyped, Mcp!BeginTurn, Mcp!EndTurn
  <2>2. QED
    BY <1>1, <1>3, <2>1, QuietStep DEF ServersTyped, Mcp!BeginTurn, Mcp!EndTurn, Mcp!clients
<1>4. CASE \E c \in Mcp!Callers :
              \/ \E s \in Servers : Mcp!Call(c, s)
              \/ Mcp!Register(c) \/ Mcp!Send(c) \/ Mcp!Answer(c) \/ Mcp!GiveUp(c) \/ Mcp!Fails(c)
  <2>1. Mcp!Keep
    BY <1>4 DEF Mcp!Call, Mcp!Register, Mcp!Send, Mcp!Answer, Mcp!GiveUp, Mcp!Fails
  <2>2. QED
    BY <1>1, <2>1, QuietStep DEF ServersTyped, Mcp!Keep, Mcp!clients
<1>5. CASE UNCHANGED Mcp!vars
  BY <1>1, <1>5, QuietStep DEF ServersTyped, Mcp!vars, Mcp!clients
<1>6. CASE Mcp!Reload
  BY <1>6, ReloadStep
<1>7. CASE \E s \in Servers : Mcp!Restart(s) \/ Mcp!Enable(s) \/ Mcp!Disable(s)
  BY <1>7, UserStep
<1>8. CASE \E s \in Servers : Mcp!Decide(s, TRUE) \/ Mcp!Decide(s, FALSE)
  BY <1>8, DecideStep
<1>9. CASE \E s \in Servers : \/ Mcp!Start(s) \/ Mcp!Shake(s) \/ Mcp!SetReady(s) \/ Mcp!ShakeFails(s)
                              \/ Mcp!Exit(s) \/ Mcp!Notice(s) \/ Mcp!Tick(s)
  BY <1>9, LifeStep
<1>10. QED
  BY <1>2, <1>3, <1>4, <1>5, <1>6, <1>7, <1>8, <1>9 DEF Mcp!Next

LEMMA ServersInit ==
  ASSUME McpBounds, Mcp!Init
  PROVE  ServersInv
<1>1. /\ file = [s \in Servers |-> 1] /\ config = [s \in Servers |-> 0]
      /\ decided = [s \in Servers |-> [e \in Entries |-> IF s \in Project THEN "pending" ELSE "approved"]]
      /\ disabled = {} /\ mcpState = [s \in Servers |-> "disabled"] /\ thread = [s \in Servers |-> "none"]
      /\ proc = [s \in Servers |-> "none"] /\ names = {} /\ prompt = {}
  BY DEF Mcp!Init
<1>2. QED
  BY <1>1 DEF ServersInv, ServersTyped, States, McpBounds

\* No server's process runs with an entry the user has not approved, nor one that is
\* denied or off: not after an edit of the file, a crash, a restart or a reload, where
\* the user does not act on a server that is still starting (mcp/approval.py, client.py).
THEOREM OnlyApproved ==
  ASSUME McpBounds, Racing = FALSE
  PROVE  Mcp!Spec => []Mcp!ApprovedFirst
<1>1. Mcp!Init => ServersInv
  BY ServersInit
<1>2. ServersInv /\ [Mcp!Next]_Mcp!vars => ServersInv'
  BY ServersStep
<1>3. ServersInv => Mcp!ApprovedFirst
  BY DEF ServersInv, Allowed, Mcp!ApprovedFirst
<1>4. QED
  BY <1>1, <1>2, <1>3, PTL DEF Mcp!Spec

\* A process only runs, and dies, while restarts are left.
LEMMA CrashStep ==
  ASSUME McpBounds, ServersTyped, CrashesInv, [Mcp!Next]_Mcp!vars
  PROVE  CrashesInv'
<1>1. \A s \in Servers : /\ crashes[s] \in 0..(MaxRestarts + 1) /\ 0 \in 0..(MaxRestarts + 1)
                         /\ proc[s] = "dead" => crashes[s] <= MaxRestarts
  BY DEF CrashesInv, McpBounds
<1>2. CASE crashes' = crashes /\ proc' = proc
  BY <1>2 DEF CrashesInv
<1>3. ASSUME NEW s \in Servers, NEW n \in 0..(MaxRestarts + 1),
             NEW pr \in {"none", "up", "dead", "lost"},
             pr = "dead" => n <= MaxRestarts,
             crashes' = [crashes EXCEPT ![s] = n], proc' = [proc EXCEPT ![s] = pr]
      PROVE  CrashesInv'
  <2>1. \A t \in Servers : /\ crashes'[t] = IF t = s THEN n ELSE crashes[t]
                           /\ proc'[t] = IF t = s THEN pr ELSE proc[t]
    BY <1>3 DEF CrashesInv, ServersTyped
  <2>2. crashes' \in [Servers -> 0..(MaxRestarts + 1)]
    BY <1>3 DEF CrashesInv
  <2>3. QED
    BY <1>1, <1>3, <2>1, <2>2 DEF CrashesInv
<1>4. \A s \in Servers : /\ crashes = [crashes EXCEPT ![s] = crashes[s]] /\ proc = [proc EXCEPT ![s] = proc[s]]
                         /\ proc[s] \in {"none", "up", "dead", "lost"}
  BY DEF CrashesInv, ServersTyped
<1>5. CASE Mcp!Reload
  <2>1. PICK new \in SUBSET Servers :
             /\ proc' = [s \in Servers |-> IF s \in new THEN "none" ELSE proc[s]]
             /\ crashes' = [s \in Servers |-> IF s \in new THEN 0 ELSE crashes[s]]
    BY <1>5 DEF Mcp!Reload
  <2>2. QED
    BY <1>1, <2>1 DEF CrashesInv
<1>6. CASE \E s \in Servers : Mcp!Restart(s) \/ Mcp!Disable(s) \/ Mcp!Decide(s, FALSE) \/ Mcp!ShakeFails(s)
  <2>1. PICK s \in Servers : /\ proc' = [proc EXCEPT ![s] = "none"]
                             /\ crashes' = [crashes EXCEPT ![s] = 0] \/ crashes' = crashes
    BY <1>6 DEF Mcp!Restart, Mcp!Disable, Mcp!Decide, Mcp!ShakeFails, Mcp!Closed
  <2>2. crashes' = [crashes EXCEPT ![s] = 0] \/ crashes' = [crashes EXCEPT ![s] = crashes[s]]
    BY <1>4, <2>1
  <2>3. QED
    BY <1>1, <1>3, <2>1, <2>2
<1>7. CASE \E s \in Servers : Mcp!Enable(s)
  <2>1. PICK s \in Servers : proc' = proc /\ (crashes' = [crashes EXCEPT ![s] = 0] \/ crashes' = crashes)
    BY <1>7 DEF Mcp!Enable
  <2>2. CASE crashes' = crashes
    BY <1>2, <2>1, <2>2
  <2>3. CASE crashes' = [crashes EXCEPT ![s] = 0]
    <3>1. proc' = [proc EXCEPT ![s] = proc[s]]
      BY <1>4, <2>1
    <3>2. 0 \in 0..(MaxRestarts + 1) /\ (proc[s] = "dead" => 0 <= MaxRestarts)
      BY DEF McpBounds
    <3>3. proc[s] \in {"none", "up", "dead", "lost"}
      BY <1>4
    <3>4. QED
      BY <1>3, <2>3, <3>1, <3>2, <3>3
  <2>4. QED
    BY <2>1, <2>2, <2>3
<1>8. CASE \E s \in Servers : Mcp!Start(s)
  <2>1. PICK s \in Servers : crashes' = crashes /\ (proc' = [proc EXCEPT ![s] = "up"] \/ proc' = proc)
    BY <1>8 DEF Mcp!Start
  <2>2. QED
    BY <1>1, <1>2, <1>3, <1>4, <2>1
<1>9. CASE \E s \in Servers : Mcp!Exit(s)
  <2>1. PICK s \in Servers : crashes' = crashes /\ proc' = [proc EXCEPT ![s] = "dead"] /\ crashes[s] <= MaxRestarts
    BY <1>9 DEF Mcp!Exit
  <2>2. QED
    BY <1>1, <1>3, <1>4, <2>1
<1>10. CASE \E s \in Servers : Mcp!Notice(s)
  <2>1. PICK s \in Servers : /\ proc[s] = "dead" /\ proc' = [proc EXCEPT ![s] = "lost"]
                             /\ crashes' = [crashes EXCEPT ![s] = crashes[s] + 1] \/ crashes' = crashes
    BY <1>10 DEF Mcp!Notice
  <2>2. crashes[s] + 1 \in 0..(MaxRestarts + 1)
    BY <1>1, <2>1 DEF McpBounds
  <2>3. QED
    BY <1>1, <1>3, <1>4, <2>1, <2>2
<1>11. CASE \/ \E s \in Servers, e \in Entries \cup {0} : Mcp!EditFile(s, e)
            \/ Mcp!BeginTurn \/ Mcp!EndTurn
            \/ \E s \in Servers : Mcp!Decide(s, TRUE) \/ Mcp!Shake(s) \/ Mcp!SetReady(s) \/ Mcp!Tick(s)
  BY <1>2, <1>11 DEF Mcp!EditFile, Mcp!BeginTurn, Mcp!EndTurn, Mcp!Decide, Mcp!Shake, Mcp!SetReady, Mcp!Tick, Mcp!clients
<1>12. CASE \E c \in Mcp!Callers :
              \/ \E s \in Servers : Mcp!Call(c, s)
              \/ Mcp!Register(c) \/ Mcp!Send(c) \/ Mcp!Answer(c) \/ Mcp!GiveUp(c) \/ Mcp!Fails(c)
  <2>1. Mcp!Keep
    BY <1>12 DEF Mcp!Call, Mcp!Register, Mcp!Send, Mcp!Answer, Mcp!GiveUp, Mcp!Fails
  <2>2. QED
    BY <1>2, <2>1 DEF Mcp!Keep, Mcp!clients
<1>13. CASE UNCHANGED Mcp!vars
  BY <1>2, <1>13 DEF Mcp!vars, Mcp!clients
<1>14. QED
  BY <1>5, <1>6, <1>7, <1>8, <1>9, <1>10, <1>11, <1>12, <1>13 DEF Mcp!Next

\* The servers are of their types; a server crashes at most once more than it is
\* restarted, MAX_RESTARTS times (mcp/client.py, _on_close and tick).
THEOREM McpTyping ==
  ASSUME McpBounds, Racing = FALSE
  PROVE  Mcp!Spec => []Mcp!TypeOK
<1>1. Mcp!Init => ServersInv /\ CrashesInv
  <2>1. ASSUME Mcp!Init
        PROVE  CrashesInv
    <3>1. crashes = [s \in Servers |-> 0] /\ proc = [s \in Servers |-> "none"]
      BY <2>1 DEF Mcp!Init
    <3>2. QED
      BY <3>1 DEF CrashesInv, McpBounds
  <2>2. QED
    BY <2>1, ServersInit
<1>2. ServersInv /\ CrashesInv /\ [Mcp!Next]_Mcp!vars => (ServersInv /\ CrashesInv)'
  BY ServersStep, CrashStep DEF ServersInv
<1>3. ServersInv /\ CrashesInv => Mcp!TypeOK
  BY DEF ServersInv, CrashesInv, ServersTyped, States, Mcp!TypeOK
<1>4. QED
  BY <1>1, <1>2, <1>3, PTL DEF Mcp!Spec

CONSTANTS Names, MaxCode, MaxUsed, CodeRaces
VARIABLES code, python, off, approved, denied, registered, report, venv, toolCall, ran, used

Ws == INSTANCE WorkspaceTools WITH call <- toolCall, Racing <- CodeRaces

LEMMA ToolCounts ==
  ASSUME NEW S
  PROVE  Ws!Cardinality(S) = Cardinality(S)
BY DEF Ws!Cardinality, Cardinality

-----------------------------------------------------------------------------
(***************************************************************************)
(* Tools a repository brings along.  A call that passed its check is about *)
(* code that is still there and approved when it starts.                   *)
(***************************************************************************)
ToolsTyped ==
  /\ code \in 1..MaxCode /\ python \in {"own", "venv"} /\ off \subseteq Names
  /\ approved \subseteq Ws!Fingerprints /\ denied \subseteq Ws!Fingerprints
  /\ approved \cap denied = {}

CheckedCall == toolCall = {} \/ \E n \in Names : toolCall = {n} /\ Ws!Fingerprint(n) \in approved

Registered ==
  /\ registered = [n \in DOMAIN registered |-> registered[n]] /\ DOMAIN registered \subseteq Names
  /\ \A n \in DOMAIN registered : registered[n].name = n

ToolsInv == ToolsTyped /\ CheckedCall /\ Registered /\ Ws!ApprovedRuns

\* The code only changes between calls.
ToolBounds == MaxCode \in Nat \ {0} /\ CodeRaces = FALSE

LEMMA LoadedTools ==
  ASSUME NEW n \in DOMAIN registered', Ws!Loaded
  PROVE  n \in Names /\ registered'[n].name = n
<1>1. registered' = [m \in {x \in Names : Ws!Status(x)' = "loaded"} |-> Ws!Fingerprint(m)']
  BY DEF Ws!Loaded
<1>2. n \in Names /\ registered'[n] = Ws!Fingerprint(n)'
  BY <1>1
<1>3. QED
  BY <1>2 DEF Ws!Fingerprint

LEMMA RegisteredStep ==
  ASSUME Registered, Ws!Loaded \/ registered' = registered
  PROVE  Registered'
<1>1. CASE Ws!Loaded
  <2>1. registered' = [n \in DOMAIN registered' |-> registered'[n]]
    BY <1>1 DEF Ws!Loaded
  <2>2. QED
    BY <1>1, <2>1, LoadedTools DEF Registered
<1>2. CASE registered' = registered
  BY <1>2 DEF Registered
<1>3. QED
  BY <1>1, <1>2

LEMMA FingerprintIs ==
  ASSUME ToolsTyped, NEW n \in Names
  PROVE  Ws!Fingerprint(n) \in Ws!Fingerprints
BY DEF ToolsTyped, Ws!Fingerprint, Ws!Fingerprints

LEMMA DecideTools ==
  ASSUME ToolsInv, NEW named \in SUBSET Names, NEW yes \in BOOLEAN, NEW here \in BOOLEAN,
         toolCall = {}, Ws!Decide(named, yes, here)
  PROVE  ToolsInv'
<1> DEFINE about == {Ws!Fingerprint(n) : n \in named \ off}
<1>1. /\ approved' = IF yes THEN approved \cup about ELSE approved \ about
      /\ denied' = IF yes THEN denied \ about ELSE denied \cup about
      /\ code' = code /\ python' = python /\ off' = off /\ toolCall' = toolCall /\ ran' = ran
      /\ Ws!Loaded \/ registered' = registered
  BY DEF Ws!Decide, Ws!Unloaded
<1>2. about \subseteq Ws!Fingerprints
  BY FingerprintIs DEF ToolsInv
<1>3. Registered'
  BY <1>1, RegisteredStep DEF ToolsInv
<1>4. ToolsTyped'
  <2>1. approved' \cap denied' = {}
    BY <1>1 DEF ToolsInv, ToolsTyped
  <2>2. approved' \subseteq Ws!Fingerprints /\ denied' \subseteq Ws!Fingerprints
    BY <1>1, <1>2 DEF ToolsInv, ToolsTyped
  <2>3. QED
    BY <1>1, <2>1, <2>2 DEF ToolsInv, ToolsTyped, Ws!Fingerprints
<1>5. CheckedCall' /\ Ws!ApprovedRuns'
  BY <1>1 DEF ToolsInv, CheckedCall, Ws!ApprovedRuns
<1>6. QED
  BY <1>3, <1>4, <1>5 DEF ToolsInv

\* What changes neither approvals nor what runs.
LEMMA SettingsStep ==
  ASSUME ToolsInv, approved' = approved, denied' = denied, toolCall' = toolCall, ran' = ran,
         code' \in 1..MaxCode, python' \in {"own", "venv"}, off' \subseteq Names,
         toolCall = {} \/ (code' = code /\ python' = python),
         Ws!Loaded \/ registered' = registered
  PROVE  ToolsInv'
<1>1. Registered'
  BY RegisteredStep DEF ToolsInv
<1>2. ToolsTyped' /\ Ws!ApprovedRuns'
  BY DEF ToolsInv, ToolsTyped, Ws!ApprovedRuns, Ws!Fingerprints
<1>3. CheckedCall'
  <2>1. CASE toolCall = {}
    BY <2>1 DEF CheckedCall
  <2>2. CASE code' = code /\ python' = python
    BY <2>2 DEF ToolsInv, CheckedCall, Ws!Fingerprint
  <2>3. QED
    BY <2>1, <2>2
<1>4. QED
  BY <1>1, <1>2, <1>3 DEF ToolsInv

LEMMA ToolsStep ==
  ASSUME ToolBounds, ToolsInv, [Ws!Next]_Ws!wsVars
  PROVE  ToolsInv'
<1>1. ToolsTyped
  BY DEF ToolsInv
<1>2. CASE \E n \in Names, yes, here \in BOOLEAN :
              (toolCall = {} \/ (CodeRaces /\ ~here)) /\ Ws!Decide({n}, yes, here)
  BY <1>2, DecideTools DEF ToolBounds
<1>3. CASE \E yes \in BOOLEAN : toolCall = {} /\ Ws!DecideAll(yes)
  BY <1>3, DecideTools DEF Ws!DecideAll
<1>4. CASE \E n \in Names : Ws!EditSettings(n) \/ Ws!SetOverride(n)
  <2>1. off' \subseteq Names
    BY <1>1, <1>4 DEF ToolsTyped, Ws!EditSettings, Ws!SetOverride
  <2>2. QED
    BY <1>1, <1>4, <2>1, SettingsStep DEF ToolsTyped, Ws!EditSettings, Ws!SetOverride
<1>5. CASE \E n \in Names : Ws!CallTool(n)
  <2>1. PICK n \in Names : Ws!CallTool(n)
    BY <1>5
  <2>2. /\ toolCall' = IF Ws!MayStart(n) THEN {n} ELSE {}
        /\ code' = code /\ python' = python /\ off' = off /\ approved' = approved /\ denied' = denied
        /\ registered' = registered /\ ran' = ran
    BY <2>1 DEF Ws!CallTool
  <2>3. CheckedCall'
    BY <2>2 DEF CheckedCall, Ws!MayStart, Ws!Fingerprint
  <2>4. QED
    BY <2>2, <2>3 DEF ToolsInv, ToolsTyped, Registered, Ws!ApprovedRuns, Ws!Fingerprints
<1>6. CASE Ws!Edit
  <2>1. code' \in 1..MaxCode
    BY <1>1, <1>6 DEF ToolsTyped, ToolBounds, Ws!Edit
  <2>2. QED
    BY <1>1, <1>6, <2>1, SettingsStep DEF ToolsTyped, ToolBounds, Ws!Edit
<1>7. CASE Ws!Check \/ Ws!VenvDone \/ UNCHANGED Ws!wsVars
  BY <1>1, <1>7, SettingsStep DEF ToolsTyped, Ws!Check, Ws!VenvDone, Ws!wsVars
<1>8. CASE Ws!BuildVenv
  <2>1. python' \in {"own", "venv"}
    BY <1>1, <1>8 DEF ToolsTyped, Ws!BuildVenv
  <2>2. QED
    BY <1>1, <1>8, <2>1, SettingsStep DEF ToolsTyped, ToolBounds, Ws!BuildVenv
<1>9. CASE Ws!Start
  <2>1. PICK n \in Names : toolCall = {n} /\ Ws!Fingerprint(n) \in approved
    BY <1>9 DEF ToolsInv, CheckedCall, Ws!Start
  <2>2. ran' = {[f |-> Ws!Fingerprint(m), approved |-> Ws!Fingerprint(m) \in approved] : m \in {n}}
    BY <1>9, <2>1 DEF Ws!Start
  <2>3. ASSUME NEW r \in ran'
        PROVE  r.approved
    <3>1. r = [f |-> Ws!Fingerprint(n), approved |-> Ws!Fingerprint(n) \in approved]
      BY <2>2, <2>3
    <3>2. r.approved = (Ws!Fingerprint(n) \in approved)
      BY <3>1, Zenon
    <3>3. QED
      BY <2>1, <3>2
  <2>4. Ws!ApprovedRuns'
    BY <2>3 DEF Ws!ApprovedRuns
  <2>5. QED
    BY <1>9, <2>4 DEF ToolsInv, ToolsTyped, CheckedCall, Registered, Ws!Start, Ws!Fingerprints
<1>10. QED
  BY <1>2, <1>3, <1>4, <1>5, <1>6, <1>7, <1>8, <1>9 DEF Ws!Next

LEMMA ToolsInit ==
  ASSUME ToolBounds, Ws!Init
  PROVE  ToolsInv
<1>1. /\ code = 1 /\ python = "own" /\ off = {} /\ approved = {} /\ denied = {}
      /\ registered = [n \in {} |-> 0] /\ toolCall = {} /\ ran = {}
  BY DEF Ws!Init
<1>2. QED
  BY <1>1 DEF ToolBounds, ToolsInv, ToolsTyped, CheckedCall, Registered, Ws!ApprovedRuns

\* Nothing of a repository runs that the user did not approve with just this code and
\* interpreter, where the code does not change between a call's check and its start
\* (tools/workspace.py:16).
THEOREM ApprovedToolsRun ==
  ASSUME ToolBounds
  PROVE  Ws!Spec => []Ws!ApprovedRuns
<1>1. Ws!Init => ToolsInv
  BY ToolsInit
<1>2. ToolsInv /\ [Ws!Next]_Ws!wsVars => ToolsInv'
  BY ToolsStep
<1>3. ToolsInv => Ws!ApprovedRuns
  BY DEF ToolsInv
<1>4. QED
  BY <1>1, <1>2, <1>3, PTL DEF Ws!Spec

\* No fingerprint is both approved and denied, and what is registered is registered
\* under its own name; one call at a time.
THEOREM ToolTyping ==
  ASSUME ToolBounds
  PROVE  Ws!Spec => []Ws!TypeOK
<1>1. Ws!Init => ToolsInv
  BY ToolsInit
<1>2. ToolsInv /\ [Ws!Next]_Ws!wsVars => ToolsInv'
  BY ToolsStep
<1>3. ToolsInv => Ws!TypeOK
  <2> SUFFICES ASSUME ToolsInv PROVE Ws!TypeOK
    OBVIOUS
  <2>1. Ws!Cardinality(toolCall) <= 1
    <3>1. CASE toolCall = {}
      BY <3>1, FS_EmptySet, ToolCounts
    <3>2. CASE \E n \in Names : toolCall = {n}
      BY <3>2, FS_Singleton, ToolCounts
    <3>3. QED
      BY <3>1, <3>2 DEF ToolsInv, CheckedCall
  <2>2. QED
    BY <2>1 DEF ToolsInv, ToolsTyped, Registered, Ws!TypeOK
<1>4. QED
  BY <1>1, <1>2, <1>3, PTL DEF Ws!Spec

\* A denial stands until the tool is named again: no step approves a denied tool along
\* with another (tools/workspace.py, decide).
THEOREM DenialsStand ==
  ASSUME ToolBounds
  PROVE  Ws!Spec => Ws!DenialStands
<1>1. ASSUME ToolsInv, [Ws!Next]_Ws!wsVars
      PROVE  Ws!DenialStandsStep
  <2> SUFFICES ASSUME NEW f \in denied, NEW g \in Ws!Fingerprints \ approved, f \in approved', g \in approved'
               PROVE  f = g
    BY DEF Ws!DenialStandsStep
  <2>1. f \notin approved
    BY <1>1 DEF ToolsInv, ToolsTyped
  <2>2. PICK named \in SUBSET Names, yes \in BOOLEAN, here \in BOOLEAN :
             /\ Ws!Decide(named, yes, here)
             /\ (\E n \in Names : named = {n}) \/ (\A n \in named : Ws!Waiting(n))
    <3>1. approved' # approved
      BY <2>1
    <3>2. CASE \E n \in Names, yes, here \in BOOLEAN : Ws!Decide({n}, yes, here)
      <4>1. PICK n \in Names, yes \in BOOLEAN, here \in BOOLEAN : Ws!Decide({n}, yes, here)
        BY <3>2
      <4>2. {n} \in SUBSET Names
        OBVIOUS
      <4>3. QED
        BY <4>1, <4>2
    <3>3. CASE \E yes \in BOOLEAN : Ws!DecideAll(yes)
      <4>1. PICK yes \in BOOLEAN, named \in SUBSET Names :
                 named = {n \in Names : Ws!Waiting(n)} /\ Ws!Decide(named, yes, TRUE)
        BY <3>3 DEF Ws!DecideAll
      <4>2. QED
        BY <4>1
    <3>4. (\E n \in Names, yes, here \in BOOLEAN : Ws!Decide({n}, yes, here)) \/ (\E yes \in BOOLEAN : Ws!DecideAll(yes))
      BY <1>1, <3>1 DEF Ws!Next, Ws!EditSettings, Ws!SetOverride, Ws!CallTool, Ws!Edit, Ws!Check,
                        Ws!BuildVenv, Ws!VenvDone, Ws!Start, Ws!wsVars
    <3>5. QED
      BY <3>2, <3>3, <3>4
  <2>3. f \in {Ws!Fingerprint(n) : n \in named \ off} /\ g \in {Ws!Fingerprint(n) : n \in named \ off}
    BY <2>1, <2>2 DEF Ws!Decide
  <2>4. CASE \E n \in Names : named = {n}
    BY <2>3, <2>4
  <2>5. CASE \A n \in named : Ws!Waiting(n)
    <3>1. PICK n \in named \ off : f = Ws!Fingerprint(n)
      BY <2>3
    <3>2. f \notin denied
      BY <2>1, <2>5, <3>1 DEF Ws!Waiting, Ws!Status, Ws!Verdict
    <3>3. QED
      BY <3>2
  <2>6. QED
    BY <2>2, <2>4, <2>5
<1>2. Ws!Init => ToolsInv
  BY ToolsInit
<1>3. ToolsInv /\ [Ws!Next]_Ws!wsVars => ToolsInv'
  BY ToolsStep
<1>4. QED
  BY <1>1, <1>2, <1>3, PTL DEF Ws!Spec, Ws!DenialStands

CONSTANTS Base, Machine, Given, LIFE, RENEW, Torn, MaxClock, MaxStarts
VARIABLES caKey, caPem, caJson, srvKey, srvPem, srvJson, hostNames, at, clock, made, starts

Tls == INSTANCE WebTls WITH names <- hostNames

-----------------------------------------------------------------------------
(***************************************************************************)
(* Certificates.  The authority's files agree but while they are replaced, *)
(* and so do the server's; what is served was checked against both.        *)
(***************************************************************************)
TlsBounds ==
  /\ Torn = FALSE /\ LIFE \in Nat /\ RENEW \in Nat /\ RENEW <= LIFE
  /\ "none" \notin Base \cup Machine \cup Given /\ "host" \in Machine

TlsTyped ==
  /\ made \in Nat /\ clock \in Nat /\ hostNames \subseteq Machine
  /\ at = [step |-> at.step, extra |-> at.extra, key |-> at.key]
  /\ at.extra \subseteq Given /\ at.key \in 0..made
  /\ caKey \in 0..made /\ caPem.key \in 0..made /\ srvKey \in 0..made
  /\ caJson = Tls!NoJson \/ caJson \subseteq Base \cup Machine \cup Given

Making == at.step \in {"ca_key", "ca_pem", "ca_json"}

CaInv ==
  /\ at.step # "ca_json" /\ caPem # Tls!NoPem =>
       caKey = caPem.key /\ caKey # 0 /\ caJson = caPem.permits /\ caJson # Tls!NoJson
  /\ Making => at.key # 0
  /\ at.step \in {"ca_key", "ca_pem"} => caPem = Tls!NoPem
  /\ at.step \in {"ca_pem", "ca_json"} => caKey = at.key
  /\ at.step = "ca_json" => caPem = [key |-> at.key, permits |-> Tls!Permitted]
  /\ at.step \in {"old", "names", "key", "pem", "json", "served", "refused"} => caPem # Tls!NoPem

Told == [key |-> 0, ca |-> srvPem.ca, names |-> srvPem.names, ends |-> srvPem.ends]

SrvInv ==
  /\ at.step \notin {"pem", "json"} => srvPem.key = srvKey /\ srvJson = Told
  /\ at.step \in {"pem", "json"} => srvKey = at.key
  /\ at.step = "json" => srvPem = Tls!New
  /\ Tls!ServedGood

TlsInv == TlsTyped /\ CaInv /\ SrvInv

LEMMA AtIs ==
  ASSUME TlsTyped, NEW s, NEW n
  PROVE  /\ [at EXCEPT !.step = s] = [step |-> s, extra |-> at.extra, key |-> at.key]
         /\ [at EXCEPT !.step = s, !.key = n] = [step |-> s, extra |-> at.extra, key |-> n]
<1>1. PICK a, b, c : at = [step |-> a, extra |-> b, key |-> c] /\ at.extra = b /\ at.key = c
  BY DEF TlsTyped
<1>2. [at EXCEPT !.step = s, !.key = n] = [[at EXCEPT !.step = s] EXCEPT !.key = n]
  OBVIOUS
<1>3. [at EXCEPT !.step = s] = [step |-> s, extra |-> b, key |-> c]
  BY <1>1
<1>4. [[step |-> s, extra |-> b, key |-> c] EXCEPT !.key = n] = [step |-> s, extra |-> b, key |-> n]
  OBVIOUS
<1>5. [at EXCEPT !.step = s, !.key = n] = [step |-> s, extra |-> b, key |-> n]
  BY <1>2, <1>3, <1>4
<1>6. QED
  BY <1>1, <1>3, <1>5

LEMMA EnsureStep ==
  ASSUME TlsBounds, TlsInv, NEW extra \in SUBSET Given, Tls!Ensure(extra)
  PROVE  TlsInv'
<1>1. /\ at.step = "none" /\ UNCHANGED <<caKey, caPem, caJson, srvKey, srvPem, srvJson, hostNames, clock>>
  BY DEF Tls!Ensure, Tls!At, Tls!Ca, Tls!Srv
<1>2. CASE Tls!HasCa
  <2>1. at' = [step |-> "names", extra |-> extra, key |-> 0] /\ made' = made
    BY <1>2 DEF Tls!Ensure
  <2>2. at'.step = "names" /\ at'.extra = extra /\ at'.key = 0
    BY <2>1
  <2>3. TlsTyped'
    BY <1>1, <2>1, <2>2 DEF TlsInv, TlsTyped, Tls!NoJson
  <2>4. CaInv'
    BY <1>1, <1>2, <2>2 DEF TlsInv, CaInv, Making, Tls!HasCa, Tls!NoPem, Tls!NoJson
  <2>5. SrvInv'
    BY <1>1, <2>2 DEF TlsInv, SrvInv, Told, Tls!ServedGood, Tls!At
  <2>6. QED
    BY <2>3, <2>4, <2>5 DEF TlsInv
<1>3. CASE ~Tls!HasCa
  <2>1. at' = [step |-> "ca_key", extra |-> extra, key |-> made + 1] /\ made' = made + 1
    BY <1>3 DEF Tls!Ensure
  <2>2. at'.step = "ca_key" /\ at'.extra = extra /\ at'.key = made + 1
    BY <2>1
  <2>3. TlsTyped'
    BY <1>1, <2>1, <2>2 DEF TlsInv, TlsTyped, Tls!NoJson
  <2>4. caPem = Tls!NoPem
    BY <1>1, <1>3 DEF TlsInv, CaInv, Tls!HasCa
  <2>5. CaInv'
    BY <1>1, <2>2, <2>3, <2>4 DEF TlsInv, TlsTyped, CaInv, Making, Tls!NoPem
  <2>6. SrvInv'
    BY <1>1, <2>2 DEF TlsInv, SrvInv, Told, Tls!ServedGood, Tls!At
  <2>7. QED
    BY <2>3, <2>5, <2>6 DEF TlsInv
<1>4. QED
  BY <1>2, <1>3

LEMMA AuthorityStep ==
  ASSUME TlsBounds, TlsInv, Tls!CaKey \/ Tls!CaPem \/ Tls!CaJson \/ Tls!Unlink
  PROVE  TlsInv'
<1>1. /\ made' = made /\ clock' = clock /\ hostNames' = hostNames
      /\ at'.extra = at.extra /\ at'.key = at.key
      /\ at' = [step |-> at'.step, extra |-> at'.extra, key |-> at'.key]
  BY AtIs DEF TlsInv, Tls!CaKey, Tls!CaPem, Tls!CaJson, Tls!Unlink
<1>2. Tls!Permitted' = Tls!Permitted /\ "none" \notin Tls!Permitted
      /\ Tls!Permitted \subseteq Base \cup Machine \cup Given
  BY <1>1 DEF TlsInv, TlsTyped, TlsBounds, Tls!Permitted
<1>3. CASE Tls!CaKey
  <2>1. /\ at.step = "ca_key" /\ at'.step = "ca_pem" /\ caKey' = at.key
        /\ UNCHANGED <<caPem, caJson, srvKey, srvPem, srvJson>>
    BY <1>3, AtIs DEF TlsInv, Tls!CaKey, Tls!At, Tls!Srv
  <2>2. TlsTyped'
    BY <1>1, <2>1 DEF TlsInv, TlsTyped, Tls!NoJson
  <2>3. CaInv'
    BY <1>1, <2>1 DEF TlsInv, CaInv, Making, Tls!NoPem
  <2>4. SrvInv'
    BY <1>1, <2>1 DEF TlsInv, SrvInv, Told, Tls!ServedGood, Tls!At
  <2>5. QED
    BY <2>2, <2>3, <2>4 DEF TlsInv
<1>4. CASE Tls!CaPem
  <2>1. /\ at.step = "ca_pem" /\ at'.step = "ca_json" /\ caPem' = [key |-> at.key, permits |-> Tls!Permitted]
        /\ UNCHANGED <<caKey, caJson, srvKey, srvPem, srvJson>>
    BY <1>4, AtIs DEF TlsInv, Tls!CaPem, Tls!At, Tls!Srv
  <2>2. TlsTyped'
    BY <1>1, <2>1 DEF TlsInv, TlsTyped, Tls!NoJson
  <2>3. CaInv'
    BY <1>1, <1>2, <2>1 DEF TlsInv, CaInv, Making
  <2>4. SrvInv'
    BY <1>1, <2>1 DEF TlsInv, SrvInv, Told, Tls!ServedGood, Tls!At
  <2>5. QED
    BY <2>2, <2>3, <2>4 DEF TlsInv
<1>5. CASE Tls!CaJson
  <2>1. /\ at.step = "ca_json" /\ at'.step = "old" /\ caJson' = Tls!Permitted
        /\ UNCHANGED <<caKey, caPem, srvKey, srvPem, srvJson>>
    BY <1>5, AtIs DEF TlsInv, Tls!CaJson, Tls!At, Tls!Srv
  <2>2. TlsTyped'
    BY <1>1, <1>2, <2>1 DEF TlsInv, TlsTyped, Tls!NoJson
  <2>3. caPem = [key |-> at.key, permits |-> Tls!Permitted] /\ caKey = at.key /\ at.key # 0
    BY <2>1 DEF TlsInv, CaInv, Making
  <2>4. caPem.key = at.key /\ caPem.permits = Tls!Permitted /\ caPem # Tls!NoPem
    BY <2>3 DEF Tls!NoPem
  <2>5. Tls!Permitted # Tls!NoJson
    BY <1>2 DEF Tls!NoJson
  <2>6. CaInv'
    BY <1>1, <2>1, <2>3, <2>4, <2>5 DEF CaInv, Making, Tls!NoPem, Tls!NoJson
  <2>7. SrvInv'
    BY <1>1, <2>1 DEF TlsInv, SrvInv, Told, Tls!ServedGood, Tls!At
  <2>8. QED
    BY <2>2, <2>6, <2>7 DEF TlsInv
<1>6. CASE Tls!Unlink
  <2>1. /\ at.step = "old" /\ at'.step = "names" /\ srvKey' = 0 /\ srvPem' = Tls!NoSrv /\ srvJson' = Tls!NoSrv
        /\ UNCHANGED <<caKey, caPem, caJson>>
    BY <1>6, AtIs DEF TlsInv, Tls!Unlink, Tls!At, Tls!Ca
  <2>2. TlsTyped'
    BY <1>1, <2>1 DEF TlsInv, TlsTyped, Tls!NoJson
  <2>3. CaInv'
    BY <1>1, <2>1 DEF TlsInv, CaInv, Making, Tls!NoPem, Tls!NoJson
  <2>4. SrvInv'
    BY <1>1, <2>1 DEF SrvInv, Told, Tls!ServedGood, Tls!At, Tls!NoSrv
  <2>5. QED
    BY <2>2, <2>3, <2>4 DEF TlsInv
<1>7. QED
  BY <1>3, <1>4, <1>5, <1>6

\* What the authority vouches for is what it permits.
LEMMA VouchedIs ==
  ASSUME TlsInv, at.step \in {"names", "key", "pem", "json"}
  PROVE  /\ caKey = caPem.key /\ caPem # Tls!NoPem
         /\ Tls!Vouched = (Base \cup hostNames \cup at.extra) \cap caPem.permits
BY DEF TlsInv, CaInv, Tls!Vouched

LEMMA NamesStep ==
  ASSUME TlsBounds, TlsInv, Tls!Names
  PROVE  TlsInv'
<1>1. /\ at.step = "names" /\ UNCHANGED <<caKey, caPem, caJson, srvKey, srvPem, srvJson, hostNames, clock>>
      /\ at'.extra = at.extra
      /\ at' = [step |-> at'.step, extra |-> at'.extra, key |-> at'.key]
  <2>1. made + 1 \in Nat
    BY DEF TlsInv, TlsTyped
  <2>2. QED
    BY <2>1, AtIs DEF TlsInv, Tls!Names, Tls!At, Tls!Ca, Tls!Srv
<1>2. CASE made' = made /\ at'.key = at.key /\ at'.step = "refused"
  <2>1. TlsTyped'
    BY <1>1, <1>2 DEF TlsInv, TlsTyped, Tls!NoJson
  <2>2. CaInv'
    BY <1>1, <1>2 DEF TlsInv, CaInv, Making, Tls!NoPem, Tls!NoJson
  <2>3. SrvInv'
    BY <1>1, <1>2 DEF TlsInv, SrvInv, Told, Tls!ServedGood, Tls!At
  <2>4. QED
    BY <2>1, <2>2, <2>3 DEF TlsInv
<1>3. CASE made' = made /\ at'.key = at.key /\ at'.step = "served" /\ Tls!Usable
  <2>1. TlsTyped'
    BY <1>1, <1>3 DEF TlsInv, TlsTyped, Tls!NoJson
  <2>2. CaInv'
    BY <1>1, <1>3 DEF TlsInv, CaInv, Making, Tls!NoPem, Tls!NoJson
  <2>3. srvPem.key = srvKey /\ srvJson = Told
    BY <1>1 DEF TlsInv, SrvInv
  <2>4. srvJson.names = srvPem.names /\ srvJson.ca = srvPem.ca /\ srvJson.ends = srvPem.ends
    BY <2>3 DEF Told
  <2>5. Tls!ServedGood'
    BY <1>1, <1>3, <2>3, <2>4, VouchedIs DEF Tls!Usable, Tls!ServedGood
  <2>6. SrvInv'
    BY <1>1, <1>3, <2>3, <2>5 DEF SrvInv, Told
  <2>7. QED
    BY <2>1, <2>2, <2>6 DEF TlsInv
<1>4. CASE made' = made + 1 /\ at'.key = made + 1 /\ at'.step = "key"
  <2>1. TlsTyped'
    BY <1>1, <1>4 DEF TlsInv, TlsTyped, Tls!NoJson
  <2>2. CaInv'
    BY <1>1, <1>4 DEF TlsInv, CaInv, Making, Tls!NoPem, Tls!NoJson
  <2>3. SrvInv'
    BY <1>1, <1>4 DEF TlsInv, SrvInv, Told, Tls!ServedGood, Tls!At
  <2>4. QED
    BY <2>1, <2>2, <2>3 DEF TlsInv
<1>5. QED
  <2>1. made + 1 \in Nat
    BY DEF TlsInv, TlsTyped
  <2>2. TlsTyped
    BY DEF TlsInv
  <2>3. CASE ~(at.extra \subseteq caJson)
    BY <1>2, <2>2, <2>3, AtIs DEF Tls!Names
  <2>4. CASE at.extra \subseteq caJson /\ Tls!Usable
    BY <1>3, <2>2, <2>4, AtIs DEF Tls!Names
  <2>5. CASE at.extra \subseteq caJson /\ ~Tls!Usable
    BY <1>4, <2>1, <2>2, <2>5, AtIs DEF Tls!Names
  <2>6. QED
    BY <2>3, <2>4, <2>5

LEMMA IssueStep ==
  ASSUME TlsBounds, TlsInv, Tls!IssueKey \/ Tls!IssuePem \/ Tls!IssueJson
  PROVE  TlsInv'
<1>1. /\ made' = made /\ clock' = clock /\ hostNames' = hostNames
      /\ at'.extra = at.extra /\ at'.key = at.key
      /\ at' = [step |-> at'.step, extra |-> at'.extra, key |-> at'.key]
      /\ UNCHANGED <<caKey, caPem, caJson>> /\ at.step \in {"key", "pem", "json"}
  BY AtIs DEF TlsInv, Tls!IssueKey, Tls!IssuePem, Tls!IssueJson, Tls!Ca, Tls!At
<1>2. Tls!New' = Tls!New
  BY <1>1 DEF Tls!New, Tls!Vouched
<1>3. /\ at'.step \in {"pem", "json", "served"}
      /\ srvKey' \in {srvKey, at.key}
  BY AtIs DEF TlsInv, Tls!IssueKey, Tls!IssuePem, Tls!IssueJson
<1>4. TlsTyped'
  BY <1>1, <1>3 DEF TlsInv, TlsTyped, Tls!NoJson
<1>5. CaInv'
  BY <1>1, <1>3 DEF TlsInv, CaInv, Making, Tls!NoPem, Tls!NoJson
<1>6. CASE Tls!IssueKey
  <2>1. at'.step = "pem" /\ srvKey' = at.key
    BY <1>6, AtIs DEF TlsInv, Tls!IssueKey
  <2>2. SrvInv'
    BY <1>1, <2>1 DEF SrvInv, Tls!ServedGood, Tls!At
  <2>3. QED
    BY <1>4, <1>5, <2>2 DEF TlsInv
<1>7. CASE Tls!IssuePem
  <2>1. at.step = "pem" /\ at'.step = "json" /\ srvKey' = srvKey /\ srvPem' = Tls!New
    BY <1>7, AtIs DEF TlsInv, Tls!IssuePem, Tls!At
  <2>2. SrvInv'
    BY <1>1, <1>2, <2>1 DEF TlsInv, SrvInv, Tls!ServedGood, Tls!At
  <2>3. QED
    BY <1>4, <1>5, <2>2 DEF TlsInv
<1>8. CASE Tls!IssueJson
  <2>1. /\ at.step = "json" /\ at'.step = "served" /\ srvKey' = srvKey /\ srvPem' = srvPem
        /\ srvJson' = [Tls!New EXCEPT !.key = 0]
    BY <1>8, AtIs DEF TlsInv, Tls!IssueJson, Tls!At
  <2>2. srvPem = Tls!New /\ srvKey = at.key
    BY <2>1 DEF TlsInv, SrvInv
  <2>3. /\ srvPem.key = at.key /\ srvPem.ca = caPem.key /\ srvPem.names = Tls!Vouched /\ srvPem.ends = clock + LIFE
    BY <2>2 DEF Tls!New
  <2>4. srvJson' = Told'
    BY <2>1, <2>3 DEF Tls!New, Told
  <2>5. srvPem.ends - clock >= RENEW
    BY <2>3 DEF TlsBounds, TlsInv, TlsTyped
  <2>6. Tls!ServedGood'
    BY <1>1, <2>1, <2>2, <2>3, <2>5, VouchedIs DEF Tls!ServedGood
  <2>7. SrvInv'
    BY <2>1, <2>2, <2>3, <2>4, <2>6 DEF SrvInv
  <2>8. QED
    BY <1>4, <1>5, <2>7 DEF TlsInv
<1>9. QED
  BY <1>6, <1>7, <1>8

\* momo ends between two files only where they agree.
LEMMA RestStep ==
  ASSUME TlsBounds, TlsInv,
         \/ Tls!Quit \/ Tls!DeleteCa \/ Tls!Tick
         \/ \E now \in SUBSET Machine : Tls!Moves(now \cup {"host"})
  PROVE  TlsInv'
<1>1. /\ made' = made /\ clock' \in Nat /\ hostNames' \subseteq Machine
      /\ UNCHANGED <<srvKey, srvPem, srvJson, caJson>>
      /\ at.step \notin {"ca_json", "pem", "json"} /\ at'.step = "none"
      /\ at' = [step |-> at'.step, extra |-> at'.extra, key |-> at'.key]
      /\ at'.extra \subseteq Given /\ at'.key \in 0..made
      /\ (caKey' = caKey /\ caPem' = caPem) \/ (caKey' = 0 /\ caPem' = Tls!NoPem)
  BY DEF TlsBounds, TlsInv, TlsTyped, Tls!Quit, Tls!DeleteCa, Tls!Tick, Tls!Moves, Tls!Ca, Tls!Srv, Tls!At, Tls!Resting
<1>2. TlsTyped'
  BY <1>1 DEF TlsInv, TlsTyped, Tls!NoJson, Tls!NoPem
<1>3. CaInv'
  BY <1>1 DEF TlsInv, CaInv, Making, Tls!NoPem, Tls!NoJson
<1>4. SrvInv'
  BY <1>1 DEF TlsInv, SrvInv, Told, Tls!ServedGood, Tls!At
<1>5. QED
  BY <1>2, <1>3, <1>4 DEF TlsInv

LEMMA TlsStep ==
  ASSUME TlsBounds, TlsInv, [Tls!Next]_Tls!tlsVars
  PROVE  TlsInv'
<1>1. CASE UNCHANGED Tls!tlsVars
  <2>1. TlsTyped'
    BY <1>1 DEF TlsInv, TlsTyped, Tls!tlsVars, Tls!NoJson
  <2>2. CaInv'
    BY <1>1 DEF TlsInv, CaInv, Making, Tls!tlsVars, Tls!NoPem, Tls!NoJson, Tls!Permitted
  <2>3. SrvInv'
    BY <1>1 DEF TlsInv, SrvInv, Told, Tls!tlsVars, Tls!ServedGood, Tls!At, Tls!New, Tls!Vouched
  <2>4. QED
    BY <2>1, <2>2, <2>3 DEF TlsInv
<1>2. QED
  BY <1>1, EnsureStep, AuthorityStep, NamesStep, IssueStep, RestStep DEF Tls!Next

LEMMA TlsInit ==
  ASSUME TlsBounds, Tls!Init
  PROVE  TlsInv
<1>1. /\ caKey = 0 /\ caPem = [key |-> 0, permits |-> {}] /\ caJson = Tls!NoJson /\ srvKey = 0
      /\ srvPem = [key |-> 0, ca |-> 0, names |-> {}, ends |-> 0]
      /\ srvJson = [key |-> 0, ca |-> 0, names |-> {}, ends |-> 0]
      /\ hostNames = {"host"} /\ at = [step |-> "none", extra |-> {}, key |-> 0] /\ clock = 0 /\ made = 0
  BY DEF Tls!Init, Tls!NoPem, Tls!NoSrv, Tls!Resting
<1>2. TlsTyped
  BY <1>1 DEF TlsBounds, TlsTyped
<1>3. CaInv
  BY <1>1 DEF CaInv, Making, Tls!NoPem
<1>4. SrvInv
  BY <1>1 DEF SrvInv, Told, Tls!ServedGood, Tls!At
<1>5. QED
  BY <1>2, <1>3, <1>4 DEF TlsInv

\* What a start serves is signed by the authority that is there, for the names of this
\* machine that it may vouch for, with its own key and for RENEW more, whatever was
\* deleted before and wherever momo ended, where that is not between a certificate and
\* its .json or its key (web/tls.py, ensure).
THEOREM ServesGood ==
  ASSUME TlsBounds
  PROVE  Tls!Spec => []Tls!ServedGood
<1>1. Tls!Init => TlsInv
  BY TlsInit
<1>2. TlsInv /\ [Tls!Next]_Tls!tlsVars => TlsInv'
  BY TlsStep
<1>3. TlsInv => Tls!ServedGood
  BY DEF TlsInv, SrvInv
<1>4. QED
  BY <1>1, <1>2, <1>3, PTL DEF Tls!Spec

\* Every key is one of those that were made, and the names are names.
THEOREM TlsTyping ==
  ASSUME TlsBounds
  PROVE  Tls!Spec => []Tls!TypeOK
<1>1. Tls!Init => TlsInv
  BY TlsInit
<1>2. TlsInv /\ [Tls!Next]_Tls!tlsVars => TlsInv'
  BY TlsStep
<1>3. TlsInv => Tls!TypeOK
  BY DEF TlsInv, TlsTyped, Tls!TypeOK
<1>4. QED
  BY <1>1, <1>2, <1>3, PTL DEF Tls!Spec

\* An authority that a device may trust is replaced only once a file of it is gone
\* (web/tls.py, _ensure_ca).
THEOREM TrustStays ==
  ASSUME TlsBounds
  PROVE  Tls!Spec => Tls!TrustKept
<1>1. Tls!Init => TlsInv
  BY TlsInit
<1>2. TlsInv /\ [Tls!Next]_Tls!tlsVars => TlsInv'
  BY TlsStep
<1>3. TlsInv /\ [Tls!Next]_Tls!tlsVars => Tls!TrustKeptStep
  BY DEF TlsInv, CaInv, Tls!Next, Tls!tlsVars, Tls!Ca, Tls!Srv, Tls!At, Tls!TrustKeptStep, Tls!Ensure, Tls!CaKey, Tls!CaPem,
         Tls!CaJson, Tls!Unlink, Tls!Names, Tls!IssueKey, Tls!IssuePem, Tls!IssueJson, Tls!Quit, Tls!DeleteCa, Tls!Tick, Tls!Moves
<1>4. QED
  BY <1>1, <1>2, <1>3, PTL DEF Tls!Spec, Tls!TrustKept

CONSTANTS Folders, MaxTurns, MaxStamps
VARIABLES up, stamp, said, folder, sending, recap, lines, sessionFile, prefs, sent, stamps, ended, cleared, dropped

Ses == INSTANCE Sessions WITH file <- sessionFile

-----------------------------------------------------------------------------
(***************************************************************************)
(* Sessions.  A turn is in one session at most, the open one or a file's;  *)
(* what a file holds beyond the open conversation of its session was       *)
(* dropped, or has not ended.                                              *)
(***************************************************************************)
Talk(s) == Ses!Range(sessionFile[s].said)
Tells(s) == sessionFile[s].lines
Open == Ses!Range(said)
Due == IF recap.away THEN recap.of ELSE {}

SesBounds == MaxStamps \in Nat /\ "none" \notin Folders /\ Folders # {}

FileOK(r) ==
  /\ r = [said |-> r.said, folder |-> r.folder, lines |-> r.lines]
  /\ r.said \in Seq(Nat) /\ r.folder \in Folders \cup {"none"}
  /\ r.said # <<>> => r.folder \in Folders

FilesTyped ==
  /\ sessionFile = [s \in Ses!Stamps |-> sessionFile[s]]
  /\ \A s \in Ses!Stamps : FileOK(sessionFile[s])
  /\ \A s \in Ses!Stamps : s > stamps => Talk(s) = {} /\ Tells(s) = {}

OpenTyped ==
  /\ up \in BOOLEAN /\ sending \in BOOLEAN /\ (sending => up)
  /\ stamps \in 0..MaxStamps /\ stamp \in 0..stamps /\ (up => stamp # 0)
  /\ said \in Seq(Nat) /\ sent \in Nat
  /\ up => folder \in Folders
  /\ ~up => folder = "none" /\ Open = {} /\ lines = {} /\ Due = {}
  /\ recap = [of |-> recap.of, away |-> recap.away, on |-> recap.on] /\ recap.away \in BOOLEAN

PrefsTyped ==
  /\ prefs = [last |-> prefs.last, folder |-> prefs.folder, per |-> prefs.per]
  /\ prefs.last \in 0..stamps /\ prefs.folder \in Folders \cup {"none"} /\ prefs.per \in [Folders -> 0..stamps]
  /\ Ses!OpenIsRemembered

\* Turns are numbered as they are sent.
Numbered ==
  /\ Open \cup lines \cup Due \cup ended \cup cleared \cup dropped \subseteq 1..sent
  /\ \A s \in Ses!Stamps : Talk(s) \cup Tells(s) \subseteq 1..sent

OneSession ==
  /\ \A s, t \in Ses!Stamps : s # t => (Talk(s) \cup Tells(s)) \cap (Talk(t) \cup Tells(t)) = {}
  /\ \A s \in Ses!Stamps : s # stamp => (Open \cup lines \cup Due) \cap (Talk(s) \cup Tells(s)) = {}
  /\ cleared \cap (Open \cup lines \cup Due) = {}
  /\ \A s \in Ses!Stamps : cleared \cap (Talk(s) \cup Tells(s)) = {}

ToldOf ==
  /\ lines \cup Due \subseteq Open \cup dropped
  /\ \A s \in Ses!Stamps : Tells(s) \subseteq Talk(s) \cup dropped

\* Every turn that ended is in a file, and the file of the open session holds no
\* other that counts.
OnDisk ==
  /\ \A t \in ended \ (cleared \cup dropped) : \E s \in Ses!Stamps : t \in Talk(s)
  /\ up => \A t \in ended \ dropped : t \in Talk(stamp) => t \in Open

SesInv == OpenTyped /\ FilesTyped /\ PrefsTyped /\ Numbered /\ OneSession /\ ToldOf /\ OnDisk

(* Sequences of turns as sets. *)
LEMMA RangeEmpty ==
  ASSUME NEW q \in Seq(Nat)
  PROVE  Ses!Range(q) = {} <=> q = <<>>
<1>1. CASE q = <<>>
  BY <1>1 DEF Ses!Range
<1>2. CASE q # <<>>
  <2>1. 1 \in DOMAIN q
    BY <1>2
  <2>2. QED
    BY <1>2, <2>1 DEF Ses!Range
<1>3. QED
  BY <1>1, <1>2

LEMMA NoTurns == <<>> \in Seq(Nat) /\ Ses!Range(<<>>) = {}
<1>1. <<>> \in Seq(Nat)
  OBVIOUS
<1>2. QED
  BY <1>1, RangeEmpty

LEMMA RangeAppend ==
  ASSUME NEW q \in Seq(Nat), NEW e \in Nat
  PROVE  Append(q, e) \in Seq(Nat) /\ Ses!Range(Append(q, e)) = Ses!Range(q) \cup {e}
<1>1. /\ Append(q, e) \in Seq(Nat) /\ Len(Append(q, e)) = Len(q) + 1
      /\ \A i \in 1..Len(q) : Append(q, e)[i] = q[i]
      /\ Append(q, e)[Len(q) + 1] = e
  OBVIOUS
<1>2. DOMAIN q = 1..Len(q) /\ DOMAIN Append(q, e) = 1..(Len(q) + 1) /\ Len(q) \in Nat
  OBVIOUS
<1>3. ASSUME NEW x \in Ses!Range(Append(q, e)) PROVE x \in Ses!Range(q) \cup {e}
  <2>1. PICK i \in 1..(Len(q) + 1) : x = Append(q, e)[i]
    BY <1>2, <1>3 DEF Ses!Range
  <2>2. QED
    BY <1>1, <1>2, <2>1 DEF Ses!Range
<1>4. ASSUME NEW x \in Ses!Range(q) \cup {e} PROVE x \in Ses!Range(Append(q, e))
  BY <1>1, <1>2, <1>4 DEF Ses!Range
<1>5. QED
  BY <1>1, <1>3, <1>4

LEMMA RangeFront ==
  ASSUME NEW q \in Seq(Nat), q # <<>>
  PROVE  /\ Ses!Front(q) \in Seq(Nat) /\ Ses!Last(q) \in Nat
         /\ Ses!Range(q) = Ses!Range(Ses!Front(q)) \cup {Ses!Last(q)}
<1>1. PICK f, m : f = SubSeq(q, 1, m) /\ m = Len(q) - 1
  OBVIOUS
<1>2. /\ f \in Seq(Nat) /\ Len(f) = Len(q) - 1 /\ Len(q) \in Nat \ {0} /\ DOMAIN q = 1..Len(q)
      /\ DOMAIN f = 1..(Len(q) - 1) /\ \A i \in 1..(Len(q) - 1) : f[i] = q[i]
  <2>1. Len(q) \in Nat \ {0} /\ DOMAIN q = 1..Len(q) /\ m \in Nat
    BY <1>1
  <2>2. \A i \in 1..m : q[i] \in Nat
    BY <1>1, <2>1
  <2>3. f = [i \in 1..m |-> q[i]]
    BY <1>1, <2>1
  <2>4. f \in Seq(Nat) /\ Len(f) = m /\ DOMAIN f = 1..m
    BY <2>1, <2>2, <2>3
  <2>5. QED
    BY <1>1, <2>1, <2>3, <2>4
<1>3. q[Len(q)] \in Nat
  BY <1>2
<1>4. ASSUME NEW x \in Ses!Range(q) PROVE x \in Ses!Range(f) \cup {q[Len(q)]}
  <2>1. PICK i \in 1..Len(q) : x = q[i]
    BY <1>2, <1>4 DEF Ses!Range
  <2>2. i = Len(q) \/ i \in 1..(Len(q) - 1)
    BY <1>2
  <2>3. QED
    BY <1>2, <2>1, <2>2 DEF Ses!Range
<1>5. ASSUME NEW x \in Ses!Range(f) \cup {q[Len(q)]} PROVE x \in Ses!Range(q)
  <2>1. Len(q) \in DOMAIN q /\ \A i \in DOMAIN f : i \in DOMAIN q /\ f[i] = q[i]
    BY <1>2
  <2>2. CASE x = q[Len(q)]
    BY <2>1, <2>2 DEF Ses!Range
  <2>3. CASE x \in Ses!Range(f)
    BY <2>1, <2>3 DEF Ses!Range
  <2>4. QED
    BY <1>5, <2>2, <2>3
<1>6. QED
  BY <1>1, <1>2, <1>3, <1>4, <1>5 DEF Ses!Front, Ses!Last

\* The file of the open session, while the session is.
LEMMA OpenFile ==
  ASSUME NEW z, stamp' = z
  PROVE  Talk(stamp)' = Talk(z)'
BY DEF Talk

\* The files after that of session x holds T and tells L.
Filed(x, T, L) ==
  \A s \in Ses!Stamps : /\ Talk(s)' = IF s = x THEN T ELSE Talk(s)
                        /\ Tells(s)' = IF s = x THEN L ELSE Tells(s)

LEMMA PutFile ==
  ASSUME OpenTyped, FilesTyped, NEW x \in Ses!Stamps, x <= stamps', stamps <= stamps', stamps' \in Nat, NEW r, FileOK(r),
         sessionFile' = [sessionFile EXCEPT ![x] = r]
  PROVE  FilesTyped' /\ Filed(x, Ses!Range(r.said), r.lines)
<1>1. /\ sessionFile' = [s \in Ses!Stamps |-> sessionFile'[s]]
      /\ \A s \in Ses!Stamps : sessionFile'[s] = IF s = x THEN r ELSE sessionFile[s]
  BY DEF FilesTyped
<1>2. Filed(x, Ses!Range(r.said), r.lines)
  BY <1>1 DEF Filed, Talk, Tells
<1>3. \A s \in Ses!Stamps : FileOK(sessionFile'[s])
  BY <1>1 DEF FilesTyped
<1>4. \A s \in Ses!Stamps : s > stamps' => s > stamps /\ s # x
  BY DEF Ses!Stamps, OpenTyped
<1>5. \A s \in Ses!Stamps : s > stamps' => Talk(s)' = {} /\ Tells(s)' = {}
  BY <1>2, <1>4 DEF FilesTyped, Filed
<1>6. QED
  BY <1>1, <1>2, <1>3, <1>5 DEF FilesTyped, FileOK

LEMMA SameFiles ==
  ASSUME OpenTyped, FilesTyped, stamps <= stamps', stamps' \in Nat, sessionFile' = sessionFile
  PROVE  FilesTyped' /\ \A x \in Ses!Stamps : Filed(x, Talk(x), Tells(x))
<1>1. \A s \in Ses!Stamps : Talk(s)' = Talk(s) /\ Tells(s)' = Tells(s)
  BY DEF Talk, Tells
<1>2. \A s \in Ses!Stamps : s > stamps' => s > stamps
  BY DEF OpenTyped, Ses!Stamps
<1>3. FilesTyped'
  BY <1>1, <1>2 DEF FilesTyped, FileOK
<1>4. QED
  BY <1>1, <1>3 DEF Filed

LEMMA StampIs ==
  ASSUME SesBounds, OpenTyped
  PROVE  /\ Ses!Stamps = 1..MaxStamps /\ stamps \in Nat /\ stamps <= MaxStamps
         /\ up => stamp \in Ses!Stamps /\ stamp <= stamps
BY DEF SesBounds, OpenTyped, Ses!Stamps

LEMMA Saves ==
  ASSUME SesBounds, OpenTyped, FilesTyped, up, NEW q \in Seq(Nat), NEW l, stamps <= stamps', stamps' \in Nat,
         Ses!Autosave(q, l)
  PROVE  /\ FilesTyped'
         /\ Filed(stamp, IF Ses!Range(q) = {} THEN Talk(stamp) ELSE Ses!Range(q),
                         IF Ses!Range(q) = {} THEN Tells(stamp) ELSE l)
<1>1. stamp \in Ses!Stamps /\ stamp <= stamps' /\ folder \in Folders
  BY StampIs DEF OpenTyped
<1>2. CASE q = <<>>
  <2>1. sessionFile' = sessionFile /\ Ses!Range(q) = {}
    BY <1>2, RangeEmpty DEF Ses!Autosave
  <2>2. QED
    BY <1>1, <2>1, SameFiles
<1>3. CASE q # <<>>
  <2>1. PICK r : r = [said |-> q, folder |-> folder, lines |-> l]
    OBVIOUS
  <2>2. r.said = q /\ r.folder = folder /\ r.lines = l
    BY <2>1
  <2>3. FileOK(r)
    BY <1>1, <2>1, <2>2 DEF FileOK
  <2>4. sessionFile' = [sessionFile EXCEPT ![stamp] = r] /\ Ses!Range(q) # {}
    BY <1>3, <2>1, RangeEmpty DEF Ses!Autosave
  <2>5. FilesTyped' /\ Filed(stamp, Ses!Range(r.said), r.lines)
    BY <1>1, <2>3, <2>4, PutFile
  <2>6. QED
    BY <2>2, <2>4, <2>5
<1>4. QED
  BY <1>2, <1>3

\* The session in use is remembered, and the last of one folder only.
LEMMA Marks ==
  ASSUME PrefsTyped, stamp' \in 0..stamps', stamp' # 0, folder' \in Folders, stamps \in Nat, stamps' \in Nat, stamps <= stamps',
         Ses!MarkCurrent(stamp', folder')
  PROVE  PrefsTyped'
<1>1. PICK p : p = [g \in Folders |-> IF g = folder' THEN stamp' ELSE IF prefs.per[g] = stamp' THEN 0 ELSE prefs.per[g]]
  OBVIOUS
<1>2. prefs' = [last |-> stamp', folder |-> folder', per |-> p]
  BY <1>1 DEF Ses!MarkCurrent
<1>3. prefs'.last = stamp' /\ prefs'.folder = folder' /\ prefs'.per = p
  BY <1>2
<1>4. \A g \in Folders : prefs.per[g] \in 0..stamps'
  BY DEF PrefsTyped
<1>5. p \in [Folders -> 0..stamps']
  BY <1>1, <1>4
<1>6. p[folder'] = stamp' /\ \A f, g \in Folders : p[f] = p[g] /\ p[f] # 0 => f = g
  BY <1>1 DEF PrefsTyped, Ses!OpenIsRemembered
<1>7. QED
  BY <1>2, <1>3, <1>5, <1>6 DEF PrefsTyped, Ses!OpenIsRemembered

LEMMA SamePrefs ==
  ASSUME PrefsTyped, prefs' = prefs, stamps' = stamps, (up' => up /\ stamp' = stamp /\ folder' = folder)
  PROVE  PrefsTyped'
BY DEF PrefsTyped, Ses!OpenIsRemembered

\* An action of the user's: a recap that comes back later is thrown away.
LEMMA ActiveIs ==
  ASSUME OpenTyped, Ses!Active
  PROVE  /\ Due' = {} /\ recap'.away = FALSE
         /\ recap' = [of |-> recap'.of, away |-> recap'.away, on |-> recap'.on]
<1>1. PICK a, b, c : recap = [of |-> a, away |-> b, on |-> c]
  BY DEF OpenTyped
<1>2. recap' = [of |-> a, away |-> FALSE, on |-> c]
  BY <1>1 DEF Ses!Active
<1>3. QED
  BY <1>2 DEF Due

LEMMA BeginStep ==
  ASSUME SesBounds, SesInv, Ses!Begin \/ Ses!Retry
  PROVE  SesInv'
<1>1. OpenTyped /\ FilesTyped /\ up /\ sent + 1 \in Nat /\ sent' = sent + 1 /\ stamps' = stamps /\ stamps \in Nat
      /\ up' = up /\ sending' = TRUE /\ stamp' = stamp /\ folder' = folder /\ lines' = lines /\ prefs' = prefs
      /\ ended' = ended /\ cleared' = cleared /\ stamp \in Ses!Stamps
  BY StampIs DEF SesInv, OpenTyped, Ses!Begin, Ses!Retry, Ses!Idle
<1>2. PrefsTyped'
  BY <1>1, SamePrefs DEF SesInv
<1>3. CASE Ses!Begin
  <2>1. said' = Append(said, sent + 1) /\ dropped' = dropped /\ sessionFile' = sessionFile /\ Ses!Active
    BY <1>3 DEF Ses!Begin
  <2>2. said' \in Seq(Nat) /\ Open' = Open \cup {sent + 1}
    BY <1>1, <2>1, RangeAppend DEF OpenTyped, Open
  <2>3. FilesTyped' /\ Filed(stamp, Talk(stamp), Tells(stamp))
    BY <1>1, <2>1, SameFiles
  <2>4. Due' = {} /\ recap' = [of |-> recap'.of, away |-> recap'.away, on |-> recap'.on] /\ recap'.away = FALSE
    BY <1>1, <2>1, ActiveIs
  <2>5. OpenTyped'
    BY <1>1, <2>2, <2>4 DEF OpenTyped
  <2>6. \A n \in 1..sent : n \in 1..sent' /\ n # sent + 1
    BY <1>1 DEF OpenTyped
  <2>7. sent + 1 \in 1..sent'
    BY <1>1 DEF OpenTyped
  <2>8. \A s \in Ses!Stamps : Talk(s)' = Talk(s) /\ Tells(s)' = Tells(s)
    BY <2>3 DEF Filed
  <2>9. Numbered'
    BY <1>1, <2>1, <2>2, <2>4, <2>6, <2>7, <2>8 DEF SesInv, Numbered
  <2>10. OneSession'
    BY <1>1, <2>1, <2>2, <2>4, <2>6, <2>8 DEF SesInv, Numbered, OneSession
  <2>11. ToldOf'
    BY <1>1, <2>1, <2>2, <2>4, <2>8 DEF SesInv, ToldOf
  <2>12. OnDisk'
    BY <1>1, <2>1, <2>2, <2>8 DEF SesInv, OnDisk
  <2>13. QED
    BY <1>2, <2>3, <2>5, <2>9, <2>10, <2>11, <2>12 DEF SesInv
<1>4. CASE Ses!Retry
  <2>1. PICK q, e : q = Ses!Front(said) /\ e = Ses!Last(said)
    OBVIOUS
  <2>2. /\ said # <<>> /\ dropped' = dropped \cup {e} /\ Ses!Autosave(q, lines)
        /\ said' = Append(q, sent + 1) /\ recap' = recap
    BY <1>4, <2>1 DEF Ses!Retry
  <2>3. q \in Seq(Nat) /\ Open = Ses!Range(q) \cup {e}
    BY <1>1, <2>1, <2>2, RangeFront DEF OpenTyped, Open
  <2>4. said' \in Seq(Nat) /\ Open' = Ses!Range(q) \cup {sent + 1}
    BY <1>1, <2>2, <2>3, RangeAppend DEF Open
  <2>5. PICK T, L : /\ T = (IF Ses!Range(q) = {} THEN Talk(stamp) ELSE Ses!Range(q))
                    /\ L = (IF Ses!Range(q) = {} THEN Tells(stamp) ELSE lines)
    OBVIOUS
  <2>6. FilesTyped' /\ Filed(stamp, T, L)
    BY <1>1, <2>2, <2>3, <2>5, Saves
  <2>7. Due' = Due
    BY <2>2 DEF Due
  <2>8. OpenTyped'
    BY <1>1, <2>2, <2>4, <2>7 DEF OpenTyped
  <2>9. \A n \in 1..sent : n \in 1..sent' /\ n # sent + 1
    BY <1>1 DEF OpenTyped
  <2>10. sent + 1 \in 1..sent'
    BY <1>1 DEF OpenTyped
  <2>11. \A s \in Ses!Stamps : /\ Talk(s)' = IF s = stamp THEN T ELSE Talk(s)
                               /\ Tells(s)' = IF s = stamp THEN L ELSE Tells(s)
    BY <2>6 DEF Filed
  <2>12. T \subseteq Open \cup Talk(stamp) /\ L \subseteq lines \cup Tells(stamp)
    BY <2>3, <2>5
  <2>13. Numbered'
    <3>1. Open \cup lines \cup Due \cup ended \cup cleared \cup dropped \subseteq 1..sent'
      BY <2>9 DEF SesInv, Numbered
    <3>2. \A s \in Ses!Stamps : Talk(s) \cup Tells(s) \subseteq 1..sent'
      BY <2>9 DEF SesInv, Numbered
    <3>3. Open' \cup lines' \cup Due' \cup ended' \cup cleared' \cup dropped' \subseteq 1..sent'
      BY <1>1, <2>2, <2>3, <2>4, <2>7, <2>10, <3>1
    <3>4. T \cup L \subseteq 1..sent'
      BY <1>1, <2>12, <3>1, <3>2
    <3>5. \A s \in Ses!Stamps : Talk(s)' \cup Tells(s)' \subseteq 1..sent'
      BY <2>11, <3>2, <3>4
    <3>6. QED
      BY <3>3, <3>5 DEF Numbered
  <2>14. OneSession'
    <3>1. /\ \A s \in Ses!Stamps : sent + 1 \notin Talk(s) \cup Tells(s)
          /\ sent + 1 \notin cleared
      BY <2>9 DEF SesInv, Numbered
    <3>2. T \cup L \subseteq Open \cup lines \cup Talk(stamp) \cup Tells(stamp)
      BY <2>12
    <3>3. Open' \cup lines' \cup Due' \subseteq Open \cup lines \cup Due \cup {sent + 1}
      BY <1>1, <2>3, <2>4, <2>7
    <3>4. \A s \in Ses!Stamps : s # stamp => (T \cup L) \cap (Talk(s) \cup Tells(s)) = {}
      BY <1>1, <3>2 DEF SesInv, OneSession
    <3>5. \A s, t \in Ses!Stamps : s # t => (Talk(s)' \cup Tells(s)') \cap (Talk(t)' \cup Tells(t)') = {}
      BY <2>11, <3>4 DEF SesInv, OneSession
    <3>6. \A s \in Ses!Stamps : s # stamp => (Open' \cup lines' \cup Due') \cap (Talk(s)' \cup Tells(s)') = {}
      BY <2>11, <3>1, <3>3 DEF SesInv, OneSession
    <3>7. cleared \cap (Open' \cup lines' \cup Due') = {} /\ cleared \cap (T \cup L) = {}
      BY <1>1, <3>1, <3>2, <3>3 DEF SesInv, OneSession
    <3>8. \A s \in Ses!Stamps : cleared \cap (Talk(s)' \cup Tells(s)') = {}
      BY <2>11, <3>7 DEF SesInv, OneSession
    <3>9. QED
      BY <1>1, <3>5, <3>6, <3>7, <3>8 DEF OneSession
  <2>15. ToldOf'
    <3>1. L \subseteq T \cup dropped'
      BY <1>1, <2>2, <2>3, <2>5 DEF SesInv, ToldOf
    <3>2. QED
      BY <1>1, <2>2, <2>3, <2>4, <2>7, <2>11, <3>1 DEF SesInv, ToldOf
  <2>16. OnDisk'
    <3>1. \A t \in ended \ dropped' : t \in T => t \in Ses!Range(q)
      BY <1>1, <2>2, <2>3, <2>5 DEF SesInv, OnDisk
    <3>2. \A t \in ended \ dropped' : t \in Talk(stamp) => t \in T
      BY <1>1, <2>2, <2>3, <2>5 DEF SesInv, OnDisk
    <3>3. QED
      BY <1>1, <2>2, <2>4, <2>11, <3>1, <3>2 DEF SesInv, OnDisk
  <2>17. QED
    BY <1>2, <2>6, <2>8, <2>13, <2>14, <2>15, <2>16 DEF SesInv
<1>5. QED
  BY <1>3, <1>4

\* The open conversation is written as it is; the session may stay open or not.
LEMMA SavedStep ==
  ASSUME SesBounds, SesInv, up, Ses!Autosave(said, lines'),
         stamps <= stamps', stamps' \in Nat, sent' = sent, dropped' = dropped, cleared' = cleared,
         ended' \in {ended, ended \cup Open},
         lines' \subseteq lines \cup Due, Due' \subseteq Due, OpenTyped', PrefsTyped', up', stamp' = stamp, Open' = Open
  PROVE  SesInv'
<1>1. OpenTyped /\ FilesTyped /\ stamp \in Ses!Stamps /\ said \in Seq(Nat)
  BY StampIs DEF SesInv, OpenTyped
<1>2. PICK T, L, l : /\ T = (IF Open = {} THEN Talk(stamp) ELSE Open)
                     /\ L = (IF Open = {} THEN Tells(stamp) ELSE l)
                     /\ l = lines'
  OBVIOUS
<1>3. FilesTyped' /\ Filed(stamp, T, L)
  BY <1>1, <1>2, Saves DEF Open
<1>4. \A s \in Ses!Stamps : /\ Talk(s)' = IF s = stamp THEN T ELSE Talk(s)
                            /\ Tells(s)' = IF s = stamp THEN L ELSE Tells(s)
  BY <1>3 DEF Filed
<1>5. T \subseteq Open \cup Talk(stamp) /\ L \subseteq lines \cup Due \cup Tells(stamp)
  BY <1>2
<1>6. Numbered'
  BY <1>4, <1>5 DEF SesInv, Numbered
<1>7. OneSession'
  BY <1>1, <1>4, <1>5 DEF SesInv, OneSession
<1>8. ToldOf'
  BY <1>1, <1>2, <1>4 DEF SesInv, ToldOf
<1>9. OnDisk'
  <2>1. \A t \in ended' \ dropped : t \in T => t \in Open
    BY <1>1, <1>2 DEF SesInv, OnDisk
  <2>2. \A t \in ended \ dropped : t \in Talk(stamp) => t \in T
    BY <1>1, <1>2 DEF SesInv, OnDisk
  <2>3. \A t \in Open : t \in T
    BY <1>2
  <2>4. QED
    BY <1>1, <1>4, <2>1, <2>2, <2>3 DEF SesInv, OnDisk
<1>10. QED
  BY <1>3, <1>6, <1>7, <1>8, <1>9 DEF SesInv

LEMMA TurnEndStep ==
  ASSUME SesBounds, SesInv, Ses!End
  PROVE  SesInv'
<1>1. /\ OpenTyped /\ stamps \in Nat /\ up /\ sending' = FALSE /\ ended' = ended \cup Open
      /\ UNCHANGED <<up, stamp, said, folder, recap, lines, prefs, sent, stamps, cleared, dropped>>
      /\ Ses!Autosave(said, lines')
  BY StampIs DEF SesInv, OpenTyped, Open, Ses!End, Ses!Autosave
<1>2. Open' = Open /\ Due' = Due
  BY <1>1 DEF Open, Due
<1>3. OpenTyped' /\ PrefsTyped'
  BY <1>1, <1>2, SamePrefs DEF SesInv, OpenTyped
<1>4. QED
  BY <1>1, <1>2, <1>3, SavedStep

LEMMA EndRecapStep ==
  ASSUME SesBounds, SesInv, NEW tells \in {{}, recap.of}, Ses!EndRecap(tells)
  PROVE  SesInv'
<1>1. /\ OpenTyped /\ FilesTyped /\ stamps \in Nat /\ up /\ recap' = [of |-> {}, away |-> FALSE, on |-> FALSE] /\ ended' = ended
      /\ UNCHANGED <<up, stamp, said, folder, sending, prefs, sent, stamps, cleared, dropped>> /\ stamp \in Ses!Stamps
  BY StampIs DEF SesInv, Ses!EndRecap, Ses!NoRecap
<1>2. Open' = Open /\ Due' = {} /\ recap'.away = FALSE
  BY <1>1 DEF Open, Due
<1>3. recap' = [of |-> recap'.of, away |-> recap'.away, on |-> recap'.on]
  BY <1>1
<1>4. OpenTyped' /\ PrefsTyped'
  BY <1>1, <1>2, <1>3, SamePrefs DEF SesInv, OpenTyped
<1>5. CASE Ses!StillAway
  <2>1. lines' = lines \cup tells /\ Ses!Autosave(said, lines')
    BY <1>5 DEF Ses!EndRecap
  <2>2. lines' \subseteq lines \cup Due
    BY <1>5, <2>1 DEF Ses!StillAway, Due
  <2>3. QED
    BY <1>1, <1>2, <1>4, <2>1, <2>2, SavedStep
<1>6. CASE ~Ses!StillAway
  <2>1. lines' = lines /\ sessionFile' = sessionFile
    BY <1>6 DEF Ses!EndRecap
  <2>2. FilesTyped' /\ \A s \in Ses!Stamps : Talk(s)' = Talk(s) /\ Tells(s)' = Tells(s)
    BY <1>1, <2>1, SameFiles DEF Talk, Tells
  <2>3. QED
    BY <1>1, <1>2, <1>4, <2>1, <2>2 DEF SesInv, Numbered, OneSession, ToldOf, OnDisk
<1>7. QED
  BY <1>5, <1>6

LEMMA BeginRecapStep ==
  ASSUME SesBounds, SesInv, Ses!BeginRecap
  PROVE  SesInv'
<1>1. /\ OpenTyped /\ FilesTyped /\ stamps \in Nat /\ up
      /\ recap' = [of |-> Open \ lines, away |-> TRUE, on |-> TRUE]
      /\ UNCHANGED <<up, stamp, said, folder, sending, lines, sessionFile, prefs, sent, stamps, ended, cleared, dropped>>
  BY StampIs DEF SesInv, Open, Ses!BeginRecap, Ses!Idle
<1>2. Open' = Open /\ Due' \subseteq Open /\ recap'.away = TRUE
  BY <1>1 DEF Open, Due
<1>3. recap' = [of |-> recap'.of, away |-> recap'.away, on |-> recap'.on]
  BY <1>1
<1>4. OpenTyped' /\ PrefsTyped'
  BY <1>1, <1>2, <1>3, SamePrefs DEF SesInv, OpenTyped
<1>5. FilesTyped' /\ \A s \in Ses!Stamps : Talk(s)' = Talk(s) /\ Tells(s)' = Tells(s)
  BY <1>1, SameFiles DEF Talk, Tells
<1>6. Numbered' /\ OneSession'
  <2>1. Open' \cup lines' \cup Due' \subseteq Open \cup lines
    BY <1>1, <1>2
  <2>2. Numbered'
    BY <1>1, <1>5, <2>1 DEF SesInv, Numbered
  <2>3. OneSession'
    BY <1>1, <1>5, <2>1 DEF SesInv, OneSession
  <2>4. QED
    BY <2>2, <2>3
<1>7. ToldOf'
  BY <1>1, <1>2, <1>5 DEF SesInv, ToldOf
<1>8. OnDisk'
  <2>1. Talk(stamp)' = Talk(stamp)
    BY <1>1 DEF Talk
  <2>2. \A t \in ended \ (cleared \cup dropped) : \E s \in Ses!Stamps : t \in Talk(s)'
    BY <1>5 DEF SesInv, OnDisk
  <2>3. QED
    BY <1>1, <1>2, <2>1, <2>2 DEF SesInv, OnDisk
<1>9. QED
  BY <1>4, <1>5, <1>6, <1>7, <1>8 DEF SesInv

\* What the files hold after the open conversation was written, or nothing was.
WellKept ==
  \A s \in Ses!Stamps :
    /\ Talk(s)' \cup Tells(s)' \subseteq Talk(s) \cup Tells(s) \cup (IF s = stamp THEN Open \cup lines ELSE {})
    /\ Tells(s)' \subseteq Talk(s)' \cup dropped
    /\ \A t \in ended \ dropped : t \in Talk(s) => t \in Talk(s)'
    /\ s # stamp => Talk(s)' = Talk(s) /\ Tells(s)' = Tells(s)

LEMMA KeepsWell ==
  ASSUME SesBounds, SesInv, stamps <= stamps', stamps' \in Nat,
         (up /\ Ses!Autosave(said, lines)) \/ sessionFile' = sessionFile
  PROVE  FilesTyped' /\ WellKept
<1>1. OpenTyped /\ FilesTyped /\ said \in Seq(Nat)
  BY DEF SesInv, OpenTyped
<1>2. CASE sessionFile' = sessionFile
  <2>1. FilesTyped' /\ \A s \in Ses!Stamps : Talk(s)' = Talk(s) /\ Tells(s)' = Tells(s)
    BY <1>1, <1>2, SameFiles DEF Talk, Tells
  <2>2. QED
    BY <2>1 DEF WellKept, SesInv, ToldOf
<1>3. CASE up /\ Ses!Autosave(said, lines)
  <2>1. PICK T, L : /\ T = (IF Open = {} THEN Talk(stamp) ELSE Open)
                    /\ L = (IF Open = {} THEN Tells(stamp) ELSE lines)
    OBVIOUS
  <2>2. FilesTyped' /\ Filed(stamp, T, L)
    BY <1>1, <1>3, <2>1, Saves DEF Open
  <2>3. stamp \in Ses!Stamps
    BY <1>1, <1>3, StampIs
  <2>4. T \cup L \subseteq Talk(stamp) \cup Tells(stamp) \cup Open \cup lines
    BY <2>1
  <2>5. L \subseteq T \cup dropped
    BY <2>1, <2>3 DEF SesInv, ToldOf
  <2>6. \A t \in ended \ dropped : t \in Talk(stamp) => t \in T
    BY <1>3, <2>1 DEF SesInv, OnDisk
  <2>7. \A s \in Ses!Stamps : /\ Talk(s)' = IF s = stamp THEN T ELSE Talk(s)
                              /\ Tells(s)' = IF s = stamp THEN L ELSE Tells(s)
    BY <2>2 DEF Filed
  <2>8. ASSUME NEW s \in Ses!Stamps, s = stamp
        PROVE  /\ Talk(s)' \cup Tells(s)' \subseteq Talk(s) \cup Tells(s) \cup Open \cup lines
               /\ Tells(s)' \subseteq Talk(s)' \cup dropped
               /\ \A t \in ended \ dropped : t \in Talk(s) => t \in Talk(s)'
    BY <2>4, <2>5, <2>6, <2>7, <2>8
  <2>9. ASSUME NEW s \in Ses!Stamps, s # stamp
        PROVE  Talk(s)' = Talk(s) /\ Tells(s)' = Tells(s) /\ Tells(s)' \subseteq Talk(s)' \cup dropped
    BY <2>7, <2>9 DEF SesInv, ToldOf
  <2>10. WellKept
    BY <2>8, <2>9 DEF WellKept
  <2>11. QED
    BY <2>2, <2>10
<1>4. QED
  BY <1>2, <1>3

\* Another conversation is opened: none, an empty one, or that of a file.
LEMMA Opened ==
  ASSUME SesBounds, SesInv, WellKept, sent' = sent, ended' = ended, cleared' = cleared, dropped' = dropped,
         Due' = {}, NEW z, stamp' = z,
         \/ Open' = {} /\ lines' = {} /\ (up' => Talk(z)' = {})
         \/ z \in Ses!Stamps /\ Open' = Talk(z)' /\ lines' = Tells(z)'
  PROVE  Numbered' /\ OneSession' /\ ToldOf' /\ OnDisk'
<1>1. stamp' = z /\ Talk(stamp)' = Talk(z)'
  BY OpenFile
<1>2. \/ Open' = {} /\ lines' = {} /\ (up' => Talk(z)' = {})
      \/ z \in Ses!Stamps /\ Open' = Talk(z)' /\ lines' = Tells(z)'
  OBVIOUS
<1>3. Numbered'
  <2>1. \A s \in Ses!Stamps : Talk(s)' \cup Tells(s)' \subseteq 1..sent
    BY DEF WellKept, SesInv, Numbered
  <2>2. QED
    BY <1>2, <2>1 DEF SesInv, Numbered
<1>4. \A s, t \in Ses!Stamps : s # t => (Talk(s)' \cup Tells(s)') \cap (Talk(t)' \cup Tells(t)') = {}
  <2>1. ASSUME NEW s \in Ses!Stamps, NEW t \in Ses!Stamps, s # t, s # stamp
        PROVE  (Talk(s)' \cup Tells(s)') \cap (Talk(t)' \cup Tells(t)') = {}
    BY <2>1 DEF WellKept, SesInv, OneSession
  <2>2. QED
    BY <2>1
<1>5. \A s \in Ses!Stamps : cleared \cap (Talk(s)' \cup Tells(s)') = {}
  BY DEF WellKept, SesInv, OneSession
<1>6. OneSession'
  BY <1>1, <1>2, <1>4, <1>5 DEF OneSession
<1>7. ToldOf'
  BY <1>2 DEF ToldOf, WellKept
<1>8. OnDisk'
  <2>1. ASSUME NEW t \in ended \ (cleared \cup dropped) PROVE \E s \in Ses!Stamps : t \in Talk(s)'
    BY <2>1 DEF SesInv, OnDisk, WellKept
  <2>2. up' => \A t \in ended \ dropped : t \in Talk(z)' => t \in Open'
    BY <1>2
  <2>3. QED
    BY <1>1, <2>1, <2>2 DEF OnDisk
<1>9. QED
  BY <1>3, <1>6, <1>7, <1>8

LEMMA NewStep ==
  ASSUME SesBounds, SesInv, Ses!New
  PROVE  SesInv'
<1>1. /\ OpenTyped /\ FilesTyped /\ stamps \in Nat /\ up /\ stamps < MaxStamps /\ stamps' = stamps + 1 /\ stamp' = stamps + 1
      /\ said' = <<>> /\ lines' = {} /\ folder \in Folders
      /\ UNCHANGED <<up, folder, sending, sent, ended, cleared, dropped>>
      /\ Ses!Active /\ Ses!Autosave(said, lines) /\ Ses!MarkCurrent(stamp', folder')
  <2>1. OpenTyped /\ FilesTyped /\ stamps \in Nat
    BY StampIs DEF SesInv
  <2>2. /\ up /\ stamps < MaxStamps /\ stamps' = stamps + 1 /\ stamp' = stamps + 1 /\ said' = <<>> /\ lines' = {}
        /\ up' = up /\ folder' = folder /\ UNCHANGED <<sending, sent, ended, cleared, dropped>>
        /\ Ses!Active /\ Ses!Autosave(said, lines) /\ Ses!MarkCurrent(stamps + 1, folder)
    BY DEF Ses!New, Ses!Idle, Ses!Fresh
  <2>3. Ses!MarkCurrent(stamp', folder')
    BY <2>2
  <2>4. folder \in Folders
    BY <2>1, <2>2 DEF OpenTyped
  <2>5. QED
    BY <2>1, <2>2, <2>3, <2>4
<1>2. said' \in Seq(Nat) /\ Open' = {}
  BY <1>1, NoTurns DEF Open
<1>3. Due' = {} /\ recap' = [of |-> recap'.of, away |-> recap'.away, on |-> recap'.on] /\ recap'.away = FALSE
  BY <1>1, ActiveIs
<1>4. stamps + 1 \in Ses!Stamps /\ stamps + 1 # stamp /\ stamps + 1 > stamps /\ stamps' \in 0..MaxStamps /\ stamp' \in 0..stamps' /\ stamp' # 0
      /\ stamps <= stamps'
  BY <1>1, StampIs DEF OpenTyped, SesBounds
<1>5. OpenTyped'
  BY <1>1, <1>2, <1>3, <1>4 DEF OpenTyped
<1>6. PrefsTyped'
  BY <1>1, <1>4, Marks DEF SesInv
<1>7. FilesTyped' /\ WellKept
  <2>1. up /\ Ses!Autosave(said, lines) /\ stamps <= stamps' /\ stamps' \in Nat
    BY <1>1, <1>4
  <2>2. QED
    BY <2>1, KeepsWell
<1>8. PICK z : z = stamps + 1
  OBVIOUS
<1>9. stamp' = z /\ Talk(z)' = {}
  <2>1. z \in Ses!Stamps /\ z # stamp /\ z > stamps
    BY <1>4, <1>8
  <2>2. Talk(z)' = Talk(z) /\ Talk(z) = {}
    BY <1>1, <1>7, <2>1 DEF WellKept, FilesTyped
  <2>3. QED
    BY <1>1, <1>8, <2>2
<1>10. Numbered' /\ OneSession' /\ ToldOf' /\ OnDisk'
  BY <1>1, <1>2, <1>3, <1>7, <1>9, Opened
<1>11. QED
  BY <1>5, <1>6, <1>7, <1>10 DEF SesInv

LEMMA SavedIs ==
  ASSUME SesBounds, OpenTyped, FilesTyped, NEW s \in Ses!Stamps, Ses!Saved(s)
  PROVE  /\ s \in 1..stamps /\ sessionFile[s].said \in Seq(Nat) /\ sessionFile[s].folder \in Folders
<1>1. sessionFile[s].said \in Seq(Nat) /\ sessionFile[s].said # <<>> /\ sessionFile[s].folder \in Folders
  BY DEF Ses!Saved, FilesTyped, FileOK
<1>2. Talk(s) # {}
  BY <1>1, RangeEmpty DEF Talk
<1>3. ~(s > stamps)
  BY <1>2 DEF FilesTyped
<1>4. QED
  BY <1>1, <1>3, StampIs

LEMMA LoadStep ==
  ASSUME SesBounds, SesInv, NEW s \in Ses!Stamps, Ses!Load(s)
  PROVE  SesInv'
<1>1. /\ OpenTyped /\ FilesTyped /\ stamps \in Nat /\ up /\ Ses!Saved(s) /\ stamps' = stamps /\ stamp' = s
      /\ said' = sessionFile[s].said /\ lines' = sessionFile[s].lines /\ folder' = sessionFile[s].folder
      /\ UNCHANGED <<up, sending, sent, ended, cleared, dropped>>
      /\ Ses!Active /\ Ses!MarkCurrent(stamp', folder')
      /\ IF s # stamp THEN Ses!Autosave(said, lines) ELSE sessionFile' = sessionFile
  BY StampIs DEF SesInv, Ses!Load, Ses!Idle
<1>2. s \in 1..stamps /\ said' \in Seq(Nat) /\ folder' \in Folders
  BY <1>1, SavedIs
<1>3. Due' = {} /\ recap' = [of |-> recap'.of, away |-> recap'.away, on |-> recap'.on] /\ recap'.away = FALSE
  BY <1>1, ActiveIs
<1>4. OpenTyped'
  <2>1. up' = TRUE /\ sending' \in BOOLEAN /\ stamps' \in 0..MaxStamps /\ sent' \in Nat
    BY <1>1 DEF OpenTyped
  <2>2. stamp' \in 0..stamps' /\ stamp' # 0
    BY <1>1, <1>2
  <2>3. QED
    BY <1>2, <1>3, <2>1, <2>2 DEF OpenTyped
<1>5. PrefsTyped'
  BY <1>1, <1>2, Marks DEF SesInv
<1>6. FilesTyped' /\ WellKept
  <2>1. (up /\ Ses!Autosave(said, lines)) \/ sessionFile' = sessionFile
    BY <1>1
  <2>2. stamps <= stamps' /\ stamps' \in Nat
    BY <1>1
  <2>3. QED
    BY <2>1, <2>2, KeepsWell
<1>7. Talk(s)' = Talk(s) /\ Tells(s)' = Tells(s)
  <2>1. CASE s # stamp
    BY <1>6, <2>1 DEF WellKept
  <2>2. CASE s = stamp
    BY <1>1, <2>2 DEF Talk, Tells
  <2>3. QED
    BY <2>1, <2>2
<1>8. Open' = Talk(s)' /\ lines' = Tells(s)'
  BY <1>1, <1>7 DEF Open, Talk, Tells
<1>9. Numbered' /\ OneSession' /\ ToldOf' /\ OnDisk'
  BY <1>1, <1>3, <1>6, <1>8, Opened
<1>10. QED
  BY <1>4, <1>5, <1>6, <1>9 DEF SesInv

LEMMA DownStep ==
  ASSUME SesBounds, SesInv, Ses!Quit \/ Ses!Crash
  PROVE  SesInv'
<1>1. /\ OpenTyped /\ stamps \in Nat /\ up' = FALSE /\ stamp' = 0 /\ said' = <<>> /\ lines' = {} /\ folder' = "none"
      /\ sending' = FALSE /\ recap' = [of |-> {}, away |-> FALSE, on |-> FALSE]
      /\ UNCHANGED <<prefs, sent, stamps, ended, cleared, dropped>>
      /\ (up /\ Ses!Autosave(said, lines)) \/ sessionFile' = sessionFile
  BY StampIs DEF SesInv, Ses!Quit, Ses!Crash, Ses!Down, Ses!NoRecap, Ses!Idle
<1>2. said' \in Seq(Nat) /\ Open' = {}
  BY <1>1, NoTurns DEF Open
<1>3. Due' = {} /\ recap' = [of |-> recap'.of, away |-> recap'.away, on |-> recap'.on] /\ recap'.away = FALSE
  BY <1>1 DEF Due
<1>4. OpenTyped'
  <2>1. stamps' \in 0..MaxStamps /\ sent' \in Nat /\ stamp' \in 0..stamps'
    BY <1>1 DEF OpenTyped
  <2>2. up' = FALSE /\ sending' = FALSE /\ folder' = "none" /\ lines' = {}
    BY <1>1
  <2>3. QED
    BY <1>2, <1>3, <2>1, <2>2 DEF OpenTyped
<1>5. PrefsTyped'
  BY <1>1, SamePrefs DEF SesInv
<1>6. FilesTyped' /\ WellKept
  BY <1>1, KeepsWell
<1>7. Numbered' /\ OneSession' /\ ToldOf' /\ OnDisk'
  BY <1>1, <1>2, <1>3, <1>6, Opened
<1>8. QED
  BY <1>4, <1>5, <1>6, <1>7 DEF SesInv

LEMMA MoveStep ==
  ASSUME SesBounds, SesInv, NEW f \in Folders, Ses!Move(f)
  PROVE  SesInv'
<1>1. /\ OpenTyped /\ FilesTyped /\ stamps \in Nat /\ up /\ folder' = f /\ Ses!Active /\ Ses!MarkCurrent(stamp', folder')
      /\ UNCHANGED <<up, stamp, said, sending, lines, sessionFile, sent, stamps, ended, cleared, dropped>>
      /\ stamp' \in 0..stamps' /\ stamp' # 0
  BY StampIs DEF SesInv, OpenTyped, Ses!Move, Ses!Idle
<1>2. Open' = Open
  BY <1>1 DEF Open
<1>3. Due' = {} /\ recap' = [of |-> recap'.of, away |-> recap'.away, on |-> recap'.on] /\ recap'.away = FALSE
  BY <1>1, ActiveIs
<1>4. OpenTyped'
  BY <1>1, <1>2, <1>3 DEF OpenTyped
<1>5. PrefsTyped'
  BY <1>1, Marks DEF SesInv
<1>6. FilesTyped' /\ \A s \in Ses!Stamps : Talk(s)' = Talk(s) /\ Tells(s)' = Tells(s)
  BY <1>1, SameFiles DEF Talk, Tells
<1>7. Numbered'
  BY <1>1, <1>2, <1>3, <1>6 DEF SesInv, Numbered
<1>8. OneSession' /\ ToldOf'
  BY <1>1, <1>2, <1>3, <1>6 DEF SesInv, OneSession, ToldOf
<1>9. OnDisk'
  <2>1. Talk(stamp)' = Talk(stamp)
    BY <1>1 DEF Talk
  <2>2. \A t \in ended \ (cleared \cup dropped) : \E s \in Ses!Stamps : t \in Talk(s)'
    BY <1>6 DEF SesInv, OnDisk
  <2>3. QED
    BY <1>1, <1>2, <2>1, <2>2 DEF SesInv, OnDisk
<1>10. QED
  BY <1>4, <1>5, <1>6, <1>7, <1>8, <1>9 DEF SesInv

\* A file is taken away, of the session that is open or of another.
LEMMA GoneFile ==
  ASSUME SesBounds, OpenTyped, FilesTyped, NEW x \in Ses!Stamps, x <= stamps, stamps' = stamps,
         sessionFile' = [sessionFile EXCEPT ![x] = Ses!NoFile]
  PROVE  FilesTyped' /\ \A s \in Ses!Stamps : /\ Talk(s)' = IF s = x THEN {} ELSE Talk(s)
                                              /\ Tells(s)' = IF s = x THEN {} ELSE Tells(s)
<1>1. PICK r : r = Ses!NoFile
  OBVIOUS
<1>2. r = [said |-> <<>>, folder |-> "none", lines |-> {}] /\ r.said = <<>> /\ r.folder = "none" /\ r.lines = {}
  BY <1>1 DEF Ses!NoFile
<1>3. FileOK(r) /\ Ses!Range(r.said) = {}
  BY <1>2, NoTurns DEF FileOK
<1>4. stamps \in Nat /\ stamps' \in Nat /\ x <= stamps' /\ stamps <= stamps'
  BY StampIs DEF OpenTyped
<1>5. FilesTyped' /\ Filed(x, Ses!Range(r.said), r.lines)
  BY <1>1, <1>3, <1>4, PutFile
<1>6. QED
  BY <1>2, <1>3, <1>5 DEF Filed

LEMMA ClearStep ==
  ASSUME SesBounds, SesInv, Ses!Clear
  PROVE  SesInv'
<1>1. /\ OpenTyped /\ FilesTyped /\ stamps \in Nat /\ up /\ cleared' = cleared \cup Open /\ said' = <<>> /\ lines' = {}
      /\ UNCHANGED <<up, stamp, folder, sending, sent, stamps, ended, dropped>>
      /\ sessionFile' = [sessionFile EXCEPT ![stamp] = Ses!NoFile] /\ Ses!Active /\ Ses!MarkCurrent(stamp', folder')
      /\ stamp \in Ses!Stamps /\ stamp <= stamps /\ folder' \in Folders /\ stamp' \in 0..stamps' /\ stamp' # 0
  BY StampIs DEF SesInv, OpenTyped, Open, Ses!Clear, Ses!Idle, Ses!Forget
<1>2. said' \in Seq(Nat) /\ Open' = {}
  BY <1>1, NoTurns DEF Open
<1>3. Due' = {} /\ recap' = [of |-> recap'.of, away |-> recap'.away, on |-> recap'.on] /\ recap'.away = FALSE
  BY <1>1, ActiveIs
<1>4. OpenTyped'
  BY <1>1, <1>2, <1>3 DEF OpenTyped
<1>5. PrefsTyped'
  BY <1>1, Marks DEF SesInv
<1>6. FilesTyped' /\ \A s \in Ses!Stamps : /\ Talk(s)' = IF s = stamp THEN {} ELSE Talk(s)
                                           /\ Tells(s)' = IF s = stamp THEN {} ELSE Tells(s)
  BY <1>1, GoneFile
<1>7. Numbered'
  BY <1>1, <1>2, <1>3, <1>6 DEF SesInv, Numbered
<1>8. OneSession'
  BY <1>1, <1>2, <1>3, <1>6 DEF SesInv, OneSession
<1>9. ToldOf'
  BY <1>1, <1>2, <1>3, <1>6 DEF SesInv, ToldOf
<1>10. OnDisk'
  BY <1>1, <1>6 DEF SesInv, OnDisk
<1>11. QED
  BY <1>4, <1>5, <1>6, <1>7, <1>8, <1>9, <1>10 DEF SesInv

LEMMA DeleteStep ==
  ASSUME SesBounds, SesInv, NEW x \in Ses!Stamps, Ses!Delete(x)
  PROVE  SesInv'
<1>1. /\ OpenTyped /\ FilesTyped /\ stamps \in Nat /\ up /\ x # stamp /\ Ses!Saved(x) /\ cleared' = cleared \cup Talk(x)
      /\ UNCHANGED <<up, stamp, said, folder, sending, recap, lines, prefs, sent, stamps, ended, dropped>>
      /\ sessionFile' = [sessionFile EXCEPT ![x] = Ses!NoFile]
  BY StampIs DEF SesInv, Talk, Ses!Delete
<1>2. Open' = Open /\ Due' = Due /\ x <= stamps
  BY <1>1, SavedIs DEF Open, Due
<1>3. OpenTyped' /\ PrefsTyped'
  BY <1>1, <1>2, SamePrefs DEF SesInv, OpenTyped
<1>4. FilesTyped' /\ \A s \in Ses!Stamps : /\ Talk(s)' = IF s = x THEN {} ELSE Talk(s)
                                           /\ Tells(s)' = IF s = x THEN {} ELSE Tells(s)
  BY <1>1, <1>2, GoneFile
<1>5. Numbered'
  BY <1>1, <1>2, <1>4 DEF SesInv, Numbered
<1>6. OneSession'
  BY <1>1, <1>2, <1>4 DEF SesInv, OneSession
<1>7. ToldOf'
  BY <1>1, <1>2, <1>4 DEF SesInv, ToldOf
<1>8. OnDisk'
  <2>1. ASSUME NEW t \in ended \ (cleared' \cup dropped) PROVE \E s \in Ses!Stamps : t \in Talk(s)'
    <3>1. PICK s \in Ses!Stamps : t \in Talk(s)
      BY <1>1, <2>1 DEF SesInv, OnDisk
    <3>2. s # x
      BY <1>1, <2>1, <3>1
    <3>3. QED
      BY <1>4, <3>1, <3>2
  <2>2. Talk(stamp)' = Talk(stamp)
    <3>1. stamp \in Ses!Stamps
      BY <1>1, StampIs
    <3>2. PICK z : z = stamp
      OBVIOUS
    <3>3. Talk(z)' = Talk(z) /\ stamp' = z
      BY <1>1, <1>4, <3>1, <3>2
    <3>4. QED
      BY <3>2, <3>3, OpenFile
  <2>3. QED
    BY <1>1, <1>2, <2>1, <2>2 DEF SesInv, OnDisk
<1>9. QED
  BY <1>3, <1>4, <1>5, <1>6, <1>7, <1>8 DEF SesInv

\* A launch opens a session that is there, or a new one.
LEMMA TargetIs ==
  ASSUME SesBounds, NEW f \in Folders \cup {"none"}, PrefsTyped, OpenTyped
  PROVE  Ses!Target(f) = 0 \/ (Ses!Target(f) \in Ses!Stamps /\ Ses!Saved(Ses!Target(f)))
<1>1. stamps \in Nat /\ Ses!Stamps = 1..MaxStamps /\ stamps <= MaxStamps
  BY StampIs
<1>2. ASSUME NEW s \in 0..stamps
      PROVE  Ses!Usable(s, f) = 0 \/ (Ses!Usable(s, f) \in Ses!Stamps /\ Ses!Saved(Ses!Usable(s, f)))
  <2>1. CASE s = 0
    BY <2>1 DEF Ses!Usable
  <2>2. CASE s # 0
    <3>1. s \in Ses!Stamps
      BY <1>1, <2>2 DEF SesBounds
    <3>2. QED
      BY <3>1 DEF Ses!Usable
  <2>3. QED
    BY <2>1, <2>2
<1>3. Ses!Newest(f) = 0 \/ (Ses!Newest(f) \in Ses!Stamps /\ Ses!Saved(Ses!Newest(f)))
  <2>1. PICK S : S = {s \in Ses!Stamps : Ses!Saved(s) /\ (f = "none" \/ sessionFile[s].folder = f)}
    OBVIOUS
  <2>2. CASE S = {}
    BY <2>1, <2>2 DEF Ses!Newest
  <2>3. CASE S # {}
    <3>1. 1 \in Int /\ MaxStamps \in Int /\ S \in SUBSET (1..MaxStamps)
      BY <1>1, <2>1 DEF SesBounds
    <3>2. \E g \in S : \A j \in S : j <= g
      BY <2>3, <3>1, HasGreatest
    <3>3. \E g \in S : \A j \in S : g >= j
      BY <3>1, <3>2
    <3>4. Ses!Max(S) \in S
      BY <3>3 DEF Ses!Max
    <3>5. Ses!Newest(f) = Ses!Max(S)
      BY <2>1, <2>3 DEF Ses!Newest
    <3>6. QED
      BY <2>1, <3>4, <3>5
  <2>4. QED
    BY <2>2, <2>3
<1>4. prefs.last \in 0..stamps /\ (f \in Folders => prefs.per[f] \in 0..stamps)
  BY DEF PrefsTyped
<1>5. QED
  BY <1>2, <1>3, <1>4 DEF Ses!Target

LEMMA LaunchStep ==
  ASSUME SesBounds, SesInv, NEW f \in Folders \cup {"none"}, Ses!Launch(f)
  PROVE  SesInv'
<1>1. /\ OpenTyped /\ FilesTyped /\ PrefsTyped /\ stamps \in Nat /\ ~up /\ up' = TRUE /\ stamps < MaxStamps /\ stamps' = stamps + 1
      /\ UNCHANGED <<sending, recap, sessionFile, sent, ended, cleared, dropped>>
      /\ Open = {} /\ lines = {} /\ Due = {} /\ said \in Seq(Nat)
  BY StampIs DEF SesInv, OpenTyped, Ses!Launch, Ses!Fresh
<1>2. PICK s : s = Ses!Target(f)
  OBVIOUS
<1>3. s = 0 \/ (s \in Ses!Stamps /\ Ses!Saved(s))
  BY <1>1, <1>2, TargetIs
<1>4. folder' \in Folders /\ Ses!MarkCurrent(stamp', folder')
  <2>1. PICK w : w = IF f # "none" THEN f ELSE IF prefs.folder # "none" THEN prefs.folder ELSE CHOOSE g \in Folders : TRUE
    OBVIOUS
  <2>2. folder' = w /\ Ses!MarkCurrent(stamp', w)
    BY <2>1 DEF Ses!Launch
  <2>3. (CHOOSE g \in Folders : TRUE) \in Folders
    BY DEF SesBounds
  <2>4. w \in Folders
    BY <1>1, <2>1, <2>3 DEF PrefsTyped
  <2>5. QED
    BY <2>2, <2>4
<1>5. IF s = 0 THEN stamp' = stamps + 1 /\ said' = said /\ lines' = lines
      ELSE stamp' = s /\ said' = sessionFile[s].said /\ lines' = sessionFile[s].lines
  BY <1>2 DEF Ses!Launch
<1>6. FilesTyped' /\ WellKept
  BY <1>1, KeepsWell
<1>7. Due' = {}
  BY <1>1 DEF Due
<1>8. /\ stamps' \in 0..MaxStamps /\ sent' \in Nat /\ up' = TRUE /\ sending' \in BOOLEAN
      /\ recap' = [of |-> recap'.of, away |-> recap'.away, on |-> recap'.on] /\ recap'.away \in BOOLEAN
  BY <1>1 DEF OpenTyped, SesBounds
<1>9. CASE s = 0
  <2>1. stamps + 1 \in Ses!Stamps /\ stamps + 1 > stamps /\ stamp' = stamps + 1 /\ said' = said /\ lines' = lines
    <3>1. stamp' = stamps + 1 /\ said' = said /\ lines' = lines
      BY <1>5, <1>9
    <3>2. stamps + 1 \in 1..MaxStamps
      BY <1>1 DEF SesBounds
    <3>3. QED
      BY <1>1, <3>1, <3>2, StampIs
  <2>2. Open' = {}
    BY <1>1, <2>1 DEF Open
  <2>3. PICK z : z = stamps + 1
    OBVIOUS
  <2>4. stamp' = z /\ Talk(z)' = {}
    <3>1. z \in Ses!Stamps /\ z > stamps
      BY <2>1, <2>3
    <3>2. Talk(z) = {}
      BY <1>1, <3>1 DEF FilesTyped
    <3>3. QED
      BY <1>1, <2>1, <2>3, <3>2 DEF Talk
  <2>5. stamp' \in 0..stamps' /\ stamp' # 0
    BY <1>1, <2>1
  <2>6. OpenTyped'
    <3>1. said' \in Seq(Nat)
      BY <1>1, <2>1
    <3>2. QED
      BY <1>4, <1>8, <2>5, <3>1 DEF OpenTyped
  <2>7. PrefsTyped'
    BY <1>1, <1>4, <2>5, Marks
  <2>8. Numbered' /\ OneSession' /\ ToldOf' /\ OnDisk'
    BY <1>1, <1>6, <1>7, <2>1, <2>2, <2>4, Opened
  <2>9. QED
    BY <1>6, <2>6, <2>7, <2>8 DEF SesInv
<1>10. CASE s # 0
  <2>1. s \in Ses!Stamps /\ Ses!Saved(s) /\ stamp' = s /\ said' = sessionFile[s].said /\ lines' = sessionFile[s].lines
    BY <1>3, <1>5, <1>10
  <2>2. s \in 1..stamps /\ said' \in Seq(Nat)
    BY <1>1, <2>1, SavedIs
  <2>3. Open' = Talk(s)' /\ lines' = Tells(s)'
    BY <1>1, <2>1 DEF Open, Talk, Tells
  <2>4. stamp' \in 0..stamps' /\ stamp' # 0
    BY <1>1, <2>1, <2>2
  <2>5. OpenTyped'
    BY <1>4, <1>8, <2>2, <2>4 DEF OpenTyped
  <2>6. PrefsTyped'
    BY <1>1, <1>4, <2>4, Marks
  <2>7. Numbered' /\ OneSession' /\ ToldOf' /\ OnDisk'
    BY <1>1, <1>6, <1>7, <2>1, <2>3, Opened
  <2>8. QED
    BY <1>6, <2>5, <2>6, <2>7 DEF SesInv
<1>11. QED
  BY <1>9, <1>10

LEMMA SesStep ==
  ASSUME SesBounds, SesInv, [Ses!Next]_Ses!vars
  PROVE  SesInv'
<1>1. CASE UNCHANGED Ses!vars
  <2>1. UNCHANGED <<up, stamp, said, folder, sending, recap, lines, sessionFile, prefs, sent, stamps, ended, cleared, dropped>>
    BY <1>1 DEF Ses!vars
  <2>2. Open' = Open /\ Due' = Due /\ \A s \in Ses!Stamps : Talk(s)' = Talk(s) /\ Tells(s)' = Tells(s)
    BY <2>1 DEF Open, Due, Talk, Tells
  <2>3. OpenTyped' /\ PrefsTyped'
    BY <2>1, <2>2, SamePrefs DEF SesInv, OpenTyped
  <2>4. FilesTyped'
    BY <2>1, <2>2 DEF SesInv, FilesTyped, FileOK
  <2>5. Numbered' /\ OneSession'
    BY <2>1, <2>2 DEF SesInv, Numbered, OneSession
  <2>6. ToldOf' /\ OnDisk'
    <3>1. Talk(stamp)' = Talk(stamp)
      BY <2>1 DEF Talk
    <3>2. ToldOf'
      BY <2>1, <2>2 DEF SesInv, ToldOf
    <3>3. \A t \in ended \ (cleared \cup dropped) : \E s \in Ses!Stamps : t \in Talk(s)'
      BY <2>2 DEF SesInv, OnDisk
    <3>4. OnDisk'
      BY <2>1, <2>2, <3>1, <3>3 DEF SesInv, OnDisk
    <3>5. QED
      BY <3>2, <3>4
  <2>7. QED
    BY <2>3, <2>4, <2>5, <2>6 DEF SesInv
<1>2. QED
  BY <1>1, BeginStep, TurnEndStep, NewStep, ClearStep, BeginRecapStep, DownStep, LoadStep, DeleteStep, MoveStep, LaunchStep,
     EndRecapStep DEF Ses!Next

LEMMA SesInit ==
  ASSUME SesBounds, Ses!Init
  PROVE  SesInv
<1>1. /\ up = FALSE /\ stamp = 0 /\ said = <<>> /\ folder = "none" /\ sending = FALSE /\ lines = {}
      /\ recap = [of |-> {}, away |-> FALSE, on |-> FALSE]
      /\ sessionFile = [s \in Ses!Stamps |-> Ses!NoFile]
      /\ prefs = [last |-> 0, folder |-> "none", per |-> [f \in Folders |-> 0]]
      /\ sent = 0 /\ stamps = 0 /\ ended = {} /\ cleared = {} /\ dropped = {}
  BY DEF Ses!Init, Ses!NoRecap
<1>2. said \in Seq(Nat) /\ Open = {} /\ Due = {}
  BY <1>1, NoTurns DEF Open, Due
<1>3. OpenTyped
  <2>1. recap = [of |-> recap.of, away |-> recap.away, on |-> recap.on] /\ recap.away = FALSE
    BY <1>1
  <2>2. stamps \in 0..MaxStamps /\ stamp \in 0..stamps
    BY <1>1 DEF SesBounds
  <2>3. QED
    BY <1>1, <1>2, <2>1, <2>2 DEF OpenTyped
<1>4. PICK r : r = Ses!NoFile
  OBVIOUS
<1>5. FileOK(r) /\ r.said = <<>> /\ r.lines = {}
  BY <1>4, NoTurns DEF FileOK, Ses!NoFile
<1>6. \A s \in Ses!Stamps : sessionFile[s] = r /\ Talk(s) = {} /\ Tells(s) = {}
  BY <1>1, <1>4, <1>5, NoTurns DEF Talk, Tells
<1>7. FilesTyped
  BY <1>1, <1>4, <1>5, <1>6 DEF FilesTyped
<1>8. PrefsTyped
  BY <1>1 DEF PrefsTyped, Ses!OpenIsRemembered
<1>9. Numbered /\ OneSession /\ ToldOf /\ OnDisk
  BY <1>1, <1>2, <1>6 DEF Numbered, OneSession, ToldOf, OnDisk
<1>10. QED
  BY <1>3, <1>7, <1>8, <1>9 DEF SesInv

\* The inductive invariant of the sessions.
THEOREM SessionInvariant ==
  ASSUME SesBounds
  PROVE  Ses!Spec => []SesInv
<1>1. Ses!Init => SesInv
  BY SesInit
<1>2. SesInv /\ [Ses!Next]_Ses!vars => SesInv'
  BY SesStep
<1>3. QED
  BY <1>1, <1>2, PTL DEF Ses!Spec

\* A turn that came to its end is in the open conversation or in a file until the user
\* clears, deletes or retries it, whatever is opened, moved or crashes (harness.py:3512).
THEOREM TurnsStay ==
  ASSUME SesBounds
  PROVE  Ses!Spec => []Ses!NoTurnLost
<1>1. SesInv => Ses!NoTurnLost
  BY DEF SesInv, OnDisk, Talk, Ses!NoTurnLost
<1>2. QED
  BY <1>1, SessionInvariant, PTL

\* What was cleared or deleted is in no file (harness.py:3629).
THEOREM ClearedForGood ==
  ASSUME SesBounds
  PROVE  Ses!Spec => []Ses!ClearedStaysCleared
<1>1. SesInv => Ses!ClearedStaysCleared
  BY DEF SesInv, OneSession, Talk, Tells, Ses!ClearedStaysCleared
<1>2. QED
  BY <1>1, SessionInvariant, PTL

\* A recap is kept only with the conversation it tells of (controller.py:307).
THEOREM RecapsBelong ==
  ASSUME SesBounds
  PROVE  Ses!Spec => []Ses!RecapBelongs
<1>1. SesInv => Ses!RecapBelongs
  BY DEF SesInv, ToldOf, Talk, Tells, Open, Ses!RecapBelongs
<1>2. QED
  BY <1>1, SessionInvariant, PTL

\* The next launch finds the session in use, and none is the last one of two folders
\* (session.py:151).
THEOREM Remembered ==
  ASSUME SesBounds
  PROVE  Ses!Spec => []Ses!OpenIsRemembered
<1>1. SesInv => Ses!OpenIsRemembered
  BY DEF SesInv, PrefsTyped
<1>2. QED
  BY <1>1, SessionInvariant, PTL

\* The sessions, their turns and folders keep their types.
THEOREM SessionTyping ==
  ASSUME SesBounds
  PROVE  Ses!Spec => []Ses!TypeOK
<1>1. SesInv => Ses!TypeOK
  <2> SUFFICES ASSUME SesInv PROVE Ses!TypeOK
    OBVIOUS
  <2>1. stamp \in 0..MaxStamps /\ lines \subseteq 1..sent /\ Ses!Range(said) \subseteq 1..sent
    BY DEF SesInv, OpenTyped, Numbered, Open, SesBounds
  <2>2. folder \in Folders \cup {"none"} /\ (up <=> folder # "none")
    BY DEF SesInv, OpenTyped, SesBounds
  <2>3. \A s \in Ses!Stamps : sessionFile[s].folder \in Folders \cup {"none"}
    BY DEF SesInv, FilesTyped, FileOK
  <2>4. QED
    BY <2>1, <2>2, <2>3 DEF Ses!TypeOK
<1>2. QED
  BY <1>1, SessionInvariant, PTL

CONSTANTS Models, Hosts, Breaks, Levels, MaxPieces, Between, MaxRequests, MaxAborts
VARIABLES host, model, client, closed, caps, escaped, req, esc, answered, requests, aborts

Lm == INSTANCE LlmClient WITH current <- client

-----------------------------------------------------------------------------
(***************************************************************************)
(* Requests to the model.  A request has a socket only through the client  *)
(* that is not closed yet; one whose client is closed reads an end and     *)
(* fails.                                                                  *)
(***************************************************************************)
\* Esc does not come between the loop's look at the flag and the client being taken.
LlmBounds == MaxPieces \in Nat /\ Between = FALSE

ReqSteps == {"none", "think", "pick", "connect", "connecting", "send", "read", "done", "failed"}
Asked == {"connect", "connecting", "send", "read"}
Requests ==
  [step : ReqSteps, client : Nat, model : Models, raw : BOOLEAN, sock : {"none", "open", "shut"},
   sent : 0..MaxPieces, got : Nat, over : BOOLEAN, known : BOOLEAN]

CapsTyped == caps \in [Models -> [read : BOOLEAN, known : BOOLEAN, host : Hosts]]

LlmTyped ==
  /\ host \in Hosts /\ model \in Models /\ escaped \subseteq Models /\ esc \in {"no", "set", "done"}
  /\ client \in Nat \ {0} /\ closed = 1..(client - 1)
  /\ req \in Requests /\ req.client <= client /\ req.got <= req.sent

Sockets ==
  /\ req.step \in Lm!Connected <=> req.sock # "none"
  /\ req.step \in Asked => req.client # 0
  /\ req.sock = "open" => req.client = client
  /\ req.sock = "shut" => req.client < client

Replies == (req.over => req.sent = MaxPieces) /\ Lm!WholeReply

\* Once Esc closed the client, the request it caught is over or has a closed one.
EscInv ==
  /\ esc # "no" => req.step # "none"
  /\ esc = "done" /\ req.step \notin {"done", "failed"} => req.step \in Asked /\ req.client < client

LlmInv == LlmTyped /\ Sockets /\ Replies /\ EscInv /\ CapsTyped /\ Lm!CapsOfHost

\* What holds of a request r when c is the client, and Esc is at e.
ReqOK(r, c, e) ==
  /\ r \in Requests /\ r.client <= c /\ r.got <= r.sent
  /\ r.step \in {"send", "read"} <=> r.sock # "none"
  /\ r.step \in Asked => r.client # 0
  /\ r.sock = "open" => r.client = c
  /\ r.sock = "shut" => r.client < c
  /\ r.over => r.sent = MaxPieces
  /\ r.step = "done" => r.got = MaxPieces
  /\ e # "no" => r.step # "none"
  /\ e = "done" /\ r.step \notin {"done", "failed"} => r.step \in Asked /\ r.client < c

LEMMA LlmParts ==
  LlmInv <=> /\ host \in Hosts /\ model \in Models /\ escaped \subseteq Models /\ esc \in {"no", "set", "done"}
             /\ client \in Nat \ {0} /\ closed = 1..(client - 1)
             /\ ReqOK(req, client, esc) /\ CapsTyped /\ Lm!CapsOfHost
BY DEF LlmInv, LlmTyped, Sockets, Replies, EscInv, ReqOK, Lm!Connected, Lm!WholeReply, Lm!At

LEMMA Ended ==
  ASSUME ReqOK(req, client, esc), NEW s \in {"done", "failed"}, s = "done" => req.got = MaxPieces
  PROVE  ReqOK([req EXCEPT !.step = s, !.sock = "none"], client, esc)
BY DEF ReqOK, Requests, ReqSteps, Asked

\* A step that changes nothing but the request.
LEMMA Asking ==
  ASSUME LlmInv, ReqOK(req', client, esc), UNCHANGED <<host, model, client, closed, caps, esc>>, escaped' \subseteq Models
  PROVE  LlmInv'
<1>1. /\ host' \in Hosts /\ model' \in Models /\ esc' \in {"no", "set", "done"}
      /\ client' \in Nat \ {0} /\ closed' = 1..(client' - 1)
      /\ ReqOK(req', client', esc')
  BY LlmParts
<1>2. CapsTyped' /\ Lm!CapsOfHost'
  BY LlmParts DEF CapsTyped, Lm!CapsOfHost
<1>3. QED
  BY <1>1, <1>2 DEF LlmInv, LlmTyped, Sockets, Replies, EscInv, ReqOK, Lm!Connected, Lm!WholeReply, Lm!At

LEMMA AskingStep ==
  ASSUME LlmBounds, LlmInv,
         Lm!Pick \/ Lm!Connect \/ (\E b \in BOOLEAN : Lm!Connecting(b) \/ Lm!EndOfStream(b)) \/ Lm!Generate \/ Lm!Line
  PROVE  LlmInv'
<1>1. /\ ReqOK(req, client, esc) /\ client \in Nat \ {0} /\ closed = 1..(client - 1) /\ escaped \subseteq Models
      /\ UNCHANGED <<host, model, client, closed, caps, escaped, esc>> /\ esc \in {"no", "set", "done"}
  BY LlmParts DEF Lm!Pick, Lm!Connect, Lm!Connecting, Lm!EndOfStream, Lm!Generate, Lm!Line
<1>2. req.client \in Nat /\ (Lm!Aborted <=> req.client # 0 /\ req.client < client)
  BY <1>1 DEF Lm!Aborted, ReqOK, Requests
<1>3. CASE Lm!Pick
  <2>1. req.step = "pick" /\ req' = [req EXCEPT !.step = "connect", !.client = client]
    BY <1>3 DEF Lm!Pick, Lm!At
  <2>2. esc # "done" /\ req.sock = "none"
    <3>1. esc # "done"
      <4>1. req.step \notin {"done", "failed"} /\ req.step \notin Asked
        BY <2>1 DEF Asked
      <4>2. QED
        BY <1>1, <4>1 DEF ReqOK
    <3>2. req.step \notin {"send", "read"}
      BY <2>1
    <3>3. QED
      BY <1>1, <3>1, <3>2 DEF ReqOK
  <2>3. /\ req' \in Requests /\ req'.step = "connect" /\ req'.client = client /\ req'.sock = "none"
        /\ req'.got = req.got /\ req'.sent = req.sent /\ req'.over = req.over
    BY <1>1, <2>1, <2>2 DEF ReqOK, Requests, ReqSteps
  <2>4. ReqOK(req', client, esc)
    BY <1>1, <2>2, <2>3 DEF ReqOK, Asked
  <2>5. QED
    BY <1>1, <2>4, Asking
<1>4. CASE Lm!Connect
  <2>1. CASE Lm!Aborted
    BY <1>1, <1>4, <2>1, Ended, Asking DEF Lm!Connect, Lm!End
  <2>2. CASE ~Lm!Aborted
    BY <1>1, <1>4, <2>2, Asking DEF Lm!Connect, Lm!At, ReqOK, Requests, ReqSteps, Asked
  <2>3. QED
    BY <2>1, <2>2
<1>5. ASSUME NEW b \in BOOLEAN, Lm!Connecting(b) PROVE LlmInv'
  <2>1. CASE b /\ Lm!Kept
    <3>1. req.step = "connecting" /\ req' = [req EXCEPT !.step = "send", !.sock = "open"] /\ req.client = client
      BY <1>1, <1>2, <1>5, <2>1 DEF Lm!Connecting, Lm!Kept, Lm!At, ReqOK, Asked
    <3>2. ReqOK(req', client, esc)
      BY <1>1, <3>1 DEF ReqOK, Requests, ReqSteps, Asked
    <3>3. QED
      BY <1>1, <3>2, Asking
  <2>2. CASE ~(b /\ Lm!Kept)
    BY <1>1, <1>5, <2>2, Ended, Asking DEF Lm!Connecting, Lm!End
  <2>3. QED
    BY <2>1, <2>2
<1>6. ASSUME NEW b \in BOOLEAN, Lm!EndOfStream(b) PROVE LlmInv'
  <2>1. req.step = "read" /\ req.got = req.sent
    BY <1>6 DEF Lm!EndOfStream, Lm!At
  <2>2. CASE b \/ ~Lm!Finished
    BY <1>1, <1>6, <2>2, Ended, Asking DEF Lm!EndOfStream, Lm!End
  <2>3. CASE ~b /\ Lm!Finished
    <3>1. req.over
      BY <1>1, <1>2, <1>6, <2>1, <2>3 DEF Lm!EndOfStream, Lm!Finished, ReqOK, Asked
    <3>2. req.got = MaxPieces
      BY <1>1, <2>1, <3>1 DEF ReqOK
    <3>3. req' = [req EXCEPT !.step = "done", !.sock = "none"]
      BY <1>6, <2>3 DEF Lm!EndOfStream, Lm!End
    <3>4. QED
      BY <1>1, <3>2, <3>3, Ended, Asking
  <2>4. QED
    BY <2>2, <2>3
<1>7. CASE Lm!Generate
  <2>1. CASE req.sent < MaxPieces
    <3>1. req.step = "read" /\ ~req.over /\ req' = [req EXCEPT !.sent = req.sent + 1]
      BY <1>7, <2>1 DEF Lm!Generate, Lm!At
    <3>2. req.sent + 1 \in 0..MaxPieces
      BY <1>1, <2>1 DEF ReqOK, Requests, LlmBounds
    <3>3. ReqOK(req', client, esc)
      BY <1>1, <3>1, <3>2 DEF ReqOK, Requests, ReqSteps, Asked
    <3>4. QED
      BY <1>1, <3>3, Asking
  <2>2. CASE ~(req.sent < MaxPieces)
    <3>1. req.step = "read" /\ req' = [req EXCEPT !.over = TRUE]
      BY <1>7, <2>2 DEF Lm!Generate, Lm!At
    <3>2. req.sent = MaxPieces
      BY <1>1, <2>2 DEF ReqOK, Requests, LlmBounds
    <3>3. ReqOK(req', client, esc)
      BY <1>1, <3>1, <3>2 DEF ReqOK, Requests, ReqSteps, Asked
    <3>4. QED
      BY <1>1, <3>3, Asking
  <2>3. QED
    BY <2>1, <2>2
<1>8. CASE Lm!Line
  <2>1. req.step = "read" /\ req.got < req.sent /\ req' = [req EXCEPT !.got = req.got + 1]
    BY <1>8 DEF Lm!Line, Lm!At
  <2>2. ReqOK(req', client, esc)
    BY <1>1, <2>1 DEF ReqOK, Requests, ReqSteps, Asked
  <2>3. QED
    BY <1>1, <2>2, Asking
<1>9. QED
  BY <1>3, <1>4, <1>5, <1>6, <1>7, <1>8

LEMMA ChatStep ==
  ASSUME LlmBounds, LlmInv, Lm!Chat
  PROVE  LlmInv'
<1>1. PICK m : m = CHOOSE x \in Models : TRUE
  OBVIOUS
<1>2. PICK b : b = (model \notin escaped)
  OBVIOUS
<1>3. req' = [[step |-> "none", client |-> 0, model |-> m, raw |-> TRUE, sock |-> "none", sent |-> 0, got |-> 0, over |-> FALSE,
               known |-> FALSE] EXCEPT !.step = "think", !.model = model, !.raw = b]
  BY <1>1, <1>2 DEF Lm!Chat, Lm!NoReq
<1>4. req' = [step |-> "think", client |-> 0, model |-> model, raw |-> b, sock |-> "none", sent |-> 0, got |-> 0, over |-> FALSE,
              known |-> FALSE]
  BY <1>3
<1>5. model \in Models /\ client \in Nat \ {0} /\ esc = "no" /\ b \in BOOLEAN
  BY <1>2, LlmParts DEF Lm!Chat
<1>6. ReqOK(req', client, esc)
  BY <1>4, <1>5 DEF ReqOK, Requests, ReqSteps, Asked, LlmBounds
<1>7. QED
  BY <1>6, LlmParts, Asking DEF Lm!Chat

LEMMA ThinkStep ==
  ASSUME LlmBounds, LlmInv, NEW answers \in BOOLEAN, Lm!ThinkingCaps(answers)
  PROVE  LlmInv'
<1>1. /\ ReqOK(req, client, esc) /\ client \in Nat \ {0} /\ closed = 1..(client - 1) /\ escaped \subseteq Models
      /\ host \in Hosts /\ model \in Models /\ esc \in {"no", "set", "done"} /\ CapsTyped /\ Lm!CapsOfHost
      /\ UNCHANGED <<host, model, client, closed, escaped, esc>> /\ req.step = "think"
  BY LlmParts DEF Lm!ThinkingCaps, Lm!At
<1>2. CapsTyped' /\ Lm!CapsOfHost'
  <2>1. CASE caps[req.model].read
    BY <1>1, <2>1 DEF Lm!ThinkingCaps, CapsTyped, Lm!CapsOfHost
  <2>2. CASE ~caps[req.model].read
    <3>1. PICK r : r = [read |-> TRUE, known |-> answers, host |-> host]
      OBVIOUS
    <3>2. caps' = [caps EXCEPT ![req.model] = r] /\ r \in [read : BOOLEAN, known : BOOLEAN, host : Hosts] /\ r.host = host
      BY <1>1, <2>2, <3>1 DEF Lm!ThinkingCaps
    <3>3. QED
      BY <1>1, <3>2 DEF CapsTyped, Lm!CapsOfHost
  <2>3. QED
    BY <2>1, <2>2
<1>3. PICK k : k = caps'[req.model].known
  OBVIOUS
<1>4. k \in BOOLEAN
  BY <1>1, <1>2, <1>3 DEF CapsTyped, ReqOK, Requests
<1>5. req' = [req EXCEPT !.step = "pick", !.known = k]
  BY <1>3 DEF Lm!ThinkingCaps
<1>6. ReqOK(req', client, esc)
  BY <1>1, <1>4, <1>5 DEF ReqOK, Requests, ReqSteps, Asked
<1>7. ReqOK(req', client', esc') /\ host' \in Hosts /\ model' \in Models /\ esc' \in {"no", "set", "done"}
      /\ client' \in Nat \ {0} /\ closed' = 1..(client' - 1) /\ escaped' \subseteq Models
  BY <1>1, <1>6
<1>8. QED
  BY <1>2, <1>7 DEF LlmInv, LlmTyped, Sockets, Replies, EscInv, ReqOK, Lm!Connected, Lm!WholeReply, Lm!At

LEMMA SendStep ==
  ASSUME LlmBounds, LlmInv, NEW answer \in {"reply", "error", "xml"}, Lm!Send(answer)
  PROVE  LlmInv'
<1>1. /\ ReqOK(req, client, esc) /\ client \in Nat \ {0} /\ escaped \subseteq Models /\ req.step = "send"
      /\ UNCHANGED <<host, model, client, closed, caps, esc>>
  BY LlmParts DEF Lm!Send, Lm!At
<1>2. PICK a : a = IF req.sock = "shut" THEN "error" ELSE answer
  OBVIOUS
<1>3. a \in {"reply", "error", "xml"} /\ (a = "xml" => answer = "xml")
  BY <1>2
<1>4. /\ a = "reply" => req' = [req EXCEPT !.step = "read"] /\ escaped' = escaped
      /\ a = "error" => req' = [req EXCEPT !.step = "failed", !.sock = "none"] /\ escaped' = escaped
      /\ a = "xml" => /\ req' = [req EXCEPT !.step = "pick", !.raw = FALSE, !.sock = "none"]
                      /\ escaped' = escaped \cup {req.model}
  BY <1>2, <1>3 DEF Lm!Send, Lm!End
<1>5. CASE a = "reply"
  BY <1>1, <1>4, <1>5, Asking DEF ReqOK, Requests, ReqSteps, Asked
<1>6. CASE a = "error"
  BY <1>1, <1>4, <1>6, Ended, Asking
<1>7. CASE a = "xml"
  <2>1. req.sock = "open"
    BY <1>3, <1>7 DEF Lm!Send
  <2>2. esc # "done" /\ req.model \in Models
    BY <1>1, <2>1 DEF ReqOK, Requests
  <2>3. /\ req' \in Requests /\ req'.step = "pick" /\ req'.client = req.client /\ req'.sock = "none"
        /\ req'.got = req.got /\ req'.sent = req.sent /\ req'.over = req.over
    <3>1. req' = [req EXCEPT !.step = "pick", !.raw = FALSE, !.sock = "none"] /\ req \in Requests
      BY <1>1, <1>4, <1>7 DEF ReqOK
    <3>2. QED
      BY <3>1 DEF Requests, ReqSteps
  <2>4. ReqOK(req', client, esc)
    BY <1>1, <2>2, <2>3 DEF ReqOK, Asked
  <2>5. escaped' \subseteq Models
    BY <1>1, <1>4, <1>7, <2>2
  <2>6. QED
    BY <1>1, <2>4, <2>5, Asking
<1>8. QED
  BY <1>3, <1>5, <1>6, <1>7

\* The client is closed and another takes its place.
LEMMA Swapped ==
  ASSUME LlmInv, NEW e \in {"no", "done"}, Lm!Swap,
         e = "done" => req.step \notin {"none", "think", "pick"}
  PROVE  ReqOK(req', client + 1, e) /\ client' = client + 1 /\ client' \in Nat \ {0} /\ closed' = 1..(client' - 1)
<1>1. /\ ReqOK(req, client, esc) /\ client \in Nat \ {0} /\ closed = 1..(client - 1)
      /\ client' = client + 1 /\ closed' = closed \cup {client} /\ req' = Lm!Shut
  BY LlmParts DEF Lm!Swap
<1>2. closed' = 1..(client' - 1)
  BY <1>1
<1>3. req.client \in Nat /\ req.client < client + 1
  BY <1>1 DEF ReqOK, Requests
<1>4. CASE req.client = client /\ req.step \in {"send", "read"}
  <2>1. req' = [req EXCEPT !.sock = "shut"]
    BY <1>1, <1>4 DEF Lm!Shut, Lm!Connected
  <2>2. QED
    BY <1>1, <1>2, <1>3, <1>4, <2>1 DEF ReqOK, Requests, ReqSteps, Asked
<1>5. CASE ~(req.client = client /\ req.step \in {"send", "read"})
  <2>1. req' = req
    BY <1>1, <1>5 DEF Lm!Shut, Lm!Connected
  <2>2. QED
    BY <1>1, <1>2, <1>3, <1>5, <2>1 DEF ReqOK, Requests, ReqSteps, Asked
<1>6. QED
  BY <1>4, <1>5

LEMMA AbortStep ==
  ASSUME LlmBounds, LlmInv, Lm!Abort
  PROVE  LlmInv'
<1>1. /\ Lm!Swap /\ esc' = "done" /\ UNCHANGED <<host, model, caps, escaped>>
      /\ req.step \notin {"none", "think", "pick"}
  BY LlmParts DEF LlmBounds, Lm!Abort, ReqOK
<1>2. ReqOK(req', client', esc') /\ client' \in Nat \ {0} /\ closed' = 1..(client' - 1)
  BY <1>1, Swapped
<1>3. host' \in Hosts /\ model' \in Models /\ escaped' \subseteq Models
  BY <1>1, LlmParts
<1>4. CapsTyped' /\ Lm!CapsOfHost'
  BY <1>1, LlmParts DEF CapsTyped, Lm!CapsOfHost
<1>5. QED
  BY <1>1, <1>2, <1>3, <1>4 DEF LlmInv, LlmTyped, Sockets, Replies, EscInv, ReqOK, Lm!Connected, Lm!WholeReply, Lm!At

LEMMA ForgottenIs ==
  ASSUME LlmInv, caps' = [m \in Models |-> Lm!Unread]
  PROVE  CapsTyped' /\ Lm!CapsOfHost'
<1>1. PICK h : h = CHOOSE x \in Hosts : TRUE
  OBVIOUS
<1>2. h \in Hosts
  BY <1>1, LlmParts
<1>3. caps' = [m \in Models |-> [read |-> FALSE, known |-> FALSE, host |-> h]]
  BY <1>1 DEF Lm!Unread
<1>4. PICK r : r = [read |-> FALSE, known |-> FALSE, host |-> h]
  OBVIOUS
<1>5. r \in [read : BOOLEAN, known : BOOLEAN, host : Hosts] /\ r.read = FALSE
  BY <1>2, <1>4
<1>6. caps' = [m \in Models |-> r]
  BY <1>3, <1>4
<1>7. CapsTyped'
  BY <1>5, <1>6 DEF CapsTyped
<1>8. Lm!CapsOfHost'
  BY <1>5, <1>6 DEF Lm!CapsOfHost
<1>9. QED
  BY <1>7, <1>8

LEMMA SetHostStep ==
  ASSUME LlmBounds, LlmInv, NEW h \in Hosts, Lm!SetHost(h)
  PROVE  LlmInv'
<1>1. /\ Lm!Swap /\ esc = "no" /\ esc' = "no" /\ host' = h /\ UNCHANGED <<model, escaped>>
      /\ caps' = [m \in Models |-> Lm!Unread]
  BY DEF Lm!SetHost, Lm!Forgotten
<1>2. ReqOK(req', client', esc') /\ client' \in Nat \ {0} /\ closed' = 1..(client' - 1)
  BY <1>1, Swapped
<1>3. host' \in Hosts /\ model' \in Models /\ escaped' \subseteq Models
  BY <1>1, LlmParts
<1>4. CapsTyped' /\ Lm!CapsOfHost'
  BY <1>1, ForgottenIs
<1>5. QED
  BY <1>1, <1>2, <1>3, <1>4 DEF LlmInv, LlmTyped, Sockets, Replies, EscInv, ReqOK, Lm!Connected, Lm!WholeReply, Lm!At

\* Steps of other threads that leave the request as it is.
LEMMA BesideStep ==
  ASSUME LlmBounds, LlmInv, Lm!Cancel \/ Lm!Settle \/ (\E m \in Models : Lm!SetModel(m)) \/ UNCHANGED Lm!llmVars
  PROVE  LlmInv'
<1>1. /\ ReqOK(req, client, esc) /\ client \in Nat \ {0} /\ closed = 1..(client - 1) /\ escaped \subseteq Models
      /\ host \in Hosts /\ model \in Models /\ esc \in {"no", "set", "done"} /\ CapsTyped /\ Lm!CapsOfHost
  BY LlmParts
<1>2. UNCHANGED <<req, client, closed, escaped, host>> /\ model' \in Models
  BY <1>1 DEF Lm!Cancel, Lm!Settle, Lm!SetModel, Lm!llmVars
<1>3. CapsTyped' /\ Lm!CapsOfHost'
  <2>1. CASE caps' = caps
    BY <1>1, <1>2, <2>1 DEF CapsTyped, Lm!CapsOfHost
  <2>2. CASE \E m \in Models : Lm!SetModel(m)
    BY <2>2, ForgottenIs DEF Lm!SetModel
  <2>3. QED
    BY <2>1, <2>2 DEF Lm!Cancel, Lm!Settle, Lm!llmVars
<1>4. esc' \in {"no", "set", "done"} /\ (esc' = "done" => esc = "done") /\ (esc' # "no" => req.step # "none")
  BY <1>1 DEF Lm!Cancel, Lm!Settle, Lm!SetModel, Lm!llmVars, Lm!Connected, ReqOK
<1>5. ReqOK(req, client, esc')
  BY <1>1, <1>4 DEF ReqOK
<1>6. ReqOK(req', client', esc')
  BY <1>2, <1>5
<1>7. QED
  BY <1>1, <1>2, <1>3, <1>4, <1>6
     DEF LlmInv, LlmTyped, Sockets, Replies, EscInv, ReqOK, Lm!Connected, Lm!WholeReply, Lm!At

LEMMA LlmStep ==
  ASSUME LlmBounds, LlmInv, [Lm!Next]_Lm!llmVars
  PROVE  LlmInv'
BY AskingStep, ChatStep, ThinkStep, SendStep, AbortStep, SetHostStep, BesideStep DEF Lm!Next

LEMMA LlmInit ==
  ASSUME LlmBounds, Lm!Init
  PROVE  LlmInv
<1>1. PICK m, h : m = (CHOOSE x \in Models : TRUE) /\ h = (CHOOSE x \in Hosts : TRUE)
  OBVIOUS
<1>2. /\ host \in Hosts /\ model \in Models /\ client = 1 /\ closed = {} /\ escaped = {} /\ esc = "no"
      /\ m \in Models /\ h \in Hosts
      /\ req = [step |-> "none", client |-> 0, model |-> m, raw |-> TRUE, sock |-> "none", sent |-> 0, got |-> 0, over |-> FALSE,
                known |-> FALSE]
      /\ caps = [x \in Models |-> [read |-> FALSE, known |-> FALSE, host |-> h]]
  BY <1>1 DEF Lm!Init, Lm!NoReq, Lm!Unread
<1>3. ReqOK(req, client, esc)
  BY <1>2 DEF ReqOK, Requests, ReqSteps, Asked, LlmBounds
<1>4. CapsTyped /\ Lm!CapsOfHost
  BY <1>2 DEF CapsTyped, Lm!CapsOfHost
<1>5. closed = 1..(client - 1)
  BY <1>2
<1>6. QED
  BY <1>2, <1>3, <1>4, <1>5, LlmParts

\* Once Esc closed the client, no request of the turn has a socket open, whatever it was
\* doing: connecting, waiting for an answer, reading it (harness.py:2084, llm/http.py).
THEOREM EscCloses ==
  ASSUME LlmBounds
  PROVE  Lm!Spec => []Lm!EscReaches
<1>1. Lm!Init => LlmInv
  BY LlmInit
<1>2. LlmInv /\ [Lm!Next]_Lm!llmVars => LlmInv'
  BY LlmStep
<1>3. LlmInv => Lm!EscReaches
  BY LlmParts DEF ReqOK, Requests, Lm!EscReaches
<1>4. QED
  BY <1>1, <1>2, <1>3, PTL DEF Lm!Spec

\* A reply that is returned is all of what the model wrote: none that was cut off by a
\* closed client passes for one (llm/http.py, _raise_if_aborted).
THEOREM RepliesAreWhole ==
  ASSUME LlmBounds
  PROVE  Lm!Spec => []Lm!WholeReply
<1>1. Lm!Init => LlmInv
  BY LlmInit
<1>2. LlmInv /\ [Lm!Next]_Lm!llmVars => LlmInv'
  BY LlmStep
<1>3. LlmInv => Lm!WholeReply
  BY DEF LlmInv, Replies
<1>4. QED
  BY <1>1, <1>2, <1>3, PTL DEF Lm!Spec

\* What a request says about thinking goes by what this server answered
\* (llm/base.py, thinking_caps).
THEOREM CapsAreOfHost ==
  ASSUME LlmBounds
  PROVE  Lm!Spec => []Lm!CapsOfHost
<1>1. Lm!Init => LlmInv
  BY LlmInit
<1>2. LlmInv /\ [Lm!Next]_Lm!llmVars => LlmInv'
  BY LlmStep
<1>3. LlmInv => Lm!CapsOfHost
  BY DEF LlmInv
<1>4. QED
  BY <1>1, <1>2, <1>3, PTL DEF Lm!Spec

\* The request, its client, socket and counts keep their types.
THEOREM RequestTyping ==
  ASSUME LlmBounds
  PROVE  Lm!Spec => []Lm!TypeOK
<1>1. Lm!Init => LlmInv
  BY LlmInit
<1>2. LlmInv /\ [Lm!Next]_Lm!llmVars => LlmInv'
  BY LlmStep
<1>3. LlmInv => Lm!TypeOK
  BY DEF LlmInv, LlmTyped, Sockets, Requests, Lm!TypeOK, Lm!Connected
<1>4. QED
  BY <1>1, <1>2, <1>3, PTL DEF Lm!Spec
=============================================================================
