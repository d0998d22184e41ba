------------------------------- MODULE RunStore -------------------------------
(***************************************************************************)
(* The commands the model runs, in /run-mode new: their logs, the ones     *)
(* left running in the background, and what is said of how they ended      *)
(* (run_store.py, tools/shell.py, tools/builtin/run_command.py,            *)
(* stop_command.py, command_output.py).                                    *)
(*                                                                         *)
(* A command is the number of its log.  Calls are made one after another;  *)
(* processes end when they like.                                           *)
(***************************************************************************)
EXTENDS Naturals, FiniteSetsExt

CONSTANTS
  MaxRuns,         \* bound: commands of one session
  KEEP_LOGS, KEEP_BYTES, \* logs, and their bytes, one session keeps
  MAX_BACKGROUND,
  ExitsMidCall     \* momo may exit while a call waits for its command

VARIABLES
  momo,    \* runs, ended or killed
  lastRun, \* RunStore._n
  logs,    \* the logs on disk with the bytes in them
  status,  \* RunStore._meta: how each command ended
  procs,   \* RunStore._procs: the background commands
  alive,   \* the commands whose process lives
  current  \* the call that waits for its command

runVars == <<momo, lastRun, logs, status, procs, alive, current>>

Runs == 1..MaxRuns
Sizes == 1..2
NoCommand == [id |-> 0, background |-> FALSE]

Init ==
  /\ momo = "runs" /\ lastRun = 0 /\ logs = [r \in {} |-> 0] /\ status = [r \in Runs |-> "none"]
  /\ procs = {} /\ alive = {} /\ current = NoCommand

On == DOMAIN logs
Without(S) == [r \in On \ S |-> logs[r]]
Bytes(S) == MapThenSumSet(LAMBDA r : logs[r], S)

\* RunStore.running: the commands that ended get their status and are dropped.
Running(ps) == ps \cap alive
Told(ps) == [r \in Runs |-> IF r \in ps \ alive THEN "exit" ELSE status[r]]

Prunable(ps) == On \ ps

\* _prune: the oldest go until keep - 1 are left, then while there are too many bytes
\* and a newer log remains.
Pruned(ps) ==
  LET old == Prunable(ps)
      Over(r) == Cardinality({q \in old : q > r}) >= KEEP_LOGS - 1
      some == {r \in old : ~Over(r)}
      Heavy(r) == r # Max(some) /\ Bytes({q \in some : q >= r}) > KEEP_BYTES
  IN {r \in old : Over(r)} \cup {r \in some : Heavy(r)}

Idle == momo = "runs" /\ current.id = 0

-----------------------------------------------------------------------------
(* run_command *)

MayRun(background, ps) == background => Cardinality(ps) < MAX_BACKGROUND

\* _run_to_log: a command that cannot start leaves no log.
Start(background) ==
  LET ps == IF background THEN Running(procs) ELSE procs
      id == lastRun + 1
  IN /\ Idle /\ lastRun < MaxRuns /\ MayRun(background, ps)
     /\ status' = (IF background THEN Told(procs) ELSE status) /\ procs' = ps
     /\ lastRun' = id
     /\ \/ /\ logs' = Without(Pruned(ps)) /\ UNCHANGED <<alive, current>>
        \/ \E n \in Sizes :
             /\ logs' = [r \in (On \ Pruned(ps)) \cup {id} |-> IF r = id THEN n ELSE logs[r]]
             /\ alive' = alive \cup {id} /\ current' = [id |-> id, background |-> background]
     /\ UNCHANGED momo

Exit(r) == r \in alive /\ alive' = alive \ {r}
           /\ UNCHANGED <<momo, lastRun, logs, status, procs, current>>

Return(how) ==
  /\ momo = "runs" /\ current.id # 0 /\ current' = NoCommand
  /\ status' = [status EXCEPT ![current.id] = how] /\ UNCHANGED <<momo, lastRun, logs>>

\* It ended; or it had its time, wrote too much or the user interrupted, and it and all
\* it started is killed.
Ended   == current.id \notin alive /\ Return("exit") /\ UNCHANGED <<procs, alive>>
Stopped == current.id \in alive /\ Return("stopped")
           /\ alive' = alive \ {current.id} /\ UNCHANGED procs

\* _start_background: wait_for was seen, or the wait is over.
Ready ==
  /\ current.background /\ current.id \in alive
  /\ Return("running") /\ procs' = procs \cup {current.id} /\ UNCHANGED alive

-----------------------------------------------------------------------------
(* command_output, stop_command *)

Output(r) ==
  /\ Idle /\ r \in On /\ procs # Running(procs)
  /\ procs' = Running(procs) /\ status' = Told(procs)
  /\ UNCHANGED <<momo, lastRun, logs, alive, current>>

\* RunStore.stop: a command that has ended already was taken out before running() looks.
Stop(r) ==
  LET ps == procs \ {r}
  IN /\ Idle /\ r \in On /\ r \in procs
     /\ alive' = alive \ {r}
     /\ procs' = Running(ps)
     /\ status' = IF r \in alive THEN [Told(ps) EXCEPT ![r] = "stopped"] ELSE Told(ps)
     /\ UNCHANGED <<momo, lastRun, logs, current>>

-----------------------------------------------------------------------------
(* Sessions and exits *)

KillAll == alive' = alive \ procs

\* drop_run_logs, on /clear, /new and a loaded session.
Clear ==
  /\ Idle /\ KillAll /\ procs' = {} /\ logs' = [r \in {} |-> 0]
  /\ lastRun' = 0 /\ status' = [r \in Runs |-> "none"] /\ UNCHANGED <<momo, current>>

\* _stop_everything at exit; the thread that waits for a command ends with the process.
Leave ==
  /\ momo = "runs" /\ (current.id = 0 \/ ExitsMidCall) /\ momo' = "ended"
  /\ KillAll /\ procs' = {} /\ current' = NoCommand /\ UNCHANGED <<lastRun, logs, status>>
Killed ==
  /\ momo = "runs" /\ momo' = "killed" /\ current' = NoCommand /\ procs' = {}
  /\ UNCHANGED <<lastRun, logs, status, alive>>

\* The session again: _n carries on after the logs that are left.  Commands that
\* outlived a kill are not momo's any more.
Launch ==
  /\ momo # "runs" /\ momo' = "runs" /\ status' = [r \in Runs |-> "none"]
  /\ lastRun' = IF On = {} THEN 0 ELSE Max(On)
  /\ alive' = {} /\ UNCHANGED <<logs, procs, current>>

Next ==
  \/ Start(TRUE) \/ Start(FALSE) \/ Ended \/ Stopped \/ Ready
  \/ \E r \in Runs : Exit(r) \/ Output(r) \/ Stop(r)
  \/ Clear \/ Leave \/ Killed \/ Launch

Spec == Init /\ [][Next]_runVars

-----------------------------------------------------------------------------
(* Properties *)

TypeOK ==
  /\ On \subseteq Runs /\ procs \subseteq Runs /\ alive \subseteq Runs /\ lastRun \in 0..MaxRuns
  /\ current.id \in 0..lastRun /\ momo \in {"runs", "ended", "killed"}
  /\ \A r \in Runs : status[r] \in {"none", "running", "exit", "stopped"}

\* The log of a command that runs is there to look at, and so is that of the call in
\* progress: no pruning takes it (run_store.py:164).
LiveLogKept == procs \cup ({current.id} \ {0}) \subseteq On

\* No more background commands live than MAX_BACKGROUND, and when momo has exited none
\* does (run_store.py:243).
BackgroundBounded ==
  /\ Cardinality(procs) <= MAX_BACKGROUND
  /\ momo = "ended" => alive = {}

\* A log said to belong to a command that is still running does.
EndedIsSaid == \A r \in On : status[r] = "running" /\ momo = "runs" => r \in procs
=============================================================================
