------------------------------- MODULE Sessions -------------------------------
(***************************************************************************)
(* The conversations of one user: the open session, its file, what prefs   *)
(* remember for the next launch, and the recap the idle watcher writes     *)
(* while the user is away (session.py, the session part of harness.py and  *)
(* controller.py, main.py).                                                *)
(*                                                                         *)
(* A turn of the conversation is a number; a session is the number of its  *)
(* timestamp, so that a higher one is newer.  A file is written through a  *)
(* rename and is therefore one step.                                       *)
(***************************************************************************)
EXTENDS Naturals, SequencesExt

CONSTANTS
  Folders,             \* the workspaces
  MaxTurns, MaxStamps  \* bounds: turns sent, sessions begun

VARIABLES
  up,      \* momo runs
  stamp,   \* Harness._ts
  said,    \* the turns in Harness.messages
  folder,  \* Harness.workdir
  sending, \* a turn runs
  recap,   \* the recap in flight: the turns it tells of, and whether
           \* Controller._activity_gen is still what it was
  lines,   \* Harness.momo_lines: the turns they tell of
  file,    \* the session files
  prefs,   \* last_session, last_workdir, workspace_sessions
  sent, stamps, \* turns sent and sessions begun so far
  ended,   \* turns that came to their end
  cleared, \* turns the user cleared or deleted
  dropped  \* turns a retry replaced

vars == <<up, stamp, said, folder, sending, recap, lines, file, prefs, sent, stamps,
          ended, cleared, dropped>>

Stamps == 1..MaxStamps
NoFile == [said |-> <<>>, folder |-> "none", lines |-> {}]
NoRecap == [of |-> {}, away |-> FALSE, on |-> FALSE]

Init ==
  /\ up = FALSE /\ stamp = 0 /\ said = <<>> /\ folder = "none" /\ sending = FALSE
  /\ recap = NoRecap /\ lines = {}
  /\ file = [s \in Stamps |-> NoFile]
  /\ prefs = [last |-> 0, folder |-> "none", per |-> [f \in Folders |-> 0]]
  /\ sent = 0 /\ stamps = 0 /\ ended = {} /\ cleared = {} /\ dropped = {}

Saved(s) == s # 0 /\ file[s].said # <<>>

\* Harness._autosave: a session without a conversation is not written.
Autosave(talk, tells) ==
  file' = IF talk = <<>> THEN file
          ELSE [file EXCEPT ![stamp] = [said |-> talk, folder |-> folder, lines |-> tells]]

\* session.mark_current
MarkCurrent(s, f) ==
  prefs' = [last |-> s, folder |-> f,
            per |-> [g \in Folders |-> IF g = f THEN s
                                       ELSE IF prefs.per[g] = s THEN 0 ELSE prefs.per[g]]]

Idle == up /\ ~sending

\* A line the user submits: Controller._note_activity.  The other actions of the
\* user are commands, submitted the same way.
Active == recap' = [recap EXCEPT !.away = FALSE]

-----------------------------------------------------------------------------
(* Turns *)

Begin ==
  /\ Idle /\ sent < MaxTurns
  /\ sent' = sent + 1 /\ said' = Append(said, sent + 1) /\ sending' = TRUE /\ Active
  /\ UNCHANGED <<up, stamp, folder, lines, file, prefs, stamps, ended, cleared, dropped>>

End ==
  /\ sending /\ sending' = FALSE /\ Autosave(said, lines) /\ ended' = ended \cup Range(said)
  /\ UNCHANGED <<up, stamp, said, folder, recap, lines, prefs, sent, stamps, cleared, dropped>>

\* retry_last and edit_last, from the page: truncate_at_last_user, then send.  They
\* are no activity to the watcher.
Retry ==
  /\ Idle /\ said # <<>> /\ sent < MaxTurns
  /\ dropped' = dropped \cup {Last(said)}
  /\ Autosave(Front(said), lines)
  /\ sent' = sent + 1 /\ said' = Append(Front(said), sent + 1) /\ sending' = TRUE
  /\ UNCHANGED <<up, stamp, folder, recap, lines, prefs, stamps, ended, cleared>>

-----------------------------------------------------------------------------
(* Sessions *)

Fresh == stamps < MaxStamps /\ stamps' = stamps + 1

New ==
  /\ Idle /\ Fresh /\ Active
  /\ Autosave(said, lines)
  /\ stamp' = stamps + 1 /\ said' = <<>> /\ lines' = {}
  /\ MarkCurrent(stamps + 1, folder)
  /\ UNCHANGED <<up, folder, sending, sent, ended, cleared, dropped>>

\* load_session
Load(s) ==
  /\ Idle /\ Saved(s) /\ Active
  /\ IF s # stamp THEN Autosave(said, lines) ELSE UNCHANGED file
  /\ stamp' = s /\ said' = file[s].said /\ lines' = file[s].lines /\ folder' = file[s].folder
  /\ MarkCurrent(s, file[s].folder)
  /\ UNCHANGED <<up, sending, sent, stamps, ended, cleared, dropped>>

\* session.forget
Forget(s) == file' = [file EXCEPT ![s] = NoFile]

\* clear_conversation
Clear ==
  /\ Idle /\ Active /\ said # <<>>
  /\ cleared' = cleared \cup Range(said)
  /\ said' = <<>> /\ lines' = {} /\ Forget(stamp) /\ MarkCurrent(stamp, folder)
  /\ UNCHANGED <<up, stamp, folder, sending, sent, stamps, ended, dropped>>

\* /workspace: nothing is saved before the next turn ends.
Move(f) ==
  /\ Idle /\ Active /\ f # folder /\ sent < MaxTurns
  /\ folder' = f /\ MarkCurrent(stamp, f)
  /\ UNCHANGED <<up, stamp, said, sending, lines, file, sent, stamps, ended, cleared, dropped>>

\* The page's /api/sessions/delete, also while a turn runs.
Delete(s) ==
  /\ up /\ s # stamp /\ Saved(s)
  /\ cleared' = cleared \cup Range(file[s].said) /\ file' = [file EXCEPT ![s] = NoFile]
  /\ UNCHANGED <<up, stamp, said, folder, sending, recap, lines, prefs, sent, stamps, ended, dropped>>

-----------------------------------------------------------------------------
(* The idle watcher *)

RecapDue == said # <<>> /\ Range(said) \ lines # {}
BeginRecap ==
  /\ Idle /\ ~recap.on /\ RecapDue
  /\ recap' = [of |-> Range(said) \ lines, away |-> TRUE, on |-> TRUE]
  /\ UNCHANGED <<up, stamp, said, folder, sending, lines, file, prefs, sent, stamps,
                 ended, cleared, dropped>>

StillAway == recap.away /\ ~sending

\* The call may give no lines.
EndRecap(tells) ==
  /\ up /\ recap.on /\ recap' = NoRecap
  /\ IF StillAway THEN LET now == lines \cup tells IN lines' = now /\ Autosave(said, now)
                  ELSE UNCHANGED <<lines, file>>
  /\ UNCHANGED <<up, stamp, said, folder, sending, prefs, sent, stamps, ended, cleared, dropped>>

-----------------------------------------------------------------------------
(* Ending and launching *)

Down == up' = FALSE /\ stamp' = 0 /\ said' = <<>> /\ lines' = {} /\ folder' = "none"
        /\ sending' = FALSE /\ recap' = NoRecap
Quit == /\ Idle /\ Autosave(said, lines) /\ Down
        /\ UNCHANGED <<prefs, sent, stamps, ended, cleared, dropped>>
Crash == /\ up /\ Down /\ UNCHANGED <<file, prefs, sent, stamps, ended, cleared, dropped>>

Newest(f) == LET all == {s \in Stamps : Saved(s) /\ (f = "none" \/ file[s].folder = f)}
             IN IF all = {} THEN 0 ELSE Max(all)
Usable(s, f) == IF Saved(s) /\ (f = "none" \/ file[s].folder = f) THEN s ELSE 0

\* session.restore_target; f is --workspace, "none" without one.
Target(f) ==
  IF f = "none" THEN IF prefs.last # 0 THEN Usable(prefs.last, f) ELSE Newest(f)
  ELSE IF prefs.per[f] # 0 THEN Usable(prefs.per[f], f) ELSE Newest(f)

Launch(f) ==
  LET s == Target(f)
      where == IF f # "none" THEN f ELSE IF prefs.folder # "none" THEN prefs.folder
               ELSE CHOOSE g \in Folders : TRUE
  IN /\ ~up /\ up' = TRUE /\ Fresh /\ folder' = where
     /\ IF s = 0 THEN stamp' = stamps + 1 /\ UNCHANGED <<said, lines>>
        ELSE stamp' = s /\ said' = file[s].said /\ lines' = file[s].lines
     /\ MarkCurrent(stamp', where)
     /\ UNCHANGED <<sending, recap, file, sent, ended, cleared, dropped>>

Next ==
  \/ Begin \/ End \/ Retry \/ New \/ Clear \/ BeginRecap \/ Quit \/ Crash
  \/ \E s \in Stamps : Load(s) \/ Delete(s)
  \/ \E f \in Folders : Move(f)
  \/ \E f \in Folders \cup {"none"} : Launch(f)
  \/ \E tells \in {{}, recap.of} : EndRecap(tells)

Spec == Init /\ [][Next]_vars

-----------------------------------------------------------------------------
(* Properties *)

TypeOK ==
  /\ stamp \in 0..MaxStamps /\ Range(said) \subseteq 1..sent /\ lines \subseteq 1..sent
  /\ folder \in Folders \cup {"none"} /\ (up <=> folder # "none")
  /\ \A s \in Stamps : file[s].folder \in Folders \cup {"none"}

\* What the user cleared or deleted is in no file, so no launch and no /session brings
\* it back: "a cleared session left on disk came back with its plan on the next
\* launch" (harness.py:3629).
ClearedStaysCleared ==
  \A s \in Stamps : cleared \cap (Range(file[s].said) \cup file[s].lines) = {}

\* A turn that came to its end is in the open conversation or in a file until the
\* user clears, deletes or retries it, whatever session is opened, wherever it is
\* moved and whenever the process ends (harness.py:3512, 3663).
NoTurnLost ==
  \A t \in ended \ (cleared \cup dropped) :
    t \in Range(said) \/ \E s \in Stamps : t \in Range(file[s].said)

\* A recap is kept only with the conversation it tells of: one that comes back after
\* the user opened another session is thrown away (controller.py:307).
RecapBelongs ==
  /\ lines \subseteq Range(said) \cup dropped
  /\ \A s \in Stamps : file[s].lines \subseteq Range(file[s].said) \cup dropped

\* The next launch finds the session in use in its workspace, and no session is the
\* last one of two workspaces (session.py:151).
OpenIsRemembered ==
  /\ up => prefs.last = stamp /\ prefs.folder = folder /\ prefs.per[folder] = stamp
  /\ \A f, g \in Folders : prefs.per[f] = prefs.per[g] /\ prefs.per[f] # 0 => f = g
=============================================================================
