-------------------------------- MODULE Editing --------------------------------
(***************************************************************************)
(* The edit tools of harness/editing.py: an edit that drops a definition   *)
(* while adding another is refused once and applied when the same call is  *)
(* sent again; edit_files writes every file or none.                       *)
(*                                                                         *)
(* A file is the set of the definitions in it.  old_string and new_string  *)
(* are sets of definitions: old_string matches when the file holds them.   *)
(***************************************************************************)
EXTENDS Integers, FiniteSets, Sequences, SequencesExt

CONSTANTS
  Files, Defs,
  Twins,        \* pairs of definitions that differ in their name only
  REFUSED_MAX,
  MaxCalls,     \* bound: the calls made
  Start,        \* what every file defines at first
  Strict        \* edit_files and what is appended later count in DropsNamed as well

VARIABLES
  disk,     \* file -> what it defines
  refused,  \* _REFUSED, oldest first: [path, call, removed]
  last,     \* the last call and its answer
  named,    \* history: file -> what a refusal named since the edit tools last changed the file
  made      \* calls made

editVars == <<disk, refused, last, named, made>>

Workdir == "."     \* the path in edit_files' keys
Call(tool, edits) == [tool |-> tool, edits |-> edits]
NoCall == Call("none", <<>>)
Texts == SUBSET Defs
Edits == {e \in [path : Files, old : Texts, new : Texts] : e.old # e.new}

Init == /\ disk = [f \in Files |-> Start] /\ refused = <<>> /\ last = [call |-> NoCall, answer |-> "none"]
        /\ named = [f \in Files |-> {}] /\ made = 0

-----------------------------------------------------------------------------
(* What a change does to the definitions *)

\* _find_edit: an old_string that is gone while new_string is there was applied before.
Found(text, e) ==
  IF e.old \subseteq text /\ (e.old = {} => text = {}) THEN "applies"
  ELSE IF e.old # {} /\ e.new # {} /\ e.new \subseteq text /\ ~(e.new \subseteq e.old) THEN "already"
  ELSE "missing"
After(text, e) == (text \ e.old) \cup e.new

\* anchor_loss: what a change removes while it adds something, a rename aside.
Lost(before, after, need_added) ==
  IF need_added /\ after \subseteq before THEN {}
  ELSE {g \in before \ after : \A n \in after \ before : <<g, n>> \notin Twins}

-----------------------------------------------------------------------------
(* _REFUSED *)

Keys == {<<refused[i].path, refused[i].call>> : i \in DOMAIN refused}
Without(r, path, call) == SelectSeq(r, LAMBDA k : ~(k.path = path /\ k.call = call))

\* _remember's bound: the oldest refusals go.
Trimmed(r) == IF Len(r) > REFUSED_MAX THEN SubSeq(r, Len(r) - REFUSED_MAX + 1, Len(r)) ELSE r
Remember(r, path, call) ==
  Trimmed(IF \E i \in DOMAIN r : r[i].path = path /\ r[i].call = call THEN r
          ELSE Append(r, [path |-> path, call |-> call]))

\* _forget_refusals, for the files a call wrote.
Forget(r, paths) == SelectSeq(r, LAMBDA k : k.path \notin paths)

-----------------------------------------------------------------------------
(* The tools *)

Answer(call, answer) == last' = [call |-> call, answer |-> answer] /\ made' = made + 1
Nothing(call, answer) == Answer(call, answer) /\ UNCHANGED <<disk, refused, named>>
Written(new, paths, r) ==
  /\ disk' = new /\ refused' = Forget(r, paths)
  /\ named' = [f \in Files |-> IF f \in paths THEN {} ELSE named[f]]

Refuse(call, keys, path, lost) ==
  /\ Answer(call, "refused") /\ UNCHANGED disk
  /\ refused' = FoldLeft(LAMBDA r, k : Remember(r, k[1], k[2]), refused, keys)
  /\ named' = [named EXCEPT ![path] = @ \cup lost]

\* edit_file, and replace_symbol: the definition and its new source.
EditFile(e) ==
  LET text == disk[e.path]
      after == After(text, e)
      call == Call("edit_file", <<e>>)
      again == <<e.path, call>> \in Keys
      lost == Lost(text, after, TRUE)
  IN IF Found(text, e) # "applies" \/ after = text THEN Nothing(call, "none")
     ELSE IF ~again /\ lost # {} THEN Refuse(call, <<<<e.path, call>>>>, e.path, lost)
     ELSE \/ /\ Answer(call, "applied")
             /\ Written([disk EXCEPT ![e.path] = after], {e.path}, Without(refused, e.path, call))
          \/ \* the file cannot be written
             /\ Answer(call, "failed") /\ refused' = Without(refused, e.path, call)
             /\ UNCHANGED <<disk, named>>

\* write_file: another rewrite that drops the same definitions confirms too.
WriteFile(f, content) ==
  LET text == disk[f]
      call == Call("write_file", <<[path |-> f, old |-> {}, new |-> content]>>)
      lost == Lost(text, content, FALSE)
      drops == Call("write_file drops", <<[path |-> f, old |-> lost, new |-> {}]>>)
      repeated == <<f, call>> \in Keys
      rest == Without(refused, f, call)
      r == IF repeated \/ lost = {} THEN rest ELSE Without(rest, f, drops)
  IN IF content = text THEN Nothing(call, "none")
     ELSE IF ~repeated /\ lost # {} /\ <<f, drops>> \notin Keys
          THEN Refuse(call, <<<<f, call>>, <<f, drops>>>>, f, lost)
     ELSE \/ Answer(call, "applied") /\ Written([disk EXCEPT ![f] = content], {f}, r)
          \/ Answer(call, "failed") /\ refused' = r /\ UNCHANGED <<disk, named>>

\* _write_all: the files written before the one that fails are put back.
Failed(before, after, done) == before

\* edit_files: each edit sees what the ones before it made of its file.
EditFiles(edits) ==
  LET call == Call("edit_files", edits)
      Step(t, e) == IF Found(t[e.path], e) = "applies" THEN [t EXCEPT ![e.path] = After(@, e)] ELSE t
      Upto(i) == FoldLeft(Step, disk, SubSeq(edits, 1, i))
      after == Upto(Len(edits))
      changed == {f \in Files : after[f] # disk[f]}
      lost == {f \in changed : Lost(disk[f], after[f], TRUE) # {}}
      again == <<Workdir, call>> \in Keys
      rest == Without(refused, Workdir, call)
  IN IF \/ \E i \in DOMAIN edits : Found(Upto(i - 1)[edits[i].path], edits[i]) = "missing"
        \/ changed = {}
     THEN Nothing(call, "none")
     ELSE IF ~again /\ lost # {}
     THEN \* the first file that loses something is the one named
          LET first == edits[CHOOSE i \in DOMAIN edits :
                               edits[i].path \in lost /\ \A j \in 1..(i - 1) : edits[j].path \notin lost].path
          IN Refuse(call, <<<<Workdir, call>>>>, first, Lost(disk[first], after[first], TRUE))
     ELSE \/ Answer(call, "applied") /\ Written(after, changed, rest)
          \/ \E done \in SUBSET changed : done # changed /\ Answer(call, "failed")
               /\ disk' = Failed(disk, after, done) /\ refused' = rest /\ UNCHANGED named

\* append_to_file, a command or the user: the refusals stay.
AppendTo(f, d) ==
  /\ d \notin disk[f] /\ disk' = [disk EXCEPT ![f] = @ \cup {d}]
  /\ named' = [named EXCEPT ![f] = IF Strict THEN {} ELSE @ \cup {d}]
  /\ Answer(NoCall, "none") /\ UNCHANGED refused

Pairs == {s \in Edits \X Edits : \A i \in 1..2 : Cardinality(s[i].old) = 1 /\ s[i].new # {}}

Next ==
  /\ made < MaxCalls
  /\ \/ \E e \in Edits : EditFile(e)
     \/ \E f \in Files, t \in Texts : WriteFile(f, t)
     \/ \E edits \in Pairs : EditFiles(edits)
     \/ \E f \in Files, d \in Defs : AppendTo(f, d)

Spec == Init /\ [][Next]_editVars

-----------------------------------------------------------------------------
(* Properties *)

TypeOK ==
  /\ disk \in [Files -> Texts] /\ Len(refused) <= REFUSED_MAX
  /\ Cardinality(Keys) = Len(refused)

\* What an edit of one file drops while it adds something, and what a rewrite drops, was named
\* in a refusal since the file was last changed, or appended after it: "such an edit is refused
\* before anything is written", and after a write "earlier refusals for it no longer describe it".
DropsNamedStep ==
  \A f \in Files :
    LET tool == last'.call.tool
    IN disk'[f] # disk[f] /\ last'.answer = "applied" /\ (Strict \/ tool # "edit_files")
         => Lost(disk[f], disk'[f], tool # "write_file") \subseteq named[f]
DropsNamed == [][DropsNamedStep]_editVars

\* "The same call sent again is applied", so meaning it costs one repeat.
RepeatAppliesStep ==
  last.answer = "refused" /\ last'.call = last.call => last'.answer # "refused"
RepeatApplies == [][RepeatAppliesStep]_editVars

\* A call that answers with an error changed no file.
AllOrNoneStep == last'.answer # "applied" /\ last'.call # NoCall => disk' = disk
AllOrNone == [][AllOrNoneStep]_editVars
=============================================================================
