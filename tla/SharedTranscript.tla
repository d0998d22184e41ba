-------------------------- MODULE SharedTranscript --------------------------
(***************************************************************************)
(* What the event bus promises: one conversation, shown by every window.   *)
(* A line said while a window is there is added to what it shows, in the   *)
(* order the lines were said; a window that joins starts with the last     *)
(* lines; a cleared conversation is cleared everywhere.                    *)
(***************************************************************************)
EXTENDS Naturals, Sequences, SequencesExt, FiniteSetsExt

CONSTANTS
  Windows,
  Texts,
  Most      \* lines a joining window is sure to be shown

VARIABLES
  said,      \* the conversation
  there,     \* the windows that take part
  shows,     \* what each shows, once it has caught up
  clearing   \* a clear has begun: a window that joins may miss older lines

vars == <<said, there, shows, clearing>>

Init ==
  /\ said = <<>>
  /\ there \subseteq Windows
  /\ shows = [w \in Windows |-> <<>>]
  /\ clearing = FALSE

Say(l) ==
  /\ said' = Append(said, l)
  /\ shows' = [w \in Windows |-> IF w \in there THEN Append(shows[w], l) ELSE shows[w]]
  /\ UNCHANGED <<there, clearing>>

BeginClear ==
  /\ clearing' = TRUE
  /\ UNCHANGED <<said, there, shows>>

Clear ==
  /\ clearing
  /\ clearing' = FALSE
  /\ said' = <<>>
  /\ shows' = [w \in Windows |-> <<>>]
  /\ UNCHANGED there

Join(w) ==
  /\ w \notin there
  /\ there' = there \cup {w}
  /\ \E s \in Suffixes(said) :
       /\ clearing \/ Len(s) >= Min({Most, Len(said)})
       /\ shows' = [shows EXCEPT ![w] = s]
  /\ UNCHANGED <<said, clearing>>

Leave(w) ==
  /\ w \in there
  /\ there' = there \ {w}
  /\ shows' = [shows EXCEPT ![w] = <<>>]
  /\ UNCHANGED <<said, clearing>>

Next ==
  \/ \E l \in Texts : Say(l)
  \/ BeginClear
  \/ Clear
  \/ \E w \in Windows : Join(w) \/ Leave(w)

Spec == Init /\ [][Next]_vars

=============================================================================
