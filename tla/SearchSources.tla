----------------------------- MODULE SearchSources -----------------------------
(***************************************************************************)
(* The sources web_search can ask (harness/search.py): the shipped ones,    *)
(* the user's files, and those the model adds for the session, which are    *)
(* only kept when the user agrees.  /search-sources is accepted while the   *)
(* model's call is under way.                                               *)
(*                                                                         *)
(* A spec is a number; 0 is a file that is not a valid source.              *)
(***************************************************************************)
EXTENDS Integers, Sequences, SequencesExt, FiniteSets, FiniteSetsExt

CONSTANTS
  Shipped, Names, Specs,      \* Shipped \subseteq Names; the model's and the user's specs
  MAX_SESSION_SOURCES,
  Unread,      \* whether the user may leave a file he wrote unread by momo
  MaxAdds, MaxEdits           \* bounds: the model's calls, the user's edits

VARIABLES
  userFiles,   \* ~/.momo/search_sources: name -> spec
  sources,     \* SourceRegistry.sources: name -> [origin, spec]
  adding,      \* the add_search_source call under way
  adds, edits

sourceVars == <<userFiles, sources, adding, adds, edits>>

NoAdd == [step |-> "none", name |-> "", spec |-> 0, save |-> FALSE]
Has(name) == name \in DOMAIN sources
From(origin) == {n \in DOMAIN sources : sources[n].origin = origin}
Of(origin, f) == [n \in DOMAIN f |-> [origin |-> origin, spec |-> f[n]]]
Only(f, S) == [n \in DOMAIN f \cap S |-> f[n]]
With(f, g) == [n \in DOMAIN f \cup DOMAIN g |-> IF n \in DOMAIN g THEN g[n] ELSE f[n]]

-----------------------------------------------------------------------------
(* SourceRegistry *)

\* Shipped specs have a number of their own; a file that does not validate is a warning.
ShippedSources == [n \in Shipped |-> [origin |-> "shipped", spec |-> -1]]
Valid(files) == {n \in DOMAIN files : files[n] # 0}
OnDisk(files) == With(ShippedSources, Of("user", Only(files, Valid(files))))

\* load: the session's sources stay, behind the ones on disk.
Load(files, have) ==
  LET session == Only(have, {n \in DOMAIN have : have[n].origin = "session"})
  IN With(session, OnDisk(files))

Taken(name) == Has(name) /\ sources[name].origin # "session"

AddSession(name, spec) ==
  IF Taken(name) \/ (~Has(name) /\ Cardinality(From("session")) >= MAX_SESSION_SOURCES)
  THEN sources
  ELSE With(sources, Of("session", [n \in {name} |-> spec]))

Savable(name) == Has(name) /\ sources[name].origin = "session"

Save(names) ==
  LET saved == {n \in names : Savable(n)}
      specs == [n \in saved |-> sources[n].spec]
  IN userFiles' = With(userFiles, specs) /\ sources' = With(sources, Of("user", specs))

AfterRemoval(files, name) == Load(files, Only(sources, DOMAIN sources \ {name}))

-----------------------------------------------------------------------------
(* add_search_source *)

\* The spec is valid and its name free: the dry run starts.
AddSearchSource(name, spec, save) ==
  /\ adding = NoAdd /\ adds < MaxAdds /\ adds' = adds + 1 /\ ~Taken(name)
  /\ adding' = [step |-> "dry_run", name |-> name, spec |-> spec, save |-> save]
  /\ UNCHANGED <<userFiles, sources, edits>>

\* It finds something, or the source is not added.
DryRun(found) ==
  /\ adding.step = "dry_run"
  /\ LET after == AddSession(adding.name, adding.spec)
         added == found /\ adding.name \in DOMAIN after /\ after[adding.name].origin = "session"
     IN /\ sources' = IF found THEN after ELSE sources
        /\ adding' = IF added /\ adding.save THEN [adding EXCEPT !.step = "added"] ELSE NoAdd
  /\ UNCHANGED <<userFiles, adds, edits>>

\* save_prompt shows what would be saved; a name removed since ends the call with an error.
SavePrompt ==
  /\ adding.step = "added"
  /\ adding' = IF Has(adding.name)
               THEN [adding EXCEPT !.step = "asking", !.spec = sources[adding.name].spec] ELSE NoAdd
  /\ UNCHANGED <<userFiles, sources, adds, edits>>

Answer(yes) ==
  /\ adding.step = "asking" /\ adding' = NoAdd
  /\ IF yes THEN Save({adding.name}) ELSE UNCHANGED <<userFiles, sources>>
  /\ UNCHANGED <<adds, edits>>

-----------------------------------------------------------------------------
(* /search-sources, the user's files, and a restart *)

SaveCommand(names) ==
  /\ names \cap From("session") # {} /\ Save(names) /\ UNCHANGED <<adding, adds, edits>>

\* rm: a source whose file is not named after it cannot be removed; here each one is.
RemoveSource(name) ==
  /\ Has(name) /\ sources[name].origin # "shipped"
  /\ sources[name].origin = "user" => name \in DOMAIN userFiles
  /\ userFiles' = IF sources[name].origin = "user"
                  THEN Only(userFiles, DOMAIN userFiles \ {name}) ELSE userFiles
  /\ sources' = AfterRemoval(userFiles', name)
  /\ UNCHANGED <<adding, adds, edits>>

Reload == sources' = Load(userFiles, sources) /\ UNCHANGED <<userFiles, adding, adds, edits>>

\* The user writes a file of his own, and has momo read it.
EditFile(name, spec) ==
  /\ edits < MaxEdits /\ edits' = edits + 1
  /\ userFiles' = With(userFiles, [n \in {name} |-> spec])
  /\ sources' = IF Unread THEN sources ELSE Load(userFiles', sources)
  /\ UNCHANGED <<adding, adds>>

Restart == /\ adding = NoAdd /\ sources' = OnDisk(userFiles)
           /\ UNCHANGED <<userFiles, adding, adds, edits>>

Init == userFiles = <<>> /\ sources = OnDisk(<<>>) /\ adding = NoAdd /\ adds = 0 /\ edits = 0

Next ==
  \/ \E name \in Names, spec \in Specs, save \in BOOLEAN : AddSearchSource(name, spec, save)
  \/ \E b \in BOOLEAN : DryRun(b) \/ Answer(b)
  \/ SavePrompt
  \/ \E names \in SUBSET Names \ {{}} : SaveCommand(names)
  \/ \E name \in Names : RemoveSource(name) \/ (\E spec \in Specs \cup {0} : EditFile(name, spec))
  \/ Reload
  \/ Restart

Spec == Init /\ [][Next]_sourceVars

-----------------------------------------------------------------------------
(* _merge: what several sources found, as one list *)

Fresh(url, seen) == url \notin seen

\* The proposed URLs in their order, each once, then the sources' results in turn.
Merge(proposed, perSource, n) ==
  LET Take(out, url) == IF Fresh(url, Range(out)) THEN Append(out, url) ELSE out
      first == FoldLeft(Take, <<>>, proposed)
      Column(i) == [s \in DOMAIN perSource |->
                      IF i <= Len(perSource[s]) THEN <<perSource[s][i]>> ELSE <<>>]
      longest == Max({0} \cup {Len(perSource[s]) : s \in DOMAIN perSource})
      found == FlattenSeq([i \in 1..longest |-> FlattenSeq(Column(i))])
      TakeFound(out, url) == IF Len(out) - Len(first) < n THEN Take(out, url) ELSE out
  IN FoldLeft(TakeFound, first, found)

-----------------------------------------------------------------------------
(* Properties *)

TypeOK ==
  /\ DOMAIN userFiles \subseteq Names /\ DOMAIN sources \subseteq Names
  /\ \A n \in DOMAIN sources : sources[n].origin \in {"shipped", "user", "session"}
  /\ adding.step # "none" => adding.name \in Names

\* Every shipped source is there whatever was added, saved, removed or hidden by a file ("a user
\* file may have been hiding a shipped source"), and the session's stay few.
ShippedStays ==
  /\ \A n \in Shipped : Has(n) /\ sources[n].origin # "session"
  /\ Cardinality(From("session")) <= MAX_SESSION_SOURCES

\* A source of momo's or the user's never becomes one of the model's, whoever acts in between.
NeverTakenOverStep ==
  \A n \in DOMAIN sources \cap DOMAIN sources' :
    sources'[n].origin = "session" => sources[n].origin = "session"
NeverTakenOver == [][NeverTakenOverStep]_sourceVars

\* What a yes writes is what the prompt showed, though commands ran while it waited; and a file of
\* the user's is only written over by a yes or a save of a source momo knows under that name.
SavedAsShownStep ==
  /\ adding.step = "asking" /\ adding'.step = "none" /\ userFiles' # userFiles
       => userFiles' = With(userFiles, [n \in {adding.name} |-> adding.spec])
  /\ edits' = edits => \A n \in DOMAIN userFiles \cap DOMAIN userFiles' :
                         userFiles'[n] # userFiles[n] => userFiles[n] = 0
SavedAsShown == [][SavedAsShownStep]_sourceVars

\* A merged list has no page twice, starts with the proposed ones, holds at most n others, and a
\* source is only left out where enough was found.
MergedFairly(proposed, perSource, n) ==
  LET out == Merge(proposed, perSource, n)
      extra == Len(out) - Cardinality(Range(proposed))
      all == UNION {Range(perSource[s]) : s \in DOMAIN perSource}
  IN /\ \A i, j \in DOMAIN out : out[i] = out[j] => i = j
     /\ Range(SubSeq(out, 1, Len(out) - extra)) = Range(proposed)
     /\ extra <= n /\ (extra < n => all \subseteq Range(out))
=============================================================================
