----------------------------- MODULE IgnoreRules ----------------------------
(***************************************************************************)
(* The code index's file filter (ignore_rules.py): lines in .gitignore     *)
(* syntax, compiled to patterns over paths from the project root, where    *)
(* the last one that matches decides; and the filter a project starts      *)
(* with, put together from its .gitignore files, those of a folder         *)
(* rewritten to lines of the root.                                         *)
(*                                                                         *)
(* A path is the sequence of its names.  A line is its flags and the       *)
(* segments between its slashes: a name, "*" for any one name, "**".       *)
(***************************************************************************)
EXTENDS Integers, Sequences, FiniteSets, SequencesExt, FiniteSetsExt

CONSTANTS Names,     \* of files and folders
          Always     \* _ALWAYS: .git, .momo

(***************************************************************************)
(* A line: parse_line, _compile.                                           *)
(***************************************************************************)
Line(negate, dirOnly, lead, segs) == [negate |-> negate, dirOnly |-> dirOnly, lead |-> lead, segs |-> segs]
\* A "/" at the start or in the middle: from the root.
Anchored(line) == line.lead \/ Len(line.segs) > 1

RECURSIVE Fits(_, _)
\* The segments against a path; "**" is any number of folders, at the end also none.
Fits(segs, path) ==
    IF segs = << >> THEN path = << >>
    ELSE IF Head(segs) = "**" THEN \E k \in 0 .. Len(path) : Fits(Tail(segs), SubSeq(path, k + 1, Len(path)))
    ELSE path # << >> /\ Head(segs) \in {"*", Head(path)} /\ Fits(Tail(segs), Tail(path))
\* _compile: a "**" at the start is "(?:.*/)?", and nothing but a name can follow that.
Compiled(line, path) ==
    LET segs == line.segs
    IN ~(segs[1] = "**" /\ (Len(segs) = 1 \/ segs[2] = "**"))
       /\ Fits(IF Anchored(line) THEN segs ELSE <<"**">> \o segs, path)

(***************************************************************************)
(* Rules.                                                                  *)
(***************************************************************************)
Applies(line, path, isDir) == (line.dirOnly => isDir) /\ Compiled(line, path)
\* _match: the last matching rule wins.
Match(rules, path, isDir) ==
    LET hits == {i \in DOMAIN rules : Applies(rules[i], path, isDir)}
    IN hits # {} /\ ~rules[Max(hits)].negate
DirExcluded(rules, path) == Last(path) \in Always \/ Match(rules, path, TRUE)
FileExcluded(rules, path) == Last(path) \in Always \/ Match(rules, path, FALSE)
Parents(path) == {SubSeq(path, 1, k) : k \in 1 .. Len(path) - 1}
\* excluded: the full check, for a path that no walk has come to.
Excluded(rules, path, isDir) ==
    \/ ToSet(path) \cap Always # {}
    \/ \E p \in Parents(path) : Match(rules, p, TRUE)
    \/ Match(rules, path, isDir)

(***************************************************************************)
(* The first filter.                                                       *)
(***************************************************************************)
\* _rewrite_nested
Rewritten(line, prefix) ==
    [line EXCEPT !.lead = TRUE, !.segs = prefix \o (IF Anchored(line) THEN @ ELSE <<"**">> \o @)]
\* seed_text: the rules so far decide which folders are searched for more; a folder comes before its own.
Seed(base, ignores, dirs) ==
    LET Visit(rules, dir) ==
            IF \E p \in Parents(dir) \cup {dir} : DirExcluded(rules, p) THEN rules
            ELSE rules \o [i \in DOMAIN ignores[dir] |-> Rewritten(ignores[dir][i], dir)]
    IN FoldLeft(Visit, base \o ignores[<< >>], dirs)

(***************************************************************************)
(* What git does with the same files (gitignore(5)), and what is stated.   *)
(***************************************************************************)
RECURSIVE GitFits(_, _)
GitFits(segs, path) ==
    IF segs = << >> THEN path = << >>
    ELSE IF segs = <<"**">> THEN path # << >>
    ELSE IF Head(segs) = "**" THEN \E k \in 0 .. Len(path) : GitFits(Tail(segs), SubSeq(path, k + 1, Len(path)))
    ELSE path # << >> /\ Head(segs) \in {"*", Head(path)} /\ GitFits(Tail(segs), Tail(path))
\* A .gitignore's line says nothing of what is outside its folder; of several files the one nearest the
\* path decides, of its lines the last.
GitLine(line, dir, path, isDir) ==
    /\ Len(path) > Len(dir) /\ SubSeq(path, 1, Len(dir)) = dir /\ (line.dirOnly => isDir)
    /\ LET rel == SubSeq(path, Len(dir) + 1, Len(path))
       IN GitFits(IF Anchored(line) THEN line.segs ELSE <<"**">> \o line.segs, rel)
GitSays(ignores, dir, path, isDir) == {i \in DOMAIN ignores[dir] : GitLine(ignores[dir][i], dir, path, isDir)}
GitMatch(ignores, path, isDir) ==
    LET speak == {d \in DOMAIN ignores : GitSays(ignores, d, path, isDir) # {}}
        near == CHOOSE d \in speak : \A e \in speak : Len(e) <= Len(d)
    IN speak # {} /\ ~ignores[near][Max(GitSays(ignores, near, path, isDir))].negate
GitIgnored(ignores, path, isDir) ==
    (\E p \in Parents(path) : GitMatch(ignores, p, TRUE)) \/ GitMatch(ignores, path, isDir)

\* The walk that fills the index, which asks of a folder and of a file only what their own names say, and
\* the full check that a changed file gets agree: the same files are indexed on both ways.
WaysAgree(rules, path) ==
    Excluded(rules, path, FALSE) <=> FileExcluded(rules, path) \/ \E p \in Parents(path) : DirExcluded(rules, p)

\* The filter a project starts with leaves out the files that git leaves out, whichever .gitignore files,
\* of the root and of the folders, say so.
SeedIsGit(ignores, dirs, path) ==
    ToSet(path) \cap Always = {} =>
    (Excluded(Seed(<< >>, ignores, dirs), path, FALSE) <=> GitIgnored(ignores, path, FALSE))
=============================================================================
