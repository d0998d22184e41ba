------------------------- MODULE StoryRunnerProofs --------------------------
(* Proofs about stories plans, for every bound and every plan of StoryRunner. *)
EXTENDS StoryRunner, Positions, TLAPS

-----------------------------------------------------------------------------
(* What the invariants say *)

\* The stories of a phase that may have the numbers to m.
IsStories(f, m) ==
    /\ f = [i \in DOMAIN f |-> f[i]] /\ DOMAIN f \subseteq 1..m
    /\ \A i \in DOMAIN f : f[i] \in StorySet

\* The stories that story s of phase n was built on are of earlier phases.
RefsBack(n, s) == \A r \in s.refs : r[1] \in 1..(n - 1)

\* What is done in f, the stories of phase n, has its changes among b.
InProject(n, f, b) == DraftUndo \/ \A i \in WithStatus(f, "done") : <<n, i>> \in b

\* The story in progress is the only one, and what it depends on is done.
RunsAlone(f) ==
    \A i \in WithStatus(f, "in_progress") :
      /\ WithStatus(f, "in_progress") = {i}
      /\ NewestFirst => f[i].deps \subseteq WithStatus(f, "done")

\* The stories f of phase n, which has numbers to m, where b are the changes in
\* the project.
StoriesOK(m, n, f, b) ==
    /\ IsStories(f, m) /\ RunsAlone(f) /\ InProject(n, f, b)
    /\ \A i \in DOMAIN f : RefsBack(n, f[i])

\* What a writing pass of phase n adds to: nothing of it runs.
BaseOK(m, n, p, b) ==
    \/ p = Whole
    \/ /\ p = Amend(p.base, p.replaces, p.remap, p.blocks, p.empty)
       /\ p.replaces \subseteq DOMAIN p.base
       /\ StoriesOK(m, n, p.base, b) /\ WithStatus(p.base, "in_progress") = {}

\* The set of phase n: a draft that waits for approval does not run.
SetOK(m, n, t, b) ==
    /\ t = [stories |-> t.stories, approved |-> t.approved, amend |-> t.amend]
    /\ t.approved \in BOOLEAN
    /\ StoriesOK(m, n, t.stories, b)
    /\ WithStatus(t.stories, "in_progress") # {} => t.approved
    /\ BaseOK(m, n, t.amend, b)

SetsInv ==
    /\ sets = [n \in 1..Phases |-> sets[n]]
    /\ \A n \in 1..Phases : SetOK(room.stories[n], n, sets[n], built)

\* A phase in progress has none before it open, and a phase that is done has
\* no story left.
PhaseInv ==
    /\ phase \in [1..Phases -> {"pending", "in_progress", "done"}]
    /\ \A m, n \in 1..Phases : phase[n] = "in_progress" /\ m < n => phase[m] = "done"
    /\ \A n \in 1..Phases : phase[n] = "done" => AllDone(Stories(n))

WorkInv ==
    /\ pc \in {"rest", "next", "story", "writing", "passed", "over"}
    /\ pc \in {"next", "story", "writing"} =>
         Current \in 1..Phases /\ phase[Current] = "in_progress"
    /\ pc = "story" <=> cur # 0
    /\ pc = "story" => cur \in WithStatus(Stories(Current), "in_progress")
    /\ pc = "writing" => BaseOK(room.stories[Current], Current, pass, built)

CountInv ==
    /\ room \in Plans
    /\ refused \in 0..(MaxRefusals - 1) /\ fixes \in 0..GateFixes /\ reverified \in BOOLEAN
    /\ built \subseteq UNION {{<<n, i>> : i \in 1..room.stories[n]} : n \in 1..Phases}

StoryInv == CountInv /\ PhaseInv /\ SetsInv /\ WorkInv

-----------------------------------------------------------------------------
(* Numbers, and what is built on what *)

LEMMA MinIs ==
  ASSUME NEW a \in Int, NEW b \in Int, NEW S \in SUBSET (a..b), S # {}
  PROVE  Min(S) \in S /\ \A j \in S : Min(S) <= j
<1>1. \E l \in S : \A j \in S : l <= j
  BY HasLeast
<1>2. QED
  BY <1>1 DEF Min

LEMMA Bounds ==
  /\ MaxAttempts \in Nat /\ GateFixes \in Nat /\ MaxNew \in Nat
  /\ 0 \in 0..(MaxRefusals - 1) /\ 0 \in 0..GateFixes
BY StoryAssumption

LEMMA Rooms ==
  ASSUME room \in Plans
  PROVE  Phases \in Nat /\ \A n \in 1..Phases : room.stories[n] \in Nat
BY StoryAssumption DEF Phases

\* What goes back is U with some of what was done.
LEMMA BuiltOnIs ==
  ASSUME NEW U, NEW pairs
  PROVE  /\ U \subseteq BuiltOn(U, pairs)
         /\ BuiltOn(U, pairs) \subseteq U \cup {e[1] : e \in pairs}
BY DEF BuiltOn

LEMMA DependentsAre ==
  ASSUME NEW ss, NEW i \in DOMAIN ss
  PROVE  Dependents(ss, i) \subseteq DOMAIN ss
<1> DEFINE pairs == {e \in WithStatus(ss, "pending") \X DOMAIN ss : e[2] \in ss[e[1]].deps}
<1>1. Dependents(ss, i) = BuiltOn({i}, pairs) \ {i}
  BY DEF Dependents
<1>2. \A e \in pairs : e[1] \in DOMAIN ss
  BY DEF WithStatus
<1> HIDE DEF pairs
<1>3. QED
  BY <1>1, <1>2, BuiltOnIs

\* The phase that runs where the phases are as ph says: the first one open.
First(ph, m) ==
  LET doing == {n \in 1..m : ph[n] = "in_progress"}
      open  == {n \in 1..m : ph[n] # "done"}
  IN  IF doing # {} THEN Min(doing) ELSE IF open # {} THEN Min(open) ELSE 0

LEMMA FirstIs ==
  ASSUME NEW m \in Nat, NEW ph \in [1..m -> {"pending", "in_progress", "done"}],
         \A i, n \in 1..m : ph[n] = "in_progress" /\ i < n => ph[i] = "done"
  PROVE  /\ First(ph, m) \in 0..m
         /\ First(ph, m) = 0 <=> \A n \in 1..m : ph[n] = "done"
         /\ First(ph, m) # 0 =>
              /\ First(ph, m) \in 1..m /\ ph[First(ph, m)] # "done"
              /\ \A i \in 1..m : i < First(ph, m) => ph[i] = "done"
         /\ \A n \in 1..m : ph[n] = "in_progress" => First(ph, m) = n
<1> DEFINE doing == {n \in 1..m : ph[n] = "in_progress"}
           open == {n \in 1..m : ph[n] # "done"}
<1>1. 1 \in Int /\ m \in Int
  OBVIOUS
<1>2. doing \in SUBSET (1..m) /\ open \in SUBSET (1..m) /\ doing \subseteq open
  OBVIOUS
<1> DEFINE c == First(ph, m)
<1>3. c = IF doing # {} THEN Min(doing) ELSE IF open # {} THEN Min(open) ELSE 0
  BY DEF First
<1>4. \A n \in 1..m : /\ n \in doing <=> ph[n] = "in_progress"
                      /\ n \in open <=> ph[n] # "done"
  OBVIOUS
<1> HIDE DEF doing, open, c
<1>5. doing # {} => Min(doing) \in doing
  BY <1>1, <1>2, MinIs
<1>6. open # {} => Min(open) \in open /\ \A j \in open : Min(open) <= j
  BY <1>1, <1>2, MinIs
<1>7. \A i, n \in 1..m : ph[n] = "in_progress" /\ i < n => ph[i] = "done"
  OBVIOUS
<1>8. ASSUME NEW n \in 1..m, ph[n] = "in_progress" PROVE c = n
  <2>1. n \in doing /\ c \in doing
    BY <1>3, <1>4, <1>5, <1>8
  <2>2. c \in 1..m /\ ph[c] = "in_progress"
    BY <2>1, <1>2, <1>4
  <2>3. c \in Int /\ n \in Int
    BY <2>2, <1>1, <1>8
  <2>4. ~(n < c) /\ ~(c < n)
    BY <1>7, <1>8, <2>2
  <2>5. QED
    BY <2>3, <2>4
<1>9. ASSUME c # 0
      PROVE  /\ c \in 1..m /\ ph[c] # "done"
             /\ \A i \in 1..m : i < c => ph[i] = "done"
  <2>1. CASE doing # {}
    <3>1. c \in 1..m /\ ph[c] = "in_progress"
      BY <1>2, <1>3, <1>4, <1>5, <2>1
    <3>2. QED
      BY <3>1, <1>7
  <2>2. CASE doing = {}
    <3>1. open # {} /\ c = Min(open)
      BY <1>3, <1>9, <2>2
    <3>2. c \in 1..m /\ ph[c] # "done"
      BY <1>2, <1>4, <1>6, <3>1
    <3>3. ASSUME NEW i \in 1..m, i < c PROVE ph[i] = "done"
      <4>1. i \in Int /\ c \in Int
        BY <1>1, <3>2
      <4>2. i \notin open
        BY <1>6, <3>1, <3>3, <4>1
      <4>3. QED
        BY <1>4, <4>2
    <3>4. QED
      BY <3>2, <3>3
  <2>3. QED
    BY <2>1, <2>2
<1>10. c = 0 <=> \A n \in 1..m : ph[n] = "done"
  <2>1. ASSUME c = 0 PROVE \A n \in 1..m : ph[n] = "done"
    <3>1. 0 \notin 1..m
      BY <1>1
    <3>2. doing = {} /\ open = {}
      BY <1>2, <1>3, <1>5, <1>6, <2>1, <3>1
    <3>3. QED
      BY <1>4, <3>2
  <2>2. QED
    BY <1>9, <2>1
<1>11. c \in 0..m
  BY <1>1, <1>9
<1>12. QED
  BY <1>8, <1>9, <1>10, <1>11 DEF c

LEMMA CurrentIs ==
  ASSUME room \in Plans, PhaseInv
  PROVE  /\ Current \in 0..Phases
         /\ Current = 0 <=> \A n \in 1..Phases : phase[n] = "done"
         /\ Current # 0 => /\ Current \in 1..Phases /\ phase[Current] # "done"
                           /\ \A m \in 1..Phases : m < Current => phase[m] = "done"
         /\ \A n \in 1..Phases : phase[n] = "in_progress" => Current = n
<1>1. Current = First(phase, Phases)
  BY DEF Current, First
<1>2. QED
  BY <1>1, FirstIs, Rooms DEF PhaseInv

-----------------------------------------------------------------------------
(* What a change of one set keeps *)

LEMMA StoryFields ==
  ASSUME NEW s \in StorySet
  PROVE  /\ s.status \in {"pending", "in_progress", "done", "failed", "replaced"}
         /\ s.deps \in SUBSET Nat /\ s.refs \in SUBSET (Nat \X Nat) /\ s.attempts \in Nat
         /\ s.defect \in BOOLEAN /\ s.verdict \in {"none", "pass", "deferred", "fail"}
         /\ s.retired \in BOOLEAN
BY DEF StorySet

\* More changes in the project do no harm.
LEMMA MoreBuilt ==
  ASSUME NEW m, NEW n, NEW b, NEW c, b \subseteq c
  PROVE  /\ \A f : StoriesOK(m, n, f, b) => StoriesOK(m, n, f, c)
         /\ \A p : BaseOK(m, n, p, b) => BaseOK(m, n, p, c)
         /\ \A t : SetOK(m, n, t, b) => SetOK(m, n, t, c)
<1>1. ASSUME NEW f, StoriesOK(m, n, f, b) PROVE StoriesOK(m, n, f, c)
  BY <1>1 DEF StoriesOK, InProject
<1>2. ASSUME NEW p, BaseOK(m, n, p, b) PROVE BaseOK(m, n, p, c)
  BY <1>1, <1>2 DEF BaseOK
<1>3. ASSUME NEW t, SetOK(m, n, t, b) PROVE SetOK(m, n, t, c)
  BY <1>1, <1>2, <1>3 DEF SetOK
<1>4. QED
  BY <1>1, <1>2, <1>3

\* A step that puts the stories f for those of phase n.
StoriesBecome(n, f) == sets' = [sets EXCEPT ![n].stories = f]

\* The sets after the stories of phase n became f.
LEMMA StoriesPut ==
  ASSUME SetsInv, NEW n \in 1..Phases, NEW f, room' = room, built \subseteq built',
         StoriesBecome(n, f),
         StoriesOK(room.stories[n], n, f, built'),
         WithStatus(f, "in_progress") # {} => sets[n].approved
  PROVE  /\ SetsInv'
         /\ \A k \in 1..Phases : /\ Stories(k)' = IF k = n THEN f ELSE Stories(k)
                                 /\ sets'[k].approved = sets[k].approved
<1>1. Phases' = Phases
  BY DEF Phases
<1>2. DOMAIN sets = 1..Phases
  BY DEF SetsInv
<1>3. sets'[n] = [sets[n] EXCEPT !.stories = f] /\ DOMAIN sets' = 1..Phases
  BY <1>2 DEF StoriesBecome
<1>4. \A k \in 1..Phases : k # n => sets'[k] = sets[k]
  BY <1>2 DEF StoriesBecome
<1>5. \A k \in 1..Phases : SetOK(room.stories[k], k, sets[k], built')
  BY MoreBuilt DEF SetsInv
<1>6. sets[n] = [stories |-> sets[n].stories, approved |-> sets[n].approved, amend |-> sets[n].amend]
  BY <1>5 DEF SetOK
<1>7. sets'[n] = [stories |-> f, approved |-> sets[n].approved, amend |-> sets[n].amend]
  BY <1>3, <1>6
<1>8. SetOK(room.stories[n], n, sets'[n], built')
  <2>1. PICK old, new : old = sets[n] /\ new = sets'[n]
    OBVIOUS
  <2>2. /\ SetOK(room.stories[n], n, old, built')
        /\ new = [stories |-> f, approved |-> old.approved, amend |-> old.amend]
        /\ WithStatus(f, "in_progress") # {} => old.approved
    BY <1>5, <1>7, <2>1
  <2>3. SetOK(room.stories[n], n, new, built')
    <3>1. /\ old.approved \in BOOLEAN /\ BaseOK(room.stories[n], n, old.amend, built')
      BY <2>2 DEF SetOK
    <3>2. new.stories = f /\ new.approved = old.approved /\ new.amend = old.amend
      BY <2>2
    <3>3. QED
      BY <2>2, <3>1, <3>2 DEF SetOK
  <2>4. QED
    BY <2>1, <2>3
<1>9. sets' = [k \in 1..Phases |-> sets'[k]]
  BY <1>2 DEF StoriesBecome
<1>10. SetsInv'
  BY <1>1, <1>4, <1>5, <1>8, <1>9 DEF SetsInv
<1>11. QED
  BY <1>4, <1>7, <1>10 DEF Stories

\* The story s may take the place of the one at i: what was done stays, and the
\* one in progress stays alone.
With(f, i, s) == [f EXCEPT ![i] = s]
MayPut(n, f, c, i, s) ==
  /\ i \in DOMAIN f /\ s \in StorySet /\ f[i].status # "done" /\ RefsBack(n, s)
  /\ s.status = "done" => <<n, i>> \in c
  /\ s.status = "in_progress" => /\ \A j \in WithStatus(f, "in_progress") : j = i
                                 /\ NewestFirst => s.deps \subseteq WithStatus(f, "done")
IsPut(f, i, s, g) ==
  /\ DOMAIN g = DOMAIN f /\ g[i] = s /\ \A j \in DOMAIN f : j # i => g[j] = f[j]
  /\ s.status # "in_progress" /\ i \in WithStatus(f, "in_progress") =>
       WithStatus(g, "in_progress") = {}

LEMMA StoryPut ==
  ASSUME NEW m, NEW n, NEW f, NEW b, NEW c, StoriesOK(m, n, f, b), b \subseteq c,
         NEW i, NEW s, MayPut(n, f, c, i, s)
  PROVE  StoriesOK(m, n, With(f, i, s), c) /\ IsPut(f, i, s, With(f, i, s))
<1> DEFINE g == With(f, i, s)
<1>0. /\ i \in DOMAIN f /\ s \in StorySet /\ f[i].status # "done" /\ RefsBack(n, s)
      /\ s.status = "done" => <<n, i>> \in c
      /\ s.status = "in_progress" => /\ \A j \in WithStatus(f, "in_progress") : j = i
                                     /\ NewestFirst => s.deps \subseteq WithStatus(f, "done")
  BY DEF MayPut
<1>f. g = [f EXCEPT ![i] = s]
  BY DEF With
<1> HIDE DEF g
<1>1. DOMAIN g = DOMAIN f /\ g[i] = s /\ \A j \in DOMAIN f : j # i => g[j] = f[j]
  BY <1>0, <1>f
<1>2. IsStories(g, m)
  BY <1>0, <1>1, <1>f DEF StoriesOK, IsStories
<1>3. \A st : WithStatus(g, st) = (WithStatus(f, st) \ {i}) \cup {j \in {i} : s.status = st}
  BY <1>0, <1>1 DEF WithStatus
<1>4. i \notin WithStatus(f, "done")
  BY <1>0 DEF WithStatus
<1>5. WithStatus(f, "done") \subseteq WithStatus(g, "done")
  BY <1>3, <1>4
<1>6. RunsAlone(g)
  <2> SUFFICES ASSUME NEW j \in WithStatus(g, "in_progress")
               PROVE  /\ WithStatus(g, "in_progress") = {j}
                      /\ NewestFirst => g[j].deps \subseteq WithStatus(g, "done")
    BY DEF RunsAlone
  <2>1. RunsAlone(f)
    BY DEF StoriesOK
  <2>2. CASE s.status = "in_progress"
    <3>1. WithStatus(g, "in_progress") = {i} /\ j = i
      BY <1>0, <1>3, <2>2
    <3>2. QED
      BY <1>0, <1>1, <1>5, <2>2, <3>1
  <2>3. CASE s.status # "in_progress"
    <3>1. j \in WithStatus(f, "in_progress") /\ j # i
      BY <1>3, <2>3
    <3>2. WithStatus(f, "in_progress") = {j} /\ j \in DOMAIN f
      BY <2>1, <3>1 DEF RunsAlone, WithStatus
    <3>3. WithStatus(g, "in_progress") = {j}
      BY <1>3, <2>3, <3>1, <3>2
    <3>4. NewestFirst => f[j].deps \subseteq WithStatus(f, "done")
      BY <2>1, <3>1 DEF RunsAlone
    <3>5. QED
      BY <1>1, <1>5, <3>1, <3>2, <3>3, <3>4
  <2>4. QED
    BY <2>2, <2>3
<1>7. InProject(n, g, c)
  BY <1>0, <1>3 DEF StoriesOK, InProject
<1>8. \A j \in DOMAIN g : RefsBack(n, g[j])
  BY <1>0, <1>1 DEF StoriesOK
<1>9. ASSUME s.status # "in_progress", i \in WithStatus(f, "in_progress")
      PROVE  WithStatus(g, "in_progress") = {}
  <2>1. WithStatus(f, "in_progress") = {i}
    BY <1>9 DEF StoriesOK, RunsAlone
  <2>2. QED
    BY <1>3, <1>9, <2>1
<1>10. QED
  BY <1>1, <1>2, <1>6, <1>7, <1>8, <1>9 DEF StoriesOK, IsPut, g

-----------------------------------------------------------------------------
(* The phase that runs *)

LEMMA AtWork ==
  ASSUME StoryInv, pc \in {"next", "story", "writing"}
  PROVE  /\ Current \in 1..Phases /\ phase[Current] = "in_progress" /\ Phases \in Nat
         /\ room.stories[Current] \in Nat
         /\ SetOK(room.stories[Current], Current, sets[Current], built)
         /\ StoriesOK(room.stories[Current], Current, Stories(Current), built)
         /\ IsStories(Stories(Current), room.stories[Current])
         /\ WithStatus(Stories(Current), "in_progress") # {} => sets[Current].approved
<1>1. Current \in 1..Phases /\ phase[Current] = "in_progress"
  BY DEF StoryInv, WorkInv
<1>2. Phases \in Nat /\ room.stories[Current] \in Nat
  BY <1>1, Rooms DEF StoryInv, CountInv
<1>3. SetOK(room.stories[Current], Current, sets[Current], built)
  BY <1>1 DEF StoryInv, SetsInv
<1>4. QED
  BY <1>1, <1>2, <1>3 DEF SetOK, StoriesOK, Stories

\* The phases stay as they are, and what is done stays done.
LEMMA SamePhases ==
  ASSUME StoryInv, room' = room, phase' = phase,
         \A k \in 1..Phases : phase[k] = "done" => AllDone(Stories(k)')
  PROVE  PhaseInv' /\ Current' = Current /\ Phases' = Phases
<1>1. Phases' = Phases
  BY DEF Phases
<1>2. Current' = Current
  BY <1>1 DEF Current
<1>3. PhaseInv'
  BY <1>1 DEF StoryInv, PhaseInv
<1>4. QED
  BY <1>1, <1>2, <1>3

\* The sets stay as they are.
LEMMA SameSets ==
  ASSUME StoryInv, room' = room, sets' = sets, built' = built
  PROVE  SetsInv' /\ \A n : Stories(n)' = Stories(n)
BY DEF StoryInv, SetsInv, Phases, Stories

\* One story changes, of a phase that is not done.
LEMMA PhasePut ==
  ASSUME StoryInv, room' = room, phase' = phase, NEW n \in 1..Phases, phase[n] # "done",
         NEW i, NEW s, MayPut(n, Stories(n), built', i, s),
         StoriesBecome(n, With(Stories(n), i, s)), built \subseteq built',
         s.status = "in_progress" => sets[n].approved
  PROVE  /\ SetsInv' /\ PhaseInv' /\ Current' = Current
         /\ StoriesOK(room.stories[n], n, Stories(n)', built')
         /\ IsPut(Stories(n), i, s, Stories(n)') /\ Stories(n)' = With(Stories(n), i, s)
<1>1. /\ StoriesOK(room.stories[n], n, Stories(n), built)
      /\ WithStatus(Stories(n), "in_progress") # {} => sets[n].approved
  BY DEF StoryInv, SetsInv, SetOK, Stories
<1> DEFINE g == With(Stories(n), i, s)
<1>2. StoriesOK(room.stories[n], n, g, built') /\ IsPut(Stories(n), i, s, g)
  BY <1>1, StoryPut
<1>3. WithStatus(g, "in_progress") # {} => sets[n].approved
  BY <1>1, <1>2 DEF WithStatus, IsPut
<1> HIDE DEF g
<1>4. SetsInv' /\ \A k \in 1..Phases : Stories(k)' = IF k = n THEN g ELSE Stories(k)
  <2>1. SetsInv /\ StoriesBecome(n, g)
    BY DEF StoryInv, g
  <2>2. QED
    BY <1>1, <1>2, <1>3, <2>1, StoriesPut
<1>5. \A k \in 1..Phases : phase[k] = "done" => AllDone(Stories(k)')
  BY <1>4 DEF StoryInv, PhaseInv
<1>6. PhaseInv' /\ Current' = Current
  BY <1>5, SamePhases
<1>7. Stories(n)' = g
  BY <1>4
<1>8. QED
  BY <1>2, <1>4, <1>6, <1>7 DEF g

\* One story of the phase that runs changes.
LEMMA WorkPut ==
  ASSUME StoryInv, pc \in {"next", "story", "writing"}, room' = room, phase' = phase,
         NEW i, NEW s, MayPut(Current, Stories(Current), built', i, s),
         StoriesBecome(Current, With(Stories(Current), i, s)), built \subseteq built',
         s.status = "in_progress" => sets[Current].approved
  PROVE  /\ SetsInv' /\ PhaseInv' /\ Current' = Current
         /\ StoriesOK(room.stories[Current], Current, Stories(Current)', built')
         /\ Stories(Current)' = With(Stories(Current), i, s)
         /\ IsPut(Stories(Current), i, s, Stories(Current)')
<1>1. PICK c \in 1..Phases : c = Current /\ phase[c] # "done"
  BY AtWork
<1>2. /\ MayPut(c, Stories(c), built', i, s) /\ StoriesBecome(c, With(Stories(c), i, s))
      /\ s.status = "in_progress" => sets[c].approved
  BY <1>1
<1>3. /\ SetsInv' /\ PhaseInv' /\ Current' = Current
      /\ StoriesOK(room.stories[c], c, Stories(c)', built')
      /\ IsPut(Stories(c), i, s, Stories(c)') /\ Stories(c)' = With(Stories(c), i, s)
  BY <1>1, <1>2, PhasePut
<1>4. Stories(Current)' = Stories(c)' /\ Stories(Current) = Stories(c)
  BY <1>1, <1>3 DEF Stories
<1>5. QED
  BY <1>1, <1>3, <1>4

\* The action's own words for it.
LEMMA PutIs ==
  ASSUME SetsInv, NEW n \in 1..Phases, NEW i, NEW s, Put(n, i, s)
  PROVE  StoriesBecome(n, With(Stories(n), i, s))
<1>1. SetsInv /\ sets' = [sets EXCEPT ![n] = [sets[n] EXCEPT !.stories = [sets[n].stories EXCEPT ![i] = s]]]
  BY DEF Put
<1>2. QED
  BY <1>1 DEF StoriesBecome, With, Stories

\* The counters, where a step at most resets them.
LEMMA SameCounts ==
  ASSUME CountInv, room' = room, refused' \in {0, refused}, fixes' \in {0, fixes},
         reverified' \in {FALSE, reverified}, built' \subseteq built
  PROVE  CountInv'
<1>1. Phases' = Phases
  BY DEF Phases
<1>2. refused' \in 0..(MaxRefusals - 1) /\ fixes' \in 0..GateFixes /\ reverified' \in BOOLEAN
  BY Bounds DEF CountInv
<1>3. QED
  BY <1>1, <1>2 DEF CountInv

\* The story that next_ready picks.
LEMMA NextReadyIs ==
  ASSUME NEW m \in Nat, NEW f, IsStories(f, m)
  PROVE  /\ NextReady(f) # 0 =>
              \/ NextReady(f) \in WithStatus(f, "in_progress")
              \/ /\ WithStatus(f, "in_progress") = {} /\ NextReady(f) \in WithStatus(f, "pending")
                 /\ f[NextReady(f)].deps \subseteq WithStatus(f, "done")
         /\ NextReady(f) = 0 => WithStatus(f, "in_progress") = {}
<1> DEFINE doing == WithStatus(f, "in_progress")
           can == {i \in WithStatus(f, "pending") : Ready(f, i)}
<1>1. NextReady(f) = IF doing # {} THEN Min(doing) ELSE IF can # {} THEN Min(can) ELSE 0
  BY DEF NextReady
<1>2. doing \in SUBSET (1..m) /\ can \in SUBSET (1..m) /\ 1 \in Int /\ m \in Int /\ 0 \notin 1..m
  BY DEF IsStories, WithStatus
<1>3. \A i \in can : i \in WithStatus(f, "pending") /\ f[i].deps \subseteq WithStatus(f, "done")
  BY DEF Ready
<1> HIDE DEF can
<1>4. doing # {} => Min(doing) \in doing /\ Min(doing) # 0
  BY <1>2, MinIs
<1>5. can # {} => Min(can) \in can
  BY <1>2, MinIs
<1>6. QED
  BY <1>1, <1>3, <1>4, <1>5

\* What a writing pass may start from.
LEMMA BaseFrom ==
  ASSUME NEW m, NEW n, NEW ss, NEW b, StoriesOK(m, n, ss, b), WithStatus(ss, "in_progress") = {},
         NEW R \in SUBSET DOMAIN ss, NEW x, NEW y, NEW e
  PROVE  BaseOK(m, n, Amend(ss, R, x, y, e), b)
BY DEF BaseOK, Amend

-----------------------------------------------------------------------------
(* The steps *)

LEMMA Starting ==
  Init => StoryInv
<1> SUFFICES ASSUME Init PROVE StoryInv
  OBVIOUS
<1>1. room \in Plans /\ Phases \in Nat /\ \A n \in 1..Phases : room.stories[n] \in Nat
  BY Rooms DEF Init
<1>2. CountInv
  BY <1>1, Bounds DEF Init, CountInv
<1>3. PhaseInv
  BY DEF Init, PhaseInv
<1>4. SetsInv
  <2>1. ASSUME NEW n \in 1..Phases PROVE SetOK(room.stories[n], n, Missing, built)
    <3>1. DOMAIN (<<>>) = {} /\ <<>> = [i \in DOMAIN (<<>>) |-> (<<>>)[i]]
      OBVIOUS
    <3>2. \A st : WithStatus(<<>>, st) = {}
      BY <3>1 DEF WithStatus
    <3>3. StoriesOK(room.stories[n], n, <<>>, built)
      BY <3>1, <3>2 DEF StoriesOK, IsStories, RunsAlone, InProject
    <3>4. QED
      BY <3>2, <3>3 DEF Missing, SetOK, BaseOK
  <2>2. QED
    BY <2>1 DEF Init, SetsInv
<1>5. WorkInv
  BY DEF Init, WorkInv
<1>6. QED
  BY <1>2, <1>3, <1>4, <1>5 DEF StoryInv

\* Going on, or to the next phase.
LEMMA GoStep ==
  ASSUME StoryInv, room' = room, Go \/ NextPhase
  PROVE  StoryInv'
<1>1. Phases' = Phases /\ room \in Plans
  BY DEF Phases, StoryInv, CountInv
<1>2. SetsInv' /\ \A n : Stories(n)' = Stories(n)
  BY SameSets DEF Go, NextPhase
<1>3. CountInv'
  <2>1. /\ refused' = refused /\ built' = built
        /\ fixes' \in {0, fixes} /\ reverified' \in {FALSE, reverified}
    BY DEF Go, NextPhase
  <2>2. /\ refused \in 0..(MaxRefusals - 1) /\ fixes \in 0..GateFixes /\ reverified \in BOOLEAN
        /\ built \subseteq UNION {{<<n, i>> : i \in 1..room.stories[n]} : n \in 1..Phases}
    BY DEF StoryInv, CountInv
  <2>3. fixes' \in 0..GateFixes /\ reverified' \in BOOLEAN
    BY <2>1, <2>2, Bounds
  <2>4. QED
    BY <1>1, <2>1, <2>2, <2>3 DEF CountInv
<1>4. cur' = cur /\ (pc = "rest" \/ pc = "passed") /\ cur = 0
  BY DEF Go, NextPhase, StoryInv, WorkInv
<1>5. CASE Current = 0
  <2>1. phase' = phase /\ pc' = "over"
    BY <1>5 DEF Go, NextPhase
  <2>2. PhaseInv'
    BY <1>2, <2>1, SamePhases DEF StoryInv, PhaseInv
  <2>3. QED
    BY <1>2, <1>3, <1>4, <2>1, <2>2 DEF StoryInv, WorkInv
<1>6. CASE Current # 0
  <2>1. /\ Current \in 1..Phases /\ phase[Current] # "done" /\ Phases \in Nat
        /\ \A m \in 1..Phases : m < Current => phase[m] = "done"
        /\ \A n \in 1..Phases : phase[n] = "in_progress" => Current = n
    BY <1>1, <1>6, CurrentIs, Rooms DEF StoryInv
  <2>2. pc' = "next" /\ phase' = [phase EXCEPT ![Current] = "in_progress"]
    BY <1>6 DEF Go, NextPhase
  <2>3. \A n \in 1..Phases : phase'[n] = IF n = Current THEN "in_progress" ELSE phase[n]
    BY <2>2 DEF StoryInv, PhaseInv
  <2>4. \A m, n \in 1..Phases : phase'[n] = "in_progress" /\ m < n => phase'[m] = "done"
    BY <2>1, <2>3
  <2>5. PhaseInv'
    BY <1>1, <1>2, <2>1, <2>2, <2>3, <2>4 DEF StoryInv, PhaseInv
  <2>6. Current' = Current
    <3>1. Current' = First(phase', Phases)
      BY <1>1 DEF Current, First
    <3>2. phase' \in [1..Phases -> {"pending", "in_progress", "done"}]
      BY <1>1, <2>5 DEF PhaseInv
    <3>3. phase'[Current] = "in_progress"
      BY <2>1, <2>3
    <3>4. QED
      BY <2>1, <2>4, <3>1, <3>2, <3>3, FirstIs
  <2>7. QED
    BY <1>1, <1>2, <1>3, <1>4, <2>1, <2>2, <2>3, <2>5, <2>6 DEF StoryInv, WorkInv
<1>7. QED
  BY <1>5, <1>6

\* A draft that was not approved is written again.
LEMMA WriteSetStep ==
  ASSUME StoryInv, room' = room, WriteSet
  PROVE  StoryInv'
<1>1. /\ Current \in 1..Phases /\ phase[Current] = "in_progress"
      /\ SetOK(room.stories[Current], Current, sets[Current], built)
  BY AtWork DEF WriteSet
<1>2. SetsInv' /\ PhaseInv' /\ CountInv' /\ Current' = Current /\ Phases' = Phases
  BY SameSets, SamePhases, SameCounts DEF WriteSet, StoryInv, PhaseInv
<1>3. BaseOK(room.stories[Current], Current, pass', built)
  BY <1>1 DEF SetOK, WriteSet, Write
<1>4. pc' = "writing" /\ cur' = 0 /\ phase' = phase /\ built' = built
  BY DEF WriteSet, Write, StoryInv, WorkInv
<1>5. QED
  BY <1>1, <1>2, <1>3, <1>4 DEF StoryInv, WorkInv

\* A step that pauses the plan and changes no set.
LEMMA PauseStep ==
  ASSUME StoryInv, room' = room, WriterStops \/ Crash
  PROVE  StoryInv'
<1>1. /\ pc' = "rest" /\ cur' = 0 /\ phase' = phase /\ sets' = sets /\ built' = built
      /\ fixes' = 0 /\ reverified' = FALSE /\ refused' \in {0, refused}
  BY DEF WriterStops, Crash, Rest, StoryInv, WorkInv
<1>2. SetsInv' /\ PhaseInv' /\ CountInv'
  BY <1>1, SameSets, SamePhases, SameCounts DEF StoryInv, PhaseInv
<1>3. QED
  BY <1>1, <1>2 DEF StoryInv, WorkInv

LEMMA RefusedStep ==
  ASSUME StoryInv, room' = room, Refused
  PROVE  StoryInv'
<1>1. SetsInv' /\ PhaseInv' /\ Current' = Current /\ Phases' = Phases /\ \A n : Stories(n)' = Stories(n)
  BY SameSets, SamePhases DEF Refused, StoryInv, PhaseInv
<1>2. CountInv'
  <2>1. refused' \in 0..(MaxRefusals - 1)
    BY StoryAssumption DEF Refused, StoryInv, CountInv
  <2>2. QED
    BY <1>1, <2>1 DEF Refused, StoryInv, CountInv
<1>3. pc' = "story" /\ pc = "story" /\ cur' = cur /\ phase' = phase
  BY DEF Refused
<1>4. QED
  BY <1>1, <1>2, <1>3 DEF StoryInv, WorkInv

LEMMA RunStoryStep ==
  ASSUME StoryInv, room' = room, RunStory
  PROVE  StoryInv'
<1> DEFINE n == Current
           f == Stories(Current)
           i == NextReady(f)
           s == [f[i] EXCEPT !.status = "in_progress"]
<1>1. /\ n \in 1..Phases /\ phase[n] = "in_progress" /\ room.stories[n] \in Nat
      /\ StoriesOK(room.stories[n], n, f, built) /\ IsStories(f, room.stories[n])
  BY AtWork DEF RunStory
<1>2. /\ sets[n].approved /\ i # 0 /\ Put(n, i, s) /\ pc' = "story" /\ cur' = i
      /\ phase' = phase /\ built' = built /\ pc = "next"
  BY DEF RunStory
<1>3. \/ i \in WithStatus(f, "in_progress")
      \/ /\ WithStatus(f, "in_progress") = {} /\ i \in WithStatus(f, "pending")
         /\ f[i].deps \subseteq WithStatus(f, "done")
  BY <1>1, <1>2, NextReadyIs
<1>4. StoriesBecome(n, With(f, i, s))
  BY <1>1, <1>2, PutIs DEF StoryInv
<1> HIDE DEF i, f
<1>5. i \in DOMAIN f /\ f[i] \in StorySet /\ RefsBack(n, f[i]) /\ f[i].status # "done"
  BY <1>1, <1>3 DEF StoriesOK, IsStories, WithStatus
<1>6. s \in StorySet /\ s.status = "in_progress" /\ s.deps = f[i].deps /\ s.refs = f[i].refs
  BY <1>5 DEF StorySet
<1>7. MayPut(n, f, built', i, s)
  <2>1. /\ \A j \in WithStatus(f, "in_progress") : j = i
        /\ NewestFirst => s.deps \subseteq WithStatus(f, "done")
    BY <1>1, <1>3, <1>6 DEF StoriesOK, RunsAlone
  <2>2. QED
    BY <1>5, <1>6, <2>1 DEF MayPut, RefsBack
<1> HIDE DEF s
<1>8. /\ SetsInv' /\ PhaseInv' /\ Current' = Current
      /\ IsPut(f, i, s, Stories(Current)')
  <2>1. MayPut(Current, Stories(Current), built', i, s) /\ StoriesBecome(Current, With(Stories(Current), i, s))
    BY <1>4, <1>7 DEF f
  <2>2. QED
    BY <1>2, <2>1, WorkPut DEF f
<1>9. cur' \in WithStatus(Stories(Current)', "in_progress")
  BY <1>2, <1>5, <1>6, <1>8 DEF WithStatus, IsPut
<1>10. CountInv'
  BY SameCounts DEF RunStory, StoryInv
<1>11. Phases' = Phases
  BY DEF Phases
<1>12. QED
  BY <1>1, <1>2, <1>8, <1>9, <1>10, <1>11 DEF StoryInv, WorkInv

\* The story that ran stops running, as s.
LEMMA StoryStops ==
  ASSUME StoryInv, pc = "story", room' = room, phase' = phase, built \subseteq built',
         NEW s \in StorySet, s.status # "in_progress", s.refs = Stories(Current)[cur].refs,
         s.status = "done" => <<Current, cur>> \in built',
         StoriesBecome(Current, With(Stories(Current), cur, s))
  PROVE  /\ SetsInv' /\ PhaseInv' /\ Current' = Current /\ Current \in 1..Phases
         /\ phase[Current] = "in_progress" /\ cur \in DOMAIN Stories(Current)
         /\ StoriesOK(room.stories[Current], Current, With(Stories(Current), cur, s), built')
         /\ WithStatus(With(Stories(Current), cur, s), "in_progress") = {}
         /\ DOMAIN With(Stories(Current), cur, s) = DOMAIN Stories(Current)
<1>1. /\ Current \in 1..Phases /\ phase[Current] = "in_progress"
      /\ StoriesOK(room.stories[Current], Current, Stories(Current), built)
  BY AtWork
<1>2. cur \in WithStatus(Stories(Current), "in_progress")
  BY DEF StoryInv, WorkInv
<1>3. /\ cur \in DOMAIN Stories(Current) /\ Stories(Current)[cur].status # "done"
      /\ RefsBack(Current, Stories(Current)[cur])
  BY <1>1, <1>2 DEF WithStatus, StoriesOK
<1>4. MayPut(Current, Stories(Current), built', cur, s)
  BY <1>3 DEF MayPut, RefsBack
<1>5. /\ SetsInv' /\ PhaseInv' /\ Current' = Current
      /\ StoriesOK(room.stories[Current], Current, Stories(Current)', built')
      /\ Stories(Current)' = With(Stories(Current), cur, s)
      /\ IsPut(Stories(Current), cur, s, Stories(Current)')
  BY <1>4, WorkPut
<1>6. QED
  BY <1>1, <1>2, <1>3, <1>5 DEF IsPut

\* A story of the set that has an id of its own.
LEMMA CurIs ==
  ASSUME StoryInv, pc = "story"
  PROVE  /\ Current \in 1..Phases /\ phase[Current] = "in_progress"
         /\ cur \in DOMAIN Stories(Current) /\ Stories(Current)[cur] \in StorySet
         /\ <<Current, cur>> \in UNION {{<<n, i>> : i \in 1..room.stories[n]} : n \in 1..Phases}
<1>1. Current \in 1..Phases /\ phase[Current] = "in_progress" /\ IsStories(Stories(Current), room.stories[Current])
  BY AtWork
<1>2. cur \in WithStatus(Stories(Current), "in_progress")
  BY DEF StoryInv, WorkInv
<1>3. cur \in DOMAIN Stories(Current) /\ cur \in 1..room.stories[Current] /\ Stories(Current)[cur] \in StorySet
  BY <1>1, <1>2 DEF IsStories, WithStatus
<1>4. QED
  BY <1>1, <1>3

LEMMA AcceptedStep ==
  ASSUME StoryInv, room' = room, NEW v \in {"pass", "deferred"}, Accepted(v)
  PROVE  StoryInv'
<1> DEFINE s == [Stories(Current)[cur] EXCEPT !.status = "done", !.verdict = v]
<1>1. /\ Current \in 1..Phases /\ phase[Current] = "in_progress"
      /\ cur \in DOMAIN Stories(Current) /\ Stories(Current)[cur] \in StorySet
      /\ <<Current, cur>> \in UNION {{<<n, i>> : i \in 1..room.stories[n]} : n \in 1..Phases}
  BY CurIs DEF Accepted
<1>2. /\ pc = "story" /\ Put(Current, cur, s) /\ built' = built \cup {<<Current, cur>>}
      /\ pc' = "next" /\ cur' = 0 /\ refused' = 0 /\ phase' = phase
      /\ fixes' = fixes /\ reverified' = reverified
  BY DEF Accepted
<1>3. s \in StorySet /\ s.status = "done" /\ s.refs = Stories(Current)[cur].refs
  BY <1>1 DEF StorySet
<1>4. StoriesBecome(Current, With(Stories(Current), cur, s))
  BY <1>1, <1>2, PutIs DEF StoryInv
<1> HIDE DEF s
<1>5. SetsInv' /\ PhaseInv' /\ Current' = Current
  BY <1>2, <1>3, <1>4, StoryStops
<1>6. CountInv' /\ Phases' = Phases
  <2>1. Phases' = Phases
    BY DEF Phases
  <2>2. built' \subseteq UNION {{<<n, i>> : i \in 1..room.stories[n]} : n \in 1..Phases}
    BY <1>1, <1>2 DEF StoryInv, CountInv
  <2>3. QED
    BY <1>2, <2>1, <2>2, Bounds DEF StoryInv, CountInv
<1>7. QED
  BY <1>1, <1>2, <1>5, <1>6 DEF StoryInv, WorkInv

LEMMA CancelledStep ==
  ASSUME StoryInv, room' = room, StoryCancelled
  PROVE  StoryInv'
<1> DEFINE s == [Stories(Current)[cur] EXCEPT !.status = "pending"]
<1>1. Current \in 1..Phases /\ cur \in DOMAIN Stories(Current) /\ Stories(Current)[cur] \in StorySet
  BY CurIs DEF StoryCancelled
<1>2. /\ pc = "story" /\ Put(Current, cur, s) /\ built' = built
      /\ pc' = "rest" /\ cur' = 0 /\ phase' = phase
  BY DEF StoryCancelled, Rest
<1>3. s \in StorySet /\ s.status = "pending" /\ s.refs = Stories(Current)[cur].refs
  BY <1>1 DEF StorySet
<1>4. StoriesBecome(Current, With(Stories(Current), cur, s))
  BY <1>1, <1>2, PutIs DEF StoryInv
<1> HIDE DEF s
<1>5. SetsInv' /\ PhaseInv' /\ Current' = Current
  BY <1>2, <1>3, <1>4, StoryStops
<1>6. CountInv'
  BY SameCounts DEF StoryCancelled, Rest, StoryInv
<1>7. QED
  BY <1>2, <1>5, <1>6 DEF StoryInv, WorkInv

LEMMA DefectStep ==
  ASSUME StoryInv, room' = room, NEW wrong \in BOOLEAN, Defect(wrong)
  PROVE  StoryInv'
<1> DEFINE s == [Stories(Current)[cur] EXCEPT !.status = "pending", !.defect = TRUE]
           ss == [Stories(Current) EXCEPT ![cur].status = "pending", ![cur].defect = TRUE]
<1>1. /\ Current \in 1..Phases /\ phase[Current] = "in_progress"
      /\ cur \in DOMAIN Stories(Current) /\ Stories(Current)[cur] \in StorySet
  BY CurIs DEF Defect
<1>2. /\ pc = "story" /\ built' = built /\ sets' = [sets EXCEPT ![Current].stories = ss]
      /\ pc' = "writing" /\ cur' = 0 /\ phase' = phase
      /\ \E R \in {{}, {cur}} : \E x, y : pass' = Amend(ss, R, x, y, FALSE)
  BY DEF Defect, Write
<1>3. s \in StorySet /\ s.status = "pending" /\ s.refs = Stories(Current)[cur].refs
  BY <1>1 DEF StorySet
<1>4. ss = With(Stories(Current), cur, s)
  BY <1>1 DEF With
<1> HIDE DEF s, ss
<1>5. StoriesBecome(Current, With(Stories(Current), cur, s))
  BY <1>2, <1>4 DEF StoriesBecome
<1>6. /\ SetsInv' /\ PhaseInv' /\ Current' = Current
      /\ StoriesOK(room.stories[Current], Current, ss, built')
      /\ WithStatus(ss, "in_progress") = {} /\ DOMAIN ss = DOMAIN Stories(Current)
  BY <1>2, <1>3, <1>4, <1>5, StoryStops
<1>7. BaseOK(room.stories[Current], Current, pass', built')
  <2>1. PICK R \in {{}, {cur}} : \E x, y : pass' = Amend(ss, R, x, y, FALSE)
    BY <1>2
  <2>2. PICK x, y : pass' = Amend(ss, R, x, y, FALSE)
    BY <2>1
  <2>3. R \in SUBSET DOMAIN ss
    BY <1>1, <1>6
  <2>4. QED
    BY <1>6, <2>2, <2>3, BaseFrom
<1>8. CountInv' /\ Phases' = Phases
  BY SameCounts DEF Defect, StoryInv, Phases
<1>9. QED
  BY <1>1, <1>2, <1>6, <1>7, <1>8 DEF StoryInv, WorkInv

LEMMA FailedStep ==
  ASSUME StoryInv, room' = room, Failed
  PROVE  StoryInv'
<1> DEFINE s == [Stories(Current)[cur] EXCEPT !.status = "failed", !.attempts = @ + 1]
           ss == [Stories(Current) EXCEPT ![cur].status = "failed", ![cur].attempts = @ + 1]
<1>1. /\ Current \in 1..Phases /\ phase[Current] = "in_progress"
      /\ cur \in DOMAIN Stories(Current) /\ Stories(Current)[cur] \in StorySet
  BY CurIs DEF Failed
<1>2. /\ pc = "story" /\ built' = built /\ sets' = [sets EXCEPT ![Current].stories = ss]
      /\ cur' = 0 /\ phase' = phase /\ refused' = 0
      /\ \/ pc' = "rest" /\ fixes' = 0 /\ reverified' = FALSE
         \/ /\ pc' = "writing" /\ pass' = Resplit(ss, cur)
            /\ fixes' = fixes /\ reverified' = reverified
  BY DEF Failed, Write, Rest
<1>3. s \in StorySet /\ s.status = "failed" /\ s.refs = Stories(Current)[cur].refs
  <2>1. PICK t \in StorySet : t = Stories(Current)[cur]
    BY <1>1
  <2>2. t.attempts + 1 \in Nat
    BY StoryFields
  <2>3. [t EXCEPT !.status = "failed", !.attempts = t.attempts + 1] \in StorySet
    BY <2>2 DEF StorySet
  <2>4. s.status = "failed" /\ s.refs = t.refs
    BY <1>1, <2>1 DEF StorySet
  <2>5. QED
    BY <2>1, <2>3, <2>4
<1>4. ss = With(Stories(Current), cur, s)
  BY <1>1 DEF With
<1> HIDE DEF s, ss
<1>5. StoriesBecome(Current, With(Stories(Current), cur, s))
  BY <1>2, <1>4 DEF StoriesBecome
<1>6. /\ SetsInv' /\ PhaseInv' /\ Current' = Current
      /\ StoriesOK(room.stories[Current], Current, ss, built')
      /\ WithStatus(ss, "in_progress") = {} /\ DOMAIN ss = DOMAIN Stories(Current)
  BY <1>2, <1>3, <1>4, <1>5, StoryStops
<1>7. pc' = "writing" => BaseOK(room.stories[Current], Current, pass', built')
  <2>1. cur \in DOMAIN ss
    BY <1>1, <1>6
  <2>2. {cur} \cup Dependents(ss, cur) \in SUBSET DOMAIN ss
    BY <2>1, DependentsAre
  <2>3. BaseOK(room.stories[Current], Current, Resplit(ss, cur), built')
    BY <1>6, <2>2, BaseFrom DEF Resplit
  <2>4. QED
    BY <1>2, <2>3
<1>8. CountInv' /\ Phases' = Phases
  BY <1>2, SameCounts DEF StoryInv, Phases
<1>9. QED
  BY <1>1, <1>2, <1>6, <1>7, <1>8 DEF StoryInv, WorkInv

LEMMA NothingReadyStep ==
  ASSUME StoryInv, room' = room, NothingReady
  PROVE  StoryInv'
<1> DEFINE ss == Stories(Current)
           again == {i \in WithStatus(ss, "failed") : ss[i].attempts < MaxAttempts}
<1>1. /\ Current \in 1..Phases /\ phase[Current] = "in_progress" /\ room.stories[Current] \in Nat
      /\ StoriesOK(room.stories[Current], Current, ss, built) /\ IsStories(ss, room.stories[Current])
  BY AtWork DEF NothingReady
<1>2. /\ NextReady(ss) = 0 /\ cur' = cur /\ phase' = phase /\ sets' = sets /\ built' = built
      /\ pc = "next" /\ refused' = refused
      /\ \/ pc' = "rest" /\ fixes' = 0 /\ reverified' = FALSE
         \/ /\ again # {} /\ pc' = "writing" /\ pass' = Resplit(ss, Min(again))
            /\ fixes' = fixes /\ reverified' = reverified
  BY DEF NothingReady, Write, Rest
<1>3. SetsInv' /\ PhaseInv' /\ CountInv' /\ Current' = Current /\ Phases' = Phases
  BY <1>2, SameSets, SamePhases, SameCounts DEF StoryInv, PhaseInv
<1>4. again \in SUBSET (1..room.stories[Current]) /\ again \subseteq DOMAIN ss
  BY <1>1 DEF IsStories, WithStatus
<1> HIDE DEF again
<1>5. again # {} => Min(again) \in again
  <2>1. 1 \in Int /\ room.stories[Current] \in Int
    BY <1>1
  <2>2. QED
    BY <1>4, <2>1, MinIs
<1>6. WithStatus(ss, "in_progress") = {}
  BY <1>1, <1>2, NextReadyIs
<1> HIDE DEF ss
<1>7. pc' = "writing" => BaseOK(room.stories[Current], Current, pass', built')
  <2>1. SUFFICES ASSUME pc' = "writing" PROVE BaseOK(room.stories[Current], Current, pass', built')
    OBVIOUS
  <2>2. PICK i \in DOMAIN ss : pass' = Resplit(ss, i)
    BY <1>2, <1>4, <1>5, <2>1
  <2>3. {i} \cup Dependents(ss, i) \in SUBSET DOMAIN ss
    BY DependentsAre
  <2>4. QED
    BY <1>1, <1>2, <1>6, <2>2, <2>3, BaseFrom DEF Resplit
<1>8. QED
  BY <1>1, <1>2, <1>3, <1>7 DEF StoryInv, WorkInv

\* Stories that only their verdicts, and what is retired, tell from those of f.
Alike(f, g) ==
  /\ g = [i \in DOMAIN f |-> g[i]]
  /\ \A i \in DOMAIN f : /\ g[i].status = f[i].status /\ g[i].deps = f[i].deps
                         /\ g[i].refs = f[i].refs
                         /\ f[i] \in StorySet => g[i] \in StorySet

LEMMA AlikeIs ==
  ASSUME NEW f, NEW g, Alike(f, g)
  PROVE  /\ DOMAIN g = DOMAIN f /\ (AllDone(g) <=> AllDone(f))
         /\ \A st : WithStatus(g, st) = WithStatus(f, st)
         /\ \A m, n, b : StoriesOK(m, n, f, b) => StoriesOK(m, n, g, b)
<1>1. DOMAIN g = DOMAIN f /\ (AllDone(g) <=> AllDone(f))
  BY DEF Alike, AllDone, Finished
<1>2. ASSUME NEW st PROVE WithStatus(g, st) = WithStatus(f, st)
  BY <1>1 DEF Alike, WithStatus
<1>3. ASSUME NEW m, NEW n, NEW b, StoriesOK(m, n, f, b) PROVE StoriesOK(m, n, g, b)
  <2>1. IsStories(g, m)
    BY <1>1, <1>3 DEF Alike, StoriesOK, IsStories
  <2>2. RunsAlone(g)
    <3>1. RunsAlone(f) /\ \A i \in WithStatus(f, "in_progress") : g[i].deps = f[i].deps
      BY <1>3 DEF StoriesOK, Alike, WithStatus
    <3>2. QED
      BY <1>2, <3>1 DEF RunsAlone
  <2>3. InProject(n, g, b)
    BY <1>2, <1>3 DEF StoriesOK, InProject
  <2>4. \A i \in DOMAIN g : RefsBack(n, g[i])
    BY <1>1, <1>3 DEF Alike, StoriesOK, RefsBack
  <2>5. QED
    BY <2>1, <2>2, <2>3, <2>4 DEF StoriesOK
<1>4. QED
  BY <1>1, <1>2, <1>3

\* The gate of the phase that runs: only verdicts change.
LEMMA GateStep ==
  ASSUME StoryInv, room' = room, NEW found \in [Waiting(Current) -> Verdicts], NEW own \in Verdicts,
         NEW fails \in SUBSET Saved, NEW late, Gate(found, own, fails, late)
  PROVE  StoryInv'
<1>1. PICK n \in 1..Phases, f \in {Stories(Current)} : n = Current /\ f = Stories(n)
  BY AtWork DEF Gate, AtGate
<1>2. /\ phase[n] = "in_progress" /\ room.stories[n] \in Nat /\ Phases \in Nat
      /\ StoriesOK(room.stories[n], n, f, built) /\ IsStories(f, room.stories[n])
  BY <1>1, AtWork DEF Gate, AtGate
<1> DEFINE ss == [i \in DOMAIN f |-> IF i \in DOMAIN found THEN Judge(f[i], found[i]) ELSE f[i]]
<1>3. /\ pc = "next" /\ AllDone(f) /\ sets' = [sets EXCEPT ![n].stories = ss]
      /\ cur' = cur /\ refused' = refused /\ built' = built
      /\ \/ pc' = "passed" /\ phase' = [phase EXCEPT ![n] = "done"] /\ fixes' = fixes /\ reverified' = reverified
         \/ pc' = "next" /\ phase' = phase /\ fixes' = fixes /\ reverified' = TRUE
         \/ /\ pc' = "writing" /\ phase' = phase /\ fixes < GateFixes /\ fixes' = fixes + 1
            /\ reverified' = reverified /\ \E e : pass' = Amend(ss, {}, 0, 0, e)
         \/ pc' = "rest" /\ phase' = phase /\ fixes' = 0 /\ reverified' = FALSE
  BY <1>1 DEF Gate, AtGate, Write, Rest
<1>4. Alike(f, ss)
  <2>1. ASSUME NEW i \in DOMAIN f
        PROVE  /\ ss[i].status = f[i].status /\ ss[i].deps = f[i].deps /\ ss[i].refs = f[i].refs
               /\ f[i] \in StorySet => ss[i] \in StorySet
    <3>1. f[i] \in StorySet
      BY <1>2 DEF IsStories
    <3>2. CASE i \in DOMAIN found
      <4>1. ss[i] = [f[i] EXCEPT !.verdict = IF found[i] \in {"pass", "fail"} THEN found[i] ELSE "deferred"]
        BY <3>2 DEF Judge
      <4>2. QED
        BY <3>1, <4>1 DEF StorySet
    <3>3. QED
      BY <3>1, <3>2
  <2>2. ss = [i \in DOMAIN f |-> ss[i]]
    OBVIOUS
  <2> HIDE DEF ss
  <2>3. QED
    BY <2>1, <2>2 DEF Alike
<1> HIDE DEF ss
<1>5. /\ StoriesOK(room.stories[n], n, ss, built) /\ AllDone(ss)
      /\ WithStatus(ss, "in_progress") = {}
  BY <1>2, <1>3, <1>4, AlikeIs DEF AllDone, Finished, WithStatus
<1>6. SetsInv' /\ \A k \in 1..Phases : Stories(k)' = IF k = n THEN ss ELSE Stories(k)
  <2>1. SetsInv /\ StoriesBecome(n, ss)
    BY <1>3 DEF StoryInv, StoriesBecome
  <2>2. QED
    BY <1>3, <1>5, <2>1, StoriesPut
<1>7. CountInv' /\ Phases' = Phases
  <2>1. fixes' \in 0..GateFixes /\ reverified' \in BOOLEAN
    <3>1. fixes' = 0 \/ fixes' = fixes \/ (fixes < GateFixes /\ fixes' = fixes + 1)
      BY <1>3
    <3>a. reverified' = TRUE \/ reverified' = FALSE \/ reverified' = reverified
      BY <1>3, Zenon
    <3>2. fixes \in 0..GateFixes /\ reverified \in BOOLEAN /\ GateFixes \in Nat
      BY Bounds DEF StoryInv, CountInv
    <3>b. fixes' \in 0..GateFixes
      BY <3>1, <3>2
    <3>c. reverified' \in BOOLEAN
      BY <3>a, <3>2, Zenon
    <3>3. QED
      BY <3>b, <3>c
  <2>2. Phases' = Phases
    BY DEF Phases
  <2>3. QED
    BY <1>3, <2>1, <2>2 DEF StoryInv, CountInv
<1>8. cur' = 0
  BY <1>3 DEF StoryInv, WorkInv
<1>9. CASE pc' = "passed" /\ phase' = [phase EXCEPT ![n] = "done"]
  <2>1. \A k \in 1..Phases : phase'[k] = IF k = n THEN "done" ELSE phase[k]
    BY <1>9 DEF StoryInv, PhaseInv
  <2>2. PhaseInv'
    BY <1>2, <1>5, <1>6, <1>7, <1>9, <2>1 DEF StoryInv, PhaseInv
  <2>3. QED
    BY <1>6, <1>7, <1>8, <1>9, <2>2 DEF StoryInv, WorkInv
<1>10. CASE phase' = phase /\ pc' \in {"next", "writing", "rest"}
  <2>1. \A k \in 1..Phases : phase[k] = "done" => AllDone(Stories(k)')
    BY <1>5, <1>6 DEF StoryInv, PhaseInv
  <2>2. PhaseInv' /\ Current' = Current
    BY <1>10, <2>1, SamePhases
  <2>3. pc' = "writing" => BaseOK(room.stories[n], n, pass', built)
    <3>1. {} \in SUBSET DOMAIN ss
      OBVIOUS
    <3>2. \A e : BaseOK(room.stories[n], n, Amend(ss, {}, 0, 0, e), built)
      BY <1>5, <3>1, BaseFrom
    <3>3. QED
      BY <1>3, <3>2
  <2>4. /\ Current' = n /\ phase'[n] = "in_progress" /\ built' = built
        /\ n \in 1..Phases' /\ room'.stories[Current'] = room.stories[n]
    BY <1>1, <1>2, <1>3, <1>7, <1>10, <2>2
  <2>5. pc' = "writing" => BaseOK(room'.stories[Current'], Current', pass', built')
    BY <2>3, <2>4
  <2>6. WorkInv'
    BY <1>8, <1>10, <2>4, <2>5 DEF WorkInv
  <2>7. QED
    BY <1>6, <1>7, <2>2, <2>6 DEF StoryInv
<1>11. QED
  BY <1>3, <1>9, <1>10

\* Stories less some that are not done.
LEMMA Taken ==
  ASSUME NEW m, NEW n, NEW f, NEW b, StoriesOK(m, n, f, b), NEW i \in DOMAIN f, ~Finished(f[i])
  PROVE  /\ StoriesOK(m, n, Restrict(f, DOMAIN f \ {i}), b)
         /\ WithStatus(Restrict(f, DOMAIN f \ {i}), "in_progress") \subseteq WithStatus(f, "in_progress")
<1> DEFINE g == Restrict(f, DOMAIN f \ {i})
<1>1. g = [j \in DOMAIN f \ {i} |-> f[j]]
  BY DEF Restrict
<1>2. DOMAIN g = DOMAIN f \ {i} /\ \A j \in DOMAIN g : g[j] = f[j]
  BY <1>1
<1>3. g = [j \in DOMAIN g |-> g[j]]
  BY <1>1
<1> HIDE DEF g
<1>4. \A st : WithStatus(g, st) = WithStatus(f, st) \ {i}
  BY <1>2 DEF WithStatus
<1>5. WithStatus(g, "done") = WithStatus(f, "done")
  BY <1>4 DEF WithStatus, Finished
<1>6. IsStories(g, m)
  BY <1>2, <1>3 DEF StoriesOK, IsStories
<1>7. RunsAlone(g)
  <2> SUFFICES ASSUME NEW j \in WithStatus(g, "in_progress")
               PROVE  /\ WithStatus(g, "in_progress") = {j}
                      /\ NewestFirst => g[j].deps \subseteq WithStatus(g, "done")
    BY DEF RunsAlone
  <2>1. j \in WithStatus(f, "in_progress") /\ j # i /\ j \in DOMAIN g
    BY <1>4 DEF WithStatus
  <2>2. WithStatus(f, "in_progress") = {j} /\ (NewestFirst => f[j].deps \subseteq WithStatus(f, "done"))
    BY <2>1 DEF StoriesOK, RunsAlone
  <2>3. QED
    BY <1>2, <1>4, <1>5, <2>1, <2>2
<1>8. InProject(n, g, b)
  BY <1>5 DEF StoriesOK, InProject
<1>9. \A j \in DOMAIN g : RefsBack(n, g[j])
  BY <1>2 DEF StoriesOK
<1>10. QED
  BY <1>4, <1>6, <1>7, <1>8, <1>9 DEF StoriesOK, g

\* The user's edit of a phase that is not done.
LEMMA EditStep ==
  ASSUME StoryInv, room' = room, NEW n \in 1..Phases, EditFile(n)
  PROVE  StoryInv'
<1>1. PICK f : f = Stories(n)
  OBVIOUS
<1>2. StoriesOK(room.stories[n], n, f, built) /\ IsStories(f, room.stories[n]) /\ sets[n].approved
  BY <1>1 DEF EditFile, StoryInv, SetsInv, SetOK, StoriesOK, Stories
<1>3. PICK i \in DOMAIN f :
         /\ ~Finished(f[i])
         /\ \/ f[i].status = "failed" /\ Put(n, i, [f[i] EXCEPT !.status = "pending"])
            \/ Put(n, i, [f[i] EXCEPT !.deps = {}])
            \/ sets' = [sets EXCEPT ![n].stories = Restrict(@, DOMAIN @ \ {i})]
  BY <1>1 DEF EditFile
<1>4. phase[n] # "done"
  BY <1>1, <1>3 DEF StoryInv, PhaseInv, AllDone
<1>5. /\ phase' = phase /\ built' = built /\ pc = "rest" /\ pc' = "rest" /\ cur' = cur
      /\ CountInv'
  BY SameCounts DEF EditFile, StoryInv
<1>6. f[i] \in StorySet /\ RefsBack(n, f[i]) /\ f[i].status # "done"
  BY <1>2, <1>3 DEF StoriesOK, IsStories, Finished
<1>7. ASSUME NEW s, MayPut(n, f, built', i, s), Put(n, i, s)
      PROVE  SetsInv' /\ PhaseInv'
  <2>1. StoriesBecome(n, With(Stories(n), i, s))
    BY <1>7, PutIs DEF StoryInv
  <2>2. MayPut(n, Stories(n), built', i, s)
    BY <1>1, <1>7
  <2>3. QED
    BY <1>2, <1>4, <1>5, <2>1, <2>2, PhasePut
<1>8. CASE f[i].status = "failed" /\ Put(n, i, [f[i] EXCEPT !.status = "pending"])
  <2>1. PICK s : s = [f[i] EXCEPT !.status = "pending"]
    OBVIOUS
  <2>2. s \in StorySet /\ s.status = "pending" /\ s.refs = f[i].refs
    BY <1>6, <2>1 DEF StorySet
  <2>3. MayPut(n, f, built', i, s)
    BY <1>6, <2>2 DEF MayPut, RefsBack
  <2>4. QED
    BY <1>5, <1>7, <1>8, <2>1, <2>3 DEF StoryInv, WorkInv
<1>9. CASE Put(n, i, [f[i] EXCEPT !.deps = {}])
  <2>1. PICK s : s = [f[i] EXCEPT !.deps = {}]
    OBVIOUS
  <2>2. s \in StorySet /\ s.status = f[i].status /\ s.refs = f[i].refs /\ s.deps = {}
    BY <1>6, <2>1 DEF StorySet
  <2>3. ASSUME s.status = "in_progress"
        PROVE  /\ \A j \in WithStatus(f, "in_progress") : j = i
               /\ NewestFirst => s.deps \subseteq WithStatus(f, "done")
    <3>1. i \in WithStatus(f, "in_progress")
      BY <2>2, <2>3 DEF WithStatus
    <3>2. QED
      BY <1>2, <2>2, <3>1 DEF StoriesOK, RunsAlone
  <2>4. MayPut(n, f, built', i, s)
    BY <1>6, <2>2, <2>3 DEF MayPut, RefsBack
  <2>5. QED
    BY <1>5, <1>7, <1>9, <2>1, <2>4 DEF StoryInv, WorkInv
<1>10. CASE sets' = [sets EXCEPT ![n].stories = Restrict(@, DOMAIN @ \ {i})]
  <2>1. PICK g : g = Restrict(f, DOMAIN f \ {i})
    OBVIOUS
  <2>2. StoriesBecome(n, g)
    <3>1. StoriesBecome(n, Restrict(sets[n].stories, DOMAIN sets[n].stories \ {i}))
      BY <1>10 DEF StoriesBecome
    <3>2. g = Restrict(sets[n].stories, DOMAIN sets[n].stories \ {i})
      BY <1>1, <2>1 DEF Stories
    <3>3. QED
      BY <3>1, <3>2
  <2>3. /\ StoriesOK(room.stories[n], n, g, built')
        /\ WithStatus(g, "in_progress") # {} => sets[n].approved
    BY <1>2, <1>3, <1>5, <2>1, Taken
  <2>4. SetsInv' /\ \A k \in 1..Phases : Stories(k)' = IF k = n THEN g ELSE Stories(k)
    BY <1>5, <2>2, <2>3, StoriesPut DEF StoryInv
  <2>5. \A k \in 1..Phases : phase[k] = "done" => AllDone(Stories(k)')
    BY <1>4, <2>4 DEF StoryInv, PhaseInv
  <2>6. PhaseInv'
    BY <1>5, <2>5, SamePhases
  <2>7. QED
    BY <1>5, <2>4, <2>6 DEF StoryInv, WorkInv
<1>11. QED
  BY <1>3, <1>8, <1>9, <1>10

-----------------------------------------------------------------------------
(* An undo *)

\* The stories of phase n once those in back wait again.
Sent(n, f, back) ==
  [i \in DOMAIN f |-> IF <<n, i>> \in back THEN [f[i] EXCEPT !.status = "pending"] ELSE f[i]]

\* U is taken out of the project, and goes back with all of back; where the
\* newest change goes first, so does the story in progress.
LEMMA SentBack ==
  ASSUME NEW m, NEW n, NEW f, NEW b, StoriesOK(m, n, f, b), NEW U, NEW back, U \subseteq back,
         NewestFirst => \A i \in WithStatus(f, "in_progress") : <<n, i>> \in U
  PROVE  /\ StoriesOK(m, n, Sent(n, f, back), b \ U)
         /\ WithStatus(Sent(n, f, back), "in_progress") \subseteq WithStatus(f, "in_progress")
         /\ (\A i \in DOMAIN f : <<n, i>> \notin back) => (AllDone(f) => AllDone(Sent(n, f, back)))
<1> DEFINE g == Sent(n, f, back)
<1>1. /\ DOMAIN g = DOMAIN f /\ g = [i \in DOMAIN g |-> g[i]]
      /\ \A i \in DOMAIN f : g[i] = IF <<n, i>> \in back THEN [f[i] EXCEPT !.status = "pending"] ELSE f[i]
  BY DEF Sent
<1> HIDE DEF g
<1>2. IsStories(f, m) /\ RunsAlone(f) /\ InProject(n, f, b) /\ \A i \in DOMAIN f : RefsBack(n, f[i])
  BY DEF StoriesOK
<1>3. ASSUME NEW i \in DOMAIN f
      PROVE  /\ g[i] \in StorySet /\ g[i].deps = f[i].deps /\ g[i].refs = f[i].refs
             /\ g[i].status = IF <<n, i>> \in back THEN "pending" ELSE f[i].status
  <2>1. f[i] \in StorySet
    BY <1>2 DEF IsStories
  <2>2. CASE <<n, i>> \in back
    BY <1>1, <2>1, <2>2 DEF StorySet
  <2>3. CASE <<n, i>> \notin back
    BY <1>1, <2>1, <2>3
  <2>4. QED
    BY <2>2, <2>3
<1>4. \A st : st # "pending" => WithStatus(g, st) = {i \in WithStatus(f, st) : <<n, i>> \notin back}
  BY <1>1, <1>3 DEF WithStatus
<1>5. IsStories(g, m)
  BY <1>1, <1>2, <1>3 DEF IsStories
<1>6. RunsAlone(g)
  <2>1. CASE NewestFirst
    <3>1. WithStatus(g, "in_progress") = {}
      BY <1>4, <2>1
    <3>2. QED
      BY <3>1 DEF RunsAlone
  <2>2. CASE ~NewestFirst
    <3>1. WithStatus(g, "in_progress") \subseteq WithStatus(f, "in_progress")
      BY <1>4
    <3>2. \A i \in WithStatus(f, "in_progress") : WithStatus(f, "in_progress") = {i}
      BY <1>2 DEF RunsAlone
    <3>3. \A i \in WithStatus(g, "in_progress") : WithStatus(g, "in_progress") = {i}
      BY <3>1, <3>2
    <3>4. QED
      BY <2>2, <3>3 DEF RunsAlone
  <2>3. QED
    BY <2>1, <2>2
<1>7. InProject(n, g, b \ U)
  BY <1>2, <1>4 DEF InProject
<1>8. \A i \in DOMAIN g : RefsBack(n, g[i])
  BY <1>1, <1>2, <1>3 DEF RefsBack
<1>9. (\A i \in DOMAIN f : <<n, i>> \notin back) => (AllDone(f) => AllDone(g))
  BY <1>1, <1>3 DEF AllDone, Finished
<1>10. QED
  BY <1>4, <1>5, <1>6, <1>7, <1>8, <1>9 DEF StoriesOK, g

\* What a draft adds to does not depend on the project where an undo may come
\* while it waits.
LEMMA BaseAnywhere ==
  ASSUME NEW m, NEW n, NEW p, NEW b, NEW c, BaseOK(m, n, p, b), DraftUndo \/ p = Whole
  PROVE  BaseOK(m, n, p, c)
<1>1. CASE p = Whole
  BY <1>1 DEF BaseOK
<1>2. CASE DraftUndo /\ p # Whole
  BY <1>2 DEF BaseOK, StoriesOK, InProject
<1>3. QED
  BY <1>1, <1>2

\* What an undo of U sends back.
LEMMA GoesBackIs ==
  ASSUME StoryInv, NEW U \in SUBSET (UNION {{<<n, i>> : i \in DOMAIN Stories(n)} : n \in 1..Phases})
  PROVE  /\ U \subseteq GoesBack(U)
         /\ \A x \in GoesBack(U) : x[1] \in 1..Phases
<1> DEFINE done == UNION {{<<n, i>> : i \in DoneIn(n)} : n \in 1..Phases}
           On(x, y) == \/ x[1] = y[1] /\ y[2] \in Stories(x[1])[x[2]].deps
                       \/ x[1] > y[1] /\ y \in Stories(x[1])[x[2]].refs
           pairs == {e \in done \X (done \cup U) : On(e[1], e[2])}
<1>1. GoesBack(U) = BuiltOn(U, pairs)
  BY DEF GoesBack
<1>2. \A x \in done \cup U : x[1] \in 1..Phases
  OBVIOUS
<1>3. \A e \in pairs : e[1] \in done
  OBVIOUS
<1> HIDE DEF done, pairs
<1>4. QED
  BY <1>1, <1>2, <1>3, BuiltOnIs

\* An undo opens every phase it hits, and those above the first.
LEMMA UndoStep ==
  ASSUME StoryInv, room' = room,
         NEW U \in SUBSET (UNION {{<<n, i>> : i \in DOMAIN Stories(n)} : n \in 1..Phases}), Undo(U)
  PROVE  StoryInv'
<1> DEFINE back == GoesBack(U)
           hit == {x[1] : x \in back}
<1>1. /\ pc = "rest" /\ pc' = "rest" /\ cur' = cur /\ U # {} /\ built' = built \ U
      /\ NewestFirst => \A n \in 1..Phases : \A i \in WithStatus(Stories(n), "in_progress") : <<n, i>> \in U
      /\ DraftUndo \/ \A n \in 1..Phases : sets[n].amend = Whole
      /\ sets' = [n \in 1..Phases |-> [sets[n] EXCEPT !.stories = Sent(n, @, back)]]
      /\ phase' = [n \in 1..Phases |->
            IF \/ n \in hit /\ phase[n] = "done"
               \/ n > Min(hit) /\ phase[n] = "in_progress" THEN "pending" ELSE phase[n]]
  BY DEF Undo, Sent
<1>2. U \subseteq back /\ \A x \in back : x[1] \in 1..Phases
  BY GoesBackIs
<1> HIDE DEF back
<1>3. hit \in SUBSET (1..Phases) /\ hit # {}
  BY <1>1, <1>2
<1>4. \A n \in 1..Phases : n \notin hit => \A i : <<n, i>> \notin back
  OBVIOUS
<1> HIDE DEF hit
<1>5. Phases \in Nat /\ Phases' = Phases
  BY Rooms DEF StoryInv, CountInv, Phases
<1>6. Min(hit) \in 1..Phases /\ \A k \in hit : Min(hit) <= k
  <2>1. 1 \in Int /\ Phases \in Int
    BY <1>5
  <2>2. QED
    BY <1>3, <2>1, MinIs
<1>7. CountInv'
  BY <1>1, SameCounts DEF StoryInv, Undo
<1>8. ASSUME NEW n \in 1..Phases
      PROVE  /\ SetOK(room.stories[n], n, sets'[n], built') /\ Stories(n)' = Sent(n, Stories(n), back)
             /\ n \notin hit => (AllDone(Stories(n)) => AllDone(Stories(n)'))
  <2>1. PICK t : t = sets[n]
    OBVIOUS
  <2>2. SetOK(room.stories[n], n, t, built)
    BY <2>1 DEF StoryInv, SetsInv
  <2>3. /\ t = [stories |-> t.stories, approved |-> t.approved, amend |-> t.amend]
        /\ t.approved \in BOOLEAN /\ StoriesOK(room.stories[n], n, t.stories, built)
        /\ WithStatus(t.stories, "in_progress") # {} => t.approved
        /\ BaseOK(room.stories[n], n, t.amend, built)
    BY <2>2 DEF SetOK
  <2>4. sets'[n] = [stories |-> Sent(n, t.stories, back), approved |-> t.approved, amend |-> t.amend]
    BY <1>1, <2>1, <2>3
  <2>5. t.stories = Stories(n)
    BY <2>1 DEF Stories
  <2>6. /\ StoriesOK(room.stories[n], n, Sent(n, t.stories, back), built')
        /\ WithStatus(Sent(n, t.stories, back), "in_progress") \subseteq WithStatus(t.stories, "in_progress")
        /\ (\A i \in DOMAIN t.stories : <<n, i>> \notin back)
             => (AllDone(t.stories) => AllDone(Sent(n, t.stories, back)))
    <3>1. NewestFirst => \A i \in WithStatus(t.stories, "in_progress") : <<n, i>> \in U
      BY <1>1, <2>5
    <3>2. StoriesOK(room.stories[n], n, t.stories, built) /\ U \subseteq back /\ built' = built \ U
      BY <1>1, <1>2, <2>3
    <3>3. QED
      BY <3>1, <3>2, SentBack
  <2>7. BaseOK(room.stories[n], n, t.amend, built')
    BY <1>1, <2>1, <2>3, BaseAnywhere
  <2>8. SetOK(room.stories[n], n, sets'[n], built')
    <3>1. PICK new : new = sets'[n]
      OBVIOUS
    <3>2. /\ new = [stories |-> new.stories, approved |-> new.approved, amend |-> new.amend]
          /\ new.stories = Sent(n, t.stories, back) /\ new.approved = t.approved /\ new.amend = t.amend
      BY <2>4, <3>1
    <3>3. SetOK(room.stories[n], n, new, built')
      BY <2>3, <2>6, <2>7, <3>2 DEF SetOK
    <3>4. QED
      BY <3>1, <3>3
  <2>9. Stories(n)' = Sent(n, Stories(n), back)
    BY <2>4, <2>5 DEF Stories
  <2>10. QED
    BY <1>4, <2>5, <2>6, <2>8, <2>9
<1>9. SetsInv'
  <2>1. sets' = [n \in 1..Phases |-> sets'[n]]
    BY <1>1
  <2>2. QED
    BY <1>5, <1>8, <2>1 DEF SetsInv
<1>10. PhaseInv'
  <2>1. \A n \in 1..Phases : phase[n] \in {"pending", "in_progress", "done"}
    BY DEF StoryInv, PhaseInv
  <2>2. \A n \in 1..Phases : phase'[n] =
           IF \/ n \in hit /\ phase[n] = "done"
              \/ n > Min(hit) /\ phase[n] = "in_progress" THEN "pending" ELSE phase[n]
    BY <1>1
  <2>3. phase' \in [1..Phases -> {"pending", "in_progress", "done"}]
    BY <1>1, <2>1
  <2>4. ASSUME NEW k \in 1..Phases, NEW n \in 1..Phases, phase'[n] = "in_progress", k < n
        PROVE  phase'[k] = "done"
    <3>1. phase[n] = "in_progress" /\ ~(n > Min(hit))
      BY <2>2, <2>4
    <3>2. phase[k] = "done"
      BY <2>4, <3>1 DEF StoryInv, PhaseInv
    <3>3. k \notin hit
      BY <1>5, <1>6, <2>4, <3>1
    <3>4. QED
      BY <2>2, <3>2, <3>3
  <2>5. ASSUME NEW n \in 1..Phases, phase'[n] = "done" PROVE AllDone(Stories(n)')
    <3>1. phase[n] = "done" /\ n \notin hit
      BY <2>2, <2>5
    <3>2. QED
      BY <1>8, <3>1 DEF StoryInv, PhaseInv
  <2>6. QED
    BY <1>5, <2>3, <2>4, <2>5 DEF PhaseInv
<1>11. WorkInv'
  BY <1>1 DEF StoryInv, WorkInv
<1>12. QED
  BY <1>7, <1>9, <1>10, <1>11 DEF StoryInv

-----------------------------------------------------------------------------
(* What a writing pass submits *)

\* The stories a pass adds to: what is done of them stays so.
LEMMA KeptIs ==
  ASSUME NEW m, NEW n, NEW b, BaseOK(m, n, pass, b), NEW retire
  PROVE  /\ StoriesOK(m, n, Kept(retire), b) /\ WithStatus(Kept(retire), "in_progress") = {}
         /\ pass.kind # "whole" => pass.replaces \subseteq DOMAIN Kept(retire)
<1>1. CASE pass.kind = "whole"
  <2>1. Kept(retire) = <<>> /\ DOMAIN (<<>>) = {} /\ <<>> = [i \in DOMAIN (<<>>) |-> (<<>>)[i]]
    BY <1>1 DEF Kept
  <2>2. \A st : WithStatus(<<>>, st) = {}
    BY DEF WithStatus
  <2>3. StoriesOK(m, n, <<>>, b)
    BY <2>1, <2>2 DEF StoriesOK, IsStories, RunsAlone, InProject
  <2>4. QED
    BY <1>1, <2>1, <2>2, <2>3
<1>2. CASE pass.kind # "whole"
  <2>1. PICK f, R : f = pass.base /\ R = pass.replaces
    OBVIOUS
  <2>2. StoriesOK(m, n, f, b) /\ WithStatus(f, "in_progress") = {} /\ R \subseteq DOMAIN f
    BY <1>2, <2>1 DEF BaseOK, Whole
  <2>3. PICK g : g = [i \in DOMAIN f |-> IF i \in R \cup retire /\ f[i].status # "done"
                                         THEN [f[i] EXCEPT !.status = "replaced"] ELSE f[i]]
    OBVIOUS
  <2>4. Kept(retire) = g
    BY <1>2, <2>1, <2>3 DEF Kept
  <2>5. IsStories(f, m) /\ InProject(n, f, b) /\ \A i \in DOMAIN f : RefsBack(n, f[i])
    BY <2>2 DEF StoriesOK
  <2>6. DOMAIN g = DOMAIN f /\ g = [i \in DOMAIN g |-> g[i]]
    BY <2>3
  <2>7. ASSUME NEW i \in DOMAIN f
        PROVE  /\ g[i] \in StorySet /\ g[i].refs = f[i].refs
               /\ \/ g[i] = f[i]
                  \/ g[i].status = "replaced" /\ f[i].status # "done"
    <3>1. f[i] \in StorySet
      BY <2>5 DEF IsStories
    <3>2. CASE i \in R \cup retire /\ f[i].status # "done"
      <4>1. g[i] = [f[i] EXCEPT !.status = "replaced"]
        BY <2>3, <3>2
      <4>2. QED
        BY <3>1, <3>2, <4>1 DEF StorySet
    <3>3. CASE ~(i \in R \cup retire /\ f[i].status # "done")
      <4>1. g[i] = f[i]
        BY <2>3, <3>3
      <4>2. QED
        BY <3>1, <4>1
    <3>4. QED
      BY <3>2, <3>3
  <2>8. WithStatus(g, "in_progress") = {} /\ WithStatus(g, "done") = WithStatus(f, "done")
    BY <2>2, <2>6, <2>7 DEF WithStatus
  <2>9. StoriesOK(m, n, g, b)
    <3>1. IsStories(g, m)
      BY <2>5, <2>6, <2>7 DEF IsStories
    <3>2. RunsAlone(g) /\ InProject(n, g, b)
      BY <2>5, <2>8 DEF RunsAlone, InProject
    <3>3. \A i \in DOMAIN g : RefsBack(n, g[i])
      BY <2>5, <2>6, <2>7 DEF RefsBack
    <3>4. QED
      BY <3>1, <3>2, <3>3 DEF StoriesOK
  <2>10. QED
    BY <2>1, <2>2, <2>4, <2>6, <2>8, <2>9
<1>3. QED
  BY <1>1, <1>2

\* What a pass submits, where its new stories depend on what is there: nothing
\* of it runs.
FreshOK(m, n, new, deps, refs) ==
  /\ new \subseteq 1..m
  /\ \A i \in new : deps[i] \in SUBSET Nat /\ refs[i] \in SUBSET ((1..(n - 1)) \X Nat)

LEMMA SubmittedIs ==
  ASSUME NEW m \in Nat, NEW n, NEW b, BaseOK(m, n, pass, b), NEW retire,
         NEW new, NEW deps, NEW refs, FreshOK(m, n, new, deps, refs)
  PROVE  /\ StoriesOK(m, n, Submitted(retire, new, deps, refs), b)
         /\ WithStatus(Submitted(retire, new, deps, refs), "in_progress") = {}
<1>0. /\ new \in SUBSET (1..m)
      /\ \A i \in new : deps[i] \in SUBSET Nat /\ refs[i] \in SUBSET ((1..(n - 1)) \X Nat)
  BY DEF FreshOK
<1>1. PICK f : f = Kept(retire)
  OBVIOUS
<1>2. /\ StoriesOK(m, n, f, b) /\ WithStatus(f, "in_progress") = {}
      /\ pass.kind # "whole" => pass.replaces \subseteq DOMAIN f
  BY <1>1, KeptIs
<1>3. IsStories(f, m) /\ InProject(n, f, b) /\ \A i \in DOMAIN f : RefsBack(n, f[i])
  BY <1>2 DEF StoriesOK
<1> DEFINE first == IF pass.kind = "whole" \/ pass.replaces = {} THEN 0 ELSE Min(pass.replaces)
           tried == IF first = 0 THEN 0 ELSE f[first].attempts
           Onto(i, s) ==
             IF pass.remap # 0 /\ ~Finished(s) /\ pass.remap \in s.deps
             THEN [s EXCEPT !.deps = (@ \ {pass.remap}) \cup new]
             ELSE IF i = pass.blocks THEN [s EXCEPT !.deps = @ \cup new] ELSE s
<1>4. tried \in Nat
  <2>1. CASE pass.kind = "whole" \/ pass.replaces = {}
    BY <2>1
  <2>2. CASE ~(pass.kind = "whole" \/ pass.replaces = {})
    <3>1. PICK R : R = pass.replaces
      OBVIOUS
    <3>2. R \in SUBSET (1..m) /\ R # {} /\ R \subseteq DOMAIN f
      BY <1>2, <1>3, <2>2, <3>1 DEF IsStories
    <3>3. Min(R) \in R
      <4>1. 1 \in Int /\ m \in Int
        OBVIOUS
      <4>2. QED
        BY <3>2, <4>1, MinIs
    <3>4. first = Min(R) /\ Min(R) \in DOMAIN f
      BY <2>2, <3>1, <3>2, <3>3
    <3>5. f[Min(R)].attempts \in Nat
      BY <1>3, <3>4, StoryFields DEF IsStories
    <3>6. QED
      BY <3>4, <3>5
  <2>3. QED
    BY <2>1, <2>2
<1>5. PICK g : g = Submitted(retire, new, deps, refs)
  OBVIOUS
<1>6. g = [i \in DOMAIN f \cup new |-> IF i \in DOMAIN f THEN Onto(i, f[i])
                                       ELSE NewStory(deps[i], refs[i], tried)]
  BY <1>1, <1>5 DEF Submitted
<1>7. ASSUME NEW i \in DOMAIN f
      PROVE  /\ Onto(i, f[i]) \in StorySet /\ Onto(i, f[i]).status = f[i].status
             /\ Onto(i, f[i]).refs = f[i].refs
  <2>1. f[i] \in StorySet
    BY <1>3 DEF IsStories
  <2>2. PICK s : s = f[i]
    OBVIOUS
  <2>3. s \in StorySet /\ s.deps \in SUBSET Nat
    BY <2>1, <2>2, StoryFields
  <2>4. PICK t : t = Onto(i, s)
    OBVIOUS
  <2>5. \E d \in SUBSET Nat : t = [s EXCEPT !.deps = d] \/ t = s
    <3>1. new \in SUBSET Nat
      BY <1>0
    <3>2. (s.deps \ {pass.remap}) \cup new \in SUBSET Nat /\ s.deps \cup new \in SUBSET Nat
      BY <2>3, <3>1
    <3>3. QED
      BY <2>4, <3>2
  <2>6. t \in StorySet /\ t.status = s.status /\ t.refs = s.refs
    BY <2>3, <2>5 DEF StorySet
  <2>7. QED
    BY <2>2, <2>4, <2>6
<1> HIDE DEF tried, Onto
<1>8. ASSUME NEW i \in new
      PROVE  /\ NewStory(deps[i], refs[i], tried) \in StorySet
             /\ NewStory(deps[i], refs[i], tried).status = "pending"
             /\ RefsBack(n, NewStory(deps[i], refs[i], tried))
  <2>1. PICK d, r : d = deps[i] /\ r = refs[i]
    OBVIOUS
  <2>2. d \in SUBSET Nat /\ r \in SUBSET ((1..(n - 1)) \X Nat)
    BY <1>0, <2>1
  <2>3. r \in SUBSET (Nat \X Nat)
    <3>1. \A x \in r : x \in Nat \X Nat
      BY <2>2
    <3>2. QED
      BY <3>1
  <2>4. /\ NewStory(d, r, tried) \in StorySet /\ NewStory(d, r, tried).status = "pending"
        /\ NewStory(d, r, tried).refs = r
    BY <1>4, <2>2, <2>3 DEF NewStory, StorySet
  <2>5. \A x \in r : x[1] \in 1..(n - 1)
    BY <2>2
  <2>6. QED
    BY <2>1, <2>4, <2>5 DEF RefsBack
<1>9. DOMAIN g = DOMAIN f \cup new /\ g = [i \in DOMAIN g |-> g[i]]
  BY <1>6
<1>10. ASSUME NEW i \in DOMAIN g
       PROVE  /\ g[i] \in StorySet /\ RefsBack(n, g[i])
              /\ \/ i \in DOMAIN f /\ g[i].status = f[i].status
                 \/ g[i].status = "pending"
  <2>1. CASE i \in DOMAIN f
    <3>1. g[i] = Onto(i, f[i])
      BY <1>6, <1>9, <2>1
    <3>2. QED
      BY <1>3, <1>7, <2>1, <3>1 DEF RefsBack
  <2>2. CASE i \notin DOMAIN f
    <3>1. i \in new /\ g[i] = NewStory(deps[i], refs[i], tried)
      BY <1>6, <1>9, <2>2
    <3>2. QED
      BY <1>8, <3>1
  <2>3. QED
    BY <2>1, <2>2
<1>11. WithStatus(g, "in_progress") = {} /\ WithStatus(g, "done") \subseteq WithStatus(f, "done")
  BY <1>2, <1>10 DEF WithStatus
<1>12. IsStories(g, m)
  BY <1>0, <1>3, <1>9, <1>10 DEF IsStories
<1>13. RunsAlone(g) /\ InProject(n, g, b)
  BY <1>3, <1>11 DEF RunsAlone, InProject
<1>14. QED
  BY <1>5, <1>10, <1>11, <1>12, <1>13 DEF StoriesOK

\* The stories of phase k once those in gone are retired.
Retired(k, old, gone) ==
  [i \in DOMAIN old |-> IF <<k, i>> \in gone THEN [old[i] EXCEPT !.retired = TRUE] ELSE old[i]]

LEMMA RetiredAlike ==
  ASSUME NEW m, NEW k, NEW f, NEW gone, IsStories(f, m)
  PROVE  Alike(f, Retired(k, f, gone))
<1> DEFINE g == Retired(k, f, gone)
<1>1. g = [i \in DOMAIN f |-> g[i]]
  BY DEF Retired
<1>2. ASSUME NEW i \in DOMAIN f
      PROVE  /\ g[i].status = f[i].status /\ g[i].deps = f[i].deps /\ g[i].refs = f[i].refs
             /\ g[i] \in StorySet
  <2>1. f[i] \in StorySet
    BY DEF IsStories
  <2>2. CASE <<k, i>> \in gone
    <3>1. g[i] = [f[i] EXCEPT !.retired = TRUE]
      BY <2>2 DEF Retired
    <3>2. QED
      BY <2>1, <3>1 DEF StorySet
  <2>3. CASE <<k, i>> \notin gone
    <3>1. g[i] = f[i]
      BY <2>3 DEF Retired
    <3>2. QED
      BY <2>1, <3>1
  <2>4. QED
    BY <2>2, <2>3
<1> HIDE DEF g
<1>3. QED
  BY <1>1, <1>2 DEF Alike, g

\* The set t of phase n with g, alike its own stories, in their place.
LEMMA AlikeSet ==
  ASSUME NEW m, NEW n, NEW t, NEW b, SetOK(m, n, t, b), NEW g, Alike(t.stories, g)
  PROVE  SetOK(m, n, [t EXCEPT !.stories = g], b) /\ [t EXCEPT !.stories = g].stories = g
<1>1. /\ t = [stories |-> t.stories, approved |-> t.approved, amend |-> t.amend]
      /\ t.approved \in BOOLEAN /\ StoriesOK(m, n, t.stories, b)
      /\ WithStatus(t.stories, "in_progress") # {} => t.approved
      /\ BaseOK(m, n, t.amend, b)
  BY DEF SetOK
<1>2. PICK new : new = [t EXCEPT !.stories = g]
  OBVIOUS
<1>3. /\ new = [stories |-> new.stories, approved |-> new.approved, amend |-> new.amend]
      /\ new.stories = g /\ new.approved = t.approved /\ new.amend = t.amend
  BY <1>1, <1>2
<1>4. StoriesOK(m, n, g, b) /\ WithStatus(g, "in_progress") = WithStatus(t.stories, "in_progress")
  BY <1>1, AlikeIs
<1>5. SetOK(m, n, new, b)
  BY <1>1, <1>3, <1>4 DEF SetOK
<1>6. QED
  BY <1>2, <1>3, <1>5

\* The pass ends with a valid set: it is stored as a draft, or the phase goes on.
LEMMA FinishStep ==
  ASSUME StoryInv, room' = room, pc = "writing", NEW retire, NEW new, NEW deps, NEW refs,
         FreshOK(room.stories[Current], Current, new, deps, refs),
         NEW approve \in BOOLEAN, NEW gone, Finish(retire, new, deps, refs, approve, gone)
  PROVE  StoryInv'
<1>1. PICK n \in 1..Phases, ss \in {Submitted(retire, new, deps, refs)} :
             n = Current /\ ss = Submitted(retire, new, deps, refs)
  BY AtWork
<1>2. phase[n] = "in_progress" /\ room.stories[n] \in Nat
  BY <1>1, AtWork
<1>3. BaseOK(room.stories[n], n, pass, built)
  BY <1>1 DEF StoryInv, WorkInv
<1>4. StoriesOK(room.stories[n], n, ss, built) /\ WithStatus(ss, "in_progress") = {}
  BY <1>1, <1>2, <1>3, SubmittedIs
<1>5. /\ phase' = phase /\ cur' = cur /\ refused' = refused /\ fixes' = fixes
      /\ reverified' = reverified /\ built' = built
      /\ \/ /\ sets' = [k \in 1..Phases |->
                IF k = n THEN [stories |-> Retired(k, ss, gone), approved |-> TRUE, amend |-> Whole]
                         ELSE [sets[k] EXCEPT !.stories = Retired(k, @, gone)]]
            /\ pc' = "next"
         \/ /\ sets' = [sets EXCEPT ![n] = [stories |-> ss, approved |-> FALSE, amend |-> pass]]
            /\ pc' = pc /\ pass' = pass
  BY <1>1 DEF Finish, Retired
<1>6. Phases' = Phases /\ CountInv'
  BY <1>5, SameCounts DEF Phases, StoryInv
<1>7. \A k \in 1..Phases : /\ SetOK(room.stories[k], k, sets[k], built)
                          /\ IsStories(sets[k].stories, room.stories[k])
  BY DEF StoryInv, SetsInv, SetOK, StoriesOK
<1>8. ASSUME pc' = "next",
             sets' = [k \in 1..Phases |->
                IF k = n THEN [stories |-> Retired(k, ss, gone), approved |-> TRUE, amend |-> Whole]
                         ELSE [sets[k] EXCEPT !.stories = Retired(k, @, gone)]]
      PROVE  StoryInv'
  <2>1. ASSUME NEW k \in 1..Phases, k # n
        PROVE  /\ SetOK(room.stories[k], k, sets'[k], built)
               /\ AllDone(sets[k].stories) => AllDone(sets'[k].stories)
    <3>1. PICK t, g : t = sets[k] /\ g = Retired(k, t.stories, gone)
      OBVIOUS
    <3>2. sets'[k] = [t EXCEPT !.stories = g]
      BY <1>8, <2>1, <3>1
    <3>3. SetOK(room.stories[k], k, t, built) /\ Alike(t.stories, g)
      BY <1>7, <3>1, RetiredAlike
    <3>4. SetOK(room.stories[k], k, [t EXCEPT !.stories = g], built) /\ [t EXCEPT !.stories = g].stories = g
      BY <3>3, AlikeSet
    <3>5. AllDone(t.stories) => AllDone(g)
      BY <3>3, AlikeIs
    <3>6. QED
      BY <3>1, <3>2, <3>4, <3>5
  <2>2. SetOK(room.stories[n], n, sets'[n], built)
    <3>1. PICK g : g = Retired(n, ss, gone)
      OBVIOUS
    <3>2. sets'[n] = [stories |-> g, approved |-> TRUE, amend |-> Whole]
      BY <1>8, <3>1
    <3>3. Alike(ss, g)
      BY <1>4, <3>1, RetiredAlike DEF StoriesOK
    <3>4. StoriesOK(room.stories[n], n, g, built)
      BY <1>4, <3>3, AlikeIs
    <3>5. SetOK(room.stories[n], n, [stories |-> g, approved |-> TRUE, amend |-> Whole], built)
      BY <3>4 DEF SetOK, BaseOK
    <3>6. QED
      BY <3>2, <3>5
  <2>3. SetsInv'
    <3>1. sets' = [k \in 1..Phases |-> sets'[k]]
      BY <1>8
    <3>2. \A k \in 1..Phases : SetOK(room.stories[k], k, sets'[k], built)
      BY <2>1, <2>2
    <3>3. QED
      BY <1>5, <1>6, <3>1, <3>2 DEF SetsInv
  <2>4. \A k \in 1..Phases : phase[k] = "done" => AllDone(Stories(k)')
    BY <1>2, <2>1 DEF StoryInv, PhaseInv, Stories
  <2>5. PhaseInv' /\ Current' = Current
    BY <1>5, <2>4, SamePhases
  <2>6. WorkInv'
    BY <1>1, <1>2, <1>5, <1>6, <1>8, <2>5 DEF StoryInv, WorkInv
  <2>7. QED
    BY <1>6, <2>3, <2>5, <2>6 DEF StoryInv
<1>9. ASSUME pc' = pc, pass' = pass,
             sets' = [sets EXCEPT ![n] = [stories |-> ss, approved |-> FALSE, amend |-> pass]]
      PROVE  StoryInv'
  <2>1. DOMAIN sets = 1..Phases
    BY DEF StoryInv, SetsInv
  <2>2. /\ sets'[n] = [stories |-> ss, approved |-> FALSE, amend |-> pass]
        /\ \A k \in 1..Phases : k # n => sets'[k] = sets[k]
        /\ sets' = [k \in 1..Phases |-> sets'[k]]
    BY <1>9, <2>1
  <2>3. SetOK(room.stories[n], n, sets'[n], built)
    <3>1. SetOK(room.stories[n], n, [stories |-> ss, approved |-> FALSE, amend |-> pass], built)
      BY <1>3, <1>4 DEF SetOK
    <3>2. QED
      BY <2>2, <3>1
  <2>4. SetsInv'
    BY <1>5, <1>6, <1>7, <2>2, <2>3 DEF SetsInv
  <2>5. \A k \in 1..Phases : phase[k] = "done" => AllDone(Stories(k)')
    BY <1>2, <2>2 DEF StoryInv, PhaseInv, Stories
  <2>6. PhaseInv' /\ Current' = Current
    BY <1>5, <2>5, SamePhases
  <2>7. pc' = "writing" => BaseOK(room'.stories[Current'], Current', pass', built')
    BY <1>1, <1>3, <1>5, <1>9, <2>6
  <2>8. WorkInv'
    BY <1>1, <1>2, <1>5, <1>6, <1>9, <2>6, <2>7 DEF StoryInv, WorkInv
  <2>9. QED
    BY <1>6, <2>4, <2>6, <2>8 DEF StoryInv
<1>10. QED
  BY <1>5, <1>8, <1>9

\* The writer's own choices are of that kind.
LEMMA WriterStep ==
  ASSUME StoryInv, room' = room, Writer, ~WriterStops
  PROVE  StoryInv'
<1> DEFINE n == Current
           had == IF pass.kind = "amend" THEN DOMAIN pass.base ELSE {}
           next == Max({0} \cup had) + 1
<1>1. PICK k \in 0..MaxNew, approve \in BOOLEAN, retire \in SUBSET had,
           gone \in {{}} \cup {{x} : x \in Retirable(n)} :
        /\ next..(next + k - 1) \subseteq 1..room.stories[n]
        /\ \E deps \in [next..(next + k - 1) -> SUBSET (had \cup (next..(next + k - 1)))],
              refs \in [next..(next + k - 1) -> SUBSET (UNION {{<<m, i>> : i \in DoneIn(m)} : m \in 1..(n - 1)})] :
             Finish(retire, next..(next + k - 1), deps, refs, approve, gone)
  BY DEF Writer
<1>2. pc = "writing"
  BY DEF Writer
<1>3. /\ n \in 1..Phases /\ Phases \in Nat /\ room.stories[n] \in Nat
      /\ BaseOK(room.stories[n], n, pass, built)
  BY <1>2, AtWork DEF StoryInv, WorkInv
<1>4. had \subseteq Nat
  <2>1. CASE pass.kind = "amend"
    BY <1>3, <2>1 DEF BaseOK, Whole, StoriesOK, IsStories
  <2>2. CASE pass.kind # "amend"
    BY <2>2
  <2>3. QED
    BY <2>1, <2>2
<1>5. UNION {{<<m, i>> : i \in DoneIn(m)} : m \in 1..(n - 1)} \subseteq (1..(n - 1)) \X Nat
  <2>1. ASSUME NEW m \in 1..(n - 1) PROVE DoneIn(m) \subseteq Nat
    <3>1. m \in 1..Phases
      BY <1>3
    <3>2. IsStories(Stories(m), room.stories[m]) /\ room.stories[m] \in Nat
      BY <3>1, Rooms DEF StoryInv, CountInv, SetsInv, SetOK, StoriesOK, Stories
    <3>3. QED
      BY <3>2 DEF DoneIn, WithStatus, IsStories
  <2>2. QED
    BY <2>1
<1>6. PICK new : new = next..(next + k - 1)
  OBVIOUS
<1> HIDE DEF next, had
<1>7. PICK deps \in [new -> SUBSET (had \cup new)],
           refs \in [new -> SUBSET (UNION {{<<m, i>> : i \in DoneIn(m)} : m \in 1..(n - 1)})] :
        Finish(retire, new, deps, refs, approve, gone)
  BY <1>1, <1>6
<1>8. new \in SUBSET (1..room.stories[n]) /\ new \subseteq Nat
  <2>1. new \subseteq 1..room.stories[n]
    BY <1>1, <1>6
  <2>2. 1..room.stories[n] \subseteq Nat
    BY <1>3
  <2>3. QED
    BY <2>1, <2>2
<1>9. FreshOK(room.stories[n], n, new, deps, refs)
  <2>1. PICK Q : Q = UNION {{<<m, i>> : i \in DoneIn(m)} : m \in 1..(n - 1)}
    OBVIOUS
  <2>2. Q \subseteq (1..(n - 1)) \X Nat /\ refs \in [new -> SUBSET Q]
    BY <1>5, <1>7, <2>1
  <2>3. ASSUME NEW i \in new PROVE deps[i] \in SUBSET Nat
    <3>1. deps[i] \subseteq had \cup new
      BY <1>7
    <3>2. QED
      BY <1>4, <1>8, <3>1
  <2>4. ASSUME NEW i \in new PROVE refs[i] \in SUBSET ((1..(n - 1)) \X Nat)
    <3>1. refs[i] \subseteq Q
      BY <2>2
    <3>2. refs[i] \subseteq (1..(n - 1)) \X Nat
      BY <2>2, <3>1
    <3>3. QED
      BY <3>2
  <2>5. QED
    BY <1>8, <2>3, <2>4 DEF FreshOK
<1>10. QED
  BY <1>2, <1>7, <1>9, FinishStep

-----------------------------------------------------------------------------
(* The theorems *)

LEMMA Outsiders ==
  ASSUME StoryInv, room' = room, Outside
  PROVE  StoryInv'
<1>1. CASE Crash
  BY <1>1, PauseStep
<1>2. CASE \E n \in 1..Phases : EditFile(n)
  BY <1>2, EditStep
<1>3. CASE \E U \in SUBSET (UNION {{<<n, i>> : i \in DOMAIN Stories(n)} : n \in 1..Phases}) : Undo(U)
  BY <1>3, UndoStep
<1>4. QED
  BY <1>1, <1>2, <1>3 DEF Outside

LEMMA Runs ==
  ASSUME StoryInv, room' = room, Run
  PROVE  StoryInv'
<1>1. CASE Go \/ NextPhase
  BY <1>1, GoStep
<1>2. CASE WriteSet
  BY <1>2, WriteSetStep
<1>3. CASE RunStory
  BY <1>3, RunStoryStep
<1>4. CASE Refused
  BY <1>4, RefusedStep
<1>5. CASE Failed
  BY <1>5, FailedStep
<1>6. CASE StoryCancelled
  BY <1>6, CancelledStep
<1>7. CASE NothingReady
  BY <1>7, NothingReadyStep
<1>8. CASE \E v \in {"pass", "deferred"} : Accepted(v)
  BY <1>8, AcceptedStep
<1>9. CASE \E wrong \in BOOLEAN : Defect(wrong)
  BY <1>9, DefectStep
<1>10. CASE \E found \in [Waiting(Current) -> Verdicts], own \in Verdicts, fails \in SUBSET Saved,
               late \in {"pass", "command", "gap"} : Gate(found, own, fails, late)
  BY <1>10, GateStep
<1>11. QED
  BY <1>1, <1>2, <1>3, <1>4, <1>5, <1>6, <1>7, <1>8, <1>9, <1>10 DEF Run

LEMMA Steps ==
  StoryInv /\ [Next]_vars => StoryInv'
<1>1. ASSUME StoryInv, Next PROVE StoryInv'
  <2>1. room' = room /\ (Run \/ Writer \/ Outside)
    BY <1>1 DEF Next
  <2>2. CASE Writer
    BY <1>1, <2>1, <2>2, WriterStep, PauseStep
  <2>3. QED
    BY <1>1, <2>1, <2>2, Runs, Outsiders
<1>2. ASSUME StoryInv, UNCHANGED vars PROVE StoryInv'
  <2>1. /\ room' = room /\ phase' = phase /\ sets' = sets /\ pc' = pc /\ cur' = cur
        /\ refused' = refused /\ pass' = pass /\ fixes' = fixes /\ reverified' = reverified
        /\ built' = built
    BY <1>2 DEF vars
  <2>2. SetsInv' /\ PhaseInv' /\ CountInv' /\ Current' = Current /\ Phases' = Phases
        /\ \A n : Stories(n)' = Stories(n)
    BY <1>2, <2>1, SameSets, SamePhases, SameCounts DEF StoryInv, PhaseInv
  <2>3. QED
    BY <1>2, <2>1, <2>2 DEF StoryInv, WorkInv
<1>3. QED
  BY <1>1, <1>2

\* The inductive invariant: whatever was re-split, corrected, edited, undone or
\* left in the middle, one story at most runs, in the one phase in progress,
\* and no phase counts as done with a story left.
THEOREM StoryInvariant ==
  Spec => []StoryInv
<1>1. QED
  BY Starting, Steps, PTL DEF Spec

\* Every variable keeps its type, for every plan and every bound.
THEOREM Typing ==
  Spec => []TypeOK
<1>1. StoryInv => TypeOK
  <2> SUFFICES ASSUME StoryInv PROVE TypeOK
    OBVIOUS
  <2>1. \A n \in 1..Phases : \A i \in DOMAIN Stories(n) : Stories(n)[i] \in StorySet
    BY DEF StoryInv, SetsInv, SetOK, StoriesOK, IsStories, Stories
  <2>2. QED
    BY <2>1 DEF StoryInv, CountInv, PhaseInv, WorkInv, TypeOK
<1>2. QED
  BY <1>1, StoryInvariant, PTL

\* Where no undo may come while a draft waits for approval, a story that counts
\* as done has its changes in the project, whatever was undone, re-split,
\* retired or edited since (plan_runner.py:306, story_runner.py:157). A draft
\* that waits carries the stories as they were: that an undo may then come
\* breaks it, so the hypothesis cannot go.
THEOREM DoneHasItsFiles ==
  ASSUME DraftUndo = FALSE
  PROVE  Spec => []DoneIsBuilt
<1>1. StoryInv => DoneIsBuilt
  BY DEF StoryInv, SetsInv, SetOK, StoriesOK, InProject, DoneIsBuilt, DoneIn, Stories
<1>2. QED
  BY <1>1, StoryInvariant, PTL

\* Where an undo takes the story in progress back with the others, a story
\* starts only when what it depends on is done and what it was built on is not
\* open again (stories.py:284).
THEOREM StartsWhenReady ==
  ASSUME NewestFirst = TRUE
  PROVE  Spec => StartsReady
<1>1. ASSUME StoryInv, [Next]_vars, pc = "next", pc' = "story"
      PROVE  LET s == Stories(Current)[cur']
             IN  /\ s.deps \subseteq DoneIn(Current)
                 /\ \A r \in s.refs : r[2] \in DOMAIN Stories(r[1]) => Finished(Stories(r[1])[r[2]])
  <2>1. RunStory
    BY <1>1 DEF Next, Run, Writer, Outside, Go, WriteSet, RunStory, Accepted, Refused, Failed,
                Defect, StoryCancelled, NothingReady, Gate, NextPhase, EditFile, Crash, Undo,
                WriterStops, Finish, Write, Rest, AtGate, vars
  <2>2. PICK n \in 1..Phases, f \in {Stories(Current)}, i \in {cur'} : n = Current /\ f = Stories(n) /\ i = cur'
    BY <1>1, AtWork
  <2>3. /\ phase[n] = "in_progress" /\ room.stories[n] \in Nat /\ Phases \in Nat
        /\ StoriesOK(room.stories[n], n, f, built) /\ IsStories(f, room.stories[n])
    BY <1>1, <2>2, AtWork
  <2>4. i = NextReady(f) /\ i # 0
    BY <2>1, <2>2 DEF RunStory
  <2>5. \/ i \in WithStatus(f, "in_progress")
        \/ i \in WithStatus(f, "pending") /\ f[i].deps \subseteq WithStatus(f, "done")
    BY <2>3, <2>4, NextReadyIs
  <2>6. i \in DOMAIN f /\ f[i].deps \subseteq WithStatus(f, "done")
    BY <2>3, <2>5 DEF StoriesOK, RunsAlone, WithStatus
  <2>7. ASSUME NEW r \in f[i].refs, r[2] \in DOMAIN Stories(r[1]) PROVE Finished(Stories(r[1])[r[2]])
    <3>1. r[1] \in 1..(n - 1)
      BY <2>3, <2>6 DEF StoriesOK, RefsBack
    <3>2. PICK m \in 1..Phases : m = r[1] /\ m < n
      BY <2>3, <3>1
    <3>3. phase[m] = "done"
      BY <1>1, <2>3, <3>2 DEF StoryInv, PhaseInv
    <3>4. AllDone(Stories(m))
      BY <1>1, <3>3 DEF StoryInv, PhaseInv
    <3>5. QED
      BY <2>7, <3>2, <3>4 DEF AllDone
  <2>8. QED
    BY <2>2, <2>6, <2>7 DEF DoneIn
<1>2. QED
  BY <1>1, StoryInvariant, PTL DEF Spec, StartsReady

\* When a phase closes, every test saved in it or before has just passed, and
\* nothing that waited for its gate still waits (README.md:732).
THEOREM ClosedPhasesHold ==
  Spec => ClosedPhaseHolds
<1>1. ASSUME StoryInv, [Next]_vars, NEW n \in 1..Phases, phase[n] # "done", phase'[n] = "done"
      PROVE  /\ {x \in Saved' : x[1] <= n} \cap broken' = {}
             /\ \A i \in DoneIn(n) : ~(Stories(n)[i].retired) => Stories(n)'[i].verdict # "deferred"
  <2>1. PICK found \in [Waiting(Current) -> Verdicts], own \in Verdicts, fails \in SUBSET Saved,
             late \in {"pass", "command", "gap"} : Gate(found, own, fails, late)
    <3>1. phase \in [1..Phases -> {"pending", "in_progress", "done"}]
      BY <1>1 DEF StoryInv, PhaseInv
    <3>2. CASE Writer \/ Crash \/ (\E k \in 1..Phases : EditFile(k)) \/ UNCHANGED vars
      <4>1. phase' = phase
        BY <3>2 DEF Writer, WriterStops, Finish, Crash, EditFile, vars
      <4>2. QED
        BY <1>1, <4>1
    <3>3. CASE \E U \in SUBSET (UNION {{<<k, i>> : i \in DOMAIN Stories(k)} : k \in 1..Phases}) : Undo(U)
      <4>1. \A k \in 1..Phases : phase'[k] \in {"pending", phase[k]}
        BY <3>3 DEF Undo
      <4>2. QED
        BY <1>1, <4>1
    <3>4. CASE Go \/ NextPhase
      <4>1. phase' = phase \/ phase' = [phase EXCEPT ![Current] = "in_progress"]
        BY <3>4 DEF Go, NextPhase
      <4>2. QED
        BY <1>1, <3>1, <4>1
    <3>5. CASE \/ WriteSet \/ RunStory \/ Refused \/ Failed \/ StoryCancelled \/ NothingReady
               \/ \E v \in {"pass", "deferred"} : Accepted(v)
               \/ \E wrong \in BOOLEAN : Defect(wrong)
      <4>1. phase' = phase
        BY <3>5 DEF WriteSet, RunStory, Refused, Failed, StoryCancelled, NothingReady, Accepted, Defect
      <4>2. QED
        BY <1>1, <4>1
    <3>6. QED
      BY <1>1, <3>2, <3>3, <3>4, <3>5 DEF Next, Run, Outside
  <2>2. PICK c, f : c = Current /\ f = Stories(c)
    OBVIOUS
  <2> DEFINE kinds == Kinds(c, found, own, fails, late)
  <2>3. /\ AtGate
        /\ sets' = [sets EXCEPT ![c].stories =
                      [i \in DOMAIN f |-> IF i \in DOMAIN found THEN Judge(f[i], found[i]) ELSE f[i]]]
        /\ phase' = IF kinds = {} THEN [phase EXCEPT ![c] = "done"] ELSE phase
        /\ broken' = IF kinds = {} THEN fails ELSE {}
    BY <2>1, <2>2 DEF Gate
  <2>4. c \in 1..Phases
    BY <1>1, <2>2, <2>3, AtWork DEF AtGate
  <2>5. kinds = {} /\ n = c
    BY <1>1, <2>3, <2>4 DEF StoryInv, PhaseInv
  <2>6. /\ \A i \in DOMAIN found : found[i] = "pass"
        /\ MustPass(c) \cap fails = {}
    BY <2>5 DEF Kinds
  <2>7. {x \in Saved' : x[1] <= n} \cap broken' = {}
    BY <2>1, <2>3, <2>5, <2>6 DEF MustPass
  <2>8. ASSUME NEW i \in DoneIn(n), ~(Stories(n)[i].retired) PROVE Stories(n)'[i].verdict # "deferred"
    <3>1. i \in DOMAIN f /\ f = Stories(n)
      BY <2>2, <2>5 DEF DoneIn, WithStatus
    <3>2. i \in DOMAIN found <=> f[i].verdict = "deferred"
      BY <2>1, <2>2, <2>5, <2>8, <3>1 DEF Waiting
    <3>3. Stories(n)' = [j \in DOMAIN f |-> IF j \in DOMAIN found THEN Judge(f[j], found[j]) ELSE f[j]]
      BY <1>1, <2>3, <2>4, <2>5 DEF Stories, StoryInv, SetsInv, SetOK
    <3>4. f[i] \in StorySet
      BY <1>1, <3>1 DEF StoryInv, SetsInv, SetOK, StoriesOK, IsStories, Stories
    <3>5. CASE i \in DOMAIN found
      <4>1. Stories(n)'[i] = Judge(f[i], "pass")
        BY <2>6, <3>1, <3>3, <3>5
      <4>2. QED
        BY <3>4, <4>1 DEF Judge, StorySet
    <3>6. CASE i \notin DOMAIN found
      BY <3>1, <3>2, <3>3, <3>6
    <3>7. QED
      BY <3>5, <3>6
  <2>9. QED
    BY <2>7, <2>8
<1>2. StoryInv /\ [Next]_vars =>
        \A n \in 1..Phases : phase[n] # "done" /\ phase'[n] = "done" =>
          /\ {x \in Saved' : x[1] <= n} \cap broken' = {}
          /\ \A i \in DoneIn(n) : ~(Stories(n)[i].retired) => Stories(n)'[i].verdict # "deferred"
  BY <1>1
<1>3. QED
  BY <1>2, StoryInvariant, PTL DEF Spec, ClosedPhaseHolds
=============================================================================
