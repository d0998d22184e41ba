-------------------------- MODULE PlanRunnerProofs --------------------------
(* Proofs about plans and their steps, for every bound of PlanRunner. *)
EXTENDS PlanRunner, TLAPS, SequenceTheorems, FiniteSetTheorems

-----------------------------------------------------------------------------
(* What the invariants say *)

\* The largest tag there can be after r revisions.
TagTop(r) == MaxSteps + r * MaxSteps

\* Steps that share no tag.
Unique(s) == \A i, j \in DOMAIN s : i # j /\ s[i].tag # None => s[i].tag # s[j].tag

\* Steps of their type that share no tag and have none above n.
Fit(s, n) ==
  /\ s \in Seq(StepSet) /\ Unique(s)
  /\ \A i \in DOMAIN s : s[i].tag <= n

PlanSet == [kind : Kinds \cup {"none"}, steps : Seq(StepSet)]
PlanFits(p, n) == p \in PlanSet /\ Fit(p.steps, n)

-----------------------------------------------------------------------------
(* Numbers *)

LEMMA MinIs ==
  ASSUME NEW a \in Int, NEW b \in Int, NEW S \in SUBSET (a..b), S # {}
  PROVE  Min(S) \in S /\ \A j \in S : Min(S) <= j
<1>1. \E l \in S : \A j \in S : l <= j
  BY HasLeast
<1>2. QED
  BY <1>1 DEF Min

LEMMA MaxIs ==
  ASSUME NEW a \in Int, NEW b \in Int, NEW S \in SUBSET (a..b), S # {}
  PROVE  Max(S) \in S /\ \A j \in S : j <= Max(S)
<1>1. \E g \in S : \A j \in S : j <= g
  BY HasGreatest
<1>2. \E g \in S : \A j \in S : g >= j
  <2>1. \A g \in S : \A j \in S : (j <= g) <=> (g >= j)
    OBVIOUS
  <2>2. QED
    BY <1>1, <2>1
<1>3. Max(S) \in S /\ \A j \in S : Max(S) >= j
  BY <1>2 DEF Max
<1>4. QED
  BY <1>3

LEMMA TagTops ==
  ASSUME NEW r \in Nat
  PROVE  /\ TagTop(r) \in Nat /\ MaxSteps \in Nat
         /\ TagTop(r + 1) = TagTop(r) + MaxSteps
         /\ r <= MaxRevisions => TagTop(r) <= TagTop(MaxRevisions)
         /\ MaxSteps <= TagTop(r)
<1>1. MaxSteps \in Nat /\ MaxRevisions \in Nat
  BY PlanAssumption
<1>2. r * MaxSteps \in Nat /\ (r + 1) * MaxSteps = r * MaxSteps + MaxSteps
  BY <1>1
<1>3. ASSUME r <= MaxRevisions PROVE r * MaxSteps <= MaxRevisions * MaxSteps
  <2>1. (MaxRevisions - r) * MaxSteps >= 0
    BY <1>1, <1>3
  <2>2. QED
    BY <2>1, <1>1
<1>4. MaxRevisions * MaxSteps \in Nat
  BY <1>1
<1>5. QED
  BY <1>1, <1>2, <1>3, <1>4 DEF TagTop

-----------------------------------------------------------------------------
(* Steps *)

LEMMA StepFields ==
  ASSUME NEW s \in StepSet
  PROVE  /\ s.tag \in Tags \cup {None} /\ s.tag \in Int
         /\ s.status \in {"pending", "in_progress", "done", "skipped"}
         /\ s.stage \in {"tests", "impl", "acceptance"}
<1>1. MaxSteps + MaxRevisions * MaxSteps \in Nat
  BY PlanAssumption
<1>2. Tags \cup {None} \subseteq Int
  BY <1>1 DEF Tags, None, Acceptance
<1>3. s.tag \in Tags \cup {None}
  BY DEF StepSet
<1>4. QED
  BY <1>2, <1>3 DEF StepSet

\* A step that only has another status.
LEMMA RestatedIs ==
  ASSUME NEW x \in StepSet, NEW st \in {"pending", "in_progress", "done", "skipped"},
         NEW y, y = [x EXCEPT !.status = st]
  PROVE  y \in StepSet /\ y.status = st /\ y.tag = x.tag /\ y.stage = x.stage
BY DEF StepSet

\* Steps of which only the statuses have changed.
LEMMA Restatus ==
  ASSUME NEW n \in Int, NEW s, Fit(s, n), NEW t \in Seq(StepSet), Len(t) = Len(s),
         \A i \in DOMAIN s : t[i].tag = s[i].tag
  PROVE  Fit(t, n)
<1>1. DOMAIN s = 1..Len(s) /\ DOMAIN t = 1..Len(t)
  BY LenProperties DEF Fit
<1>2. QED
  BY <1>1 DEF Fit, Unique

\* A plan whose step at i gets another status.
LEMMA StatusAt ==
  ASSUME NEW p \in PlanSet, NEW i \in DOMAIN p.steps,
         NEW st \in {"pending", "in_progress", "done", "skipped"},
         NEW q, q = Status(p, i, st)
  PROVE  /\ q \in PlanSet /\ q.kind = p.kind /\ DOMAIN q.steps = DOMAIN p.steps
         /\ \A j \in DOMAIN p.steps :
              /\ j # i => q.steps[j] = p.steps[j]
              /\ q.steps[j].tag = p.steps[j].tag /\ q.steps[j].stage = p.steps[j].stage
         /\ q.steps[i].status = st
         /\ \A n \in Int : PlanFits(p, n) => PlanFits(q, n)
<1> DEFINE s == p.steps
           e == [s[i] EXCEPT !.status = st]
<1>1. s \in Seq(StepSet) /\ DOMAIN s = 1..Len(s)
  BY LenProperties DEF PlanSet
<1>2. s[i] \in StepSet
  BY <1>1, ElementOfSeq
<1>3. e \in StepSet /\ e.status = st /\ e.tag = s[i].tag /\ e.stage = s[i].stage
  BY <1>2, RestatedIs
<1>4. q = [p EXCEPT !.steps = [s EXCEPT ![i] = e]]
  BY DEF Status
<1> HIDE DEF e
<1>5. q.steps = [s EXCEPT ![i] = e] /\ q.kind = p.kind
  BY <1>4 DEF PlanSet
<1>6. /\ q.steps \in Seq(StepSet) /\ Len(q.steps) = Len(s)
      /\ \A j \in 1..Len(s) : q.steps[j] = IF j = i THEN e ELSE s[j]
  BY <1>1, <1>3, <1>5, ExceptSeq
<1>7. q \in PlanSet
  BY <1>4, <1>5, <1>6 DEF PlanSet
<1>8. DOMAIN q.steps = 1..Len(s)
  BY <1>6, LenProperties
<1>9. \A j \in DOMAIN s : q.steps[j].tag = s[j].tag /\ q.steps[j].stage = s[j].stage
  BY <1>1, <1>6, <1>3
<1>10. \A n \in Int : PlanFits(p, n) => PlanFits(q, n)
  BY <1>6, <1>7, <1>9, Restatus DEF PlanFits
<1>11. QED
  BY <1>1, <1>3, <1>5, <1>6, <1>7, <1>8, <1>9, <1>10

\* Steps of which some are taken out.
LEMMA RemovedFits ==
  ASSUME NEW n \in Int, NEW s, Fit(s, n), NEW D \in SUBSET (DOMAIN s)
  PROVE  /\ Fit(Without(s, D), n)
         /\ StepTags(Without(s, D)) = {s[k].tag : k \in DOMAIN s \ D} \ {None}
         /\ Range(Without(s, D)) = {s[k] : k \in DOMAIN s \ D}
<1> DEFINE w == Without(s, D)
<1>1. s \in Seq(StepSet) /\ DOMAIN s = 1..Len(s)
  BY LenProperties DEF Fit
<1>2. /\ w \in Seq(StepSet)
      /\ \A k \in DOMAIN s \ D : Moved(k, D) \in 1..Len(w) /\ w[Moved(k, D)] = s[k]
      /\ \A q \in 1..Len(w) : \E k \in DOMAIN s \ D : Moved(k, D) = q /\ w[q] = s[k]
  <2>1. s \in Seq(StepSet)
    BY <1>1
  <2>2. w \in Seq(StepSet)
    BY <2>1, WithoutSeq, Zenon
  <2>3. \A k \in DOMAIN s \ D : Moved(k, D) \in 1..Len(w) /\ w[Moved(k, D)] = s[k]
    BY <2>1, WithoutAt, Zenon
  <2>4. \A q \in 1..Len(w) : \E k \in DOMAIN s \ D : Moved(k, D) = q /\ w[q] = s[k]
    BY <2>1, WithoutIs
  <2>5. QED
    BY <2>2, <2>3, <2>4
<1> HIDE DEF w
<1>3. DOMAIN w = 1..Len(w)
  BY <1>2, LenProperties
<1>4. ASSUME NEW i \in DOMAIN w, NEW j \in DOMAIN w, i # j, w[i].tag # None
      PROVE  w[i].tag # w[j].tag
  <2>1. PICK k \in DOMAIN s \ D : Moved(k, D) = i /\ w[i] = s[k]
    BY <1>2, <1>3
  <2>2. PICK l \in DOMAIN s \ D : Moved(l, D) = j /\ w[j] = s[l]
    BY <1>2, <1>3
  <2>3. k # l
    BY <1>4, <2>1, <2>2
  <2>4. QED
    BY <1>4, <2>1, <2>2, <2>3 DEF Fit, Unique
<1>5. \A i \in DOMAIN w : w[i].tag <= n
  BY <1>2, <1>3 DEF Fit
<1>6. Fit(w, n)
  BY <1>2, <1>4, <1>5 DEF Fit, Unique
<1>7. Range(w) = {s[k] : k \in DOMAIN s \ D}
  BY <1>2, <1>3 DEF Range
<1>8. {w[i].tag : i \in DOMAIN w} = {s[k].tag : k \in DOMAIN s \ D}
  BY <1>2, <1>3
<1>9. QED
  BY <1>6, <1>7, <1>8 DEF w, StepTags

\* Steps one after the other that have no tag in common.
LEMMA JoinedFits ==
  ASSUME NEW n \in Int, NEW s, NEW t, Fit(s, n), Fit(t, n),
         StepTags(s) \cap StepTags(t) = {}
  PROVE  /\ Fit(s \o t, n)
         /\ StepTags(s \o t) = StepTags(s) \cup StepTags(t)
         /\ Range(s \o t) = Range(s) \cup Range(t)
<1> DEFINE u == s \o t
           a == Len(s)
<1>1. /\ s \in Seq(StepSet) /\ a \in Nat /\ DOMAIN s = 1..a
      /\ t \in Seq(StepSet) /\ Len(t) \in Nat /\ DOMAIN t = 1..Len(t)
  BY LenProperties DEF Fit
<1>2. /\ u \in Seq(StepSet) /\ Len(u) = a + Len(t)
      /\ \A i \in 1..(a + Len(t)) : u[i] = IF i <= a THEN s[i] ELSE t[i - a]
  BY <1>1, ConcatProperties
<1> HIDE DEF u, a
<1>3. DOMAIN u = 1..(a + Len(t))
  BY <1>2, LenProperties
<1>4. /\ \A i \in DOMAIN s : i \in DOMAIN u /\ u[i] = s[i]
      /\ \A i \in DOMAIN t : a + i \in DOMAIN u /\ u[a + i] = t[i]
      /\ \A i \in DOMAIN u : \/ i \in DOMAIN s /\ u[i] = s[i]
                             \/ i - a \in DOMAIN t /\ u[i] = t[i - a]
  <2>1. \A i \in 1..Len(t) : a + i \in 1..(a + Len(t)) /\ ~(a + i <= a) /\ (a + i) - a = i
    BY <1>1
  <2>2. \A i \in 1..(a + Len(t)) : i <= a => i \in 1..a
    BY <1>1
  <2>3. \A i \in 1..(a + Len(t)) : ~(i <= a) => i - a \in 1..Len(t)
    BY <1>1
  <2>4. \A i \in 1..a : i \in 1..(a + Len(t)) /\ i <= a
    BY <1>1
  <2>5. \A i \in DOMAIN s : i \in DOMAIN u /\ u[i] = s[i]
    BY <1>1, <1>2, <1>3, <2>4
  <2>6. \A i \in DOMAIN t : a + i \in DOMAIN u /\ u[a + i] = t[i]
    BY <1>1, <1>2, <1>3, <2>1
  <2>7. ASSUME NEW i \in DOMAIN u
        PROVE  \/ i \in DOMAIN s /\ u[i] = s[i]
               \/ i - a \in DOMAIN t /\ u[i] = t[i - a]
    BY <1>1, <1>2, <1>3, <2>2, <2>3
  <2>8. QED
    BY <2>5, <2>6, <2>7
<1>5. ASSUME NEW i \in DOMAIN u, NEW j \in DOMAIN u, i # j, u[i].tag # None
      PROVE  u[i].tag # u[j].tag
  <2>1. ASSUME NEW k \in DOMAIN s, NEW l \in DOMAIN t, s[k].tag # None
        PROVE  s[k].tag # t[l].tag
    BY <2>1 DEF StepTags
  <2>2. ASSUME NEW k \in DOMAIN s, NEW l \in DOMAIN t, t[l].tag # None
        PROVE  t[l].tag # s[k].tag
    BY <2>2 DEF StepTags
  <2>3. CASE i \in DOMAIN s /\ u[i] = s[i] /\ j \in DOMAIN s /\ u[j] = s[j]
    BY <1>5, <2>3 DEF Fit, Unique
  <2>4. CASE i - a \in DOMAIN t /\ u[i] = t[i - a] /\ j - a \in DOMAIN t /\ u[j] = t[j - a]
    <3>1. i - a # j - a
      BY <1>1, <1>3, <1>5
    <3>2. QED
      BY <1>5, <2>4, <3>1 DEF Fit, Unique
  <2>5. QED
    BY <1>4, <1>5, <2>1, <2>2, <2>3, <2>4
<1>6. \A i \in DOMAIN u : u[i].tag <= n
  BY <1>4 DEF Fit
<1>7. Fit(u, n)
  BY <1>2, <1>5, <1>6 DEF Fit, Unique
<1>8. StepTags(u) = StepTags(s) \cup StepTags(t)
  BY <1>4 DEF StepTags
<1>9. Range(u) = Range(s) \cup Range(t)
  BY <1>4 DEF Range
<1>10. QED
  BY <1>7, <1>8, <1>9 DEF u

-----------------------------------------------------------------------------
(* A revision *)

LEMMA ListedAre ==
  ASSUME NEW q \in Listed
  PROVE  \E m \in 1..MaxSteps : /\ q \in [1..m -> Titles] /\ DOMAIN q = 1..m
                                /\ \A i, j \in 1..m : q[i] = q[j] => i = j
<1>1. PICK m \in 1..MaxSteps : q \in [1..m -> Titles]
  BY DEF Listed
<1>2. IsInjective(q)
  BY DEF Listed
<1>3. DOMAIN q = 1..m
  BY <1>1
<1>4. \A i, j \in 1..m : q[i] = q[j] => i = j
  BY <1>2, <1>3 DEF IsInjective
<1>5. QED
  BY <1>1, <1>3, <1>4

LEMMA PlanTags ==
  ASSUME NEW n \in Nat, NEW p, PlanFits(p, n)
  PROVE  /\ p.steps \in Seq(StepSet) /\ DOMAIN p.steps = 1..Len(p.steps)
         /\ Len(p.steps) \in Nat
         /\ \A i \in DOMAIN p.steps : /\ p.steps[i] \in StepSet
                                      /\ p.steps[i].tag \in Tags \cup {None}
                                      /\ p.steps[i].tag \in (-1)..n
<1>1. /\ p.steps \in Seq(StepSet) /\ DOMAIN p.steps = 1..Len(p.steps)
      /\ Len(p.steps) \in Nat
  BY LenProperties DEF PlanFits, Fit
<1>2. \A i \in DOMAIN p.steps : p.steps[i] \in StepSet
  BY <1>1, ElementOfSeq
<1>3. MaxSteps + MaxRevisions * MaxSteps \in Nat
  BY PlanAssumption
<1>4. \A t \in Tags \cup {None} : t \in Int /\ -1 <= t
  BY <1>3 DEF Tags, None, Acceptance
<1>5. ASSUME NEW i \in DOMAIN p.steps
      PROVE  p.steps[i].tag \in Tags \cup {None} /\ p.steps[i].tag \in (-1)..n
  <2>1. p.steps[i].tag \in Tags \cup {None}
    BY <1>2, StepFields
  <2>2. p.steps[i].tag <= n
    BY DEF PlanFits, Fit
  <2>3. p.steps[i].tag \in Int /\ -1 <= p.steps[i].tag
    BY <2>1, <1>4
  <2>4. QED
    BY <2>1, <2>2, <2>3
<1>6. QED
  BY <1>1, <1>2, <1>5

\* The tag a title had is that of a step it belongs to.
LEMMA OldTagIs ==
  ASSUME NEW n \in Nat, NEW p, PlanFits(p, n), NEW title
  PROVE  /\ OldTag(p, title) \in Tags \cup {None} /\ OldTag(p, title) \in (-1)..n
         /\ OldTag(p, title) # None =>
              \E i \in Open(p) : /\ p.steps[i].stage = "impl" /\ p.steps[i].title = title
                                 /\ p.steps[i].tag = OldTag(p, title)
<1> DEFINE same == {i \in Open(p) : p.steps[i].stage = "impl" /\ p.steps[i].title = title}
           tags == {p.steps[i].tag : i \in same} \ {None}
<1>1. OldTag(p, title) = IF tags = {} THEN None ELSE Max(tags)
  BY DEF OldTag
<1>2. \A t \in tags : /\ t \in Tags \cup {None} /\ t \in (-1)..n
                      /\ \E i \in same : t = p.steps[i].tag
  BY PlanTags DEF Open
<1>3. None \in (-1)..n
  BY DEF None
<1>4. CASE tags = {}
  BY <1>1, <1>3, <1>4
<1>5. CASE tags # {}
  <2>1. (-1) \in Int /\ n \in Int /\ tags \in SUBSET ((-1)..n)
    BY <1>2
  <2>2. Max(tags) \in tags
    <3> HIDE DEF tags
    <3>1. QED
      BY <2>1, <1>5, MaxIs
  <2>3. OldTag(p, title) \in tags
    BY <1>1, <1>5, <2>2
  <2>4. QED
    BY <2>3, <1>2
<1>6. QED
  BY <1>4, <1>5

\* The next tag is above those of a set.
LEMMA NextTagIs ==
  ASSUME NEW n \in Nat, NEW T \in SUBSET ((-1)..n)
  PROVE  NextTag(T) \in 1..(n + 1) /\ \A t \in T : t < NextTag(T)
<1> DEFINE S == {0} \cup (T \ {None, Acceptance})
<1>1. S \in SUBSET (0..n) /\ S # {} /\ 0 \in Int /\ n \in Int /\ 0 \in S
  BY DEF None, Acceptance
<1>2. \A t \in T : t \in S \/ t = -1
  BY DEF None, Acceptance
<1> HIDE DEF S
<1>3. Max(S) \in S /\ \A j \in S : j <= Max(S)
  BY <1>1, MaxIs
<1>4. Max(S) \in 0..n
  BY <1>1, <1>3
<1>5. NextTag(T) = 1 + Max(S)
  BY DEF NextTag, S
<1>6. ASSUME NEW t \in T PROVE t < NextTag(T)
  <2>1. t \in Int
    OBVIOUS
  <2>2. CASE t \in S
    BY <2>1, <2>2, <1>3, <1>4, <1>5
  <2>3. CASE t = -1
    BY <2>3, <1>4, <1>5
  <2>4. QED
    BY <2>2, <2>3, <1>2
<1>7. QED
  BY <1>4, <1>5, <1>6

\* The parts of a plan that a revision keeps, and the tags they have.
LEMMA PartsFit ==
  ASSUME NEW n \in Nat, NEW p, PlanFits(p, n),
         NEW A, A = Staying(p), NEW B, B = StageLeft(p, "tests"),
         NEW E, E = StageLeft(p, "acceptance")
  PROVE  /\ Fit(A, n) /\ Fit(B, n) /\ Fit(E, n)
         /\ \A t \in StepTags(A) \cup StepTags(B) \cup StepTags(E) :
              t \in (-1)..n /\ t # None
         /\ StepTags(A) \cap StepTags(B) = {} /\ StepTags(A) \cap StepTags(E) = {}
         /\ StepTags(B) \cap StepTags(E) = {}
         /\ \A i \in Open(p) : p.steps[i].stage = "impl" =>
              p.steps[i].tag \notin StepTags(A) \cup StepTags(B) \cup StepTags(E)
         /\ {s \in Range(p.steps) : Finished(s)} \subseteq Range(A)
<1> DEFINE s == p.steps
           D == DOMAIN s
           Left(stage) == {i \in D : Finished(s[i]) \/ s[i].stage # stage}
<1>1. Fit(s, n) /\ Open(p) \in SUBSET D
  BY DEF PlanFits, Open
<1>2. /\ Fit(A, n) /\ StepTags(A) = {s[k].tag : k \in D \ Open(p)} \ {None}
      /\ Range(A) = {s[k] : k \in D \ Open(p)}
  BY <1>1, RemovedFits DEF Staying
<1>3. \A stage : Left(stage) \in SUBSET D
  OBVIOUS
<1>4. /\ Fit(B, n) /\ StepTags(B) = {s[k].tag : k \in D \ Left("tests")} \ {None}
      /\ Fit(E, n) /\ StepTags(E) = {s[k].tag : k \in D \ Left("acceptance")} \ {None}
  BY <1>1, <1>3, RemovedFits DEF StageLeft
<1>5. \A k \in D : /\ k \notin Open(p) <=> Finished(s[k])
                   /\ k \notin Left("tests") <=> ~Finished(s[k]) /\ s[k].stage = "tests"
                   /\ k \notin Left("acceptance") <=> ~Finished(s[k]) /\ s[k].stage = "acceptance"
  BY DEF Open
<1>6. \A k, l \in D : k # l /\ s[k].tag # None => s[k].tag # s[l].tag
  BY <1>1 DEF Fit, Unique
<1>7. \A k \in D : s[k].tag \in (-1)..n
  BY PlanTags
<1> HIDE DEF Left, s
<1>8. \A t \in StepTags(A) \cup StepTags(B) \cup StepTags(E) : t \in (-1)..n /\ t # None
  BY <1>2, <1>4, <1>7
<1>9. StepTags(A) \cap StepTags(B) = {} /\ StepTags(A) \cap StepTags(E) = {}
  BY <1>2, <1>4, <1>5, <1>6
<1>10. StepTags(B) \cap StepTags(E) = {}
  BY <1>4, <1>5, <1>6
<1>11. ASSUME NEW i \in Open(p), s[i].stage = "impl"
       PROVE  s[i].tag \notin StepTags(A) \cup StepTags(B) \cup StepTags(E)
  <2>1. i \in D /\ ~Finished(s[i])
    BY DEF Open, s
  <2>2. s[i].tag \notin StepTags(A)
    BY <1>2, <1>5, <1>6, <2>1
  <2>3. s[i].tag \notin StepTags(B)
    BY <1>4, <1>5, <1>6, <1>11, <2>1
  <2>4. s[i].tag \notin StepTags(E)
    BY <1>4, <1>5, <1>6, <1>11, <2>1
  <2>5. QED
    BY <2>2, <2>3, <2>4
<1>12. {x \in Range(s) : Finished(x)} \subseteq Range(A)
  BY <1>2, <1>5 DEF Range
<1>13. QED
  BY <1>2, <1>4, <1>8, <1>9, <1>10, <1>11, <1>12 DEF s

\* The steps a revision adds share no tag, with each other or with what stays.
LEMMA NewStepsFit ==
  ASSUME NEW n \in Nat, NEW p, PlanFits(p, n), NEW titles \in Listed,
         n + MaxSteps <= TagTop(MaxRevisions), NEW C, C = NewSteps(p, titles)
  PROVE  /\ Fit(C, n + MaxSteps) /\ Len(C) \in Nat \ {0}
         /\ \A i \in DOMAIN C : C[i].status = "pending" /\ C[i].stage = "impl"
         /\ StepTags(C) \cap (StepTags(Staying(p)) \cup StepTags(StageLeft(p, "tests"))
                              \cup StepTags(StageLeft(p, "acceptance"))) = {}
<1>1. PICK m \in 1..MaxSteps : /\ titles \in [1..m -> Titles] /\ DOMAIN titles = 1..m
                               /\ \A i, j \in 1..m : titles[i] = titles[j] => i = j
  BY ListedAre
<1>a. ASSUME NEW i \in 1..m
      PROVE  /\ OldTag(p, titles[i]) \in Tags \cup {None} /\ OldTag(p, titles[i]) \in (-1)..n
             /\ OldTag(p, titles[i]) # None =>
                  \E k \in Open(p) : /\ p.steps[k].stage = "impl" /\ p.steps[k].title = titles[i]
                                     /\ p.steps[k].tag = OldTag(p, titles[i])
  BY OldTagIs
<1> DEFINE kept == StepTags(Staying(p)) \cup StepTags(StageLeft(p, "tests"))
                   \cup StepTags(StageLeft(p, "acceptance"))
           Old(i) == OldTag(p, titles[i])
           old == {Old(i) : i \in DOMAIN titles}
           known == {j \in DOMAIN titles : Old(j) # None}
           tag(i) == NewTag(p, titles, i)
           first == FirstFree(p, titles)
<1>2. m \in Nat /\ MaxSteps \in Nat /\ m <= MaxSteps /\ 1 <= m
  BY PlanAssumption
<1>3. \A t \in kept : t \in (-1)..n /\ t # None
  BY PartsFit
<1>4. ASSUME NEW i \in 1..m
      PROVE  /\ Old(i) \in Tags \cup {None} /\ Old(i) \in (-1)..n
             /\ Old(i) # None => Old(i) \notin kept
             /\ \A j \in 1..m : i # j /\ Old(i) # None => Old(i) # Old(j)
  <2>1. Old(i) \in Tags \cup {None} /\ Old(i) \in (-1)..n
    BY <1>a
  <2>2. ASSUME Old(i) # None PROVE Old(i) \notin kept
    <3>1. PICK k \in Open(p) : p.steps[k].stage = "impl" /\ p.steps[k].tag = Old(i)
      BY <2>2, <1>a
    <3>2. \A l \in Open(p) : p.steps[l].stage = "impl" => p.steps[l].tag \notin kept
      BY PartsFit
    <3>3. QED
      BY <3>1, <3>2
  <2>3. ASSUME NEW j \in 1..m, i # j, Old(i) # None PROVE Old(i) # Old(j)
    <3>1. SUFFICES ASSUME Old(i) = Old(j) PROVE FALSE
      OBVIOUS
    <3>2. PICK k \in Open(p) : p.steps[k].title = titles[i] /\ p.steps[k].tag = Old(i)
      BY <2>3, <1>a
    <3>3. PICK l \in Open(p) : p.steps[l].title = titles[j] /\ p.steps[l].tag = Old(j)
      BY <2>3, <3>1, <1>a
    <3>4. titles[i] # titles[j]
      BY <1>1, <2>3
    <3>5. k # l
      BY <3>2, <3>3, <3>4
    <3>6. k \in DOMAIN p.steps /\ l \in DOMAIN p.steps /\ p.steps[k].tag # None
      BY <2>3, <3>2 DEF Open
    <3>7. p.steps[k].tag # p.steps[l].tag
      BY <3>5, <3>6 DEF PlanFits, Fit, Unique
    <3>8. QED
      BY <3>1, <3>2, <3>3, <3>7
  <2>4. QED
    BY <2>1, <2>2, <2>3
<1>5. /\ first \in 1..(n + 1)
      /\ \A t \in kept : t < first
      /\ \A i \in 1..m : Old(i) < first
  <2>1. kept \cup old \in SUBSET ((-1)..n)
    BY <1>1, <1>3, <1>4
  <2>2. first = NextTag(kept \cup old)
    BY DEF FirstFree
  <2>3. \A i \in 1..m : Old(i) \in old
    BY <1>1
  <2> HIDE DEF kept, old, first, Old
  <2>4. first \in 1..(n + 1) /\ \A t \in kept \cup old : t < first
    BY <2>1, <2>2, NextTagIs
  <2>5. QED
    BY <2>3, <2>4
<1>6. known \in SUBSET (1..m)
  BY <1>1
<1>7. \A i \in 1..m : tag(i) = IF i \in known THEN Old(i) ELSE first + Moved(i, known) - 1
  BY DEF NewTag
<1>8. \A i \in 1..m : i \in known <=> Old(i) # None
  BY <1>1
<1> HIDE DEF known, Old, first, tag, kept
<1>9. Cardinality(known) \in 0..m
  BY <1>2, <1>6, DropCount
<1>10. \A i \in (1..m) \ known : Moved(i, known) \in 1..m
  <2>1. \A i \in (1..m) \ known : Moved(i, known) \in 1..(m - Cardinality(known))
    BY <1>2, <1>6, MovedRange
  <2>2. QED
    BY <1>2, <1>9, <2>1
<1>11. \A i, j \in (1..m) \ known : i # j => Moved(i, known) # Moved(j, known)
  <2>1. \A i, j \in (1..m) \ known : i < j => Moved(i, known) < Moved(j, known)
    BY <1>2, <1>6, MovedOrder
  <2>2. ASSUME NEW i \in (1..m) \ known, NEW j \in (1..m) \ known, i # j
        PROVE  Moved(i, known) # Moved(j, known)
    <3>1. i < j \/ j < i
      BY <2>2
    <3>2. Moved(i, known) \in Int /\ Moved(j, known) \in Int
      BY <1>10
    <3>3. QED
      BY <2>1, <3>1, <3>2
  <2>3. QED
    BY <2>2
<1>12. \A i \in (1..m) \ known : /\ tag(i) \in first..(n + MaxSteps)
                                 /\ tag(i) \in Tags /\ tag(i) # None
  <2> TAKE i \in (1..m) \ known
  <2>1. Moved(i, known) \in 1..m /\ tag(i) = first + Moved(i, known) - 1
    BY <1>7, <1>10
  <2>2. tag(i) \in first..(n + MaxSteps) /\ 1 <= tag(i)
    BY <2>1, <1>2, <1>5
  <2>3. TagTop(MaxRevisions) \in Nat /\ TagTop(MaxRevisions) = MaxSteps + MaxRevisions * MaxSteps
    BY TagTops, PlanAssumption DEF TagTop
  <2>4. tag(i) \in 1..TagTop(MaxRevisions)
    BY <2>2, <2>3, <1>2, <1>5
  <2>5. QED
    BY <2>2, <2>3, <2>4 DEF Tags, None
<1>13. \A i \in 1..m : /\ tag(i) \in Tags \cup {None} /\ tag(i) \in Int
                       /\ tag(i) <= n + MaxSteps
                       /\ tag(i) # None => tag(i) \notin kept
  <2> TAKE i \in 1..m
  <2>1. CASE i \in known
    <3>1. tag(i) = Old(i)
      BY <1>7, <2>1
    <3>2. tag(i) \in Int /\ tag(i) <= n + MaxSteps
      BY <3>1, <1>4, <1>2
    <3>3. QED
      BY <3>1, <3>2, <1>4
  <2>2. CASE i \notin known
    <3>1. tag(i) \in first..(n + MaxSteps) /\ tag(i) \in Tags
      BY <1>12, <2>2
    <3>2. tag(i) \in Int /\ tag(i) <= n + MaxSteps /\ first <= tag(i)
      BY <3>1, <1>2, <1>5
    <3>3. \A t \in kept : t # tag(i)
      BY <3>2, <1>3, <1>5
    <3>4. QED
      BY <3>1, <3>2, <3>3
  <2>3. QED
    BY <2>1, <2>2
<1>14. ASSUME NEW i \in 1..m, NEW j \in 1..m, i # j, tag(i) # None
       PROVE  tag(i) # tag(j)
  <2>1. CASE i \in known /\ j \in known
    BY <2>1, <1>4, <1>7, <1>14
  <2>2. CASE i \in known /\ j \notin known
    <3>1. tag(i) < first /\ tag(i) \in Int
      BY <2>2, <1>4, <1>5, <1>7
    <3>2. first <= tag(j) /\ tag(j) \in Int
      BY <2>2, <1>12, <1>5, <1>2
    <3>3. QED
      BY <3>1, <3>2, <1>5
  <2>3. CASE i \notin known /\ j \in known
    <3>1. tag(j) < first /\ tag(j) \in Int
      BY <2>3, <1>4, <1>5, <1>7
    <3>2. first <= tag(i) /\ tag(i) \in Int
      BY <2>3, <1>12, <1>5, <1>2
    <3>3. QED
      BY <3>1, <3>2, <1>5
  <2>4. CASE i \notin known /\ j \notin known
    <3>1. Moved(i, known) # Moved(j, known) /\ Moved(i, known) \in Int /\ Moved(j, known) \in Int
      BY <2>4, <1>10, <1>11, <1>14
    <3>2. QED
      BY <3>1, <2>4, <1>7, <1>5
  <2>5. QED
    BY <2>1, <2>2, <2>3, <2>4
<1>15. /\ DOMAIN C = 1..m
       /\ \A i \in 1..m : C[i] = Step(titles[i], "impl", IF p.kind = "tdd" THEN tag(i) ELSE None)
       /\ C = [i \in 1..m |-> C[i]]
  BY <1>1 DEF NewSteps, tag
<1>16. \A i \in 1..m : /\ C[i] \in StepSet /\ C[i].status = "pending" /\ C[i].stage = "impl"
                       /\ C[i].tag = IF p.kind = "tdd" THEN tag(i) ELSE None
  <2> TAKE i \in 1..m
  <2>1. titles[i] \in Titles
    BY <1>1
  <2> DEFINE g == IF p.kind = "tdd" THEN tag(i) ELSE None
  <2>2. g \in Tags \cup {None}
    BY <1>13
  <2>3. C[i] = Step(titles[i], "impl", g)
    BY <1>15
  <2> HIDE DEF g
  <2>4. /\ C[i] \in StepSet /\ C[i].status = "pending" /\ C[i].stage = "impl"
        /\ C[i].tag = g
    BY <2>1, <2>2, <2>3 DEF Step, StepSet
  <2>5. QED
    BY <2>4 DEF g
<1>17. C \in Seq(StepSet) /\ Len(C) = m
  <2>1. C \in [1..m -> StepSet]
    BY <1>15, <1>16
  <2>2. C \in Seq(StepSet)
    BY <2>1, <1>2, SeqDef
  <2>3. Len(C) \in Nat /\ 1..Len(C) = 1..m
    BY <2>2, <1>15, LenProperties
  <2>4. QED
    BY <2>2, <2>3, <1>2
<1>18. 0 <= n + MaxSteps /\ n + MaxSteps \in Int
  BY <1>2
<1>19. Fit(C, n + MaxSteps)
  <2>1. \A i \in 1..m : C[i].tag <= n + MaxSteps
    BY <1>13, <1>16, <1>18 DEF None
  <2>2. ASSUME NEW i \in 1..m, NEW j \in 1..m, i # j, C[i].tag # None
        PROVE  C[i].tag # C[j].tag
    BY <2>2, <1>14, <1>16
  <2>3. QED
    BY <1>15, <1>17, <2>1, <2>2 DEF Fit, Unique
<1>20. StepTags(C) \cap kept = {}
  BY <1>13, <1>15, <1>16 DEF StepTags
<1>21. QED
  BY <1>2, <1>15, <1>16, <1>17, <1>19, <1>20 DEF kept

LEMMA FitMore ==
  ASSUME NEW n \in Nat, NEW k \in Nat, NEW s, Fit(s, n)
  PROVE  Fit(s, n + k)
<1>1. s \in Seq(StepSet) /\ Unique(s)
  BY DEF Fit
<1>2. ASSUME NEW i \in DOMAIN s PROVE s[i].tag <= n + k
  <2>1. s[i] \in StepSet
    BY <1>1, <1>2, LenProperties, ElementOfSeq
  <2>2. s[i].tag \in Int
    BY <2>1, StepFields
  <2>3. s[i].tag <= n
    BY <1>2 DEF Fit
  <2>4. QED
    BY <2>2, <2>3
<1>3. QED
  BY <1>1, <1>2 DEF Fit

\* A revised plan keeps its finished steps, and has one to work on.
LEMMA ReplacedFits ==
  ASSUME NEW n \in Nat, NEW p, PlanFits(p, n), NEW titles \in Listed,
         n + MaxSteps <= TagTop(MaxRevisions), NEW q, q = ReplaceRemaining(p, titles)
  PROVE  /\ PlanFits(q, n + MaxSteps) /\ q.kind = p.kind /\ Open(q) # {}
         /\ {s \in Range(p.steps) : Finished(s)} \subseteq Range(q.steps)
<1> DEFINE A == Staying(p)
           B == StageLeft(p, "tests")
           C == NewSteps(p, titles)
           E == StageLeft(p, "acceptance")
           N == n + MaxSteps
<1>1. MaxSteps \in Nat /\ N \in Int
  BY PlanAssumption
<1>2. /\ Fit(A, n) /\ Fit(B, n) /\ Fit(E, n)
      /\ StepTags(A) \cap StepTags(B) = {} /\ StepTags(A) \cap StepTags(E) = {}
      /\ StepTags(B) \cap StepTags(E) = {}
      /\ {s \in Range(p.steps) : Finished(s)} \subseteq Range(A)
  BY PartsFit
<1>3. /\ Fit(C, N) /\ Len(C) \in Nat \ {0} /\ \A i \in DOMAIN C : C[i].status = "pending"
      /\ StepTags(C) \cap (StepTags(A) \cup StepTags(B) \cup StepTags(E)) = {}
  BY NewStepsFit
<1> HIDE DEF A, B, C, E
<1>4. Fit(A, N) /\ Fit(B, N) /\ Fit(E, N)
  BY <1>1, <1>2, FitMore
<1> HIDE DEF N
<1>5. C[1] \in Range(C) /\ ~Finished(C[1])
  <2>1. DOMAIN C = 1..Len(C)
    BY <1>3, LenProperties DEF Fit
  <2>2. 1 \in DOMAIN C
    BY <2>1, <1>3
  <2>3. QED
    BY <2>2, <1>3 DEF Range, Finished
<1>6. /\ Fit(A \o B, N) /\ StepTags(A \o B) = StepTags(A) \cup StepTags(B)
      /\ Range(A \o B) = Range(A) \cup Range(B)
  BY <1>1, <1>2, <1>4, JoinedFits
<1>7. /\ Fit(C \o E, N) /\ StepTags(C \o E) = StepTags(C) \cup StepTags(E)
      /\ Range(C \o E) = Range(C) \cup Range(E)
  <2>1. StepTags(C) \cap StepTags(E) = {}
    BY <1>3
  <2>2. QED
    BY <2>1, <1>1, <1>3, <1>4, JoinedFits
<1>8. /\ Fit((A \o B) \o (C \o E), N)
      /\ Range((A \o B) \o (C \o E)) = Range(A \o B) \cup Range(C \o E)
  <2>1. StepTags(A \o B) \cap StepTags(C \o E) = {}
    BY <1>2, <1>3, <1>6, <1>7
  <2>2. QED
    BY <2>1, <1>1, <1>6, <1>7, JoinedFits
<1>9. Fit(A \o C, N) /\ Range(A \o C) = Range(A) \cup Range(C)
  <2>1. StepTags(A) \cap StepTags(C) = {}
    BY <1>3
  <2>2. QED
    BY <2>1, <1>1, <1>3, <1>4, JoinedFits
<1>10. /\ q.steps = IF p.kind = "tdd" THEN (A \o B) \o (C \o E) ELSE A \o C
       /\ q.kind = p.kind /\ q \in [kind : Kinds \cup {"none"}, steps : {q.steps}]
  BY DEF ReplaceRemaining, A, B, C, E, PlanFits, PlanSet
<1>11. Fit(q.steps, N) /\ Range(A) \subseteq Range(q.steps) /\ C[1] \in Range(q.steps)
  BY <1>5, <1>6, <1>7, <1>8, <1>9, <1>10
<1>12. PlanFits(q, N)
  BY <1>10, <1>11 DEF PlanFits, PlanSet, Fit
<1>13. Open(q) # {}
  BY <1>5, <1>11 DEF Open, Range
<1>14. QED
  BY <1>2, <1>10, <1>11, <1>12, <1>13 DEF N

-----------------------------------------------------------------------------
(* A plan made, edited, undone *)

LEMMA MadeFits ==
  ASSUME NEW kind \in Kinds, NEW titles \in Listed, NEW n \in Nat, MaxSteps <= n,
         NEW p, p = MakePlan(kind, titles)
  PROVE  PlanFits(p, n) /\ \A i \in DOMAIN p.steps : p.steps[i].status = "pending"
<1> DEFINE g(i) == IF kind = "tdd" THEN i ELSE None
           C == [i \in DOMAIN titles |-> Step(titles[i], "impl", g(i))]
           f == Step(TitleOf("tests"), "tests", None)
           l == Step(TitleOf("acceptance"), "acceptance", Acceptance)
           F == <<f>>
           L == <<l>>
<1>1. PICK m \in 1..MaxSteps : titles \in [1..m -> Titles] /\ DOMAIN titles = 1..m
  BY ListedAre
<1>2. m \in Nat /\ MaxSteps \in Nat /\ m <= MaxSteps /\ MaxRevisions \in Nat
  BY PlanAssumption
<1>3. 1..MaxSteps \subseteq Tags
  <2>1. TagTop(MaxRevisions) \in Nat /\ MaxSteps <= TagTop(MaxRevisions)
    BY <1>2, TagTops
  <2>2. \A i \in 1..MaxSteps : i \in 1..TagTop(MaxRevisions)
    BY <1>2, <2>1
  <2>3. QED
    BY <2>2 DEF Tags, TagTop
<1>4. \A i \in 1..m : /\ g(i) \in Tags \cup {None} /\ g(i) <= n /\ g(i) \in Nat
                      /\ g(i) # None => g(i) = i
  BY <1>2, <1>3 DEF None
<1> HIDE DEF g
<1>5. \A i \in 1..m : /\ C[i] \in StepSet /\ C[i].status = "pending" /\ C[i].tag = g(i)
  <2> TAKE i \in 1..m
  <2>1. titles[i] \in Titles /\ C[i] = Step(titles[i], "impl", g(i)) /\ g(i) \in Tags \cup {None}
    BY <1>1, <1>4
  <2> HIDE DEF C
  <2>2. QED
    BY <2>1 DEF Step, StepSet
<1>6. /\ f \in StepSet /\ f.status = "pending" /\ f.tag = None
      /\ l \in StepSet /\ l.status = "pending" /\ l.tag = Acceptance
  BY DEF Step, StepSet, Tags
<1>7. C \in Seq(StepSet) /\ DOMAIN C = 1..m
  <2>1. C \in [1..m -> StepSet]
    BY <1>1, <1>5
  <2>2. QED
    BY <2>1, <1>2, SeqDef
<1> HIDE DEF C, f, l
<1>8. Fit(C, n) /\ StepTags(C) \subseteq Nat
  BY <1>4, <1>5, <1>7 DEF Fit, Unique, StepTags
<1>9. /\ Fit(F, n) /\ StepTags(F) = {} /\ Range(F) = {f}
      /\ Fit(L, n) /\ StepTags(L) = {Acceptance} /\ Range(L) = {l}
  <2>1. None <= n /\ Acceptance <= n /\ Acceptance # None
    BY DEF None, Acceptance
  <2>2. F \in Seq(StepSet) /\ L \in Seq(StepSet)
    BY <1>6
  <2>3. DOMAIN F = {1} /\ DOMAIN L = {1} /\ F[1] = f /\ L[1] = l
    OBVIOUS
  <2>4. Range(F) = {f} /\ Range(L) = {l}
    BY <2>3 DEF Range
  <2>5. StepTags(F) = {} /\ StepTags(L) = {Acceptance}
    BY <1>6, <2>1, <2>3 DEF StepTags
  <2>6. QED
    BY <1>6, <2>1, <2>2, <2>3, <2>4, <2>5 DEF Fit, Unique
<1> HIDE DEF F, L
<1>10. n \in Int
  OBVIOUS
<1>11. /\ Fit(F \o C, n) /\ StepTags(F \o C) = StepTags(C)
       /\ Range(F \o C) = {f} \cup Range(C)
  <2>1. StepTags(F) \cap StepTags(C) = {}
    BY <1>9
  <2>2. QED
    BY <2>1, <1>8, <1>9, <1>10, JoinedFits
<1>12. Fit((F \o C) \o L, n) /\ Range((F \o C) \o L) = {f} \cup Range(C) \cup {l}
  <2>1. StepTags(F \o C) \cap StepTags(L) = {}
    BY <1>8, <1>9, <1>11 DEF Acceptance
  <2>2. QED
    BY <2>1, <1>9, <1>10, <1>11, JoinedFits
<1>13. p.steps = IF kind = "tdd" THEN (F \o C) \o L ELSE C
  BY DEF MakePlan, C, F, L, f, l, g
<1>14. p \in [kind : Kinds \cup {"none"}, steps : {p.steps}]
  BY DEF MakePlan
<1>15. Fit(p.steps, n)
  BY <1>8, <1>12, <1>13
<1>16. \A s \in Range(p.steps) : s.status = "pending"
  <2>1. \A s \in Range(C) : s.status = "pending"
    BY <1>5, <1>7 DEF Range
  <2>2. QED
    BY <2>1, <1>6, <1>12, <1>13
<1>17. PlanFits(p, n)
  BY <1>14, <1>15 DEF PlanFits, PlanSet, Fit
<1>18. QED
  BY <1>16, <1>17 DEF Range

LEMMA NoPlanFits ==
  ASSUME NEW n \in Nat
  PROVE  PlanFits(NoPlan, n) /\ NoPlan.steps = <<>> /\ NoPlan.kind = "none"
<1>1. <<>> \in Seq(StepSet) /\ DOMAIN <<>> = {}
  OBVIOUS
<1>2. QED
  BY <1>1 DEF NoPlan, PlanFits, PlanSet, Fit, Unique

\* Other steps for a plan.
LEMMA PlanWith ==
  ASSUME NEW n \in Int, NEW p, PlanFits(p, n), NEW t, Fit(t, n),
         NEW q, q = [p EXCEPT !.steps = t]
  PROVE  PlanFits(q, n) /\ q.steps = t /\ q.kind = p.kind
<1>1. t \in Seq(StepSet) /\ p \in PlanSet
  BY DEF Fit, PlanFits
<1>2. q \in PlanSet /\ q.steps = t /\ q.kind = p.kind
  BY <1>1 DEF PlanSet
<1>3. QED
  BY <1>2 DEF PlanFits

\* Two neighbours change places.
LEMMA SwappedFits ==
  ASSUME NEW n \in Int, NEW s, Fit(s, n), NEW i \in 1..(Len(s) - 1),
         NEW t, t = [s EXCEPT ![i] = s[i + 1], ![i + 1] = s[i]]
  PROVE  /\ Fit(t, n) /\ DOMAIN t = DOMAIN s
         /\ \A j \in DOMAIN s : t[j] \in {s[k] : k \in DOMAIN s}
<1> DEFINE From(j) == IF j = i THEN i + 1 ELSE IF j = i + 1 THEN i ELSE j
<1>1. s \in Seq(StepSet) /\ Len(s) \in Nat /\ DOMAIN s = 1..Len(s) /\ s \in [1..Len(s) -> StepSet]
  BY LenProperties DEF Fit
<1>2. i \in 1..Len(s) /\ i + 1 \in 1..Len(s) /\ i # i + 1
  BY <1>1
<1>3. \A j \in 1..Len(s) : From(j) \in 1..Len(s)
  BY <1>2
<1>4. \A j \in 1..Len(s) : t[j] = s[From(j)]
  BY <1>1, <1>2
<1>5. t \in [1..Len(s) -> StepSet]
  BY <1>1, <1>2
<1> HIDE DEF From
<1>6. t \in Seq(StepSet)
  BY <1>1, <1>5, SeqDef
<1>7. DOMAIN t = 1..Len(s)
  BY <1>5
<1>8. \A j \in 1..Len(s) : t[j] = s[From(j)] /\ From(j) \in 1..Len(s)
  BY <1>3, <1>4
<1>9. \A j, k \in 1..Len(s) : j # k => From(j) # From(k)
  BY <1>1, <1>2 DEF From
<1>10. Unique(t)
  <2>1. SUFFICES ASSUME NEW j \in 1..Len(s), NEW k \in 1..Len(s), j # k, t[j].tag # None
                 PROVE  t[j].tag # t[k].tag
    BY <1>7 DEF Unique
  <2>2. s[From(j)].tag # None /\ From(j) # From(k)
    BY <2>1, <1>8, <1>9
  <2>3. s[From(j)].tag # s[From(k)].tag
    BY <2>2, <1>1, <1>8 DEF Fit, Unique
  <2>4. QED
    BY <2>3, <1>8
<1>11. QED
  BY <1>1, <1>6, <1>7, <1>8, <1>10 DEF Fit

\* The step to work on.
LEMMA CurrentIs ==
  ASSUME NEW n \in Nat, NEW p, PlanFits(p, n)
  PROVE  /\ CurrentIndex(p) \in Nat
         /\ CurrentIndex(p) # 0 => CurrentIndex(p) \in Open(p)
         /\ Doing(p) \in SUBSET Open(p) /\ Open(p) \in SUBSET (1..Len(p.steps))
         /\ Doing(p) # {} => /\ CurrentIndex(p) \in Doing(p)
                             /\ \A j \in Doing(p) : CurrentIndex(p) <= j
         /\ Doing(p) = {} /\ Open(p) # {} => \A j \in Open(p) : CurrentIndex(p) <= j
         /\ CurrentIndex(p) = 0 => Open(p) = {}
         /\ Open(p) # {} => Min(Open(p)) \in Open(p) /\ \A j \in Open(p) : Min(Open(p)) <= j
<1> DEFINE L == Len(p.steps)
           from == IF Doing(p) = {} THEN Open(p) ELSE Doing(p)
<1>1. DOMAIN p.steps = 1..L /\ L \in Nat
  BY PlanTags
<1>2. Open(p) \in SUBSET (1..L) /\ Doing(p) \in SUBSET Open(p)
  BY <1>1 DEF Open, Doing, Finished
<1>3. from \in SUBSET (1..L) /\ from \in SUBSET Open(p)
  BY <1>2
<1>4. CurrentIndex(p) = IF from = {} THEN 0 ELSE Min(from)
  BY DEF CurrentIndex
<1>5. 1 \in Int /\ L \in Int
  BY <1>1
<1>6. Open(p) # {} => Min(Open(p)) \in Open(p) /\ \A j \in Open(p) : Min(Open(p)) <= j
  <2> HIDE DEF L
  <2>1. QED
    BY <1>2, <1>5, MinIs
<1>7. from # {} => Min(from) \in from /\ \A j \in from : Min(from) <= j
  <2> HIDE DEF L, from
  <2>1. QED
    BY <1>3, <1>5, MinIs
<1>8. CurrentIndex(p) \in Nat /\ (CurrentIndex(p) = 0 <=> from = {})
  BY <1>3, <1>4, <1>7, <1>1
<1>9. from # {} => CurrentIndex(p) \in from /\ \A j \in from : CurrentIndex(p) <= j
  BY <1>4, <1>7
<1>10. Doing(p) # {} => from # {} /\ from = Doing(p)
  OBVIOUS
<1>11. Doing(p) = {} => from = Open(p)
  OBVIOUS
<1> HIDE DEF from
<1>12. QED
  BY <1>2, <1>3, <1>6, <1>8, <1>9, <1>10, <1>11

-----------------------------------------------------------------------------
(* What is made, kept and written fits *)

FitInv == PlanFits(plan, TagTop(revisions)) /\ PlanFits(file, TagTop(revisions))

Others ==
  /\ marked \subseteq Tags
  /\ phase \in {"investigating", "awaiting", "executing"} /\ mode \in {"plan", "coding"}
  /\ pc \in {"rest", "planning", "approval", "next", "step", "asking"}
  /\ at \in Nat /\ refusals \in 0..MaxRefusals /\ retries \in 0..TextRetries
  /\ suite \in BOOLEAN /\ touched \in BOOLEAN /\ snapshot \in BOOLEAN /\ green \in BOOLEAN
  /\ summary \in BOOLEAN /\ edited \in BOOLEAN /\ consent \in BOOLEAN
  /\ revisions \in 0..MaxRevisions
  /\ pc = "step" => refusals < MaxRefusals

PlanInv == FitInv /\ Others

LEMMA InvIsTyped == PlanInv => TypeOK
<1> SUFFICES ASSUME PlanInv PROVE TypeOK
  OBVIOUS
<1>1. ASSUME NEW p, NEW n, PlanFits(p, n) PROVE PlanOK(p)
  <2>1. p.kind \in Kinds \cup {"none"} /\ p.steps \in Seq(StepSet)
    BY <1>1 DEF PlanFits, PlanSet
  <2>2. Range(p.steps) \subseteq StepSet
    BY <2>1, LenProperties, ElementOfSeq DEF Range
  <2>3. QED
    BY <2>1, <2>2 DEF PlanOK
<1>2. PlanOK(plan) /\ PlanOK(file)
  BY <1>1 DEF PlanInv, FitInv
<1>3. QED
  BY <1>2 DEF PlanInv, Others, TypeOK

LEMMA FitFirst == Init => PlanInv
<1>1. TagTop(0) \in Nat /\ MaxRevisions \in Nat /\ MaxRefusals \in Nat \ {0} /\ TextRetries \in Nat
  BY TagTops, PlanAssumption
<1>2. PlanFits(NoPlan, TagTop(0))
  BY <1>1, NoPlanFits
<1>3. SUFFICES ASSUME Init PROVE FitInv /\ Others
  BY DEF PlanInv
<1>4. FitInv
  BY <1>2, <1>3 DEF Init, FitInv
<1>5. Others
  <2>1. marked \subseteq Tags /\ 0 \in 0..MaxRefusals /\ 0 \in 0..TextRetries /\ 0 \in 0..MaxRevisions
    BY <1>1, <1>3 DEF Init
  <2>2. 0 \in Nat /\ pc # "step"
    BY <1>3 DEF Init
  <2>3. QED
    BY <1>3, <2>1, <2>2, Zenon DEF Init, Others
<1>6. QED
  BY <1>4, <1>5

LEMMA FitStep ==
  ASSUME FitInv, revisions \in 0..MaxRevisions, Next
  PROVE  FitInv'
<1> DEFINE n == TagTop(revisions)
<1>1. /\ n \in Nat /\ n \in Int /\ MaxSteps <= n /\ revisions \in Nat /\ MaxRevisions \in Nat
      /\ TagTop(revisions + 1) = n + MaxSteps
  BY TagTops, PlanAssumption
<1>2. PlanFits(plan, n) /\ PlanFits(file, n)
  BY DEF FitInv
<1>3. PlanFits(NoPlan, n)
  BY <1>1, NoPlanFits
<1> HIDE DEF n
<1>4. ASSUME NEW p, PlanFits(p, n), Keep(p), UNCHANGED revisions PROVE FitInv'
  BY <1>4 DEF Keep, FitInv, n
<1>5. ASSUME UNCHANGED <<plan, file, revisions>> PROVE FitInv'
  BY <1>5 DEF FitInv
<1>6. ASSUME NEW p, PlanFits(p, n), NEW i \in DOMAIN p.steps,
             NEW st \in {"pending", "in_progress", "done", "skipped"}
      PROVE  PlanFits(Status(p, i, st), n)
  BY <1>1, <1>6, StatusAt DEF PlanFits
<1>7. ASSUME NEW k \in Kinds, NEW q \in Listed, SubmitPlan(k, q) PROVE FitInv'
  <2>1. PlanFits(MakePlan(k, q), n)
    BY <1>1, MadeFits
  <2>2. QED
    BY <1>4, <1>7, <2>1 DEF SubmitPlan, counts
<1>8. CASE PlannerStep
  BY <1>5, <1>7, <1>8 DEF PlannerStep, EndPlanning, RefusePlan, counts
<1>9. CASE StartStep
  <2>1. CurrentIndex(plan) \in DOMAIN plan.steps
    BY <1>1, <1>2, <1>9, CurrentIs DEF StartStep, Open
  <2>2. PlanFits(Start(plan, CurrentIndex(plan)), n)
    BY <1>2, <1>6, <2>1 DEF Start
  <2>3. QED
    BY <1>4, <1>9, <2>2 DEF StartStep, counts
<1>10. CASE Complete
  BY <1>3, <1>4, <1>10 DEF Complete, counts
<1>11. CASE StepDone
  <2>1. DOMAIN plan.steps = 1..Len(plan.steps)
    BY <1>1, <1>2, PlanTags
  <2>2. CASE CurrentIndex(plan) # 0 /\ plan.steps[CurrentIndex(plan)].status = "in_progress"
    <3>1. CurrentIndex(plan) \in DOMAIN plan.steps
      BY <1>1, <1>2, <2>2, CurrentIs DEF Open
    <3>2. PlanFits(Status(plan, CurrentIndex(plan), "done"), n)
      BY <1>2, <1>6, <3>1
    <3>3. QED
      BY <1>4, <1>11, <2>2, <3>2 DEF StepDone, counts
  <2>3. CASE ~(CurrentIndex(plan) # 0 /\ plan.steps[CurrentIndex(plan)].status = "in_progress")
    BY <1>2, <1>4, <1>11, <2>3 DEF StepDone, counts
  <2>4. QED
    BY <2>2, <2>3
<1>12. CASE Pause
  BY <1>2, <1>4, <1>12 DEF Pause, counts
<1>13. ASSUME NEW titles \in Listed, RevisePlan(titles) PROVE FitInv'
  <2> DEFINE p == ReplaceRemaining(plan, titles)
             q == Start(p, Min(Open(p)))
             N == n + MaxSteps
  <2>1. revisions + 1 \in Nat /\ revisions + 1 <= MaxRevisions
    BY <1>1, <1>13 DEF RevisePlan
  <2>2. N <= TagTop(MaxRevisions) /\ N \in Nat /\ N \in Int
    BY <1>1, <2>1, TagTops, PlanAssumption
  <2>3. PlanFits(p, N) /\ Open(p) # {}
    BY <1>1, <1>2, <2>2, ReplacedFits
  <2> HIDE DEF p, N
  <2>4. Min(Open(p)) \in DOMAIN p.steps
    BY <2>2, <2>3, CurrentIs DEF Open
  <2>5. PlanFits(q, N)
    <3> DEFINE i == Min(Open(p))
    <3>1. p \in PlanSet /\ i \in DOMAIN p.steps /\ q = Status(p, i, "in_progress")
      BY <2>3, <2>4 DEF PlanFits, Start
    <3> HIDE DEF i, q
    <3>2. QED
      BY <2>2, <2>3, <3>1, StatusAt
  <2>6. plan' = q /\ file' = q /\ revisions' = revisions + 1
    BY <1>13 DEF RevisePlan, Keep, p
  <2>7. QED
    BY <1>1, <2>5, <2>6 DEF FitInv, N
<1>14. CASE WorkerStep
  <2>1. CASE TextRefused
    BY <1>5, <1>12, <2>1 DEF TextRefused, counts
  <2>2. CASE Write \/ RunTests \/ CompleteStep \/ GateRefused
    BY <1>5, <2>2 DEF Write, RunTests, CompleteStep, GateRefused, counts
  <2>3. QED
    BY <1>9, <1>10, <1>11, <1>12, <1>13, <1>14, <2>1, <2>2
       DEF WorkerStep, BatchEnds, TextReply, Interrupted
<1>15. PlanFits(Approved, n)
  BY <1>2 DEF Approved
<1>16. CASE Yes \/ Run \/ Cancel
  BY <1>2, <1>3, <1>4, <1>5, <1>15, <1>16 DEF Yes, Run, Cancel, counts
<1>17. CASE EditFile
  <2>1. ASSUME PlanFits(file', n) PROVE FitInv'
    BY <1>2, <1>17, <2>1 DEF EditFile, FitInv, n
  <2>2. ASSUME NEW i \in DOMAIN file.steps, NEW st \in {"skipped", "done"},
               file' = Status(file, i, st)
        PROVE  FitInv'
    BY <1>2, <1>6, <2>1, <2>2
  <2>3. Fit(file.steps, n)
    BY <1>2 DEF PlanFits
  <2>4. ASSUME NEW i \in DOMAIN file.steps,
               file' = [file EXCEPT !.steps = Without(file.steps, {i})]
        PROVE  FitInv'
    <3>1. Fit(Without(file.steps, {i}), n)
      BY <1>1, <2>3, RemovedFits
    <3>2. QED
      BY <1>1, <1>2, <2>1, <2>4, <3>1, PlanWith
  <2>5. ASSUME NEW i \in 1..(Len(file.steps) - 1),
               file' = [file EXCEPT !.steps = [file.steps EXCEPT
                                       ![i] = file.steps[i + 1], ![i + 1] = file.steps[i]]]
        PROVE  FitInv'
    <3>1. Fit([file.steps EXCEPT ![i] = file.steps[i + 1], ![i + 1] = file.steps[i]], n)
      BY <1>1, <2>3, SwappedFits
    <3>2. QED
      BY <1>1, <1>2, <2>1, <2>5, <3>1, PlanWith
  <2>6. QED
    BY <1>17, <2>2, <2>4, <2>5 DEF EditFile
<1>18. ASSUME NEW undone \in SUBSET DOMAIN plan.steps, Undo(undone) PROVE FitInv'
  <2> DEFINE s == plan.steps
             Back(i) == \/ i \in undone
                        \/ i > Min(undone) /\ plan.steps[i].status = "in_progress"
             t == [i \in DOMAIN s |-> IF Back(i) THEN [s[i] EXCEPT !.status = "pending"] ELSE s[i]]
  <2>1. s \in Seq(StepSet) /\ DOMAIN s = 1..Len(s) /\ Len(s) \in Nat
        /\ \A i \in DOMAIN s : s[i] \in StepSet
    BY <1>1, <1>2, PlanTags
  <2> HIDE DEF Back
  <2>2. \A i \in DOMAIN s : t[i] \in StepSet /\ t[i].tag = s[i].tag
    BY <2>1, RestatedIs
  <2>3. t \in Seq(StepSet) /\ Len(t) = Len(s)
    <3>1. t \in [1..Len(s) -> StepSet]
      BY <2>1, <2>2
    <3>2. t \in Seq(StepSet)
      BY <2>1, <3>1, SeqDef
    <3>3. Len(t) \in Nat /\ 1..Len(t) = 1..Len(s)
      BY <2>1, <3>1, <3>2, LenProperties
    <3>4. QED
      BY <2>1, <3>2, <3>3
  <2> HIDE DEF t
  <2>4. Fit(t, n)
    BY <1>1, <1>2, <2>2, <2>3, Restatus DEF PlanFits
  <2>5. PlanFits([plan EXCEPT !.steps = t], n)
    BY <1>1, <1>2, <2>4, PlanWith
  <2>6. Keep([plan EXCEPT !.steps = t]) /\ UNCHANGED revisions
    BY <1>18 DEF Undo, t, Back
  <2>7. QED
    BY <1>4, <2>5, <2>6
<1>19. CASE UserStep
  <2>1. CASE SetMode \/ StartPlanning \/ LaterOrFeedback \/ Guidance
    BY <1>5, <2>1 DEF SetMode, StartPlanning, LaterOrFeedback, Guidance, counts
  <2>2. QED
    BY <1>12, <1>16, <1>17, <1>18, <1>19, <2>1 DEF UserStep, PausedByUser
<1>20. QED
  BY <1>8, <1>14, <1>19 DEF Next

LEMMA OthersStep ==
  ASSUME PlanInv, Next
  PROVE  Others'
<1>1. /\ MaxRefusals \in Nat \ {0} /\ TextRetries \in Nat /\ MaxRevisions \in Nat
      /\ 0 \in 0..MaxRefusals /\ 0 \in 0..TextRetries /\ 0 < MaxRefusals /\ 0 \in Nat
  BY PlanAssumption
<1>2. Others /\ FitInv
  BY DEF PlanInv
<1>3. TagTop(revisions) \in Nat
  BY <1>2, TagTops DEF Others
<1>4. StepTags(plan.steps) \subseteq Tags
  BY <1>2, <1>3, PlanTags DEF FitInv, StepTags
<1>5. ASSUME NEW p, Keep(p) PROVE edited' \in BOOLEAN
  BY <1>5 DEF Keep
<1>6. CASE SetMode \/ StartPlanning \/ EndPlanning \/ RefusePlan \/ LaterOrFeedback
  BY <1>1, <1>2, <1>6 DEF SetMode, StartPlanning, EndPlanning, RefusePlan, LaterOrFeedback,
       Others, project, gate, counts
<1>7. ASSUME NEW k \in Kinds, NEW q \in Listed, SubmitPlan(k, q) PROVE Others'
  BY <1>1, <1>2, <1>5, <1>7 DEF SubmitPlan, Others, project, gate, counts
<1>8. CASE Yes \/ Run \/ Cancel
  <2>1. edited' \in BOOLEAN
    BY <1>2, <1>5, <1>8 DEF Yes, Run, Cancel, Others
  <2>2. QED
    BY <1>1, <1>2, <1>8, <2>1 DEF Yes, Run, Cancel, Others, project, gate, counts
<1>9. CASE EditFile
  BY <1>1, <1>2, <1>9 DEF EditFile, Others, project, gate
<1>10. ASSUME NEW undone \in SUBSET DOMAIN plan.steps, Undo(undone) PROVE Others'
  <2>1. ({plan.steps[i].tag : i \in undone} \ {None}) \subseteq StepTags(plan.steps)
    BY DEF StepTags
  <2>2. marked' \subseteq Tags
    BY <1>2, <1>4, <1>10, <2>1 DEF Undo, Others
  <2>3. edited' \in BOOLEAN /\ touched' = FALSE /\ suite' \in BOOLEAN
    BY <1>5, <1>10 DEF Undo
  <2>4. UNCHANGED <<phase, mode, pc, gate, consent, revisions>>
    BY <1>10 DEF Undo
  <2>5. QED
    BY <1>2, <2>2, <2>3, <2>4 DEF Others, gate
<1>11. CASE StartStep
  <2>1. at' \in Nat
    BY <1>2, <1>3, <1>11, CurrentIs DEF StartStep, FitInv
  <2>2. marked' \subseteq Tags /\ suite' \in BOOLEAN /\ edited' \in BOOLEAN
    BY <1>2, <1>5, <1>11 DEF StartStep, Others
  <2>3. snapshot' \in BOOLEAN
    BY <1>11 DEF StartStep
  <2>4. /\ refusals' = 0 /\ retries' = 0 /\ green' = FALSE /\ touched' = FALSE
        /\ pc' = "step" /\ summary' = FALSE
        /\ UNCHANGED <<phase, mode, consent, counts>>
    BY <1>11 DEF StartStep
  <2>5. QED
    BY <1>1, <1>2, <2>1, <2>2, <2>3, <2>4 DEF Others, counts
<1>12. CASE Complete
  BY <1>1, <1>2, <1>5, <1>12 DEF Complete, Others, project, gate, counts
<1>13. CASE Write
  <2>1. marked' \subseteq Tags
    BY <1>2, <1>4, <1>13 DEF Write, Others
  <2>2. /\ suite' \in BOOLEAN /\ touched' \in BOOLEAN /\ green' = FALSE
        /\ UNCHANGED <<phase, mode, pc, at, snapshot, refusals, retries,
                       summary, edited, consent, counts>>
    BY <1>2, <1>13 DEF Write
  <2>3. QED
    BY <1>2, <2>1, <2>2 DEF Others, counts
<1>14. CASE RunTests \/ CompleteStep
  <2>1. CASE RunTests
    <3>1. green' \in BOOLEAN
      BY <1>2, <2>1 DEF RunTests, Others
    <3>2. UNCHANGED <<phase, mode, pc, project, at, snapshot, refusals, retries, summary,
                      edited, consent, counts>>
      BY <2>1 DEF RunTests
    <3>3. QED
      BY <1>2, <3>1, <3>2 DEF Others, project, counts
  <2>2. CASE CompleteStep
    BY <1>2, <2>2 DEF CompleteStep, Others, project, counts
  <2>3. QED
    BY <1>14, <2>1, <2>2
<1>15. CASE StepDone
  <2>1. edited' \in BOOLEAN
    BY <1>5, <1>15 DEF StepDone
  <2>2. QED
    BY <1>1, <1>2, <1>15, <2>1 DEF StepDone, NoGate, Others, counts
<1>16. CASE Pause
  BY <1>1, <1>2, <1>5, <1>16 DEF Pause, NoGate, Others, counts
<1>17. CASE GateRefused
  <2>1. refusals < MaxRefusals /\ refusals \in 0..MaxRefusals
    BY <1>2, <1>17 DEF GateRefused, Call, Others
  <2>2. /\ refusals' \in 0..MaxRefusals
        /\ pc' \in {"asking", "step"} /\ pc' = "step" => refusals' < MaxRefusals
    BY <1>1, <1>17, <2>1 DEF GateRefused, AskAfter
  <2>3. QED
    BY <1>2, <1>17, <2>2 DEF GateRefused, Others, project, counts
<1>18. CASE TextRefused
  <2>1. CASE Pause
    BY <1>16, <2>1
  <2>2. CASE ~Pause
    <3>1. /\ retries < TextRetries /\ retries' = retries + 1
          /\ UNCHANGED <<plan, phase, mode, file, pc, project, at, snapshot, green,
                         refusals, summary, edited, consent, counts>>
      BY <1>18, <2>2 DEF TextRefused
    <3>2. retries' \in 0..TextRetries
      BY <1>1, <1>2, <3>1 DEF Others
    <3>3. QED
      BY <1>2, <3>1, <3>2 DEF Others, project, counts
  <2>3. QED
    BY <2>1, <2>2
<1>19. ASSUME NEW titles \in Listed, RevisePlan(titles) PROVE Others'
  <2>1. edited' \in BOOLEAN
    BY <1>5, <1>19 DEF RevisePlan
  <2>2. revisions' \in 0..MaxRevisions
    BY <1>1, <1>2, <1>19 DEF RevisePlan, Others
  <2>3. UNCHANGED <<phase, mode, pc, project, gate, consent>>
    BY <1>19 DEF RevisePlan
  <2>4. QED
    BY <1>2, <2>1, <2>2, <2>3 DEF Others, project, gate
<1>20. CASE Guidance
  BY <1>1, <1>2, <1>20 DEF Guidance, Others, project, counts
<1>21. CASE PlannerStep
  BY <1>6, <1>7, <1>21 DEF PlannerStep
<1>22. CASE WorkerStep
  BY <1>11, <1>12, <1>13, <1>14, <1>15, <1>16, <1>17, <1>18, <1>19, <1>22
     DEF WorkerStep, BatchEnds, TextReply, Interrupted
<1>23. CASE UserStep
  BY <1>6, <1>8, <1>9, <1>10, <1>16, <1>20, <1>23 DEF UserStep, PausedByUser
<1>24. QED
  BY <1>21, <1>22, <1>23 DEF Next

\* What holds of the plan, its file and the records of its steps, always.
THEOREM PlanInvariant == Spec => []PlanInv
<1>1. Init => PlanInv
  BY FitFirst
<1>2. PlanInv /\ [Next]_vars => PlanInv'
  <2>1. ASSUME PlanInv, Next PROVE PlanInv'
    <3>1. FitInv'
      BY <2>1, FitStep DEF PlanInv, Others
    <3>2. QED
      BY <2>1, <3>1, OthersStep DEF PlanInv
  <2>2. ASSUME PlanInv, UNCHANGED vars PROVE PlanInv'
    BY <2>2 DEF vars, project, gate, counts, PlanInv, FitInv, Others
  <2>3. QED
    BY <2>1, <2>2
<1>3. QED
  BY <1>1, <1>2, PTL DEF Spec

\* The plan, its file and the records of its steps keep their types: no step
\* is refused more often than TDD_MAX_REFUSALS before the user is asked
\* (plan_runner.py:1038), and a revision's tags are of plan.py:381's form.
THEOREM Typing == Spec => []TypeOK
<1>1. PlanInv => TypeOK
  BY InvIsTyped
<1>2. QED
  BY <1>1, PlanInvariant, PTL

\* No two steps of a plan ever share a tag, however often it was edited,
\* undone and revised (plan.py:366-379).
THEOREM OneTagEach == Spec => []UniqueTags
<1>1. PlanInv => UniqueTags
  BY DEF PlanInv, FitInv, PlanFits, Fit, Unique, UniqueTags
<1>2. QED
  BY <1>1, PlanInvariant, PTL

-----------------------------------------------------------------------------
(* The plan file *)

\* The plan file shows the plan unless the user has changed it since
\* (_sync_plan_file after every change, plan_runner.py:297).
THEOREM FileShowsPlan == Spec => []FileMirrors
<1>1. Init => FileMirrors
  BY DEF Init, FileMirrors
<1>2. FileMirrors /\ [Next]_vars => FileMirrors'
  <2> SUFFICES ASSUME FileMirrors, [Next]_vars PROVE FileMirrors'
    OBVIOUS
  <2>1. ASSUME NEW p, Keep(p) PROVE FileMirrors'
    BY <2>1 DEF Keep, FileMirrors
  <2>2. ASSUME UNCHANGED <<plan, file, edited>> PROVE FileMirrors'
    BY <2>2 DEF FileMirrors
  <2>3. CASE UNCHANGED vars
    BY <2>2, <2>3 DEF vars
  <2>4. CASE PlannerStep
    BY <2>1, <2>2, <2>4 DEF PlannerStep, EndPlanning, RefusePlan, SubmitPlan
  <2>5. CASE WorkerStep
    BY <2>1, <2>2, <2>5 DEF WorkerStep, StartStep, Complete, Write, RunTests, CompleteStep,
         BatchEnds, GateRefused, TextReply, TextRefused, Interrupted, RevisePlan, StepDone, Pause
  <2>6. CASE EditFile
    BY <2>6 DEF EditFile, FileMirrors
  <2>7. CASE UserStep
    BY <2>1, <2>2, <2>6, <2>7 DEF UserStep, SetMode, StartPlanning, Yes, LaterOrFeedback, Run,
         Cancel, Undo, Guidance, PausedByUser, Pause
  <2>8. QED
    BY <2>3, <2>4, <2>5, <2>7 DEF Next
<1>3. QED
  BY <1>1, <1>2, PTL DEF Spec

-----------------------------------------------------------------------------
(* Finished steps *)

Kept(p, q) == {s \in Range(p.steps) : Finished(s)} \subseteq Range(q.steps)

\* A new status for a step that is not finished leaves the finished ones.
LEMMA StatusKeeps ==
  ASSUME NEW p \in PlanSet, NEW i \in Open(p),
         NEW st \in {"pending", "in_progress", "done", "skipped"}
  PROVE  Kept(p, Status(p, i, st))
<1> DEFINE q == Status(p, i, st)
<1>1. i \in DOMAIN p.steps /\ ~Finished(p.steps[i])
  BY DEF Open
<1>2. DOMAIN q.steps = DOMAIN p.steps /\ \A j \in DOMAIN p.steps : j # i => q.steps[j] = p.steps[j]
  <2> HIDE DEF q
  <2>1. q = Status(p, i, st)
    BY DEF q
  <2>2. QED
    BY <1>1, <2>1, StatusAt
<1> HIDE DEF q
<1>3. QED
  BY <1>1, <1>2 DEF Kept, Range, q

\* Nothing done while a plan runs loses or reopens a finished step: not the
\* next step's start, a refused gate, a pause or a revision (plan.py:357).
THEOREM FinishedKept == Spec => FinishedStay
<1>1. ASSUME PlanInv, [Next]_vars, Running, plan' # NoPlan
      PROVE  {s \in Range(plan.steps) : Finished(s)} \subseteq Range(plan'.steps)
  <2> SUFFICES Kept(plan, plan')
    BY DEF Kept
  <2> DEFINE n == TagTop(revisions)
  <2>1. n \in Nat /\ PlanFits(plan, n) /\ plan \in PlanSet /\ revisions \in 0..MaxRevisions
    BY <1>1, TagTops DEF PlanInv, FitInv, PlanFits, Others
  <2> HIDE DEF n
  <2>2. ASSUME plan' = plan PROVE Kept(plan, plan')
    BY <2>2 DEF Kept
  <2>3. ASSUME NEW i \in Open(plan)
        PROVE  /\ Kept(plan, Status(plan, i, "in_progress"))
               /\ Kept(plan, Status(plan, i, "done"))
    BY <2>1, StatusKeeps
  <2>4. CASE StartStep
    <3>1. CurrentIndex(plan) \in Open(plan) /\ plan' = Start(plan, CurrentIndex(plan))
      BY <2>1, <2>4, CurrentIs DEF StartStep, Keep
    <3>2. QED
      BY <2>3, <3>1 DEF Start, Kept
  <2>5. CASE StepDone
    <3>1. CurrentIndex(plan) # 0 => CurrentIndex(plan) \in Open(plan)
      BY <2>1, CurrentIs
    <3>2. \/ plan' = plan
          \/ CurrentIndex(plan) # 0 /\ plan' = Status(plan, CurrentIndex(plan), "done")
      BY <2>5 DEF StepDone, Keep
    <3>3. QED
      BY <2>2, <2>3, <3>1, <3>2 DEF Kept
  <2>6. ASSUME NEW titles \in Listed, RevisePlan(titles) PROVE Kept(plan, plan')
    <3> DEFINE p == ReplaceRemaining(plan, titles)
               N == n + MaxSteps
    <3>1. revisions + 1 \in Nat /\ revisions + 1 <= MaxRevisions /\ revisions \in Nat
      BY <2>1, <2>6, PlanAssumption DEF RevisePlan
    <3>2. N <= TagTop(MaxRevisions) /\ N \in Nat
      <4>1. TagTop(revisions + 1) = N /\ TagTop(revisions + 1) \in Nat
        BY <3>1, TagTops DEF n
      <4>2. QED
        BY <4>1, <3>1, TagTops
    <3>3. PlanFits(p, N) /\ Open(p) # {} /\ Kept(plan, p)
      BY <2>1, <3>2, ReplacedFits DEF Kept
    <3>4. plan' = Start(p, Min(Open(p)))
      BY <2>6 DEF RevisePlan, Keep
    <3> HIDE DEF p, N
    <3>5. Min(Open(p)) \in Open(p) /\ p \in PlanSet
      BY <3>2, <3>3, CurrentIs DEF PlanFits
    <3>6. Kept(p, plan')
      BY <3>4, <3>5, StatusKeeps DEF Start
    <3>7. QED
      BY <3>3, <3>6 DEF Kept
  <2>7. CASE PlannerStep \/ UserStep
    <3>1. pc \in {"next", "step", "asking"}
      BY <1>1 DEF Running
    <3>2. Guidance \/ PausedByUser
      BY <2>7, <3>1 DEF PlannerStep, UserStep, EndPlanning, RefusePlan, SubmitPlan, SetMode,
           StartPlanning, Yes, LaterOrFeedback, Run, Cancel, EditFile, Undo
    <3>3. QED
      BY <2>2, <3>2 DEF Guidance, PausedByUser, Pause, Keep
  <2>8. CASE WorkerStep
    <3>1. CASE Complete
      BY <1>1, <3>1 DEF Complete, Keep
    <3>2. CASE Write \/ RunTests \/ CompleteStep \/ GateRefused \/ TextRefused \/ Interrupted
      BY <2>2, <3>2 DEF Write, RunTests, CompleteStep, GateRefused, TextRefused, Interrupted,
           Pause, Keep
    <3>3. CASE BatchEnds \/ TextReply
      BY <2>5, <3>3 DEF BatchEnds, TextReply
    <3>4. QED
      BY <2>4, <2>6, <2>8, <3>1, <3>2, <3>3 DEF WorkerStep
  <2>9. CASE UNCHANGED vars
    BY <2>2, <2>9 DEF vars
  <2>10. QED
    BY <1>1, <2>7, <2>8, <2>9 DEF Next
<1>2. PlanInv /\ [Next]_vars =>
        [Running /\ plan' # NoPlan =>
           {s \in Range(plan.steps) : Finished(s)} \subseteq Range(plan'.steps)]_vars
  BY <1>1
<1>3. QED
  BY <1>2, PlanInvariant, PTL DEF Spec, FinishedStay

-----------------------------------------------------------------------------
(* Plans worked on from the front *)

\* All before a step in progress is finished.
Leads(p) == \A i \in Doing(p) : \A j \in 1..(i - 1) : Finished(p.steps[j])
InLine(p) == InFront(p) /\ Leads(p)

\* The step in progress is the current one, and the only one, right behind
\* the finished ones.
LEMMA OneInProgress ==
  ASSUME NEW n \in Nat, NEW p, PlanFits(p, n), InLine(p), NEW i \in Doing(p)
  PROVE  /\ i \in DOMAIN p.steps /\ p.steps[i].status = "in_progress"
         /\ CurrentIndex(p) = i /\ Doing(p) = {i}
         /\ \A j \in DOMAIN p.steps : Finished(p.steps[j]) <=> j < i
<1>1. DOMAIN p.steps = 1..Len(p.steps) /\ Len(p.steps) \in Nat
  BY PlanTags
<1>2. i \in DOMAIN p.steps /\ p.steps[i].status = "in_progress" /\ ~Finished(p.steps[i])
  BY DEF Doing, Finished
<1>3. \A j \in 1..(i - 1) : Finished(p.steps[j])
  BY DEF InLine, Leads
<1>4. \A j \in DOMAIN p.steps : i < j => ~Finished(p.steps[j])
  BY <1>2 DEF InLine, InFront
<1>5. \A j \in DOMAIN p.steps : (j < i \/ i < j \/ j = i) /\ (j < i => j \in 1..(i - 1) /\ ~(i < j))
  BY <1>1, <1>2
<1>6. \A j \in DOMAIN p.steps : Finished(p.steps[j]) <=> j < i
  BY <1>1, <1>2, <1>3, <1>4, <1>5
<1>7. ASSUME NEW k \in Doing(p) PROVE k = i
  <2>1. k \in DOMAIN p.steps /\ ~Finished(p.steps[k])
    BY DEF Doing, Finished
  <2>2. \A j \in 1..(k - 1) : Finished(p.steps[j])
    BY DEF InLine, Leads
  <2>3. ~(k < i)
    BY <1>6, <2>1
  <2>4. ~(i < k)
    <3>1. i < k => i \in 1..(k - 1)
      BY <1>1, <1>2, <2>1
    <3>2. QED
      BY <1>2, <2>2, <3>1
  <2>5. QED
    BY <1>1, <1>2, <2>1, <2>3, <2>4
<1>8. CurrentIndex(p) \in Doing(p)
  BY CurrentIs
<1>9. QED
  BY <1>2, <1>6, <1>7, <1>8

LEMMA NoneInProgress ==
  ASSUME NEW p, Doing(p) = {}
  PROVE  Leads(p)
BY DEF Leads

\* A step that becomes done leaves the plan in line.
LEMMA DoneInLine ==
  ASSUME NEW n \in Nat, NEW p, PlanFits(p, n), InLine(p), NEW i \in Doing(p),
         NEW q, q = Status(p, i, "done")
  PROVE  InLine(q) /\ Doing(q) = {}
<1>1. /\ i \in DOMAIN p.steps /\ Doing(p) = {i}
      /\ \A j \in DOMAIN p.steps : Finished(p.steps[j]) <=> j < i
  BY OneInProgress
<1>2. DOMAIN p.steps = 1..Len(p.steps) /\ Len(p.steps) \in Nat
  BY PlanTags
<1>3. /\ DOMAIN q.steps = DOMAIN p.steps /\ q.steps[i].status = "done"
      /\ \A j \in DOMAIN p.steps : j # i => q.steps[j] = p.steps[j]
  BY <1>1, StatusAt DEF PlanFits
<1>4. Finished(q.steps[i])
  BY <1>3 DEF Finished
<1>5. \A j \in DOMAIN p.steps : Finished(q.steps[j]) <=> j < i \/ j = i
  BY <1>1, <1>2, <1>3, <1>4
<1>6. InFront(q)
  BY <1>1, <1>2, <1>3, <1>5 DEF InFront
<1>7. Doing(q) = {}
  BY <1>1, <1>3 DEF Doing
<1>8. QED
  BY <1>6, <1>7, NoneInProgress DEF InLine

\* The current step starts, and is the one in progress then.
LEMMA StartInLine ==
  ASSUME NEW n \in Nat, NEW p, PlanFits(p, n), InLine(p), CurrentIndex(p) # 0,
         NEW q, q = Start(p, CurrentIndex(p))
  PROVE  InLine(q) /\ CurrentIndex(p) \in Doing(q)
<1> DEFINE i == CurrentIndex(p)
<1>1. DOMAIN p.steps = 1..Len(p.steps) /\ Len(p.steps) \in Nat
  BY PlanTags
<1>2. i \in Open(p) /\ Doing(p) \in SUBSET Open(p) /\ i \in DOMAIN p.steps
  BY CurrentIs DEF Open
<1>3. /\ \A j \in 1..(i - 1) : Finished(p.steps[j])
      /\ \A j \in Doing(p) : j = i
  <2>1. CASE Doing(p) = {}
    <3>1. \A j \in Open(p) : i <= j
      BY <1>2, <2>1, CurrentIs
    <3>2. ASSUME NEW j \in 1..(i - 1) PROVE Finished(p.steps[j])
      <4>1. j \in DOMAIN p.steps /\ ~(i <= j)
        BY <1>1, <1>2
      <4>2. QED
        BY <3>1, <4>1 DEF Open
    <3>3. QED
      BY <2>1, <3>2
  <2>2. CASE Doing(p) # {}
    <3>1. i \in Doing(p)
      BY <2>2, CurrentIs
    <3>2. QED
      BY <3>1, OneInProgress DEF InLine, Leads
  <2>3. QED
    BY <2>1, <2>2
<1>4. /\ DOMAIN q.steps = DOMAIN p.steps /\ q.steps[i].status = "in_progress"
      /\ \A j \in DOMAIN p.steps : j # i => q.steps[j] = p.steps[j]
  <2>1. p \in PlanSet /\ q = Status(p, i, "in_progress")
    BY DEF PlanFits, Start
  <2> HIDE DEF i
  <2>2. QED
    BY <1>2, <2>1, StatusAt
<1> HIDE DEF i
<1>5. ~Finished(p.steps[i]) /\ ~Finished(q.steps[i])
  BY <1>2, <1>4 DEF Open, Finished
<1>6. \A j \in DOMAIN p.steps : Finished(q.steps[j]) <=> Finished(p.steps[j])
  BY <1>4, <1>5
<1>7. InFront(q)
  BY <1>4, <1>6 DEF InLine, InFront
<1>8. Doing(q) = {i}
  BY <1>2, <1>3, <1>4 DEF Doing
<1>9. \A j \in 1..(i - 1) : j \in DOMAIN p.steps
  BY <1>1, <1>2
<1>10. Leads(q)
  BY <1>3, <1>6, <1>8, <1>9 DEF Leads
<1>11. QED
  BY <1>7, <1>8, <1>10 DEF InLine, i

\* The first open step starts, where none behind it is in progress.
LEMMA FirstStarts ==
  ASSUME NEW n \in Nat, NEW p, PlanFits(p, n), NEW i \in DOMAIN p.steps,
         \A j \in DOMAIN p.steps : Finished(p.steps[j]) <=> j < i,
         \A j \in DOMAIN p.steps : i < j => p.steps[j].status # "in_progress",
         NEW q, q = Start(p, Min(Open(p)))
  PROVE  /\ InLine(q) /\ i \in Doing(q) /\ DOMAIN q.steps = DOMAIN p.steps
         /\ \A j \in DOMAIN p.steps : j < i => q.steps[j] = p.steps[j]
         /\ \A j \in DOMAIN p.steps : ~(j < i) => ~Finished(q.steps[j])
<1>1. DOMAIN p.steps = 1..Len(p.steps) /\ Len(p.steps) \in Nat /\ i \in Int
  BY PlanTags
<1>2. i \in Open(p) /\ \A j \in Open(p) : i <= j
  BY <1>1 DEF Open
<1>3. Min(Open(p)) \in Open(p) /\ Min(Open(p)) <= i
  BY <1>2, CurrentIs
<1>4. Min(Open(p)) = i
  <2> DEFINE m == Min(Open(p))
  <2>1. i <= m /\ m <= i
    BY <1>2, <1>3
  <2>2. m \in DOMAIN p.steps
    BY <1>3 DEF Open
  <2> HIDE DEF m
  <2>3. m \in Int
    BY <1>1, <2>2
  <2>4. m = i
    BY <1>1, <2>1, <2>3
  <2>5. QED
    BY <2>4 DEF m
<1>5. /\ DOMAIN q.steps = DOMAIN p.steps /\ q.steps[i].status = "in_progress"
      /\ \A j \in DOMAIN p.steps : j # i => q.steps[j] = p.steps[j]
  <2>1. p \in PlanSet /\ q = Status(p, i, "in_progress")
    BY <1>4 DEF PlanFits, Start
  <2>2. QED
    BY <2>1, StatusAt
<1>6. ~Finished(q.steps[i])
  BY <1>5 DEF Finished
<1>7. \A j \in DOMAIN p.steps : Finished(q.steps[j]) <=> j < i
  BY <1>1, <1>5, <1>6
<1>8. InFront(q)
  BY <1>1, <1>5, <1>7 DEF InFront
<1>9. Doing(q) = {i}
  <2>1. \A j \in DOMAIN p.steps : j < i => p.steps[j].status # "in_progress"
    BY DEF Finished
  <2>2. \A j \in DOMAIN p.steps : j # i => q.steps[j].status # "in_progress"
    BY <1>1, <1>5, <2>1
  <2>3. QED
    BY <1>5, <2>2 DEF Doing
<1>10. \A j \in 1..(i - 1) : j \in DOMAIN p.steps /\ j < i
  BY <1>1
<1>11. Leads(q)
  BY <1>7, <1>9, <1>10 DEF Leads
<1>12. QED
  BY <1>1, <1>5, <1>7, <1>8, <1>9, <1>11 DEF InLine

LEMMA JoinedAt ==
  ASSUME NEW s \in Seq(StepSet), NEW t \in Seq(StepSet), NEW u, u = s \o t
  PROVE  /\ u \in Seq(StepSet) /\ DOMAIN u = 1..(Len(s) + Len(t)) /\ Len(u) = Len(s) + Len(t)
         /\ Len(s) \in Nat /\ Len(t) \in Nat /\ DOMAIN s = 1..Len(s) /\ DOMAIN t = 1..Len(t)
         /\ \A j \in DOMAIN u :
              IF j <= Len(s) THEN j \in DOMAIN s /\ u[j] = s[j]
                             ELSE j - Len(s) \in DOMAIN t /\ u[j] = t[j - Len(s)]
<1>1. /\ Len(s) \in Nat /\ Len(t) \in Nat /\ DOMAIN s = 1..Len(s) /\ DOMAIN t = 1..Len(t)
  BY LenProperties
<1>2. /\ u \in Seq(StepSet) /\ Len(u) = Len(s) + Len(t)
      /\ \A j \in 1..(Len(s) + Len(t)) : u[j] = IF j <= Len(s) THEN s[j] ELSE t[j - Len(s)]
  BY ConcatProperties
<1>3. DOMAIN u = 1..(Len(s) + Len(t))
  BY <1>2, LenProperties
<1>4. ASSUME NEW j \in 1..(Len(s) + Len(t))
      PROVE  IF j <= Len(s) THEN j \in DOMAIN s /\ u[j] = s[j]
                            ELSE j - Len(s) \in DOMAIN t /\ u[j] = t[j - Len(s)]
  <2>1. j <= Len(s) => j \in 1..Len(s)
    BY <1>1
  <2>2. ~(j <= Len(s)) => j - Len(s) \in 1..Len(t)
    BY <1>1
  <2>3. QED
    BY <1>1, <1>2, <2>1, <2>2
<1>5. QED
  BY <1>1, <1>2, <1>3, <1>4

\* What is left when all from i on is taken out.
LEMMA FrontStays ==
  ASSUME NEW m \in Seq(StepSet), NEW i \in DOMAIN m, NEW D \in SUBSET (DOMAIN m),
         \A j \in DOMAIN m : j \in D <=> ~(j < i)
  PROVE  /\ Len(Without(m, D)) = i - 1
         /\ \A j \in 1..(i - 1) : Without(m, D)[j] = m[j]
<1> DEFINE w == Without(m, D)
<1>1. DOMAIN m = 1..Len(m) /\ Len(m) \in Nat /\ D \in SUBSET (1..Len(m)) /\ D \in SUBSET (DOMAIN m)
  BY LenProperties
<1>2. i \in 1..Len(m) /\ i \in Int
  BY <1>1
<1>3. Cardinality(D) = Len(m) - (i - 1)
  <2>1. D = i..Len(m)
    <3>1. \A j \in DOMAIN m : j \in i..Len(m) <=> ~(j < i)
      BY <1>1, <1>2
    <3>2. \A j \in i..Len(m) : j \in DOMAIN m
      BY <1>1, <1>2
    <3>3. QED
      BY <3>1, <3>2
  <2>2. i \in Int /\ Len(m) \in Int
    BY <1>1, <1>2
  <2>3. Cardinality(i..Len(m)) = Len(m) - i + 1
    <3>1. \A a, b \in Int : Cardinality(a..b) = IF a > b THEN 0 ELSE b - a + 1
      BY FS_Interval
    <3>2. ~(i > Len(m))
      BY <1>1, <1>2
    <3>3. QED
      BY <2>2, <3>1, <3>2
  <2>4. Cardinality(D) = Len(m) - i + 1
    BY <2>1, <2>3, Zenon
  <2>5. QED
    BY <2>2, <2>4
<1>4. /\ Len(w) = Len(m) - Cardinality(D)
      /\ \A k \in DOMAIN m \ D : w[Moved(k, D)] = m[k]
  BY <1>1, WithoutIs
<1>5. ASSUME NEW j \in 1..(i - 1) PROVE w[j] = m[j]
  <2>1. j \in DOMAIN m \ D /\ j \in Int
    BY <1>1, <1>2
  <2>2. {d \in D : d < j} = {}
    BY <1>1, <1>2, <2>1
  <2>3. Moved(j, D) = j
    BY <2>1, <2>2, FS_EmptySet DEF Moved
  <2>4. QED
    BY <1>4, <2>1, <2>3
<1>6. QED
  BY <1>1, <1>2, <1>3, <1>4, <1>5

\* Of the steps of a stage that are left none is finished, and none but the
\* first is in progress.
LEMMA LeftInLine ==
  ASSUME NEW n \in Nat, NEW p, PlanFits(p, n), InLine(p), NEW i \in Doing(p), NEW stage,
         NEW w, w = StageLeft(p, stage)
  PROVE  /\ w \in Seq(StepSet)
         /\ \A k \in DOMAIN w : ~Finished(w[k])
         /\ \A k \in DOMAIN w : w[k].status = "in_progress" => k = 1 /\ p.steps[i].stage = stage
<1> DEFINE s == p.steps
           D == {j \in DOMAIN s : Finished(s[j]) \/ s[j].stage # stage}
<1>1. /\ s \in Seq(StepSet) /\ DOMAIN s = 1..Len(s) /\ Len(s) \in Nat
  BY PlanTags
<1>2. /\ i \in DOMAIN s /\ Doing(p) = {i}
      /\ \A j \in DOMAIN s : Finished(s[j]) <=> j < i
  BY OneInProgress
<1>3. /\ w \in Seq(StepSet)
      /\ \A k \in 1..Len(w) : \E l \in DOMAIN s \ D : Moved(l, D) = k /\ w[k] = s[l]
  <2>1. D \in SUBSET (DOMAIN s)
    OBVIOUS
  <2>2. w = Without(s, D)
    BY DEF StageLeft
  <2> HIDE DEF D, s
  <2>3. QED
    BY <1>1, <2>1, <2>2, WithoutIs
<1>4. DOMAIN w = 1..Len(w)
  BY <1>3, LenProperties
<1>5. \A l \in DOMAIN s \ D : ~Finished(s[l]) /\ s[l].stage = stage
  OBVIOUS
<1>6. ASSUME i \notin D PROVE Moved(i, D) = 1
  <2>1. {d \in D : d < i} = 1..(i - 1)
    <3>1. \A j \in 1..(i - 1) : j \in DOMAIN s /\ j < i
      BY <1>1, <1>2
    <3>2. \A j \in 1..(i - 1) : j \in D
      BY <1>2, <3>1
    <3>3. \A d \in D : d < i => d \in 1..(i - 1)
      BY <1>1, <1>2
    <3> HIDE DEF D
    <3>4. QED
      BY <3>1, <3>2, <3>3
  <2>2. i - 1 \in Int /\ 1 \in Int /\ i \in Int /\ 1 <= i
    BY <1>1, <1>2
  <2>3. Cardinality(1..(i - 1)) = i - 1
    <3>1. \A b \in Int : Cardinality(1..b) = IF 1 > b THEN 0 ELSE b - 1 + 1
      BY <2>2, FS_Interval
    <3>2. QED
      BY <2>2, <3>1
  <2>4. Cardinality({d \in D : d < i}) = i - 1
    BY <2>1, <2>3, Zenon
  <2> HIDE DEF D
  <2>5. QED
    BY <1>6, <2>2, <2>4 DEF Moved
<1>7. \A l \in DOMAIN s : s[l].status = "in_progress" => l = i
  BY <1>2 DEF Doing
<1> HIDE DEF D, s
<1>8. ASSUME NEW k \in DOMAIN w
      PROVE  /\ ~Finished(w[k])
             /\ w[k].status = "in_progress" => k = 1 /\ s[i].stage = stage
  <2>1. PICK l \in DOMAIN s \ D : Moved(l, D) = k /\ w[k] = s[l]
    BY <1>3, <1>4
  <2>2. QED
    BY <1>5, <1>6, <1>7, <2>1
<1>9. QED
  BY <1>3, <1>8 DEF s

\* A revision before the acceptance stage goes on at the step in progress.
LEMMA ReplacedInLine ==
  ASSUME NEW n \in Nat, NEW p, PlanFits(p, n), InLine(p), NEW i \in Doing(p),
         p.steps[i].stage # "acceptance", NEW titles \in Listed,
         n + MaxSteps <= TagTop(MaxRevisions), NEW q, q = ReplaceRemaining(p, titles),
         NEW r, r = Start(q, Min(Open(q)))
  PROVE  InLine(r) /\ i \in Doing(r) /\ DoneSteps(r) = DoneSteps(p)
<1> DEFINE A == Staying(p)
           B == StageLeft(p, "tests")
           C == NewSteps(p, titles)
           E == StageLeft(p, "acceptance")
           N == n + MaxSteps
           s == p.steps
<1>1. N \in Nat /\ PlanFits(q, N) /\ q.kind = p.kind
  BY PlanAssumption, ReplacedFits
<1>2. /\ s \in Seq(StepSet) /\ DOMAIN s = 1..Len(s) /\ Len(s) \in Nat
  BY PlanTags
<1>3. /\ i \in DOMAIN s /\ i \in Nat /\ 1 <= i
      /\ \A j \in DOMAIN s : Finished(s[j]) <=> j < i
  BY <1>2, OneInProgress
<1>4. A \in Seq(StepSet) /\ Len(A) = i - 1 /\ \A j \in 1..(i - 1) : A[j] = s[j]
  <2>1. Open(p) \in SUBSET (DOMAIN s) /\ \A j \in DOMAIN s : j \in Open(p) <=> ~(j < i)
    BY <1>3 DEF Open
  <2>2. A = Without(s, Open(p)) /\ A \in Seq(StepSet)
    BY PartsFit DEF Staying, Fit
  <2> HIDE DEF A, s
  <2>3. s \in Seq(StepSet) /\ i \in DOMAIN s
    BY <1>2, <1>3
  <2>4. /\ Len(Without(s, Open(p))) = i - 1
        /\ \A j \in 1..(i - 1) : Without(s, Open(p))[j] = s[j]
    BY <2>1, <2>3, FrontStays
  <2>5. QED
    BY <2>2, <2>4
<1>5. /\ B \in Seq(StepSet) /\ \A k \in DOMAIN B : ~Finished(B[k])
      /\ \A k \in DOMAIN B : B[k].status = "in_progress" => k = 1
  BY LeftInLine
<1>6. /\ E \in Seq(StepSet)
      /\ \A k \in DOMAIN E : ~Finished(E[k]) /\ E[k].status # "in_progress"
  BY LeftInLine
<1>7. /\ C \in Seq(StepSet) /\ Len(C) \in Nat \ {0}
      /\ \A k \in DOMAIN C : ~Finished(C[k]) /\ C[k].status # "in_progress"
  <2>1. Fit(C, N) /\ Len(C) \in Nat \ {0} /\ \A k \in DOMAIN C : C[k].status = "pending"
    BY NewStepsFit
  <2>2. QED
    BY <2>1 DEF Fit, Finished
<1> HIDE DEF A, B, C, E, N, s
<1> DEFINE F == A \o B
           G == C \o E
           H == F \o G
           K == A \o C
<1>8. q.steps = IF p.kind = "tdd" THEN H ELSE K
  BY DEF ReplaceRemaining, A, B, C, E, PlanFits, PlanSet
<1>9. /\ F \in Seq(StepSet) /\ Len(F) = (i - 1) + Len(B) /\ Len(B) \in Nat
      /\ DOMAIN F = 1..Len(F) /\ DOMAIN B = 1..Len(B)
      /\ \A j \in DOMAIN F : IF j < i THEN F[j] = s[j]
                             ELSE j - (i - 1) \in DOMAIN B /\ F[j] = B[j - (i - 1)]
  <2>1. /\ F \in Seq(StepSet) /\ DOMAIN F = 1..(Len(A) + Len(B)) /\ Len(F) = Len(A) + Len(B)
        /\ Len(B) \in Nat /\ DOMAIN B = 1..Len(B) /\ DOMAIN A = 1..Len(A)
        /\ \A j \in DOMAIN F : IF j <= Len(A) THEN j \in DOMAIN A /\ F[j] = A[j]
                               ELSE j - Len(A) \in DOMAIN B /\ F[j] = B[j - Len(A)]
    <3>1. F = A \o B
      OBVIOUS
    <3>2. A \in Seq(StepSet) /\ B \in Seq(StepSet)
      BY <1>4, <1>5
    <3> HIDE DEF F
    <3>3. QED
      BY <3>1, <3>2, JoinedAt
  <2> HIDE DEF F
  <2>2. \A j \in DOMAIN F : j <= i - 1 <=> j < i
    BY <1>3, <1>4, <2>1
  <2>3. QED
    BY <1>3, <1>4, <2>1, <2>2
<1>10. /\ G \in Seq(StepSet) /\ DOMAIN G = 1..Len(G) /\ Len(G) \in Nat \ {0}
       /\ \A k \in DOMAIN G : ~Finished(G[k]) /\ G[k].status # "in_progress"
  <2>1. /\ G \in Seq(StepSet) /\ DOMAIN G = 1..(Len(C) + Len(E)) /\ Len(G) = Len(C) + Len(E)
        /\ Len(E) \in Nat
        /\ \A j \in DOMAIN G : IF j <= Len(C) THEN j \in DOMAIN C /\ G[j] = C[j]
                               ELSE j - Len(C) \in DOMAIN E /\ G[j] = E[j - Len(C)]
    BY <1>6, <1>7, JoinedAt
  <2> HIDE DEF G
  <2>2. QED
    BY <1>6, <1>7, <2>1
<1>11. /\ DOMAIN H = 1..(Len(F) + Len(G))
       /\ \A j \in DOMAIN H : IF j <= Len(F) THEN j \in DOMAIN F /\ H[j] = F[j]
                              ELSE j - Len(F) \in DOMAIN G /\ H[j] = G[j - Len(F)]
  BY <1>9, <1>10, JoinedAt
<1>12. /\ DOMAIN K = 1..((i - 1) + Len(C))
       /\ \A j \in DOMAIN K : IF j < i THEN K[j] = s[j]
                              ELSE j - (i - 1) \in DOMAIN C /\ K[j] = C[j - (i - 1)]
  <2>1. /\ DOMAIN K = 1..(Len(A) + Len(C))
        /\ \A j \in DOMAIN K : IF j <= Len(A) THEN j \in DOMAIN A /\ K[j] = A[j]
                               ELSE j - Len(A) \in DOMAIN C /\ K[j] = C[j - Len(A)]
    <3>1. A \in Seq(StepSet) /\ C \in Seq(StepSet)
      BY <1>4, <1>7
    <3>2. QED
      BY <3>1, JoinedAt
  <2> HIDE DEF K
  <2>2. \A j \in DOMAIN K : j <= i - 1 <=> j < i
    BY <1>3, <1>4, <1>7, <2>1
  <2>3. QED
    BY <1>3, <1>4, <2>1, <2>2
<1> HIDE DEF F, G, H, K
<1>13. ASSUME NEW j \in DOMAIN q.steps
       PROVE  /\ j < i => q.steps[j] = s[j]
              /\ ~(j < i) => ~Finished(q.steps[j])
              /\ i < j => q.steps[j].status # "in_progress"
  <2>1. CASE p.kind = "tdd"
    <3>1. j \in DOMAIN H /\ q.steps[j] = H[j] /\ j \in Int
      BY <1>8, <1>9, <1>10, <1>11, <2>1
    <3>2. CASE j <= Len(F) /\ j < i
      BY <1>3, <1>9, <1>11, <3>1, <3>2
    <3>3. CASE j <= Len(F) /\ ~(j < i)
      <4>1. H[j] = F[j] /\ j \in DOMAIN F
        BY <1>11, <3>1, <3>3
      <4>2. j - (i - 1) \in DOMAIN B /\ F[j] = B[j - (i - 1)]
        BY <1>9, <3>3, <4>1
      <4>3. i < j => j - (i - 1) # 1
        BY <1>3, <3>1
      <4>4. QED
        BY <1>5, <3>1, <3>3, <4>1, <4>2, <4>3
    <3>4. CASE ~(j <= Len(F))
      <4>1. H[j] = G[j - Len(F)] /\ j - Len(F) \in DOMAIN G
        BY <1>11, <3>1, <3>4
      <4>2. ~(j < i)
        BY <1>3, <1>9, <3>1, <3>4
      <4>3. QED
        BY <1>10, <3>1, <4>1, <4>2
    <3>5. QED
      BY <3>2, <3>3, <3>4
  <2>2. CASE p.kind # "tdd"
    <3>1. j \in DOMAIN K /\ q.steps[j] = K[j]
      BY <1>8, <2>2
    <3>2. IF j < i THEN K[j] = s[j] ELSE j - (i - 1) \in DOMAIN C /\ K[j] = C[j - (i - 1)]
      BY <1>12, <3>1
    <3>3. CASE j < i
      <4>1. ~(i < j)
        BY <1>3, <1>12, <3>1, <3>3
      <4>2. QED
        BY <3>1, <3>2, <3>3, <4>1
    <3>4. CASE ~(j < i)
      BY <1>7, <3>1, <3>2, <3>4
    <3>5. QED
      BY <3>3, <3>4
  <2>3. QED
    BY <2>1, <2>2
<1>14. DOMAIN q.steps = 1..Len(q.steps) /\ Len(q.steps) \in Nat /\ i \in DOMAIN q.steps
  <2>1. DOMAIN q.steps = 1..Len(q.steps) /\ Len(q.steps) \in Nat
    BY <1>1, PlanTags
  <2>2. i \in DOMAIN H /\ i \in DOMAIN K
    BY <1>3, <1>7, <1>9, <1>10, <1>11, <1>12
  <2>3. QED
    BY <1>8, <2>1, <2>2
<1>15. \A j \in DOMAIN q.steps : j < i => j \in DOMAIN s
  BY <1>2, <1>3, <1>14
<1>16. \A j \in DOMAIN q.steps : Finished(q.steps[j]) <=> j < i
  BY <1>3, <1>13, <1>15
<1>17. /\ InLine(r) /\ i \in Doing(r) /\ DOMAIN r.steps = DOMAIN q.steps
       /\ \A j \in DOMAIN q.steps : j < i => r.steps[j] = q.steps[j]
       /\ \A j \in DOMAIN q.steps : ~(j < i) => ~Finished(r.steps[j])
  BY <1>1, <1>13, <1>14, <1>16, FirstStarts
<1>18. DoneSteps(r) = {j \in 1..(i - 1) : s[j].status = "done"}
  <2>1. \A j \in DOMAIN r.steps : r.steps[j].status = "done" => Finished(r.steps[j])
    BY DEF Finished
  <2>2. \A j \in 1..(i - 1) : j \in DOMAIN q.steps /\ j < i
    BY <1>3, <1>14
  <2>3. \A j \in DOMAIN q.steps : j < i => j \in 1..(i - 1)
    BY <1>3, <1>14
  <2>4. QED
    BY <1>13, <1>17, <2>1, <2>2, <2>3 DEF DoneSteps
<1>19. DoneSteps(p) = {j \in 1..(i - 1) : s[j].status = "done"}
  <2>1. \A j \in DOMAIN s : s[j].status = "done" => Finished(s[j])
    BY DEF Finished
  <2>2. \A j \in 1..(i - 1) : j \in DOMAIN s /\ j < i
    BY <1>2, <1>3
  <2>3. \A j \in DOMAIN s : j < i => j \in 1..(i - 1)
    BY <1>2, <1>3
  <2>4. DoneSteps(p) = {j \in DOMAIN s : s[j].status = "done"}
    BY DEF DoneSteps, s
  <2>5. QED
    BY <1>3, <2>1, <2>2, <2>3, <2>4
<1>20. QED
  BY <1>17, <1>18, <1>19

\* An undo leaves the plan in line where its finished steps stay in front.
LEMMA UndoneInLine ==
  ASSUME NEW n \in Nat, PlanFits(plan, n), InLine(plan), InOrder,
         NEW undone \in SUBSET DOMAIN plan.steps, Undo(undone)
  PROVE  InLine(plan') /\ file' = plan' /\ (Doing(plan) = {} => Doing(plan') = {})
<1> DEFINE s == plan.steps
           Back(i) == \/ i \in undone
                      \/ i > Min(undone) /\ s[i].status = "in_progress"
           t == [i \in DOMAIN s |-> IF Back(i) THEN [s[i] EXCEPT !.status = "pending"] ELSE s[i]]
           p == [plan EXCEPT !.steps = t]
<1>1. DOMAIN s = 1..Len(s) /\ Len(s) \in Nat /\ \A i \in DOMAIN s : s[i] \in StepSet
  BY PlanTags
<1>2. undone # {} /\ Keep(p) /\ InFront(p)
  BY DEF Undo
<1>3. Min(undone) \in undone /\ \A j \in undone : Min(undone) <= j
  <2>1. 1 \in Int /\ Len(s) \in Int /\ undone \in SUBSET (1..Len(s))
    BY <1>1
  <2> HIDE DEF s
  <2>2. QED
    BY <1>2, <2>1, MinIs
<1>4. p.steps = t /\ plan' = p /\ file' = p
  BY <1>2 DEF Keep, PlanFits, PlanSet
<1>5. DOMAIN t = DOMAIN s /\ \A i \in DOMAIN s :
        IF Back(i) THEN t[i] = [s[i] EXCEPT !.status = "pending"] ELSE t[i] = s[i]
  OBVIOUS
<1>6. \A i \in DOMAIN s : Back(i) => t[i].status = "pending"
  BY <1>1, <1>5, RestatedIs
<1>7. \A i \in DOMAIN s : ~Back(i) => t[i] = s[i]
  BY <1>5
<1>8. \A i \in Doing(p) : i \in Doing(plan) /\ i <= Min(undone)
  <2> TAKE i \in Doing(p)
  <2>1. i \in DOMAIN s /\ t[i].status = "in_progress"
    BY <1>4, <1>5 DEF Doing
  <2>2. ~Back(i)
    BY <1>6, <2>1
  <2>3. s[i].status = "in_progress"
    BY <1>7, <2>1, <2>2
  <2>4. ~(i > Min(undone)) /\ Min(undone) \in DOMAIN s
    BY <1>3, <2>2, <2>3
  <2>5. QED
    BY <1>1, <2>1, <2>3, <2>4 DEF Doing
<1>9. ASSUME NEW i \in Doing(p), NEW j \in 1..(i - 1) PROVE Finished(t[j])
  <2>1. i \in DOMAIN s /\ Min(undone) \in DOMAIN s /\ i <= Min(undone)
    BY <1>3, <1>8 DEF Doing
  <2>2. j \in DOMAIN s /\ j < Min(undone) /\ j \in Int
    BY <1>1, <2>1
  <2>3. j \notin undone /\ ~(j > Min(undone))
    BY <1>1, <1>3, <2>1, <2>2
  <2>4. t[j] = s[j]
    BY <1>7, <2>2, <2>3
  <2>5. Finished(s[j])
    BY <1>8 DEF InLine, Leads
  <2>6. QED
    BY <2>4, <2>5
<1> HIDE DEF t, p
<1>10. Leads(p)
  BY <1>4, <1>9 DEF Leads
<1>11. QED
  BY <1>2, <1>4, <1>8, <1>10 DEF InLine

\* An edit of the plan file that starts no step leaves none in progress.
LEMMA EditedInLine ==
  ASSUME NEW n \in Nat, PlanFits(file, n), Doing(file) = {}, InOrder, EditFile
  PROVE  InLine(file') /\ Doing(file') = {}
<1> DEFINE s == file.steps
<1>1. s \in Seq(StepSet) /\ DOMAIN s = 1..Len(s) /\ Len(s) \in Nat /\ Fit(s, n) /\ n \in Int
  BY PlanTags DEF PlanFits
<1>2. \A i \in DOMAIN s : s[i].status # "in_progress"
  BY DEF Doing
<1>3. ASSUME NEW i \in DOMAIN s, NEW st \in {"skipped", "done"}, file' = Status(file, i, st)
      PROVE  Doing(file') = {}
  <2> DEFINE q == Status(file, i, st)
  <2>1. /\ DOMAIN q.steps = DOMAIN s /\ q.steps[i].status = st
        /\ \A j \in DOMAIN s : j # i => q.steps[j] = s[j]
    <3>1. file \in PlanSet /\ i \in DOMAIN file.steps
          /\ st \in {"pending", "in_progress", "done", "skipped"}
      BY DEF PlanFits
    <3>2. q = Status(file, i, st)
      OBVIOUS
    <3> HIDE DEF q
    <3>3. QED
      BY <3>1, <3>2, StatusAt
  <2> HIDE DEF q
  <2>2. \A j \in DOMAIN s : q.steps[j].status # "in_progress"
    BY <1>2, <2>1
  <2>3. Doing(q) = {}
    BY <2>1, <2>2 DEF Doing
  <2>4. QED
    BY <1>3, <2>3 DEF q, Doing
<1>4. ASSUME NEW w, file' = [file EXCEPT !.steps = w],
             \A x \in Range(w) : x \in Range(s)
      PROVE  Doing(file') = {}
  <2>1. file'.steps = w
    BY <1>4 DEF PlanFits, PlanSet
  <2>2. \A x \in Range(s) : x.status # "in_progress"
    BY <1>2 DEF Range
  <2>3. \A j \in DOMAIN w : w[j].status # "in_progress"
    BY <1>4, <2>2 DEF Range
  <2>4. QED
    BY <2>1, <2>3 DEF Doing
<1>5. ASSUME NEW i \in DOMAIN s, file' = [file EXCEPT !.steps = Without(s, {i})]
      PROVE  Doing(file') = {}
  <2>1. Range(Without(s, {i})) = {s[k] : k \in DOMAIN s \ {i}}
    BY <1>1, RemovedFits
  <2>2. \A x \in Range(Without(s, {i})) : x \in Range(s)
    BY <2>1 DEF Range
  <2>3. QED
    BY <1>4, <1>5, <2>2
<1>6. ASSUME NEW i \in 1..(Len(s) - 1),
             file' = [file EXCEPT !.steps = [s EXCEPT ![i] = s[i + 1], ![i + 1] = s[i]]]
      PROVE  Doing(file') = {}
  <2> DEFINE t == [s EXCEPT ![i] = s[i + 1], ![i + 1] = s[i]]
  <2>1. DOMAIN t = DOMAIN s /\ \A j \in DOMAIN s : t[j] \in {s[k] : k \in DOMAIN s}
    BY <1>1, SwappedFits
  <2> HIDE DEF t
  <2>2. \A x \in Range(t) : x \in Range(s)
    BY <2>1 DEF Range
  <2>3. QED
    BY <1>4, <1>6, <2>2 DEF t
<1>7. InFront(file')
  BY DEF EditFile
<1>8. Doing(file') = {}
  BY <1>3, <1>5, <1>6 DEF EditFile
<1>9. QED
  BY <1>7, <1>8 DEF InLine, Leads

-----------------------------------------------------------------------------
(* The gate *)

\* The finished steps are in front, the step in progress is the one behind them and
\* the one that was started: so it is where edits and undos leave the finished steps in
\* front and no plan is revised in its acceptance stage.
OrderInv ==
  /\ InLine(plan) /\ InLine(file)
  /\ phase # "executing" \/ pc = "approval" => Doing(plan) = {} /\ Doing(file) = {}
  /\ Running => phase = "executing"
  /\ pc \in {"step", "asking"} => at \in Doing(plan)

LEMMA OrderFirst == Init => OrderInv
<1>1. Doing(NoPlan) = {} /\ InFront(NoPlan)
  BY DEF NoPlan, Doing, InFront
<1>2. InLine(NoPlan)
  BY <1>1, NoneInProgress DEF InLine
<1>3. QED
  BY <1>1, <1>2 DEF Init, OrderInv, Running

\* A revision goes on at the step it was made in.
LEMMA RevisedInLine ==
  ASSUME ~LateRevisions, PlanInv, OrderInv, NEW titles \in Listed, RevisePlan(titles)
  PROVE  InLine(plan') /\ file' = plan' /\ at \in Doing(plan') /\ DoneSteps(plan') = DoneSteps(plan)
<1> DEFINE n == TagTop(revisions)
<1>1. revisions \in Nat /\ revisions + 1 \in Nat /\ revisions + 1 <= MaxRevisions
  BY PlanAssumption DEF PlanInv, Others, RevisePlan
<1>2. n \in Nat /\ PlanFits(plan, n)
  BY <1>1, TagTops DEF PlanInv, FitInv
<1>3. n + MaxSteps <= TagTop(MaxRevisions)
  <2>1. TagTop(revisions + 1) = n + MaxSteps /\ TagTop(revisions + 1) <= TagTop(MaxRevisions)
    BY <1>1, TagTops
  <2>2. QED
    BY <2>1
<1> HIDE DEF n
<1>4. InLine(plan) /\ at \in Doing(plan)
  BY DEF OrderInv, RevisePlan, Call
<1>5. plan.steps[at].stage # "acceptance"
  BY <1>2, <1>4, OneInProgress DEF RevisePlan
<1> DEFINE q == ReplaceRemaining(plan, titles)
           r == Start(q, Min(Open(q)))
<1>6. plan' = r /\ file' = r
  BY DEF RevisePlan, Keep
<1>7. InLine(r) /\ at \in Doing(r) /\ DoneSteps(r) = DoneSteps(plan)
  BY <1>2, <1>3, <1>4, <1>5, ReplacedInLine
<1> HIDE DEF r
<1>8. QED
  BY <1>6, <1>7

LEMMA OrderStep ==
  ASSUME InOrder, ~LateRevisions, PlanInv, OrderInv, Next
  PROVE  OrderInv'
<1> DEFINE n == TagTop(revisions)
           i == CurrentIndex(plan)
<1>1. n \in Nat /\ PlanFits(plan, n) /\ PlanFits(file, n)
  BY TagTops DEF PlanInv, FitInv, Others
<1>2. InLine(plan) /\ InLine(file)
  BY DEF OrderInv
<1> HIDE DEF n
<1>3. Doing(NoPlan) = {} /\ InLine(NoPlan)
  BY NoneInProgress DEF NoPlan, Doing, InFront, InLine
<1>4. CASE SetMode \/ StartPlanning \/ EndPlanning \/ RefusePlan \/ LaterOrFeedback
  BY <1>4 DEF SetMode, StartPlanning, EndPlanning, RefusePlan, LaterOrFeedback, gate,
       OrderInv, Running
<1>5. ASSUME NEW k \in Kinds, NEW titles \in Listed, SubmitPlan(k, titles) PROVE OrderInv'
  <2> DEFINE p == MakePlan(k, titles)
  <2>1. \A j \in DOMAIN p.steps : p.steps[j].status = "pending"
    <3>1. MaxSteps \in Nat /\ MaxSteps <= MaxSteps
      BY PlanAssumption
    <3>2. QED
      BY <3>1, MadeFits
  <2> HIDE DEF p
  <2>2. Doing(p) = {} /\ InFront(p)
    BY <2>1 DEF Doing, InFront, Finished
  <2>3. InLine(p)
    BY <2>2, NoneInProgress DEF InLine
  <2>4. plan' = p /\ file' = p /\ pc' = "approval"
    BY <1>5 DEF SubmitPlan, Keep, p
  <2>5. QED
    BY <2>2, <2>3, <2>4 DEF OrderInv, Running
<1>6. CASE Yes
  <2>1. Doing(plan) = {} /\ Doing(file) = {}
    BY <1>6 DEF Yes, OrderInv
  <2>2. InLine(Approved) /\ plan' = Approved /\ file' = Approved
    BY <1>2, <1>6 DEF Yes, Keep, Approved
  <2>3. phase' = "executing" /\ pc' = "next"
    BY <1>6 DEF Yes
  <2>4. QED
    BY <2>2, <2>3 DEF OrderInv, Running
<1>7. CASE Run
  <2>1. InLine(plan') /\ InLine(file')
    BY <1>2, <1>7 DEF Run, Keep, Approved
  <2>2. phase' = "executing" /\ pc' = "next"
    BY <1>7 DEF Run
  <2>3. QED
    BY <2>1, <2>2 DEF OrderInv, Running
<1>8. CASE Cancel \/ Complete
  <2>1. plan' = NoPlan /\ file' = NoPlan /\ pc' = "rest"
    BY <1>8 DEF Cancel, Complete, Keep
  <2>2. QED
    BY <1>3, <2>1 DEF OrderInv, Running
<1>9. CASE EditFile
  <2>1. Doing(file) = {} /\ Doing(plan) = {} /\ phase # "executing"
    BY <1>9 DEF EditFile, OrderInv
  <2>2. InLine(file') /\ Doing(file') = {}
    BY <1>1, <1>9, <2>1, EditedInLine
  <2>3. UNCHANGED <<plan, phase, pc, at>> /\ pc \in {"rest", "approval"}
    BY <1>9 DEF EditFile, gate
  <2>4. QED
    BY <1>2, <2>1, <2>2, <2>3 DEF OrderInv, Running
<1>10. ASSUME NEW undone \in SUBSET DOMAIN plan.steps, Undo(undone) PROVE OrderInv'
  <2>1. InLine(plan') /\ file' = plan' /\ (Doing(plan) = {} => Doing(plan') = {})
    BY <1>1, <1>2, <1>10, UndoneInLine
  <2>2. UNCHANGED <<phase, pc>> /\ pc = "rest"
    BY <1>10 DEF Undo
  <2>3. QED
    BY <2>1, <2>2 DEF OrderInv, Running
<1>11. CASE StartStep
  <2>1. i # 0 /\ plan' = Start(plan, i) /\ file' = plan' /\ at' = i
    BY <1>11 DEF StartStep, Keep
  <2>2. InLine(plan') /\ i \in Doing(plan')
    <3> DEFINE q == Start(plan, i)
    <3>1. InLine(q) /\ i \in Doing(q)
      BY <1>1, <1>2, <2>1, StartInLine
    <3>2. plan' = q
      BY <2>1
    <3> HIDE DEF q, i
    <3>3. QED
      BY <3>1, <3>2
  <2>3. phase = "executing" /\ phase' = phase /\ pc' = "step"
    BY <1>11 DEF StartStep, OrderInv, Running
  <2>4. QED
    BY <2>1, <2>2, <2>3 DEF OrderInv, Running
<1>12. ASSUME pc \in {"step", "asking"}, UNCHANGED <<plan, file, phase, at>>,
              pc' \in {"step", "asking"}
       PROVE  OrderInv'
  BY <1>12 DEF OrderInv, Running
<1>13. CASE Write \/ RunTests \/ CompleteStep \/ GateRefused \/ Guidance
  BY <1>12, <1>13 DEF Write, RunTests, CompleteStep, GateRefused, Guidance, Call
<1>14. ASSUME pc \in {"step", "asking"}, Pause PROVE OrderInv'
  <2>1. plan' = plan /\ file' = plan /\ pc' = "rest" /\ phase' = phase /\ phase = "executing"
    BY <1>14 DEF Pause, Keep, OrderInv, Running
  <2>2. QED
    BY <1>2, <2>1 DEF OrderInv, Running
<1>15. ASSUME pc = "step", StepDone PROVE OrderInv'
  <2>1. at \in Doing(plan) /\ phase = "executing"
    BY <1>15 DEF OrderInv, Running
  <2>2. i = at /\ plan.steps[i].status = "in_progress" /\ i # 0
    <3>1. DOMAIN plan.steps = 1..Len(plan.steps)
      BY <1>1, PlanTags
    <3>2. QED
      BY <1>1, <1>2, <2>1, <3>1, OneInProgress
  <2>3. plan' = Status(plan, at, "done") /\ file' = plan' /\ pc' = "next" /\ phase' = phase
    BY <1>15, <2>2 DEF StepDone, Keep
  <2>4. InLine(Status(plan, at, "done"))
    BY <1>1, <1>2, <2>1, DoneInLine
  <2>5. InLine(plan')
    BY <2>3, <2>4 DEF InLine, InFront, Leads, Doing
  <2>6. QED
    BY <2>1, <2>3, <2>5 DEF OrderInv, Running
<1>16. ASSUME NEW titles \in Listed, RevisePlan(titles) PROVE OrderInv'
  <2>1. InLine(plan') /\ file' = plan' /\ at \in Doing(plan')
    BY <1>16, RevisedInLine
  <2>2. pc = "step" /\ UNCHANGED <<phase, pc, at>> /\ phase = "executing"
    BY <1>16 DEF RevisePlan, Call, gate, OrderInv, Running
  <2>3. QED
    BY <2>1, <2>2 DEF OrderInv, Running
<1>17. CASE PlannerStep
  BY <1>4, <1>5, <1>17 DEF PlannerStep
<1>18. CASE UserStep
  BY <1>4, <1>6, <1>7, <1>8, <1>9, <1>10, <1>13, <1>14, <1>18 DEF UserStep, PausedByUser
<1>19. CASE BatchEnds \/ TextReply
  BY <1>15, <1>19 DEF BatchEnds, TextReply
<1>20. CASE TextRefused
  BY <1>12, <1>14, <1>20 DEF TextRefused
<1>21. CASE Interrupted
  BY <1>14, <1>21 DEF Interrupted
<1>22. CASE WorkerStep
  BY <1>8, <1>11, <1>13, <1>16, <1>19, <1>20, <1>21, <1>22 DEF WorkerStep
<1>23. QED
  BY <1>17, <1>18, <1>22 DEF Next

\* What is remembered of the gate is true: a reused green run still stands, and
\* the step completed in this batch passed its gate.
GateInv ==
  /\ pc \in {"step", "asking"} => (green => suite)
  /\ pc = "step" /\ summary /\ plan.kind = "tdd" => Gate
  /\ pc = "asking" => ~summary

LEMMA GateStep ==
  ASSUME PlanInv, GateInv, Next
  PROVE  GateInv'
<1>1. /\ green \in BOOLEAN /\ suite \in BOOLEAN /\ summary \in BOOLEAN
      /\ pc \in {"rest", "planning", "approval", "next", "step", "asking"}
  BY DEF PlanInv, Others
<1>2. ASSUME pc' \notin {"step", "asking"} PROVE GateInv'
  BY <1>2 DEF GateInv
<1>3. ASSUME pc' \in {"step", "asking"}, summary' = FALSE, green' = FALSE PROVE GateInv'
  BY <1>3 DEF GateInv
<1>4. ASSUME pc \in {"step", "asking"}, summary = FALSE, UNCHANGED <<summary, green, suite>>
      PROVE  GateInv'
  BY <1>4 DEF GateInv
<1>5. CASE PlannerStep
  BY <1>2, <1>5 DEF PlannerStep, EndPlanning, RefusePlan, SubmitPlan
<1>6. CASE StartStep
  BY <1>3, <1>6 DEF StartStep
<1>7. CASE Complete \/ StepDone \/ Pause
  BY <1>2, <1>7 DEF Complete, StepDone, Pause
<1>8. CASE Write
  <2>1. pc' = "step" /\ green' = FALSE /\ summary' = summary /\ ~summary
    BY <1>8 DEF Write, Call
  <2>2. QED
    BY <1>1, <1>3, <2>1
<1>9. CASE RunTests
  <2>1. pc' = "step" /\ summary' = summary /\ ~summary /\ green' = suite /\ suite' = suite
    BY <1>9 DEF RunTests, Call, project
  <2>2. QED
    BY <1>1, <2>1 DEF GateInv
<1>10. CASE CompleteStep
  <2>1. /\ UNCHANGED <<plan, snapshot, touched, marked, green, suite, pc>> /\ pc = "step"
        /\ plan.kind = "tdd" => Gate
    BY <1>10 DEF CompleteStep, Call, project
  <2>2. plan.kind = "tdd" => Gate'
    BY <2>1 DEF Gate, TagsRight
  <2>3. QED
    BY <2>1, <2>2 DEF GateInv
<1>11. CASE GateRefused
  <2>1. pc = "step" /\ ~summary /\ UNCHANGED <<summary, green, suite>>
    BY <1>11 DEF GateRefused, Call, project
  <2>2. QED
    BY <1>1, <1>4, <2>1
<1>12. ASSUME NEW titles \in Listed, RevisePlan(titles) PROVE GateInv'
  <2>1. pc = "step" /\ ~summary /\ UNCHANGED <<summary, green, suite>>
    BY <1>12 DEF RevisePlan, Call, project, gate
  <2>2. QED
    BY <1>1, <1>4, <2>1
<1>13. CASE Guidance
  <2>1. pc = "asking" /\ UNCHANGED <<summary, green, suite>>
    BY <1>13 DEF Guidance, project
  <2>2. ~summary
    BY <2>1 DEF GateInv
  <2>3. QED
    BY <1>1, <1>4, <2>1, <2>2
<1>14. CASE TextRefused
  <2>1. CASE Pause
    BY <1>7, <2>1
  <2>2. CASE ~Pause
    <3>1. pc = "step" /\ ~summary /\ UNCHANGED <<summary, green, suite>>
      BY <1>14, <2>2 DEF TextRefused, project
    <3>2. QED
      BY <1>1, <1>4, <3>1
  <2>3. QED
    BY <2>1, <2>2
<1>15. CASE WorkerStep
  BY <1>6, <1>7, <1>8, <1>9, <1>10, <1>11, <1>12, <1>14, <1>15
     DEF WorkerStep, BatchEnds, TextReply, Interrupted
<1>16. ASSUME NEW undone, Undo(undone) PROVE GateInv'
  BY <1>2, <1>16 DEF Undo
<1>17. CASE SetMode \/ StartPlanning \/ Yes \/ LaterOrFeedback \/ Run \/ Cancel \/ EditFile
  BY <1>2, <1>17 DEF SetMode, StartPlanning, Yes, LaterOrFeedback, Run, Cancel, EditFile
<1>18. CASE UserStep
  BY <1>7, <1>13, <1>16, <1>17, <1>18 DEF UserStep, PausedByUser
<1>19. QED
  BY <1>5, <1>15, <1>18 DEF Next

\* The count of done steps is a number.
LEMMA DoneCount ==
  ASSUME NEW n \in Nat, NEW p, PlanFits(p, n)
  PROVE  Cardinality(DoneSteps(p)) \in Nat
<1>1. DoneSteps(p) \in SUBSET (1..Len(p.steps)) /\ Len(p.steps) \in Nat
  BY PlanTags DEF DoneSteps
<1>2. QED
  BY <1>1, DropCount

\* A step of a TDD plan is done only when its gate would pass then: its markers
\* are gone, the whole suite passes and no finished step's test was changed,
\* whatever calls, refusals, retries, revisions and pauses led there
\* (plan_runner.py:1073, 1186-1196).  Where an edit or an undo leaves a step
\* open in front of finished ones, or a plan is revised in its acceptance
\* stage, a text reply can end another step than the one that was started.
THEOREM GatedBeforeDone ==
  ASSUME InOrder, ~LateRevisions
  PROVE  Spec => GateBeforeDone
<1> DEFINE Passed == TagsRight(CurrentIndex(plan)) /\ suite /\ ~(snapshot /\ touched)
           More == Cardinality(DoneSteps(plan')) > Cardinality(DoneSteps(plan))
<1>1. ASSUME PlanInv, OrderInv, GateInv, [Next]_vars, pc = "step", plan.kind = "tdd", More
      PROVE  Passed
  <2> DEFINE n == TagTop(revisions)
  <2>1. n \in Nat /\ PlanFits(plan, n) /\ suite \in BOOLEAN /\ green \in BOOLEAN
    BY <1>1, TagTops DEF PlanInv, FitInv, Others
  <2>2. DoneSteps(plan') # DoneSteps(plan)
    <3>1. Cardinality(DoneSteps(plan)) \in Nat
      BY <2>1, DoneCount
    <3>2. QED
      BY <1>1, <3>1
  <2>3. plan' # plan
    BY <2>2 DEF DoneSteps
  <2>4. ASSUME Gate PROVE Passed
    BY <1>1, <2>1, <2>4 DEF Gate, GateInv
  <2>5. ASSUME NEW titles \in Listed, RevisePlan(titles) PROVE FALSE
    BY <1>1, <2>2, <2>5, RevisedInLine
  <2>6. CASE BatchEnds
    BY <1>1, <2>4, <2>6 DEF BatchEnds, GateInv
  <2>7. CASE TextReply
    <3>1. at \in Doing(plan) /\ InLine(plan)
      BY <1>1 DEF OrderInv
    <3>2. CurrentIndex(plan) = at
      BY <2>1, <3>1, OneInProgress
    <3>3. QED
      BY <1>1, <2>4, <2>7, <3>2 DEF TextReply
  <2>8. ~PlannerStep /\ ~UserStep
    BY <1>1, <2>3 DEF PlannerStep, UserStep, EndPlanning, RefusePlan, SubmitPlan, SetMode,
       StartPlanning, Yes, LaterOrFeedback, Run, Cancel, EditFile, Undo, Guidance, PausedByUser
  <2>9. ~UNCHANGED vars
    BY <2>3 DEF vars
  <2>10. CASE WorkerStep
    <3>1. ~StartStep /\ ~Complete
      BY <1>1 DEF StartStep, Complete
    <3>2. ~Write /\ ~RunTests /\ ~CompleteStep /\ ~GateRefused /\ ~TextRefused /\ ~Interrupted
      BY <2>3 DEF Write, RunTests, CompleteStep, GateRefused, TextRefused, Interrupted, Pause, Keep
    <3>3. QED
      BY <2>5, <2>6, <2>7, <2>10, <3>1, <3>2 DEF WorkerStep
  <2>11. QED
    BY <1>1, <2>8, <2>9, <2>10 DEF Next
<1>2. Init => OrderInv /\ GateInv
  BY OrderFirst DEF Init, GateInv
<1>3. PlanInv /\ OrderInv /\ GateInv /\ [Next]_vars => OrderInv' /\ GateInv'
  <2>1. ASSUME PlanInv, OrderInv, GateInv, Next PROVE OrderInv' /\ GateInv'
    BY <2>1, OrderStep, GateStep
  <2>2. ASSUME OrderInv, GateInv, UNCHANGED vars PROVE OrderInv' /\ GateInv'
    BY <2>2 DEF vars, project, gate, OrderInv, GateInv, Gate, TagsRight, Running
  <2>3. QED
    BY <2>1, <2>2
<1>4. Spec => [](PlanInv /\ OrderInv /\ GateInv)
  BY <1>2, <1>3, PlanInvariant, PTL DEF Spec
<1>5. PlanInv /\ OrderInv /\ GateInv /\ [Next]_vars =>
        [pc = "step" /\ plan.kind = "tdd" /\ More => Passed]_vars
  BY <1>1
<1> HIDE DEF Passed, More
<1>6. QED
  BY <1>4, <1>5, PTL DEF Spec, GateBeforeDone, Passed, More
=============================================================================
