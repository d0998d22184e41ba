--------------------------- MODULE RunLoopProofs ---------------------------
(* Proofs about one conversation and its turns, for every bound of RunLoop. *)
EXTENDS RunLoop, TLAPS, SequenceTheorems, FiniteSetTheorems

-----------------------------------------------------------------------------
(* The newest position of a set *)

LEMMA NewestIs ==
  ASSUME NEW n \in Nat, NEW S \in SUBSET (1..n), S # {}
  PROVE  Newest(S) \in S /\ \A j \in S : j <= Newest(S)
<1>1. 1 \in Int /\ n \in Int
  OBVIOUS
<1>2. \E g \in S : \A j \in S : j <= g
  BY <1>1, HasGreatest, Zenon
<1>3. QED
  BY <1>2 DEF Newest

-----------------------------------------------------------------------------
(* Histories *)

\* A message that holds nothing but the first n texts, in its proper role.
Messages(n) ==
  {x \in [role : Roles, says : SUBSET (1..n), calls : 0..MaxCalls] :
     (x.calls > 0 => x.role = "assistant") /\ (x.says # {} => x.role = "user")}

\* All calls have their results, and the results their calls.
Whole(m) ==
  /\ \A i \in CallsAt(m) : /\ i + m[i].calls <= Len(m)
                           /\ \A k \in (i + 1)..(i + m[i].calls) : m[k].role = "tool"
  /\ \A k \in DOMAIN m : m[k].role = "tool" =>
       \E i \in CallsAt(m) : k \in (i + 1)..(i + m[i].calls)

\* All groups before h do, and the calls at h, the last ones, lack l results.
OpenBatch(m, l, h) ==
  /\ m[h].calls > 0 /\ Whole(SubSeq(m, 1, h - 1))
  /\ Len(m) = h + m[h].calls - l
  /\ \A k \in (h + 1)..Len(m) : m[k].role = "tool"

\* No group is split by what is dropped.
WholeGroups(m, D) ==
  \A i \in CallsAt(m) : \/ i..(i + m[i].calls) \subseteq D
                        \/ (i..(i + m[i].calls)) \cap D = {}

LEMMA CallsAreNumbers ==
  ASSUME NEW n, NEW m \in Seq(Messages(n))
  PROVE  /\ Len(m) \in Nat /\ DOMAIN m = 1..Len(m)
         /\ \A i \in DOMAIN m : /\ m[i] \in Messages(n) /\ m[i].calls \in Nat
                                /\ m[i].calls > 0 => m[i].role = "assistant"
                                /\ m[i].says # {} => m[i].role = "user"
<1>1. Len(m) \in Nat /\ DOMAIN m = 1..Len(m) /\ \A i \in DOMAIN m : m[i] \in Messages(n)
  BY LenProperties, ElementOfSeq
<1>2. QED
  BY <1>1 DEF Messages

LEMMA WithoutWhole ==
  ASSUME NEW n, NEW m \in Seq(Messages(n)), Whole(m),
         NEW D \in SUBSET (DOMAIN m), WholeGroups(m, D)
  PROVE  Whole(Without(m, D))
<1> DEFINE w == Without(m, D)
<1>1. /\ Len(m) \in Nat /\ DOMAIN m = 1..Len(m) /\ D \in SUBSET (1..Len(m))
      /\ \A i \in DOMAIN m : m[i].calls \in Nat
  BY CallsAreNumbers
<1>2. /\ w \in Seq(Messages(n))
      /\ \A k \in DOMAIN m \ D : Moved(k, D) \in 1..Len(w) /\ w[Moved(k, D)] = m[k]
      /\ \A p \in 1..Len(w) : \E k \in DOMAIN m \ D : Moved(k, D) = p /\ w[p] = m[k]
  <2>1. w \in Seq(Messages(n))
    BY WithoutSeq, Zenon
  <2>2. \A k \in DOMAIN m \ D : Moved(k, D) \in 1..Len(w) /\ w[Moved(k, D)] = m[k]
    BY WithoutAt, Zenon
  <2>3. \A p \in 1..Len(w) : \E k \in DOMAIN m \ D : Moved(k, D) = p /\ w[p] = m[k]
    BY WithoutIs
  <2>4. QED
    BY <2>1, <2>2, <2>3
<1> HIDE DEF w
<1>3. Len(w) \in Nat /\ DOMAIN w = 1..Len(w)
  BY <1>2, CallsAreNumbers
\* A group that stays, stays together.
<1>4. ASSUME NEW i \in CallsAt(m), i \notin D, NEW t \in 0..m[i].calls
      PROVE  /\ i + t \in DOMAIN m \ D /\ Moved(i, D) \in 1..Len(w)
             /\ Moved(i + t, D) = Moved(i, D) + t
             /\ Moved(i, D) + t \in 1..Len(w) /\ w[Moved(i, D) + t] = m[i + t]
  <2>1. i \in 1..Len(m) /\ m[i].calls \in Nat /\ i + m[i].calls <= Len(m)
    BY <1>1 DEF CallsAt, Whole
  <2>2. (i..(i + m[i].calls)) \cap D = {}
    <3>1. i \in i..(i + m[i].calls)
      BY <2>1
    <3>2. QED
      BY <3>1, <1>4 DEF WholeGroups
  <2>3. i + t \in 1..Len(m) /\ i <= i + t /\ i + t \in i..(i + m[i].calls)
    BY <2>1
  <2>4. (i..(i + t)) \cap D = {}
    <3>1. i..(i + t) \subseteq i..(i + m[i].calls)
      BY <2>1, <2>3
    <3>2. QED
      BY <3>1, <2>2
  <2>5. Moved(i + t, D) = Moved(i, D) + ((i + t) - i)
    BY <1>1, <2>1, <2>3, <2>4, MovedTogether
  <2>6. i + t \in DOMAIN m \ D /\ i \in DOMAIN m \ D
    BY <1>1, <2>1, <2>2, <2>3, <1>4
  <2>7. Moved(i, D) \in 1..Len(w) /\ (i + t) - i = t
    BY <2>1, <2>6, <1>2
  <2>8. Moved(i + t, D) = Moved(i, D) + t
    BY <2>5, <2>7
  <2>9. QED
    BY <2>6, <2>7, <2>8, <1>2
<1>5. ASSUME NEW j \in CallsAt(w)
      PROVE  /\ j + w[j].calls <= Len(w)
             /\ \A k \in (j + 1)..(j + w[j].calls) : w[k].role = "tool"
  <2>1. j \in 1..Len(w) /\ w[j].calls > 0
    BY <1>3 DEF CallsAt
  <2>2. PICK i \in DOMAIN m \ D : Moved(i, D) = j /\ w[j] = m[i]
    BY <2>1, <1>2
  <2>3. i \in CallsAt(m) /\ i \notin D /\ m[i].calls \in Nat /\ i \in Nat
    BY <2>1, <2>2, <1>1 DEF CallsAt
  <2>4. j + w[j].calls \in 1..Len(w)
    <3>1. m[i].calls \in 0..m[i].calls
      BY <2>3
    <3>2. QED
      BY <3>1, <2>2, <2>3, <1>4
  <2>5. ASSUME NEW k \in (j + 1)..(j + w[j].calls) PROVE w[k].role = "tool"
    <3>1. k - j \in 0..m[i].calls /\ k - j >= 1 /\ j + (k - j) = k
      BY <2>1, <2>2, <2>3
    <3>2. w[k] = m[i + (k - j)]
      BY <3>1, <2>2, <2>3, <1>4
    <3>3. i + (k - j) \in (i + 1)..(i + m[i].calls)
      BY <3>1, <2>3
    <3>4. QED
      BY <3>2, <3>3, <2>3 DEF Whole
  <2>6. QED
    BY <2>4, <2>5, <1>3
<1>6. ASSUME NEW p \in DOMAIN w, w[p].role = "tool"
      PROVE  \E j \in CallsAt(w) : p \in (j + 1)..(j + w[j].calls)
  <2>1. PICK k \in DOMAIN m \ D : Moved(k, D) = p /\ w[p] = m[k]
    BY <1>2, <1>3
  <2>2. PICK i \in CallsAt(m) : k \in (i + 1)..(i + m[i].calls)
    BY <2>1, <1>6 DEF Whole
  <2>3. i \in 1..Len(m) /\ m[i].calls \in Nat /\ m[i].calls > 0
    BY <1>1 DEF CallsAt
  <2>4. i \notin D
    <3>1. k \in i..(i + m[i].calls) /\ i \in i..(i + m[i].calls)
      BY <2>2, <2>3
    <3>2. QED
      BY <3>1, <2>1 DEF WholeGroups
  <2>5. k - i \in 0..m[i].calls /\ k - i >= 1 /\ i + (k - i) = k
    BY <2>2, <2>3
  <2>6. p = Moved(i, D) + (k - i) /\ Moved(i, D) \in 1..Len(w)
    BY <2>1, <2>4, <2>5, <1>4
  <2>7. w[Moved(i, D)] = m[i]
    BY <1>1, <1>2, <2>3, <2>4
  <2>8. Moved(i, D) \in CallsAt(w)
    BY <2>3, <2>6, <2>7, <1>3 DEF CallsAt
  <2>9. p \in (Moved(i, D) + 1)..(Moved(i, D) + w[Moved(i, D)].calls)
    <3> DEFINE q == Moved(i, D)
    <3>1. /\ q \in Int /\ w[q].calls = m[i].calls /\ p = q + (k - i)
          /\ k - i \in Int /\ 1 <= k - i /\ k - i <= m[i].calls
      BY <2>3, <2>5, <2>6, <2>7
    <3> HIDE DEF q
    <3>2. p \in (q + 1)..(q + w[q].calls)
      BY <2>3, <3>1
    <3>3. QED
      BY <3>2 DEF q
  <2>10. QED
    BY <2>8, <2>9
<1>7. Whole(w)
  BY <1>5, <1>6 DEF Whole
<1>8. QED
  BY <1>7 DEF w

\* What is added at the end, when it is neither a call nor a result.
LEMMA ExtendWhole ==
  ASSUME NEW n, NEW m \in Seq(Messages(n)), Whole(m), NEW x \in Seq(Messages(n)),
         \A i \in DOMAIN x : x[i].calls = 0 /\ x[i].role # "tool"
  PROVE  Whole(m \o x)
<1> DEFINE w == m \o x
<1>1. /\ Len(m) \in Nat /\ DOMAIN m = 1..Len(m) /\ Len(x) \in Nat /\ DOMAIN x = 1..Len(x)
      /\ \A i \in DOMAIN m : m[i].calls \in Nat
  BY CallsAreNumbers
<1>2. /\ w \in Seq(Messages(n)) /\ Len(w) = Len(m) + Len(x)
      /\ \A i \in 1..Len(w) : w[i] = IF i <= Len(m) THEN m[i] ELSE x[i - Len(m)]
  BY ConcatProperties
<1> HIDE DEF w
<1>3. DOMAIN w = 1..Len(w)
  BY <1>2, CallsAreNumbers
<1>4. \A i \in 1..Len(m) : i \in 1..Len(w) /\ w[i] = m[i]
  BY <1>1, <1>2
<1>5. ASSUME NEW i \in DOMAIN w, i > Len(m) PROVE w[i].calls = 0 /\ w[i].role # "tool"
  <2>1. i - Len(m) \in DOMAIN x /\ w[i] = x[i - Len(m)]
    BY <1>1, <1>2, <1>3, <1>5
  <2>2. QED
    BY <2>1
<1>6. ASSUME NEW i \in CallsAt(w)
      PROVE  i \in CallsAt(m) /\ w[i] = m[i]
  <2>1. i \in 1..Len(w) /\ i \in Int /\ w[i].calls > 0
    BY <1>3 DEF CallsAt
  <2>2. i \in 1..Len(m)
    <3>1. CASE i > Len(m)
      BY <3>1, <2>1, <1>3, <1>5
    <3>2. CASE i <= Len(m)
      BY <3>2, <2>1, <1>1
    <3>3. QED
      BY <3>1, <3>2, <2>1, <1>1
  <2>3. QED
    BY <2>1, <2>2, <1>1, <1>4 DEF CallsAt
<1>7. \A i \in CallsAt(w) : /\ i + w[i].calls <= Len(w)
                            /\ \A k \in (i + 1)..(i + w[i].calls) : w[k].role = "tool"
  <2> TAKE i \in CallsAt(w)
  <2>1. /\ i \in 1..Len(m) /\ m[i].calls \in Nat /\ w[i] = m[i] /\ i + m[i].calls <= Len(m)
        /\ \A k \in (i + 1)..(i + m[i].calls) : m[k].role = "tool"
    BY <1>1, <1>6 DEF CallsAt, Whole
  <2>2. \A k \in (i + 1)..(i + m[i].calls) : k \in 1..Len(m)
    BY <2>1, <1>1
  <2>3. QED
    BY <2>1, <2>2, <1>1, <1>2, <1>4
<1>8. \A k \in DOMAIN w : w[k].role = "tool" =>
        \E i \in CallsAt(w) : k \in (i + 1)..(i + w[i].calls)
  <2> SUFFICES ASSUME NEW k \in DOMAIN w, w[k].role = "tool"
               PROVE  \E i \in CallsAt(w) : k \in (i + 1)..(i + w[i].calls)
    OBVIOUS
  <2>1. k \in DOMAIN m /\ w[k] = m[k]
    <3>1. ~(k > Len(m))
      BY <1>5
    <3>2. QED
      BY <3>1, <1>1, <1>3, <1>4
  <2>2. PICK i \in CallsAt(m) : k \in (i + 1)..(i + m[i].calls)
    BY <2>1 DEF Whole
  <2>3. i \in CallsAt(w) /\ w[i] = m[i]
    BY <1>1, <1>3, <1>4 DEF CallsAt
  <2>4. QED
    BY <2>2, <2>3
<1>9. Whole(w)
  BY <1>7, <1>8 DEF Whole
<1>10. QED
  BY <1>9 DEF w

\* A cut in front of anything but a result splits no group.
LEMMA CutWhole ==
  ASSUME NEW n, NEW m \in Seq(Messages(n)), Whole(m), NEW c \in DOMAIN m,
         m[c].role # "tool"
  PROVE  /\ SubSeq(m, 1, c - 1) \in Seq(Messages(n)) /\ Whole(SubSeq(m, 1, c - 1))
         /\ Len(SubSeq(m, 1, c - 1)) = c - 1
         /\ \A i \in 1..(c - 1) : SubSeq(m, 1, c - 1)[i] = m[i]
<1> DEFINE w == SubSeq(m, 1, c - 1)
<1>1. /\ Len(m) \in Nat /\ DOMAIN m = 1..Len(m) /\ c \in 1..Len(m)
      /\ \A i \in DOMAIN m : m[i] \in Messages(n) /\ m[i].calls \in Nat
  BY CallsAreNumbers
<1>2. w \in Seq(Messages(n)) /\ Len(w) = c - 1 /\ \A i \in 1..(c - 1) : w[i] = m[i]
  <2>1. c - 1 \in Int /\ \A i \in 1..(c - 1) : m[i] \in Messages(n)
    BY <1>1
  <2>2. /\ w \in Seq(Messages(n)) /\ Len(w) = IF 1 <= c - 1 THEN c - 1 - 1 + 1 ELSE 0
        /\ \A i \in 1..(c - 1 - 1 + 1) : w[i] = m[1 + i - 1]
    BY <2>1, SubSeqProperties
  <2>3. Len(w) = c - 1
    BY <2>2, <1>1
  <2>4. \A i \in 1..(c - 1) : i \in 1..(c - 1 - 1 + 1) /\ 1 + i - 1 = i
    BY <2>1
  <2>5. QED
    BY <2>2, <2>3, <2>4
<1> HIDE DEF w
<1>3. DOMAIN w = 1..(c - 1) /\ \A i \in DOMAIN w : i \in DOMAIN m /\ w[i] = m[i]
  BY <1>1, <1>2, CallsAreNumbers
<1>4. ASSUME NEW i \in CallsAt(m), i < c
      PROVE  /\ i \in 1..(c - 1) /\ i \in CallsAt(w) /\ w[i] = m[i]
             /\ m[i].calls \in Nat /\ i + m[i].calls <= c - 1
  <2>1. /\ i \in 1..Len(m) /\ m[i].calls \in Nat /\ m[i].calls > 0
        /\ \A k \in (i + 1)..(i + m[i].calls) : m[k].role = "tool"
    BY <1>1 DEF CallsAt, Whole
  <2>2. i + m[i].calls <= c - 1
    <3>1. CASE c \in (i + 1)..(i + m[i].calls)
      BY <3>1, <2>1
    <3>2. CASE c \notin (i + 1)..(i + m[i].calls)
      BY <3>2, <2>1, <1>1, <1>4
    <3>3. QED
      BY <3>1, <3>2
  <2>3. i \in 1..(c - 1) /\ w[i] = m[i]
    BY <2>1, <1>1, <1>2, <1>4
  <2>4. i \in CallsAt(w)
    BY <2>1, <2>3, <1>3 DEF CallsAt
  <2>5. QED
    BY <2>1, <2>2, <2>3, <2>4
<1>5. ASSUME NEW i \in CallsAt(w)
      PROVE  /\ i + w[i].calls <= Len(w)
             /\ \A k \in (i + 1)..(i + w[i].calls) : w[k].role = "tool"
  <2>1. i \in 1..(c - 1) /\ w[i] = m[i] /\ w[i].calls > 0
    BY <1>2, <1>3 DEF CallsAt
  <2>2. i \in CallsAt(m) /\ i < c
    BY <2>1, <1>1 DEF CallsAt
  <2>3. m[i].calls \in Nat /\ i + m[i].calls <= c - 1
    BY <2>2, <1>4
  <2>4. ASSUME NEW k \in (i + 1)..(i + m[i].calls) PROVE w[k].role = "tool"
    <3>1. m[k].role = "tool"
      BY <2>2 DEF Whole
    <3>2. k \in 1..(c - 1)
      BY <2>1, <2>3, <1>1
    <3>3. QED
      BY <3>1, <3>2, <1>2
  <2>5. QED
    BY <2>1, <2>3, <2>4, <1>2
<1>6. ASSUME NEW k \in DOMAIN w, w[k].role = "tool"
      PROVE  \E i \in CallsAt(w) : k \in (i + 1)..(i + w[i].calls)
  <2>1. k \in 1..(c - 1) /\ k \in DOMAIN m /\ m[k].role = "tool"
    BY <1>3, <1>6
  <2>2. PICK i \in CallsAt(m) : k \in (i + 1)..(i + m[i].calls)
    BY <2>1 DEF Whole
  <2>3. i < c
    BY <2>1, <2>2, <1>1 DEF CallsAt
  <2>4. QED
    BY <2>2, <2>3, <1>4
<1>7. Whole(w)
  BY <1>5, <1>6 DEF Whole
<1>8. QED
  BY <1>2, <1>7 DEF w

\* Texts may be added to messages: calls and results stay where they are.
LEMMA SameShape ==
  ASSUME NEW n, NEW m \in Seq(Messages(n)), Whole(m), NEW w \in Seq(Messages(n)),
         Len(w) = Len(m),
         \A i \in DOMAIN m : w[i].role = m[i].role /\ w[i].calls = m[i].calls
  PROVE  Whole(w)
<1>1. DOMAIN w = DOMAIN m
  BY CallsAreNumbers
<1>2. CallsAt(w) = CallsAt(m)
  BY <1>1 DEF CallsAt
<1>3. \A i \in CallsAt(m) : i \in DOMAIN m /\ w[i].calls = m[i].calls
  BY DEF CallsAt
<1>4. ASSUME NEW i \in CallsAt(m), NEW k \in (i + 1)..(i + m[i].calls)
      PROVE  k \in DOMAIN m /\ m[k].role = "tool"
  <2>1. i \in DOMAIN m /\ m[i].calls \in Nat /\ i + m[i].calls <= Len(m) /\ DOMAIN m = 1..Len(m)
    BY <1>3, CallsAreNumbers DEF Whole
  <2>2. Len(m) \in Nat
    BY CallsAreNumbers
  <2>3. QED
    BY <2>1, <2>2 DEF Whole
<1>5. ASSUME NEW k \in DOMAIN w, w[k].role = "tool"
      PROVE  \E i \in CallsAt(w) : k \in (i + 1)..(i + w[i].calls)
  <2>1. \E i \in CallsAt(m) : k \in (i + 1)..(i + m[i].calls)
    BY <1>1, <1>5 DEF Whole
  <2>2. QED
    BY <2>1, <1>2, <1>3
<1>6. QED
  BY <1>2, <1>3, <1>4, <1>5 DEF Whole

\* What _append_user makes of m: a user message with the text is last.
AskedIn(m, w, said, n) ==
  /\ w \in Seq(Messages(n)) /\ Whole(w)
  /\ Len(w) > 0 /\ Len(m) <= Len(w)
  /\ w[Len(w)].role = "user" /\ said \subseteq w[Len(w)].says
  /\ \A i \in DOMAIN m : w[i].role = m[i].role /\ m[i].says \subseteq w[i].says

LEMMA SomeMessages ==
  ASSUME Bounds, NEW n
  PROVE  /\ \A r \in Roles : Msg(r) \in Messages(n) /\ Msg(r).calls = 0 /\ Msg(r).says = {} /\ Msg(r).role = r
         /\ Assistant = Msg("assistant") /\ Note = Msg("user")
         /\ \A said \in SUBSET (1..n) : /\ User(said) \in Messages(n) /\ User(said).calls = 0
                                        /\ User(said).says = said /\ User(said).role = "user"
         /\ \A k \in 1..MaxCalls : /\ Calls(k) \in Messages(n) /\ Calls(k).calls = k
                                   /\ Calls(k).says = {} /\ Calls(k).role = "assistant"
<1>1. ASSUME NEW r \in Roles
      PROVE  Msg(r) \in Messages(n) /\ Msg(r).calls = 0 /\ Msg(r).says = {} /\ Msg(r).role = r
  BY DEF Msg, Messages, Bounds
<1>2. Assistant = Msg("assistant") /\ Note = Msg("user")
  BY DEF Assistant, Note, User, Msg
<1>3. ASSUME NEW said \in SUBSET (1..n)
      PROVE  /\ User(said) \in Messages(n) /\ User(said).calls = 0
             /\ User(said).says = said /\ User(said).role = "user"
  <2>1. User(said) = [role |-> "user", says |-> said, calls |-> 0]
    BY DEF User, Msg
  <2>2. QED
    BY <2>1 DEF Messages, Roles, Bounds
<1>4. ASSUME NEW k \in 1..MaxCalls
      PROVE  /\ Calls(k) \in Messages(n) /\ Calls(k).calls = k
             /\ Calls(k).says = {} /\ Calls(k).role = "assistant"
  <2>1. Calls(k) = [role |-> "assistant", says |-> {}, calls |-> k]
    BY DEF Calls, Msg
  <2>2. QED
    BY <2>1 DEF Messages, Roles, Bounds
<1>5. QED
  BY <1>1, <1>2, <1>3, <1>4

\* A message that is neither a call nor a result, added at the end.
LEMMA AppendWhole ==
  ASSUME NEW n, NEW m \in Seq(Messages(n)), Whole(m), NEW x \in Messages(n),
         x.calls = 0, x.role # "tool"
  PROVE  /\ Append(m, x) \in Seq(Messages(n)) /\ Whole(Append(m, x))
         /\ Len(Append(m, x)) = Len(m) + 1 /\ Append(m, x)[Len(m) + 1] = x
         /\ \A i \in DOMAIN m : Append(m, x)[i] = m[i]
<1>1. Len(m) \in Nat /\ DOMAIN m = 1..Len(m)
  BY CallsAreNumbers
<1>2. Append(m, x) = m \o <<x>> /\ <<x>> \in Seq(Messages(n))
  BY AppendIsConcat
<1>3. \A i \in DOMAIN <<x>> : <<x>>[i].calls = 0 /\ <<x>>[i].role # "tool"
  OBVIOUS
<1>4. Whole(m \o <<x>>)
  BY <1>2, <1>3, ExtendWhole
<1>5. QED
  BY <1>1, <1>2, <1>4, AppendProperties

LEMMA AppendUserIs ==
  ASSUME Bounds, NEW n, NEW m \in Seq(Messages(n)), Whole(m), NEW said \in SUBSET (1..n)
  PROVE  AskedIn(m, AppendUser(m, said), said, n)
<1>1. /\ Len(m) \in Nat /\ DOMAIN m = 1..Len(m)
      /\ \A i \in DOMAIN m : m[i] \in Messages(n)
  BY CallsAreNumbers
<1>2. CASE LastRole(m) = "user"
  <2> DEFINE last == Len(m)
             w == [m EXCEPT ![Len(m)].says = @ \cup said]
             x == [m[Len(m)] EXCEPT !.says = @ \cup said]
  <2>1. m # <<>> /\ m[last].role = "user"
    BY <1>2 DEF LastRole
  <2>2. last \in 1..Len(m) /\ Len(m) > 0
    BY <1>1, <2>1, EmptySeq
  <2>3. /\ x \in Messages(n) /\ x.role = "user" /\ x.calls = m[last].calls
        /\ x.says = m[last].says \cup said
    <3>1. m[last] \in Messages(n)
      BY <1>1, <2>2
    <3>2. QED
      BY <3>1, <2>1 DEF Messages
  <2> HIDE DEF x
  <2>4. w = [m EXCEPT ![last] = x]
    BY DEF x
  <2>5. w \in Seq(Messages(n)) /\ Len(w) = Len(m) /\ \A i \in DOMAIN m : w[i] = IF i = last THEN x ELSE m[i]
    <3>1. /\ [m EXCEPT ![last] = x] \in Seq(Messages(n)) /\ Len([m EXCEPT ![last] = x]) = Len(m)
          /\ \A i \in 1..Len(m) : [m EXCEPT ![last] = x][i] = IF i = last THEN x ELSE m[i]
      <4> HIDE DEF last
      <4>1. last \in 1..Len(m)
        BY <2>2
      <4>2. QED
        BY <2>3, <4>1, ExceptSeq
    <3> HIDE DEF w
    <3>2. QED
      BY <1>1, <2>4, <3>1
  <2> HIDE DEF w
  <2>6. \A i \in DOMAIN m : w[i].role = m[i].role /\ w[i].calls = m[i].calls /\ m[i].says \subseteq w[i].says
    BY <2>1, <2>3, <2>5
  <2>7. Whole(w)
    BY <2>5, <2>6, SameShape
  <2>8. w[Len(w)] = x /\ Len(w) > 0 /\ Len(m) <= Len(w)
    BY <1>1, <2>2, <2>5
  <2>9. AskedIn(m, w, said, n)
    BY <2>3, <2>5, <2>6, <2>7, <2>8 DEF AskedIn
  <2>10. QED
    BY <2>9, <1>2 DEF AppendUser, w
<1>3. CASE LastRole(m) # "user"
  <2> DEFINE b == Bridge(m)
  <2>1. /\ b \in Seq(Messages(n)) /\ Whole(b) /\ Len(m) <= Len(b)
        /\ \A i \in DOMAIN m : b[i] = m[i]
    <3>1. CASE LastRole(m) = "tool"
      <4>1. Assistant \in Messages(n) /\ Assistant.calls = 0 /\ Assistant.role # "tool"
        BY SomeMessages DEF Roles
      <4>2. b = Append(m, Assistant)
        BY <3>1 DEF Bridge
      <4>3. QED
        BY <4>1, <4>2, <1>1, AppendWhole
    <3>2. CASE LastRole(m) # "tool"
      BY <3>2, <1>1 DEF Bridge
    <3>3. QED
      BY <3>1, <3>2
  <2> HIDE DEF b
  <2>2. Len(b) \in Nat /\ DOMAIN b = 1..Len(b)
    BY <2>1, CallsAreNumbers
  <2>3. /\ User(said) \in Messages(n) /\ User(said).calls = 0 /\ User(said).role # "tool"
        /\ User(said).says = said /\ User(said).role = "user"
    BY SomeMessages
  <2>4. /\ Append(b, User(said)) \in Seq(Messages(n)) /\ Whole(Append(b, User(said)))
        /\ Len(Append(b, User(said))) = Len(b) + 1
        /\ Append(b, User(said))[Len(b) + 1] = User(said)
        /\ \A i \in DOMAIN b : Append(b, User(said))[i] = b[i]
    BY <2>1, <2>3, AppendWhole
  <2>5. AppendUser(m, said) = Append(b, User(said))
    BY <1>3 DEF AppendUser, b
  <2>6. Len(b) + 1 > 0 /\ Len(m) <= Len(b) + 1 /\ \A i \in DOMAIN m : i \in DOMAIN b
    BY <1>1, <2>1, <2>2
  <2>7. QED
    BY <2>1, <2>3, <2>4, <2>5, <2>6 DEF AskedIn
<1>4. QED
  BY <1>2, <1>3

-----------------------------------------------------------------------------
(* A batch of calls *)

LEMMA BatchOpens ==
  ASSUME Bounds, NEW n, NEW m \in Seq(Messages(n)), Whole(m), NEW k \in 1..MaxCalls
  PROVE  /\ Append(m, Calls(k)) \in Seq(Messages(n))
         /\ Len(Append(m, Calls(k))) = Len(m) + 1
         /\ Append(m, Calls(k))[Len(m) + 1] = Calls(k)
         /\ \A i \in DOMAIN m : Append(m, Calls(k))[i] = m[i]
         /\ OpenBatch(Append(m, Calls(k)), k, Len(m) + 1)
<1> DEFINE w == Append(m, Calls(k))
           h == Len(m) + 1
<1>1. Len(m) \in Nat /\ DOMAIN m = 1..Len(m) /\ \A i \in DOMAIN m : m[i] \in Messages(n)
  BY CallsAreNumbers
<1>2. Calls(k) \in Messages(n) /\ Calls(k).calls = k
  BY SomeMessages
<1>3. w \in Seq(Messages(n)) /\ Len(w) = h /\ w[h] = Calls(k) /\ \A i \in 1..Len(m) : w[i] = m[i]
  BY <1>2, AppendProperties
<1> HIDE DEF w
<1>4. SubSeq(w, 1, h - 1) = m
  <2>1. h - 1 = Len(m) /\ 1 \in Int /\ Len(m) \in Int /\ \A i \in 1..Len(m) : w[i] \in Messages(n)
    BY <1>1, <1>3
  <2>2. /\ SubSeq(w, 1, Len(m)) \in Seq(Messages(n))
        /\ Len(SubSeq(w, 1, Len(m))) = IF 1 <= Len(m) THEN Len(m) - 1 + 1 ELSE 0
        /\ \A i \in 1..(Len(m) - 1 + 1) : SubSeq(w, 1, Len(m))[i] = w[1 + i - 1]
    BY <2>1, SubSeqProperties
  <2>3. Len(SubSeq(w, 1, Len(m))) = Len(m)
    BY <2>2, <1>1
  <2>4. \A i \in 1..Len(m) : SubSeq(w, 1, Len(m))[i] = m[i]
    <3>1. \A i \in 1..Len(m) : i \in 1..(Len(m) - 1 + 1) /\ 1 + i - 1 = i
      BY <1>1
    <3>2. QED
      BY <3>1, <2>2, <1>3
  <2>5. SubSeq(w, 1, Len(m)) = m
    BY <2>2, <2>3, <2>4, SeqEqual
  <2>6. QED
    BY <2>1, <2>5
<1>5. h + w[h].calls - k = h /\ w[h].calls > 0 /\ ((h + 1)..Len(w)) = {}
  BY <1>1, <1>2, <1>3
<1>6. OpenBatch(w, k, h)
  BY <1>3, <1>4, <1>5 DEF OpenBatch
<1>7. QED
  BY <1>1, <1>3, <1>6 DEF w

LEMMA BatchGoesOn ==
  ASSUME Bounds, NEW n, NEW m \in Seq(Messages(n)), NEW h \in DOMAIN m, NEW l \in Nat \ {0},
         OpenBatch(m, l, h)
  PROVE  /\ Append(m, Msg("tool")) \in Seq(Messages(n))
         /\ Len(Append(m, Msg("tool"))) = Len(m) + 1
         /\ Append(m, Msg("tool"))[Len(m) + 1] = Msg("tool")
         /\ \A i \in DOMAIN m : Append(m, Msg("tool"))[i] = m[i]
         /\ OpenBatch(Append(m, Msg("tool")), l - 1, h)
<1> DEFINE w == Append(m, Msg("tool"))
<1>1. Len(m) \in Nat /\ DOMAIN m = 1..Len(m) /\ \A i \in DOMAIN m : m[i] \in Messages(n) /\ m[i].calls \in Nat
  BY CallsAreNumbers
<1>2. Msg("tool") \in Messages(n) /\ Msg("tool").role = "tool"
  BY SomeMessages DEF Roles
<1>3. w \in Seq(Messages(n)) /\ Len(w) = Len(m) + 1 /\ w[Len(m) + 1] = Msg("tool") /\ \A i \in 1..Len(m) : w[i] = m[i]
  BY <1>2, AppendProperties
<1> HIDE DEF w
<1>4. SubSeq(w, 1, h - 1) = SubSeq(m, 1, h - 1)
  <2>1. /\ 1 \in Int /\ h - 1 \in Int /\ \A i \in 1..(h - 1) : m[i] \in Messages(n) /\ w[i] = m[i]
        /\ h - 1 - 1 + 1 = h - 1 /\ \A i \in 1..(h - 1) : 1 + i - 1 = i
    BY <1>1, <1>3
  <2>2. /\ SubSeq(w, 1, h - 1) \in Seq(Messages(n))
        /\ Len(SubSeq(w, 1, h - 1)) = IF 1 <= h - 1 THEN h - 1 - 1 + 1 ELSE 0
        /\ \A i \in 1..(h - 1 - 1 + 1) : SubSeq(w, 1, h - 1)[i] = w[1 + i - 1]
    BY <2>1, SubSeqProperties
  <2>3. /\ SubSeq(m, 1, h - 1) \in Seq(Messages(n))
        /\ Len(SubSeq(m, 1, h - 1)) = IF 1 <= h - 1 THEN h - 1 - 1 + 1 ELSE 0
        /\ \A i \in 1..(h - 1 - 1 + 1) : SubSeq(m, 1, h - 1)[i] = m[1 + i - 1]
    BY <2>1, SubSeqProperties
  <2>4. /\ Len(SubSeq(w, 1, h - 1)) = Len(SubSeq(m, 1, h - 1))
        /\ Len(SubSeq(w, 1, h - 1)) = h - 1
    BY <2>2, <2>3, <1>1
  <2>5. \A i \in 1..(h - 1) : SubSeq(w, 1, h - 1)[i] = SubSeq(m, 1, h - 1)[i]
    BY <2>1, <2>2, <2>3
  <2> DEFINE u == SubSeq(w, 1, h - 1)
             v == SubSeq(m, 1, h - 1)
  <2>6. u \in Seq(Messages(n)) /\ v \in Seq(Messages(n)) /\ Len(u) = Len(v) /\ Len(u) = h - 1
    BY <2>2, <2>3, <2>4
  <2>7. \A i \in 1..Len(u) : u[i] = v[i]
    BY <2>5, <2>6
  <2> HIDE DEF u, v
  <2>8. u = v
    BY <2>6, <2>7, SeqEqual
  <2>9. QED
    BY <2>8 DEF u, v
<1>5. /\ h \in 1..Len(m) /\ w[h] = m[h] /\ m[h].calls \in Nat
      /\ Len(m) = h + m[h].calls - l
  BY <1>1, <1>3 DEF OpenBatch
<1>6. Len(w) = h + w[h].calls - (l - 1) /\ w[h].calls > 0
  <2>1. m[h].calls > 0 /\ Len(w) = Len(m) + 1
    BY <1>3 DEF OpenBatch
  <2>2. w[h].calls = m[h].calls /\ m[h].calls \in Int /\ h \in Int /\ l \in Int
    BY <1>5, <1>1
  <2>3. Len(m) = h + m[h].calls - l
    BY <1>5
  <2> DEFINE c == m[h].calls
  <2>4. /\ h \in Int /\ c \in Int /\ l \in Int /\ Len(m) = h + c - l /\ c > 0
        /\ Len(w) = Len(m) + 1 /\ w[h].calls = c
    BY <2>1, <2>2, <2>3
  <2> HIDE DEF c
  <2>5. Len(w) = h + c - (l - 1)
    BY <2>4
  <2>6. QED
    BY <2>4, <2>5
<1>7. ASSUME NEW k \in (h + 1)..Len(w) PROVE w[k].role = "tool"
  <2>1. CASE k = Len(m) + 1
    BY <2>1, <1>2, <1>3
  <2>2. CASE k # Len(m) + 1
    <3>1. k \in (h + 1)..Len(m) /\ k \in 1..Len(m)
      <4>1. Len(w) = Len(m) + 1 /\ Len(m) \in Nat /\ h \in 1..Len(m)
        BY <1>1, <1>3, <1>5
      <4>2. QED
        BY ONLY <4>1, <2>2, k \in (h + 1)..Len(w)
    <3>2. w[k] = m[k]
      BY <3>1, <1>1, <1>3
    <3>3. m[k].role = "tool"
      BY <3>1 DEF OpenBatch
    <3>4. QED
      BY <3>2, <3>3
  <2>3. QED
    BY <2>1, <2>2
<1>8. OpenBatch(w, l - 1, h)
  BY <1>4, <1>6, <1>7 DEF OpenBatch
<1>9. QED
  BY <1>1, <1>3, <1>8 DEF w

\* In a history with a batch at h, the calls are those before it and those at h.
LEMMA BatchCalls ==
  ASSUME NEW n, NEW m \in Seq(Messages(n)), NEW h \in DOMAIN m, NEW l \in Nat,
         OpenBatch(m, l, h)
  PROVE  /\ h \in CallsAt(m) /\ \A i \in CallsAt(m) : i <= h
         /\ m[h].calls \in Nat /\ h + (m[h].calls - l) = Len(m)
         /\ \A i \in CallsAt(m) \ {h} :
              /\ i + m[i].calls < h
              /\ \A k \in (i + 1)..(i + m[i].calls) : m[k].role = "tool"
         /\ \A k \in 1..(h - 1) : m[k].role = "tool" =>
              \E i \in CallsAt(m) \ {h} : k \in (i + 1)..(i + m[i].calls)
<1>1. /\ Len(m) \in Nat /\ DOMAIN m = 1..Len(m)
      /\ \A i \in DOMAIN m : /\ m[i] \in Messages(n) /\ m[i].calls \in Nat
                             /\ m[i].calls > 0 => m[i].role = "assistant"
  BY CallsAreNumbers
<1>2. h \in CallsAt(m) /\ m[h].calls \in Nat /\ h \in 1..Len(m)
  BY <1>1 DEF OpenBatch, CallsAt
<1>3. ASSUME NEW i \in CallsAt(m) PROVE i <= h
  <2>1. i \in 1..Len(m) /\ m[i].role = "assistant"
    BY <1>1 DEF CallsAt
  <2>2. ~(i \in (h + 1)..Len(m))
    <3>1. i \in (h + 1)..Len(m) => m[i].role = "tool"
      BY DEF OpenBatch
    <3>2. QED
      BY <3>1, <2>1
  <2>3. QED
    BY <2>1, <2>2, <1>1, <1>2
<1> DEFINE p == SubSeq(m, 1, h - 1)
<1>4. p \in Seq(Messages(n)) /\ Len(p) = h - 1 /\ \A i \in 1..(h - 1) : p[i] = m[i]
  <2>1. /\ 1 \in Int /\ h - 1 \in Int /\ \A i \in 1..(h - 1) : m[i] \in Messages(n)
        /\ h - 1 - 1 + 1 = h - 1 /\ \A i \in 1..(h - 1) : 1 + i - 1 = i
    BY <1>1, <1>2
  <2>2. /\ p \in Seq(Messages(n))
        /\ Len(p) = IF 1 <= h - 1 THEN h - 1 - 1 + 1 ELSE 0
        /\ \A i \in 1..(h - 1 - 1 + 1) : p[i] = m[1 + i - 1]
    BY <2>1, SubSeqProperties
  <2>3. QED
    BY <2>1, <2>2, <1>2
<1>5. Whole(p)
  BY DEF OpenBatch
<1> HIDE DEF p
<1>6. DOMAIN p = 1..(h - 1)
  BY <1>4, CallsAreNumbers
<1>7. \A i : i \in CallsAt(p) <=> i \in CallsAt(m) \ {h}
  <2>1. ASSUME NEW i \in CallsAt(m) \ {h} PROVE i \in CallsAt(p)
    <3>1. i \in 1..(h - 1) /\ m[i].calls > 0
      BY <1>1, <1>2, <1>3 DEF CallsAt
    <3>2. QED
      BY <3>1, <1>4, <1>6 DEF CallsAt
  <2>2. ASSUME NEW i \in CallsAt(p) PROVE i \in CallsAt(m) \ {h}
    <3>1. i \in 1..(h - 1) /\ p[i].calls > 0
      BY <1>6 DEF CallsAt
    <3>2. i \in DOMAIN m /\ i # h /\ m[i].calls > 0
      BY <3>1, <1>1, <1>2, <1>4
    <3>3. QED
      BY <3>2 DEF CallsAt
  <2>3. QED
    BY <2>1, <2>2
<1>8. ASSUME NEW i \in CallsAt(m) \ {h}
      PROVE  /\ i + m[i].calls < h
             /\ \A k \in (i + 1)..(i + m[i].calls) : m[k].role = "tool"
  <2>1. i \in CallsAt(p) /\ i \in 1..(h - 1) /\ p[i] = m[i]
    BY <1>4, <1>6, <1>7 DEF CallsAt
  <2>2. /\ i + m[i].calls <= h - 1
        /\ \A k \in (i + 1)..(i + m[i].calls) : p[k].role = "tool"
    BY <2>1, <1>4, <1>5 DEF Whole
  <2>3. m[i].calls \in Nat /\ i \in Nat
    BY <2>1, <1>1, <1>2
  <2>4. \A k \in (i + 1)..(i + m[i].calls) : k \in 1..(h - 1)
    BY <2>1, <2>2, <2>3, <1>2
  <2>5. QED
    BY <2>2, <2>3, <2>4, <1>2, <1>4
<1>9. ASSUME NEW k \in 1..(h - 1), m[k].role = "tool"
      PROVE  \E i \in CallsAt(m) \ {h} : k \in (i + 1)..(i + m[i].calls)
  <2>1. k \in DOMAIN p /\ p[k].role = "tool"
    BY <1>4, <1>6, <1>9
  <2>2. PICK i \in CallsAt(p) : k \in (i + 1)..(i + p[i].calls)
    BY <2>1, <1>5 DEF Whole
  <2>3. i \in CallsAt(m) \ {h} /\ p[i] = m[i]
    BY <2>2, <1>4, <1>6, <1>7 DEF CallsAt
  <2>4. QED
    BY <2>2, <2>3
<1>10. h + (m[h].calls - l) = Len(m)
  BY <1>1, <1>2 DEF OpenBatch
<1>11. QED
  BY <1>2, <1>3, <1>8, <1>9, <1>10

LEMMA BatchCloses ==
  ASSUME NEW n, NEW m \in Seq(Messages(n)), NEW h \in DOMAIN m, OpenBatch(m, 0, h)
  PROVE  Whole(m)
<1>1. /\ Len(m) \in Nat /\ DOMAIN m = 1..Len(m)
  BY CallsAreNumbers
<1>2. /\ h \in CallsAt(m) /\ m[h].calls \in Nat /\ h + m[h].calls = Len(m) /\ h \in 1..Len(m)
      /\ \A i \in CallsAt(m) \ {h} :
           /\ i + m[i].calls < h
           /\ \A k \in (i + 1)..(i + m[i].calls) : m[k].role = "tool"
      /\ \A k \in 1..(h - 1) : m[k].role = "tool" =>
           \E i \in CallsAt(m) \ {h} : k \in (i + 1)..(i + m[i].calls)
      /\ \A k \in (h + 1)..Len(m) : m[k].role = "tool"
      /\ m[h].role = "assistant"
  <2>1. 0 \in Nat
    OBVIOUS
  <2>2. m[h].calls \in Nat /\ m[h].calls - 0 = m[h].calls /\ (m[h].calls > 0 => m[h].role = "assistant")
    BY CallsAreNumbers
  <2>3. m[h].calls > 0 /\ \A k \in (h + 1)..Len(m) : m[k].role = "tool"
    BY DEF OpenBatch
  <2>4. /\ h \in CallsAt(m) /\ h + (m[h].calls - 0) = Len(m)
        /\ \A i \in CallsAt(m) \ {h} :
             /\ i + m[i].calls < h
             /\ \A k \in (i + 1)..(i + m[i].calls) : m[k].role = "tool"
        /\ \A k \in 1..(h - 1) : m[k].role = "tool" =>
             \E i \in CallsAt(m) \ {h} : k \in (i + 1)..(i + m[i].calls)
    BY <2>1, BatchCalls
  <2>5. h + m[h].calls = Len(m) /\ h \in 1..Len(m) /\ m[h].role = "assistant"
    BY <1>1, <2>2, <2>3, <2>4
  <2>6. QED
    BY <2>2, <2>3, <2>4, <2>5
<1>3. ASSUME NEW i \in CallsAt(m)
      PROVE  /\ i + m[i].calls <= Len(m)
             /\ \A k \in (i + 1)..(i + m[i].calls) : m[k].role = "tool"
  <2>1. CASE i = h
    BY <2>1, <1>1, <1>2
  <2>2. CASE i # h
    <3>1. i \in CallsAt(m) \ {h} /\ i \in Nat /\ m[i].calls \in Nat
      BY <2>2, <1>1, CallsAreNumbers DEF CallsAt
    <3>2. QED
      BY <3>1, <1>1, <1>2
  <2>3. QED
    BY <2>1, <2>2
<1>4. ASSUME NEW k \in DOMAIN m, m[k].role = "tool"
      PROVE  \E i \in CallsAt(m) : k \in (i + 1)..(i + m[i].calls)
  <2>1. CASE k < h
    <3>1. k \in 1..(h - 1)
      BY <2>1, <1>1, <1>2
    <3>2. QED
      BY <3>1, <1>2, <1>4
  <2>2. CASE k > h
    <3>1. k \in (h + 1)..(h + m[h].calls)
      BY <2>2, <1>1, <1>2
    <3>2. QED
      BY <3>1, <1>2
  <2>3. k # h /\ k \in Nat /\ h \in Nat
    BY <1>1, <1>2, <1>4
  <2>4. QED
    BY <2>1, <2>2, <2>3
<1>5. QED
  BY <1>3, <1>4 DEF Whole

-----------------------------------------------------------------------------
(* What a compaction drops *)

\* The history and the place of its question, between two steps of a compaction.
AtRest(n) ==
  /\ msgs \in Seq(Messages(n)) /\ Whole(msgs)
  /\ turnUser \in 0..Len(msgs)
  /\ turnUser # 0 => msgs[turnUser].role = "user"

LEMMA AnchorIs ==
  ASSUME NEW n, AtRest(n)
  PROVE  /\ Anchor \in 1..(Len(msgs) + 1)
         /\ turnUser # 0 => Anchor = turnUser
         /\ Anchor \in DOMAIN msgs => msgs[Anchor].role = "user"
         /\ UserAt(msgs) # {} => Anchor \in DOMAIN msgs
<1>1. Len(msgs) \in Nat /\ DOMAIN msgs = 1..Len(msgs) /\ turnUser \in 0..Len(msgs)
  BY CallsAreNumbers DEF AtRest
<1>2. CASE turnUser # 0
  BY <1>1, <1>2 DEF Anchor, AtRest
<1>3. CASE turnUser = 0 /\ UserAt(msgs) # {}
  <2>1. UserAt(msgs) \in SUBSET (1..Len(msgs))
    BY <1>1 DEF UserAt
  <2>2. Newest(UserAt(msgs)) \in UserAt(msgs)
    BY <1>1, <1>3, <2>1, NewestIs
  <2>3. Anchor = Newest(UserAt(msgs))
    BY <1>3 DEF Anchor
  <2>4. Anchor \in 1..Len(msgs) /\ msgs[Anchor].role = "user"
    BY <2>2, <2>3, <1>1 DEF UserAt
  <2>5. QED
    BY <2>4, <1>1, <1>3
<1>4. CASE turnUser = 0 /\ UserAt(msgs) = {}
  <2>1. Anchor = Len(msgs) + 1
    BY <1>4 DEF Anchor
  <2>2. QED
    BY <2>1, <1>1, <1>4
<1>5. QED
  BY <1>2, <1>3, <1>4

LEMMA LatestIs ==
  ASSUME NEW n, AtRest(n)
  PROVE  /\ LatestGroup \in 1..(Len(msgs) + 1) /\ Anchor <= LatestGroup
         /\ LatestGroup \in DOMAIN msgs => msgs[LatestGroup].role = "assistant"
         /\ \A i \in CallsAt(msgs) : i > Anchor => i <= LatestGroup
         /\ (\E i \in CallsAt(msgs) : i > Anchor) => LatestGroup = Newest({i \in CallsAt(msgs) : i > Anchor})
<1> DEFINE groups == {i \in CallsAt(msgs) : i > Anchor}
<1>1. /\ Len(msgs) \in Nat /\ DOMAIN msgs = 1..Len(msgs)
      /\ \A i \in DOMAIN msgs : msgs[i].calls > 0 => msgs[i].role = "assistant"
  BY CallsAreNumbers DEF AtRest
<1>2. Anchor \in 1..(Len(msgs) + 1)
  BY AnchorIs
<1>3. CASE groups = {}
  <2>1. LatestGroup = Len(msgs) + 1
    BY <1>3 DEF LatestGroup
  <2>2. QED
    BY <2>1, <1>1, <1>2, <1>3
<1>4. CASE groups # {}
  <2>1. groups \in SUBSET (1..Len(msgs))
    BY <1>1 DEF CallsAt
  <2>2. LatestGroup = Newest(groups)
    BY <1>4 DEF LatestGroup
  <2>3. Newest(groups) \in groups /\ \A j \in groups : j <= Newest(groups)
    <3> HIDE DEF groups
    <3>1. QED
      BY <1>1, <1>4, <2>1, NewestIs
  <2>4. /\ LatestGroup \in CallsAt(msgs) /\ LatestGroup > Anchor
        /\ \A i \in CallsAt(msgs) : i > Anchor => i <= LatestGroup
    BY <2>2, <2>3
  <2>5. LatestGroup \in 1..Len(msgs) /\ msgs[LatestGroup].role = "assistant"
    BY <2>4, <1>1 DEF CallsAt
  <2>6. LatestGroup \in 1..(Len(msgs) + 1) /\ Anchor <= LatestGroup
    BY <2>4, <2>5, <1>1, <1>2
  <2>7. QED
    BY <2>2, <2>4, <2>5, <2>6
<1>5. QED
  BY <1>3, <1>4

\* A position that no group reaches across.
Between(cut) == \A i \in CallsAt(msgs) : i < cut => i + msgs[i].calls < cut

LEMMA CutsBetween ==
  ASSUME NEW n, AtRest(n), NEW cut \in 1..LatestGroup,
         cut = LatestGroup \/ ~InsideGroup(cut)
  PROVE  Between(cut)
<1>1. /\ Len(msgs) \in Nat /\ DOMAIN msgs = 1..Len(msgs)
      /\ \A i \in DOMAIN msgs : /\ msgs[i].calls \in Nat
                                /\ msgs[i].calls > 0 => msgs[i].role = "assistant"
  BY CallsAreNumbers DEF AtRest
<1>2. /\ LatestGroup \in 1..(Len(msgs) + 1)
      /\ LatestGroup \in DOMAIN msgs => msgs[LatestGroup].role = "assistant"
  BY LatestIs
<1> SUFFICES ASSUME NEW i \in CallsAt(msgs), i < cut, ~(i + msgs[i].calls < cut) PROVE FALSE
  BY DEF Between
<1>3. /\ i \in 1..Len(msgs) /\ msgs[i].calls \in Nat /\ msgs[i].role = "assistant"
      /\ i + msgs[i].calls <= Len(msgs)
      /\ \A k \in (i + 1)..(i + msgs[i].calls) : msgs[k].role = "tool"
  BY <1>1 DEF CallsAt, AtRest, Whole
<1>4. cut \in Int /\ cut \in (i + 1)..(i + msgs[i].calls) /\ cut \in DOMAIN msgs
  BY <1>1, <1>2, <1>3
<1>5. cut # LatestGroup
  BY <1>2, <1>3, <1>4
<1>6. InsideGroup(cut)
  <2>1. i \in 1..(cut - 1)
    BY <1>3, <1>4
  <2>2. ASSUME NEW k \in (i + 1)..cut PROVE msgs[k].role \in Follows
    <3>1. k \in (i + 1)..(i + msgs[i].calls)
      BY <1>3, <1>4
    <3>2. QED
      BY <3>1, <1>3 DEF Follows
  <2>3. QED
    BY <2>1, <2>2, <1>3 DEF InsideGroup
<1>7. QED
  BY <1>5, <1>6

LEMMA GroupsGoWhole ==
  ASSUME NEW n, AtRest(n), NEW cut \in 1..LatestGroup, Between(cut),
         NEW D \in SUBSET (1..(cut - 1)), GroupsBefore(cut) \subseteq D
  PROVE  WholeGroups(msgs, D)
<1>1. /\ Len(msgs) \in Nat /\ DOMAIN msgs = 1..Len(msgs)
      /\ \A i \in DOMAIN msgs : /\ msgs[i].calls \in Nat
                                /\ msgs[i].calls > 0 => msgs[i].role = "assistant"
  BY CallsAreNumbers DEF AtRest
<1>2. LatestGroup \in 1..(Len(msgs) + 1) /\ cut \in Int /\ cut <= LatestGroup
  <2>1. LatestGroup \in 1..(Len(msgs) + 1)
    BY LatestIs
  <2>2. QED
    BY <2>1
<1> SUFFICES ASSUME NEW i \in CallsAt(msgs)
             PROVE  \/ i..(i + msgs[i].calls) \subseteq D
                    \/ (i..(i + msgs[i].calls)) \cap D = {}
  BY DEF WholeGroups
<1>3. /\ i \in 1..Len(msgs) /\ msgs[i].calls \in Nat /\ msgs[i].calls > 0
      /\ msgs[i].role = "assistant"
      /\ \A k \in (i + 1)..(i + msgs[i].calls) : msgs[k].role = "tool"
  BY <1>1 DEF CallsAt, AtRest, Whole
<1>4. CASE i < cut
  <2>1. i + msgs[i].calls < cut
    BY <1>4 DEF Between
  <2>2. Grouped(i)
    <3>1. i + 1 \in (i + 1)..(i + msgs[i].calls)
      BY <1>3
    <3>2. msgs[i + 1].role \in Follows
      BY <3>1, <1>3 DEF Follows
    <3>3. i + 1 < LatestGroup
      BY <1>2, <1>3, <2>1
    <3>4. QED
      BY <3>2, <3>3, <1>3 DEF Grouped
  <2>3. ASSUME NEW k \in i..(i + msgs[i].calls) PROVE k \in D
    <3>1. k \in 1..(cut - 1)
      BY <1>2, <1>3, <2>1
    <3>2. Grouped(k)
      <4>1. CASE k = i
        BY <4>1, <2>2
      <4>2. CASE k # i
        <5>1. k \in (i + 1)..(i + msgs[i].calls)
          BY <4>2, <1>3
        <5>2. QED
          BY <5>1, <1>3 DEF Grouped, Follows
      <4>3. QED
        BY <4>1, <4>2
    <3>3. k \in GroupsBefore(cut)
      BY <3>1, <3>2 DEF GroupsBefore
    <3>4. QED
      BY <3>3
  <2>4. QED
    BY <2>3
<1>5. CASE ~(i < cut)
  <2>1. ASSUME NEW k \in i..(i + msgs[i].calls) PROVE k \notin D
    <3>1. k \notin 1..(cut - 1)
      BY <1>2, <1>3, <1>5
    <3>2. QED
      BY <3>1
  <2>2. QED
    BY <2>1
<1>6. QED
  BY <1>4, <1>5

\* A compaction drops whole groups, nothing from the latest on, and not the
\* question; and what is then first is a user message if one was.
LEMMA DropsSpare ==
  ASSUME NEW n, AtRest(n), NEW D \in Drops
  PROVE  /\ D \in SUBSET (DOMAIN msgs) /\ WholeGroups(msgs, D)
         /\ D \in SUBSET (1..(LatestGroup - 1))
         /\ turnUser \notin D
         /\ msgs # <<>> /\ msgs[1].role = "user" =>
              \E c \in DOMAIN msgs \ D : 1..(c - 1) \subseteq D /\ msgs[c].role = "user"
<1>1. Len(msgs) \in Nat /\ DOMAIN msgs = 1..Len(msgs)
  BY CallsAreNumbers DEF AtRest
<1>2. LatestGroup \in 1..(Len(msgs) + 1) /\ Anchor <= LatestGroup /\ Anchor \in 1..(Len(msgs) + 1)
  BY LatestIs, AnchorIs
<1>3. /\ turnUser \in 0..Len(msgs) /\ (turnUser # 0 => Anchor = turnUser)
      /\ (turnUser # 0 => msgs[turnUser].role = "user")
  BY AnchorIs DEF AtRest
<1>4. \A i : msgs[i].role = "user" => ~Grouped(i)
  BY DEF Grouped, Follows
<1>5. ASSUME NEW cut \in 1..LatestGroup
      PROVE  /\ GroupsBefore(cut) \in SUBSET (1..(cut - 1))
             /\ 1..(cut - 1) \subseteq 1..(LatestGroup - 1)
             /\ 1..(cut - 1) \subseteq DOMAIN msgs
             /\ \A i \in GroupsBefore(cut) : Grouped(i)
  BY <1>1, <1>2 DEF GroupsBefore
<1>6. 1 \in 1..LatestGroup /\ LatestGroup \in 1..LatestGroup
  BY <1>2
<1>7. msgs # <<>> => 1 \in DOMAIN msgs /\ 1..(1 - 1) = {}
  BY <1>1, EmptySeq DEF AtRest
<1>8. CASE D \in Pass1
  <2>1. PICK cut \in 1..LatestGroup : /\ cut = LatestGroup \/ ~InsideGroup(cut)
                                      /\ D = GroupsBefore(cut)
    BY <1>8 DEF Pass1
  <2>2. Between(cut)
    BY <2>1, CutsBetween
  <2>3. D \in SUBSET (1..(cut - 1)) /\ GroupsBefore(cut) \subseteq D
    BY <2>1, <1>5
  <2>4. WholeGroups(msgs, D)
    BY <2>2, <2>3, GroupsGoWhole
  <2>5. turnUser \notin D
    <3>1. CASE turnUser = 0
      BY <3>1, <2>3
    <3>2. CASE turnUser # 0
      BY <3>2, <2>1, <1>3, <1>4, <1>5
    <3>3. QED
      BY <3>1, <3>2
  <2>6. msgs # <<>> /\ msgs[1].role = "user" => 1 \in DOMAIN msgs \ D
    BY <2>1, <1>4, <1>5, <1>7
  <2>7. QED
    BY <2>1, <2>3, <2>4, <2>5, <2>6, <1>5, <1>7
<1>9. CASE D \in Pass2
  <2>1. PICK cut \in {u \in UserAt(msgs) : u < Anchor} \cup {Anchor} :
               D = GroupsBefore(LatestGroup) \cup 1..(cut - 1)
    BY <1>9 DEF Pass2
  <2>2. cut \in 1..Anchor
    <3>1. CASE cut = Anchor
      BY <3>1, <1>2
    <3>2. CASE cut \in UserAt(msgs) /\ cut < Anchor
      BY <3>2, <1>1, <1>2 DEF UserAt
    <3>3. QED
      BY <2>1, <3>1, <3>2
  <2>3. 1..(cut - 1) \subseteq 1..(LatestGroup - 1)
    BY <2>2, <1>2
  <2>4. D \in SUBSET (1..(LatestGroup - 1)) /\ GroupsBefore(LatestGroup) \subseteq D
    BY <2>1, <2>3, <1>5, <1>6
  <2>5. Between(LatestGroup)
    BY <1>6, CutsBetween
  <2>6. WholeGroups(msgs, D)
    BY <2>4, <2>5, <1>6, GroupsGoWhole
  <2>7. turnUser \notin D
    <3>1. CASE turnUser = 0
      BY <3>1, <2>4
    <3>2. CASE turnUser # 0
      <4>1. turnUser \notin 1..(cut - 1)
        BY <3>2, <1>3, <2>2, <1>2
      <4>2. turnUser \notin GroupsBefore(LatestGroup)
        BY <3>2, <1>3, <1>4, <1>5, <1>6
      <4>3. QED
        BY <4>1, <4>2, <2>1
    <3>3. QED
      BY <3>1, <3>2
  <2>8. ASSUME msgs # <<>>, msgs[1].role = "user"
        PROVE  cut \in DOMAIN msgs \ D /\ 1..(cut - 1) \subseteq D /\ msgs[cut].role = "user"
    <3>1. UserAt(msgs) # {}
      BY <2>8, <1>7 DEF UserAt
    <3>2. Anchor \in DOMAIN msgs /\ msgs[Anchor].role = "user"
      BY <3>1, AnchorIs
    <3>3. cut \in DOMAIN msgs /\ msgs[cut].role = "user"
      BY <2>1, <3>2 DEF UserAt
    <3>4. cut \notin GroupsBefore(LatestGroup) /\ cut \notin 1..(cut - 1)
      BY <3>3, <2>2, <1>2, <1>4, <1>5, <1>6
    <3>5. QED
      BY <3>3, <3>4, <2>1
  <2>9. QED
    BY <2>4, <2>6, <2>7, <2>8, <1>5, <1>6
<1>10. QED
  BY <1>8, <1>9 DEF Drops

-----------------------------------------------------------------------------
(* The inductive invariant *)

UserOrNone(m, q) == q \in 0..Len(m) /\ (q # 0 => m[q].role = "user")

\* The message at q holds the texts g, and nothing typed comes after it.
QuestionIn(m, q, g) ==
  /\ q # 0 /\ g \subseteq m[q].says
  /\ \A i \in DOMAIN m : i > q => m[i].says = {}

TextInv ==
  /\ msgs \in Seq(Messages(typed))
  /\ pc # "batch" => Whole(msgs)
  /\ pc = "batch" => \E h \in DOMAIN msgs : OpenBatch(msgs, left, h)

PlaceInv ==
  /\ UserOrNone(msgs, turnUser) /\ UserOrNone(msgs, retryMsg)
  /\ pc = "idle" => retryMsg = 0

TurnInv == pc # "idle" => QuestionIn(msgs, turnUser, given)

Scalars ==
  /\ cancel \in BOOLEAN /\ emptied \in BOOLEAN /\ overflowed \in BOOLEAN
  /\ typed \in 0..MaxMsgs /\ turns \in 0..MaxTurns /\ pc \in PCs
  /\ iteration \in 0..MaxRounds /\ resets \in 0..MaxResets
  /\ retries \in 0..MaxRetries /\ left \in 0..MaxCalls
  /\ pc \in {"compact", "request", "overflow"} => iteration > 0
  /\ pc = "batch" <=> left > 0

TextsKnown == steer \subseteq 1..typed /\ given \subseteq 1..typed

IInv == Scalars /\ TextsKnown /\ TextInv /\ PlaceInv /\ TurnInv

LEMMA MoreMessages ==
  ASSUME NEW n \in Nat, NEW m \in Seq(Messages(n))
  PROVE  m \in Seq(Messages(n + 1))
<1>1. Messages(n) \subseteq Messages(n + 1)
  <2>1. 1..n \subseteq 1..(n + 1)
    OBVIOUS
  <2>2. QED
    BY <2>1 DEF Messages
<1>2. QED
  BY <1>1, SeqMonotonic

LEMMA ScalarsStep ==
  ASSUME Bounds, Scalars, [Next]_vars
  PROVE  Scalars'
<1> USE DEF Bounds, Scalars, PCs
<1>0. ASSUME Return PROVE Scalars'
  <2>1. (cancel \in BOOLEAN /\ emptied \in BOOLEAN /\ overflowed \in BOOLEAN)'
    BY <1>0 DEF Return
  <2>2. (typed \in 0..MaxMsgs /\ turns \in 0..MaxTurns /\ pc \in PCs)'
    BY <1>0 DEF Return, world
  <2>3. (iteration \in 0..MaxRounds /\ resets \in 0..MaxResets /\ retries \in 0..MaxRetries /\ left \in 0..MaxCalls)'
    BY <1>0 DEF Return
  <2>4. (pc = "batch" <=> left > 0)' /\ (pc \in {"compact", "request", "overflow"} => iteration > 0)'
    BY <1>0 DEF Return
  <2>5. QED
    BY <2>1, <2>2, <2>3, <2>4
<1>1. CASE UNCHANGED vars
  BY <1>1 DEF vars, locals, world
<1>2. ASSUME Interrupted \/ WrapUp \/ NextRound \/ Compact \/ CompactInterrupted PROVE Scalars'
  <2>1. CASE Interrupted
    BY <2>1, <1>0 DEF Interrupted
  <2>2. CASE WrapUp
    BY <2>2, <1>0 DEF WrapUp
  <2>3. CASE NextRound
    BY <2>3 DEF NextRound, Ask, world
  <2>4. CASE Compact
    BY <2>4 DEF Compact, world
  <2>5. CASE CompactInterrupted
    BY <2>5, <1>0 DEF CompactInterrupted
  <2>6. QED
    BY <1>2, <2>1, <2>2, <2>3, <2>4, <2>5
<1>3. ASSUME TooLong \/ SendShorter \/ TooLongStill \/ TryAgain \/ Failed \/ Overrun PROVE Scalars'
  <2>1. CASE TooLong
    BY <2>1 DEF TooLong, world
  <2>2. CASE SendShorter
    BY <2>2 DEF SendShorter, world
  <2>3. CASE TooLongStill
    BY <2>3, <1>0 DEF TooLongStill
  <2>4. CASE TryAgain
    BY <2>4 DEF TryAgain, world
  <2>5. CASE Failed
    BY <2>5, <1>0 DEF Failed
  <2>6. CASE Overrun
    BY <2>6 DEF Overrun, locals, world
  <2>7. QED
    BY <1>3, <2>1, <2>2, <2>3, <2>4, <2>5, <2>6
<1>4. ASSUME ToolCalls \/ TextAndNote \/ FinalText \/ Empty \/ EmptyAgain PROVE Scalars'
  <2>1. CASE ToolCalls
    <3>1. left' \in 1..MaxCalls
      BY <2>1 DEF ToolCalls
    <3>2. /\ emptied' = FALSE /\ retries' = 0 /\ pc' = "batch" /\ pc = "request"
          /\ UNCHANGED <<cancel, iteration, resets, overflowed, typed, turns>>
      BY <2>1 DEF ToolCalls, world
    <3>3. left' \in 0..MaxCalls /\ left' > 0
      BY <3>1
    <3>4. (cancel \in BOOLEAN /\ emptied \in BOOLEAN /\ overflowed \in BOOLEAN)'
      BY <3>2
    <3>5. (/\ typed \in 0..MaxMsgs /\ turns \in 0..MaxTurns /\ pc \in PCs
           /\ iteration \in 0..MaxRounds /\ resets \in 0..MaxResets
           /\ retries \in 0..MaxRetries /\ iteration > 0)'
      BY <3>2
    <3>6. (pc = "batch" <=> left > 0)'
      BY <3>2, <3>3
    <3>7. QED
      BY <3>3, <3>4, <3>5, <3>6
  <2>2. CASE TextAndNote
    <3>1. /\ emptied' \in BOOLEAN /\ retries' = 0 /\ pc' = "top" /\ pc = "request"
          /\ UNCHANGED <<cancel, iteration, resets, overflowed, left, typed, turns>>
      BY <2>2 DEF TextAndNote, world
    <3>2. QED
      BY <3>1
  <2>3. CASE FinalText
    BY <2>3, <1>0 DEF FinalText
  <2>4. CASE Empty
    BY <2>4 DEF Empty, world
  <2>5. CASE EmptyAgain
    BY <2>5, <1>0 DEF EmptyAgain
  <2>6. QED
    BY <1>4, <2>1, <2>2, <2>3, <2>4, <2>5
<1>5. ASSUME RunCall \/ BatchEnds \/ GoOn \/ Rewind PROVE Scalars'
  <2>1. CASE RunCall
    BY <2>1 DEF RunCall, world
  <2>2. CASE BatchEnds
    BY <2>2, <1>0 DEF BatchEnds
  <2>3. CASE GoOn
    BY <2>3 DEF GoOn, locals, world
  <2>4. CASE Rewind
    BY <2>4 DEF Rewind, world
  <2>5. QED
    BY <1>5, <2>1, <2>2, <2>3, <2>4
<1>6. ASSUME UserStep PROVE Scalars'
  <2>0. ASSUME pc = "idle", turns < MaxTurns, turns' = turns + 1, pc' = "top",
               cancel' = FALSE, UNCHANGED locals, typed' \in 0..MaxMsgs
        PROVE  Scalars'
    <3>1. (cancel \in BOOLEAN /\ emptied \in BOOLEAN /\ overflowed \in BOOLEAN)'
      BY <2>0 DEF locals
    <3>2. (typed \in 0..MaxMsgs /\ turns \in 0..MaxTurns /\ pc \in PCs)'
      BY <2>0
    <3>3. (/\ iteration \in 0..MaxRounds /\ resets \in 0..MaxResets
           /\ retries \in 0..MaxRetries /\ left \in 0..MaxCalls)'
      BY <2>0 DEF locals
    <3>4. (pc = "batch" <=> left > 0)'
      BY <2>0 DEF locals
    <3>5. QED
      BY <2>0, <3>1, <3>2, <3>3, <3>4
  <2>1. CASE Type
    <3>1. typed' \in 0..MaxMsgs
      BY <2>1 DEF Type
    <3>2. QED
      BY <2>0, <2>1, <3>1 DEF Type, Send
  <2>2. CASE SendQueued
    BY <2>0, <2>2 DEF SendQueued, Send
  <2>3. CASE Retry
    BY <2>0, <2>3 DEF Retry, Send
  <2>4. CASE CompactAtRest
    BY <2>4 DEF CompactAtRest, world
  <2>5. CASE Steer
    BY <2>5 DEF Steer, locals
  <2>6. CASE Esc
    BY <2>6 DEF Esc, locals, world
  <2>7. QED
    BY <1>6, <2>1, <2>2, <2>3, <2>4, <2>5, <2>6 DEF UserStep
<1>7. QED
  BY <1>1, <1>2, <1>3, <1>4, <1>5, <1>6 DEF Next, WorkerStep

\* What is queued, and what was last given, was typed.
LEMMA TextsStep ==
  ASSUME Scalars, TextsKnown, TextInv, [Next]_vars
  PROVE  TextsKnown'
<1>1. ASSUME UNCHANGED <<steer, given, typed>> PROVE TextsKnown'
  BY <1>1 DEF TextsKnown
<1>2. ASSUME Return PROVE TextsKnown'
  <2>1. steer' \subseteq steer /\ given' = given /\ typed' = typed
    BY <1>2 DEF Return, world
  <2>2. QED
    BY <2>1 DEF TextsKnown
<1>3. CASE UNCHANGED vars
  BY <1>1, <1>3 DEF vars, world
<1>4. CASE NextRound
  <2>1. steer' = {} /\ typed' = typed /\ (given' = steer \/ given' = given)
    BY <1>4 DEF NextRound, Ask, world
  <2>2. QED
    BY <2>1 DEF TextsKnown
<1>5. CASE Compact \/ TooLong \/ SendShorter \/ TryAgain \/ Overrun \/ ToolCalls
  BY <1>1, <1>5 DEF Compact, TooLong, SendShorter, TryAgain, Overrun, ToolCalls, world
<1>6. CASE TextAndNote \/ Empty \/ RunCall \/ GoOn \/ Rewind
  BY <1>1, <1>6 DEF TextAndNote, Empty, RunCall, GoOn, Rewind, world
<1>7. CASE Interrupted \/ WrapUp \/ CompactInterrupted \/ TooLongStill \/ Failed
  BY <1>2, <1>7 DEF Interrupted, WrapUp, CompactInterrupted, TooLongStill, Failed
<1>8. CASE FinalText \/ EmptyAgain \/ BatchEnds
  BY <1>2, <1>8 DEF FinalText, EmptyAgain, BatchEnds
<1>9. typed \in Nat
  BY DEF Scalars
<1>10. CASE Type
  <2>1. steer' = {} /\ typed' = typed + 1 /\ given' = {typed'}
    BY <1>10 DEF Type, Send, Ask
  <2>2. typed' \in 1..typed'
    BY <2>1, <1>9
  <2>3. QED
    BY <2>1, <2>2 DEF TextsKnown
<1>11. CASE SendQueued
  <2>1. steer' = {} /\ typed' = typed /\ given' = steer
    BY <1>11 DEF SendQueued, Send, Ask
  <2>2. QED
    BY <2>1 DEF TextsKnown
<1>12. CASE Retry
  <2>1. steer' = steer /\ typed' = typed /\ given' = msgs[LastUser].says /\ UserAt(msgs) # {}
    BY <1>12 DEF Retry, Send, Ask
  <2>2. /\ Len(msgs) \in Nat /\ DOMAIN msgs = 1..Len(msgs)
        /\ \A i \in DOMAIN msgs : msgs[i] \in Messages(typed)
    BY CallsAreNumbers DEF TextInv
  <2>3. UserAt(msgs) \in SUBSET (1..Len(msgs))
    BY <2>2 DEF UserAt
  <2>4. LastUser \in DOMAIN msgs
    BY <2>1, <2>2, <2>3, NewestIs DEF LastUser
  <2>5. msgs[LastUser].says \subseteq 1..typed
    BY <2>2, <2>4 DEF Messages
  <2>6. QED
    BY <2>1, <2>5 DEF TextsKnown
<1>13. CASE CompactAtRest \/ Esc
  BY <1>1, <1>13 DEF CompactAtRest, Esc, world
<1>14. CASE Steer
  <2>1. steer' = steer \cup {typed'} /\ typed' = typed + 1 /\ given' = given
    BY <1>14 DEF Steer
  <2>2. typed' \in 1..typed' /\ 1..typed \subseteq 1..typed'
    BY <2>1, <1>9
  <2>3. QED
    BY <2>1, <2>2 DEF TextsKnown
<1>15. QED
  BY <1>3, <1>4, <1>5, <1>6, <1>7, <1>8, <1>10, <1>11, <1>12, <1>13, <1>14
     DEF Next, WorkerStep, UserStep

-----------------------------------------------------------------------------
(* How a step changes the history *)

\* w is m with messages of the model and notes after it.
Continues(m, w, n) ==
  /\ w \in Seq(Messages(n)) /\ Whole(w) /\ Len(m) <= Len(w)
  /\ \A i \in DOMAIN m : w[i] = m[i]
  /\ \A i \in DOMAIN w : i > Len(m) => w[i].says = {}

Plain(x, n) ==
  /\ x \in Seq(Messages(n))
  /\ \A i \in DOMAIN x : x[i].calls = 0 /\ x[i].says = {} /\ x[i].role # "tool"

LEMMA ContinuesSame ==
  ASSUME NEW n, NEW m \in Seq(Messages(n)), Whole(m)
  PROVE  Continues(m, m, n)
<1>1. Len(m) \in Nat /\ DOMAIN m = 1..Len(m)
  BY CallsAreNumbers
<1>2. QED
  BY <1>1 DEF Continues

LEMMA ContinuesMore ==
  ASSUME NEW n, NEW m \in Seq(Messages(n)), NEW w, Continues(m, w, n), NEW x, Plain(x, n)
  PROVE  /\ Continues(m, w \o x, n) /\ Len(w \o x) = Len(w) + Len(x)
         /\ \A i \in DOMAIN x : (w \o x)[Len(w) + i] = x[i]
<1>1. /\ w \in Seq(Messages(n)) /\ x \in Seq(Messages(n)) /\ Whole(w)
      /\ \A i \in DOMAIN x : x[i].calls = 0 /\ x[i].says = {} /\ x[i].role # "tool"
  BY DEF Continues, Plain
<1>2. /\ Len(m) \in Nat /\ DOMAIN m = 1..Len(m)
      /\ Len(w) \in Nat /\ DOMAIN w = 1..Len(w)
      /\ Len(x) \in Nat /\ DOMAIN x = 1..Len(x)
  BY <1>1, CallsAreNumbers
<1>3. Whole(w \o x)
  BY <1>1, ExtendWhole
<1>4. /\ w \o x \in Seq(Messages(n)) /\ Len(w \o x) = Len(w) + Len(x)
      /\ \A i \in 1..(Len(w) + Len(x)) : (w \o x)[i] = IF i <= Len(w) THEN w[i] ELSE x[i - Len(w)]
  BY <1>1, ConcatProperties
<1> DEFINE v == w \o x
<1> HIDE DEF v
<1>5. /\ v \in Seq(Messages(n)) /\ Len(v) = Len(w) + Len(x) /\ Whole(v)
      /\ \A i \in 1..(Len(w) + Len(x)) : v[i] = IF i <= Len(w) THEN w[i] ELSE x[i - Len(w)]
  BY <1>3, <1>4 DEF v
<1>6. DOMAIN v = 1..(Len(w) + Len(x))
  BY <1>5, CallsAreNumbers
<1>7. \A i \in DOMAIN x : v[Len(w) + i] = x[i]
  <2> TAKE i \in DOMAIN x
  <2>1. Len(w) + i \in 1..(Len(w) + Len(x)) /\ ~(Len(w) + i <= Len(w)) /\ (Len(w) + i) - Len(w) = i
    BY <1>2
  <2>2. QED
    BY <2>1, <1>5
<1>8. Len(m) <= Len(w) /\ \A i \in DOMAIN m : w[i] = m[i]
  BY DEF Continues
<1>9. \A i \in DOMAIN m : v[i] = m[i]
  BY <1>2, <1>5, <1>8
<1>10. ASSUME NEW i \in DOMAIN v, i > Len(m) PROVE v[i].says = {}
  <2>1. CASE i <= Len(w)
    <3>1. i \in DOMAIN w /\ v[i] = w[i]
      BY <2>1, <1>2, <1>5, <1>6
    <3>2. QED
      BY <3>1, <1>10 DEF Continues
  <2>2. CASE ~(i <= Len(w))
    <3>1. i - Len(w) \in DOMAIN x /\ v[i] = x[i - Len(w)]
      BY <2>2, <1>2, <1>5, <1>6
    <3>2. QED
      BY <3>1, <1>1
  <2>3. QED
    BY <2>1, <2>2
<1>11. Len(m) <= Len(v)
  BY <1>2, <1>5, <1>8
<1>12. Continues(m, v, n)
  BY <1>5, <1>9, <1>10, <1>11 DEF Continues
<1>13. QED
  BY <1>5, <1>7, <1>12 DEF v

LEMMA PlainOnes ==
  ASSUME Bounds, NEW n
  PROVE  /\ Plain(<<>>, n) /\ Plain(<<Assistant>>, n) /\ Plain(<<Note>>, n)
         /\ Plain(<<Msg("thinking")>>, n) /\ Plain(<<Assistant, Note>>, n)
         /\ Plain(<<Msg("thinking"), Assistant>>, n)
<1>1. ASSUME NEW x \in {Assistant, Note, Msg("thinking")}
      PROVE  x \in Messages(n) /\ x.calls = 0 /\ x.says = {} /\ x.role # "tool"
  BY SomeMessages DEF Roles
<1>2. ASSUME NEW x \in {Assistant, Note, Msg("thinking")} PROVE Plain(<<x>>, n)
  BY <1>1 DEF Plain
<1>3. ASSUME NEW x \in {Assistant, Note, Msg("thinking")},
             NEW y \in {Assistant, Note, Msg("thinking")}
      PROVE  Plain(<<x, y>>, n)
  BY <1>1 DEF Plain
<1>4. Plain(<<>>, n)
  BY DEF Plain
<1>5. QED
  BY <1>2, <1>3, <1>4

LEMMA ContinuesKeeps ==
  ASSUME NEW n, NEW m \in Seq(Messages(n)), NEW w, Continues(m, w, n),
         NEW q, UserOrNone(m, q)
  PROVE  /\ UserOrNone(w, q)
         /\ \A g : QuestionIn(m, q, g) => QuestionIn(w, q, g)
<1>1. /\ Len(m) \in Nat /\ DOMAIN m = 1..Len(m)
      /\ Len(w) \in Nat /\ DOMAIN w = 1..Len(w) /\ Len(m) <= Len(w)
      /\ \A i \in DOMAIN m : w[i] = m[i]
      /\ \A i \in DOMAIN w : i > Len(m) => w[i].says = {}
  <2>1. w \in Seq(Messages(n))
    BY DEF Continues
  <2>2. QED
    BY <2>1, CallsAreNumbers DEF Continues
<1>2. q \in 0..Len(w) /\ (q # 0 => q \in DOMAIN m)
  BY <1>1 DEF UserOrNone
<1>3. UserOrNone(w, q)
  BY <1>1, <1>2 DEF UserOrNone
<1>4. ASSUME NEW g, QuestionIn(m, q, g) PROVE QuestionIn(w, q, g)
  <2>1. \A i \in DOMAIN w : i > q => w[i].says = {}
    <3> SUFFICES ASSUME NEW i \in DOMAIN w, i > q PROVE w[i].says = {}
      OBVIOUS
    <3>1. CASE i > Len(m)
      BY <3>1, <1>1
    <3>2. CASE ~(i > Len(m))
      <4>1. i \in DOMAIN m
        BY <3>2, <1>1
      <4>2. QED
        BY <4>1, <1>1, <1>4 DEF QuestionIn
    <3>3. QED
      BY <3>1, <3>2
  <2>2. q # 0 /\ q \in DOMAIN m /\ g \subseteq m[q].says
    BY <1>2, <1>4 DEF QuestionIn
  <2>3. g \subseteq w[q].says
    BY <2>2, <1>1
  <2>4. QED
    BY <2>1, <2>2, <2>3 DEF QuestionIn
<1>5. QED
  BY <1>3, <1>4

\* What is left keeps whole groups, and its user messages where they moved to.
LEMMA WithoutKeeps ==
  ASSUME NEW n, NEW m \in Seq(Messages(n)), Whole(m),
         NEW D \in SUBSET (DOMAIN m), WholeGroups(m, D), NEW q, UserOrNone(m, q)
  PROVE  /\ Without(m, D) \in Seq(Messages(n)) /\ Whole(Without(m, D))
         /\ UserOrNone(Without(m, D), Moved(q, D))
         /\ \A g : QuestionIn(m, q, g) /\ q \notin D
              => QuestionIn(Without(m, D), Moved(q, D), g)
<1> DEFINE w == Without(m, D)
<1>1. Len(m) \in Nat /\ DOMAIN m = 1..Len(m) /\ D \in SUBSET (1..Len(m))
  BY CallsAreNumbers
<1>2. /\ w \in Seq(Messages(n))
      /\ \A k \in DOMAIN m \ D : Moved(k, D) \in 1..Len(w) /\ w[Moved(k, D)] = m[k]
      /\ \A p \in 1..Len(w) : \E k \in DOMAIN m \ D : Moved(k, D) = p /\ w[p] = m[k]
  <2>1. D \in SUBSET (DOMAIN m) /\ m \in Seq(Messages(n))
    OBVIOUS
  <2>2. QED
    BY <2>1, WithoutIs, SMTT(30)
<1>3. Whole(w)
  BY WithoutWhole
<1> HIDE DEF w
<1>4. Len(w) \in Nat /\ DOMAIN w = 1..Len(w)
  BY <1>2, CallsAreNumbers
<1>5. q \in 0..Len(m) /\ (q # 0 => m[q].role = "user")
  BY DEF UserOrNone
<1>6. q \in D \/ q = 0 => Moved(q, D) = 0
  <2>1. CASE q \in D
    BY <2>1 DEF Moved
  <2>2. CASE q = 0
    BY <1>1, <2>2, MovedZero
  <2>3. QED
    BY <2>1, <2>2
<1>7. q # 0 /\ q \notin D => /\ q \in DOMAIN m \ D
                             /\ Moved(q, D) \in 1..Len(w) /\ w[Moved(q, D)] = m[q]
  BY <1>1, <1>2, <1>5
<1>8. UserOrNone(w, Moved(q, D))
  <2>1. CASE q \in D \/ q = 0
    BY <2>1, <1>4, <1>6 DEF UserOrNone
  <2>2. CASE q # 0 /\ q \notin D
    BY <2>2, <1>4, <1>5, <1>7 DEF UserOrNone
  <2>3. QED
    BY <2>1, <2>2
<1>9. ASSUME NEW g, QuestionIn(m, q, g), q \notin D PROVE QuestionIn(w, Moved(q, D), g)
  <2>1. /\ q \in DOMAIN m \ D /\ Moved(q, D) \in 1..Len(w) /\ w[Moved(q, D)] = m[q]
        /\ g \subseteq m[q].says
    BY <1>7, <1>9 DEF QuestionIn
  <2>2. ASSUME NEW p \in DOMAIN w, p > Moved(q, D) PROVE w[p].says = {}
    <3>1. PICK k \in DOMAIN m \ D : Moved(k, D) = p /\ w[p] = m[k]
      BY <1>2, <1>4
    <3>2. k > q
      <4>1. CASE k < q
        <5>1. Moved(k, D) < Moved(q, D)
          BY <4>1, <2>1, <1>1, MovedOrder
        <5>2. QED
          BY <5>1, <3>1, <2>1, <2>2, <1>4
      <4>2. CASE k = q
        BY <4>2, <3>1, <2>1, <2>2, <1>4
      <4>3. QED
        BY <4>1, <4>2, <2>1, <1>1
    <3>3. QED
      BY <3>1, <3>2, <1>9 DEF QuestionIn
  <2>3. Moved(q, D) # 0 /\ g \subseteq w[Moved(q, D)].says
    BY <2>1
  <2>4. QED
    BY <2>2, <2>3 DEF QuestionIn
<1>10. QED
  BY <1>2, <1>3, <1>8, <1>9 DEF w

-----------------------------------------------------------------------------
(* Each step keeps the history whole and the question in it *)

HistoryInv == TextInv /\ PlaceInv /\ TurnInv

\* A step of the worker that adds to the history, or leaves it alone.
LEMMA AddingStep ==
  ASSUME HistoryInv, pc # "idle", pc # "batch", Continues(msgs, msgs', typed),
         turnUser' = turnUser, given' = given, typed' = typed, pc' # "batch",
         UserOrNone(msgs', retryMsg'), pc' = "idle" => retryMsg' = 0
  PROVE  HistoryInv'
<1>1. msgs \in Seq(Messages(typed)) /\ UserOrNone(msgs, turnUser) /\ QuestionIn(msgs, turnUser, given)
  BY DEF HistoryInv, TextInv, PlaceInv, TurnInv
<1>2. UserOrNone(msgs', turnUser) /\ QuestionIn(msgs', turnUser, given)
  BY <1>1, ContinuesKeeps
<1>3. msgs' \in Seq(Messages(typed)) /\ Whole(msgs')
  BY DEF Continues
<1>4. TextInv'
  BY <1>3 DEF TextInv
<1>5. PlaceInv' /\ TurnInv'
  BY <1>2 DEF PlaceInv, TurnInv
<1>6. QED
  BY <1>4, <1>5 DEF HistoryInv

\* The same, for a step that also leaves retry_msg alone, or returns.
LEMMA PlainStep ==
  ASSUME HistoryInv, pc # "idle", pc # "batch", Continues(msgs, msgs', typed),
         turnUser' = turnUser, given' = given, typed' = typed, pc' # "batch",
         \/ retryMsg' = 0
         \/ retryMsg' = retryMsg /\ pc' # "idle"
  PROVE  HistoryInv'
<1>1. msgs \in Seq(Messages(typed)) /\ UserOrNone(msgs, retryMsg)
  BY DEF HistoryInv, TextInv, PlaceInv
<1>2. UserOrNone(msgs', retryMsg)
  BY <1>1, ContinuesKeeps
<1>3. UserOrNone(msgs', 0)
  <2>1. Len(msgs') \in Nat
    <3>1. msgs' \in Seq(Messages(typed))
      BY DEF Continues
    <3>2. QED
      BY <3>1, CallsAreNumbers
  <2>2. QED
    BY <2>1 DEF UserOrNone
<1>4. QED
  BY <1>2, <1>3, AddingStep

LEMMA RepliedContinues ==
  ASSUME Bounds, HistoryInv, pc # "batch", NEW m \in Replied
  PROVE  Continues(msgs, m, typed)
<1>1. msgs \in Seq(Messages(typed)) /\ Whole(msgs)
  BY DEF HistoryInv, TextInv
<1>2. Continues(msgs, msgs, typed)
  BY <1>1, ContinuesSame
<1>3. Plain(<<Msg("thinking")>>, typed)
  BY PlainOnes
<1>4. Continues(msgs, msgs \o <<Msg("thinking")>>, typed)
  BY <1>1, <1>2, <1>3, ContinuesMore
<1>5. Append(msgs, Msg("thinking")) = msgs \o <<Msg("thinking")>>
  <2>1. Msg("thinking") \in Messages(typed)
    BY SomeMessages DEF Roles
  <2>2. QED
    BY <2>1, <1>1, AppendIsConcat
<1>6. QED
  BY <1>2, <1>4, <1>5 DEF Replied

\* One message of the model, or a note, after w.
LEMMA ContinuesAppend ==
  ASSUME Bounds, NEW n, NEW m \in Seq(Messages(n)), NEW w, Continues(m, w, n),
         NEW x \in {Assistant, Note}
  PROVE  /\ Continues(m, Append(w, x), n) /\ Len(Append(w, x)) = Len(w) + 1
         /\ Append(w, x)[Len(w) + 1] = x
<1>1. w \in Seq(Messages(n))
  BY DEF Continues
<1>2. x \in Messages(n)
  BY SomeMessages DEF Roles
<1>3. Append(w, x) = w \o <<x>>
  BY <1>1, <1>2, AppendIsConcat
<1>4. Plain(<<x>>, n)
  BY PlainOnes
<1>5. Len(<<x>>) = 1 /\ DOMAIN <<x>> = {1} /\ <<x>>[1] = x
  OBVIOUS
<1>6. /\ Continues(m, w \o <<x>>, n) /\ Len(w \o <<x>>) = Len(w) + Len(<<x>>)
      /\ \A i \in DOMAIN <<x>> : (w \o <<x>>)[Len(w) + i] = <<x>>[i]
  BY <1>4, ContinuesMore
<1>7. QED
  BY <1>3, <1>5, <1>6

LEMMA RequestSteps ==
  ASSUME Bounds, HistoryInv, pc = "request",
         Failed \/ TooLong \/ TryAgain \/ Overrun \/ TextAndNote \/ FinalText
  PROVE  HistoryInv'
<1>1. msgs \in Seq(Messages(typed)) /\ Whole(msgs) /\ Continues(msgs, msgs, typed)
  BY ContinuesSame DEF HistoryInv, TextInv
<1>2. CASE Failed
  <2>1. /\ msgs' = msgs /\ turnUser' = turnUser /\ given' = given /\ typed' = typed
        /\ pc' = "idle" /\ retryMsg' = 0
    BY <1>2 DEF Failed, Return, world
  <2>2. QED
    BY <2>1, <1>1, PlainStep
<1>3. CASE TooLong \/ TryAgain
  <2>1. /\ msgs' = msgs /\ turnUser' = turnUser /\ given' = given /\ typed' = typed
        /\ pc' \in {"overflow", "top"} /\ retryMsg' = retryMsg
    BY <1>3 DEF TooLong, TryAgain, world
  <2>2. QED
    BY <2>1, <1>1, PlainStep
<1>4. CASE Overrun
  <2>1. /\ turnUser' = turnUser /\ given' = given /\ typed' = typed
        /\ pc' = "top" /\ retryMsg' = retryMsg
    BY <1>4 DEF Overrun, world, locals
  <2>2. PICK thought \in {<<>>, <<Msg("thinking")>>}, bridge \in {<<>>, <<Assistant>>} :
               msgs' = msgs \o thought \o bridge \o <<Note>>
    BY <1>4 DEF Overrun
  <2>3. Plain(thought, typed) /\ Plain(bridge, typed) /\ Plain(<<Note>>, typed)
    BY PlainOnes
  <2>4. Continues(msgs, msgs \o thought, typed)
    BY <1>1, <2>3, ContinuesMore
  <2>5. Continues(msgs, msgs \o thought \o bridge, typed)
    BY <1>1, <2>3, <2>4, ContinuesMore
  <2>6. Continues(msgs, msgs \o thought \o bridge \o <<Note>>, typed)
    BY <1>1, <2>3, <2>5, ContinuesMore
  <2>7. QED
    BY <2>1, <2>2, <2>6, PlainStep
<1>5. CASE TextAndNote
  <2>1. /\ turnUser' = turnUser /\ given' = given /\ typed' = typed
        /\ pc' = "top" /\ retryMsg' = retryMsg
    BY <1>5 DEF TextAndNote, world
  <2>2. PICK m \in Replied : msgs' = m \o <<Assistant, Note>>
    BY <1>5 DEF TextAndNote
  <2>3. Continues(msgs, m, typed) /\ Plain(<<Assistant, Note>>, typed)
    BY RepliedContinues, PlainOnes
  <2>4. Continues(msgs, m \o <<Assistant, Note>>, typed)
    BY <1>1, <2>3, ContinuesMore
  <2>5. QED
    BY <2>1, <2>2, <2>4, PlainStep
<1>6. CASE FinalText
  <2>1. /\ turnUser' = turnUser /\ given' = given /\ typed' = typed
        /\ pc' = "idle" /\ retryMsg' = 0
    BY <1>6 DEF FinalText, Return, world
  <2>2. PICK m \in Replied : msgs' = Append(m, Assistant)
    BY <1>6 DEF FinalText
  <2>3. Continues(msgs, Append(m, Assistant), typed)
    BY <1>1, RepliedContinues, ContinuesAppend
  <2>4. QED
    BY <2>1, <2>2, <2>3, PlainStep
<1>7. QED
  BY <1>2, <1>3, <1>4, <1>5, <1>6

LEMMA EmptyStep ==
  ASSUME Bounds, HistoryInv, Empty
  PROVE  HistoryInv'
<1>1. msgs \in Seq(Messages(typed)) /\ UserOrNone(msgs, retryMsg)
  BY DEF HistoryInv, TextInv, PlaceInv
<1>2. /\ pc = "request" /\ pc' = "top"
      /\ turnUser' = turnUser /\ given' = given /\ typed' = typed
  BY DEF Empty, world
<1>3. PICK m \in Replied :
             IF LastRole(m) = "user" THEN msgs' = m /\ UNCHANGED retryMsg
             ELSE msgs' = Append(Bridge(m), Note) /\ retryMsg' = Len(msgs')
  BY DEF Empty
<1>4. Continues(msgs, m, typed)
  BY <1>2, RepliedContinues
<1>5. CASE LastRole(m) = "user"
  BY <1>2, <1>3, <1>4, <1>5, PlainStep
<1>6. CASE LastRole(m) # "user"
  <2>1. Continues(msgs, Bridge(m), typed)
    <3>1. CASE LastRole(m) = "tool"
      <4>1. Bridge(m) = Append(m, Assistant)
        BY <3>1 DEF Bridge
      <4>2. QED
        BY <4>1, <1>1, <1>4, ContinuesAppend
    <3>2. CASE LastRole(m) # "tool"
      <4>1. Bridge(m) = m
        BY <3>2 DEF Bridge
      <4>2. QED
        BY <4>1, <1>4
    <3>3. QED
      BY <3>1, <3>2
  <2> DEFINE b == Bridge(m)
  <2>2. Continues(msgs, b, typed) /\ msgs' = Append(b, Note) /\ retryMsg' = Len(msgs')
    BY <2>1, <1>3, <1>6
  <2> HIDE DEF b
  <2>3. /\ Continues(msgs, Append(b, Note), typed) /\ Len(Append(b, Note)) = Len(b) + 1
        /\ Append(b, Note)[Len(b) + 1] = Note
    BY <2>2, <1>1, ContinuesAppend
  <2>4. Len(b) \in Nat /\ Note.role = "user"
    <3>1. b \in Seq(Messages(typed))
      BY <2>2 DEF Continues
    <3>2. QED
      BY <3>1, CallsAreNumbers, SomeMessages DEF Roles
  <2>5. UserOrNone(msgs', retryMsg')
    BY <2>2, <2>3, <2>4 DEF UserOrNone
  <2>6. QED
    BY <2>2, <2>3, <2>5, <1>2, AddingStep
<1>7. QED
  BY <1>5, <1>6

LEMMA EmptyAgainStep ==
  ASSUME Bounds, HistoryInv, EmptyAgain
  PROVE  HistoryInv'
<1> DEFINE prompt == {retryMsg} \ {0}
<1>1. /\ msgs \in Seq(Messages(typed)) /\ Whole(msgs)
      /\ UserOrNone(msgs, retryMsg) /\ UserOrNone(msgs, turnUser)
  BY DEF HistoryInv, TextInv, PlaceInv, EmptyAgain
<1>2. /\ Len(msgs) \in Nat /\ DOMAIN msgs = 1..Len(msgs)
      /\ \A i \in DOMAIN msgs : /\ msgs[i].calls \in Nat
                                /\ msgs[i].calls > 0 => msgs[i].role = "assistant"
  BY <1>1, CallsAreNumbers
<1>3. prompt \in SUBSET (DOMAIN msgs) /\ \A i \in prompt : msgs[i].role = "user"
  BY <1>1, <1>2 DEF UserOrNone
<1>4. WholeGroups(msgs, prompt)
  <2> SUFFICES ASSUME NEW i \in CallsAt(msgs)
               PROVE  (i..(i + msgs[i].calls)) \cap prompt = {}
    BY DEF WholeGroups
  <2>1. /\ msgs[i].role = "assistant" /\ i \in 1..Len(msgs) /\ msgs[i].calls \in Nat
        /\ \A k \in (i + 1)..(i + msgs[i].calls) : msgs[k].role = "tool"
    BY <1>1, <1>2 DEF CallsAt, Whole
  <2>2. ASSUME NEW k \in i..(i + msgs[i].calls) PROVE msgs[k].role # "user"
    <3>1. CASE k = i
      BY <3>1, <2>1
    <3>2. CASE k # i
      <4>1. k \in (i + 1)..(i + msgs[i].calls)
        BY <3>2, <2>1
      <4>2. QED
        BY <4>1, <2>1
    <3>3. QED
      BY <3>1, <3>2
  <2>3. QED
    BY <2>2, <1>3
<1> DEFINE w == Without(msgs, prompt)
<1>5. w \in Seq(Messages(typed)) /\ Whole(w) /\ UserOrNone(w, Moved(turnUser, prompt))
  <2> HIDE DEF prompt
  <2>1. QED
    BY <1>1, <1>3, <1>4, WithoutKeeps
<1>6. PICK rest \in EmptyTails : msgs' = w \o rest
  BY DEF EmptyAgain
<1>7. /\ turnUser' = Moved(turnUser, prompt) /\ typed' = typed
      /\ pc' = "idle" /\ retryMsg' = 0
  BY DEF EmptyAgain, Return, world
<1> HIDE DEF w, prompt
<1>8. Continues(w, w \o rest, typed)
  <2>1. Plain(rest, typed)
    BY PlainOnes DEF EmptyTails
  <2>2. Continues(w, w, typed)
    BY <1>5, ContinuesSame
  <2>3. QED
    BY <2>1, <2>2, <1>5, ContinuesMore
<1>9. msgs' \in Seq(Messages(typed)) /\ Whole(msgs') /\ UserOrNone(msgs', turnUser')
  BY <1>5, <1>6, <1>7, <1>8, ContinuesKeeps DEF Continues
<1>10. UserOrNone(msgs', 0)
  <2>1. Len(msgs') \in Nat
    BY <1>9, CallsAreNumbers
  <2>2. QED
    BY <2>1 DEF UserOrNone
<1>11. QED
  BY <1>7, <1>9, <1>10 DEF HistoryInv, TextInv, PlaceInv, TurnInv

\* A compaction, during a turn, at its end or at rest.
LEMMA DroppingStep ==
  ASSUME HistoryInv, pc # "batch", NEW D \in SUBSET (DOMAIN msgs), WholeGroups(msgs, D),
         turnUser \notin D,
         msgs' = Without(msgs, D), turnUser' = Moved(turnUser, D),
         given' = given, typed' = typed, pc' # "batch", pc = "idle" => pc' = "idle",
         retryMsg' = Moved(retryMsg, D) \/ retryMsg' = 0, pc' = "idle" => retryMsg' = 0
  PROVE  HistoryInv'
<1>1. /\ msgs \in Seq(Messages(typed)) /\ Whole(msgs)
      /\ UserOrNone(msgs, turnUser) /\ UserOrNone(msgs, retryMsg)
      /\ pc # "idle" => QuestionIn(msgs, turnUser, given)
  BY DEF HistoryInv, TextInv, PlaceInv, TurnInv
<1>2. /\ msgs' \in Seq(Messages(typed)) /\ Whole(msgs') /\ UserOrNone(msgs', turnUser')
      /\ \A g : QuestionIn(msgs, turnUser, g) => QuestionIn(msgs', turnUser', g)
  BY <1>1, WithoutKeeps
<1>3. UserOrNone(msgs', Moved(retryMsg, D))
  BY <1>1, WithoutKeeps
<1>4. UserOrNone(msgs', 0)
  <2>1. Len(msgs') \in Nat
    BY <1>2, CallsAreNumbers
  <2>2. QED
    BY <2>1 DEF UserOrNone
<1>5. UserOrNone(msgs', retryMsg')
  BY <1>3, <1>4
<1>6. pc' # "idle" => QuestionIn(msgs', turnUser', given')
  BY <1>1, <1>2
<1>7. QED
  BY <1>2, <1>5, <1>6 DEF HistoryInv, TextInv, PlaceInv, TurnInv

LEMMA HistoryAtRest ==
  ASSUME HistoryInv, pc # "batch"
  PROVE  AtRest(typed)
BY DEF HistoryInv, TextInv, PlaceInv, UserOrNone, AtRest

\* Nothing at all may be dropped, too.
LEMMA NothingSpares ==
  ASSUME HistoryInv
  PROVE  /\ {} \in SUBSET (DOMAIN msgs) /\ WholeGroups(msgs, {}) /\ turnUser \notin {}
BY DEF WholeGroups

LEMMA CompactionSteps ==
  ASSUME HistoryInv, Compact \/ SendShorter \/ CompactInterrupted \/ TooLongStill \/ CompactAtRest
  PROVE  HistoryInv'
<1>1. pc \in {"compact", "overflow", "idle"} /\ given' = given /\ typed' = typed
  BY DEF Compact, SendShorter, CompactInterrupted, TooLongStill, CompactAtRest, Return, world
<1>2. AtRest(typed)
  BY <1>1, HistoryAtRest
<1>3. ASSUME NEW D \in Drops \cup {{}}
      PROVE  D \in SUBSET (DOMAIN msgs) /\ WholeGroups(msgs, D) /\ turnUser \notin D
  BY <1>2, DropsSpare, NothingSpares
<1>4. CASE Compact \/ SendShorter
  <2>1. pc # "idle" /\ pc' \in {"request", "top"}
    BY <1>4 DEF Compact, SendShorter
  <2>2. PICK D \in Drops : DropAt(D)
    BY <1>4 DEF Compact, SendShorter
  <2>3. msgs' = Without(msgs, D) /\ turnUser' = Moved(turnUser, D) /\ retryMsg' = Moved(retryMsg, D)
    BY <2>2 DEF DropAt
  <2>4. QED
    BY <1>1, <1>3, <2>1, <2>3, DroppingStep
<1>5. CASE CompactInterrupted \/ TooLongStill
  <2>1. pc' = "idle" /\ retryMsg' = 0
    BY <1>5 DEF CompactInterrupted, TooLongStill, Return
  <2>2. PICK D \in Drops \cup {{}} : msgs' = Without(msgs, D) /\ turnUser' = Moved(turnUser, D)
    BY <1>5 DEF CompactInterrupted, TooLongStill
  <2>3. QED
    BY <1>1, <1>3, <2>1, <2>2, DroppingStep
<1>6. CASE CompactAtRest
  <2>1. pc = "idle" /\ pc' = "idle" /\ retryMsg = 0
    BY <1>6 DEF CompactAtRest, HistoryInv, PlaceInv
  <2>2. PICK D \in Drops : DropAt(D)
    BY <1>6 DEF CompactAtRest
  <2>3. msgs' = Without(msgs, D) /\ turnUser' = Moved(turnUser, D) /\ retryMsg' = Moved(retryMsg, D)
    BY <2>2 DEF DropAt
  <2>4. Moved(0, D) = 0
    <3>1. Len(msgs) \in Nat /\ D \in SUBSET (1..Len(msgs))
      BY <1>2, <1>3, CallsAreNumbers DEF AtRest
    <3>2. QED
      BY <3>1, MovedZero
  <2>5. QED
    BY <1>1, <1>3, <2>1, <2>3, <2>4, DroppingStep
<1>7. QED
  BY <1>4, <1>5, <1>6

\* _append_user: what was given is now the question, at the end.
LEMMA AskingStep ==
  ASSUME Bounds, NEW m, m \in Seq(Messages(typed')), Whole(m), NEW said, said \subseteq 1..typed',
         Ask(m, said), pc' # "idle", pc' # "batch", UserOrNone(m, retryMsg')
  PROVE  HistoryInv'
<1>1. msgs' = AppendUser(m, said) /\ turnUser' = Len(msgs') /\ given' = said
  BY DEF Ask
<1>2. AskedIn(m, msgs', said, typed')
  BY <1>1, AppendUserIs
<1>3. /\ msgs' \in Seq(Messages(typed')) /\ Whole(msgs')
      /\ Len(msgs') > 0 /\ Len(m) <= Len(msgs')
      /\ msgs'[Len(msgs')].role = "user" /\ said \subseteq msgs'[Len(msgs')].says
      /\ \A i \in DOMAIN m : msgs'[i].role = m[i].role
  BY <1>2 DEF AskedIn
<1>4. /\ Len(msgs') \in Nat /\ DOMAIN msgs' = 1..Len(msgs')
      /\ Len(m) \in Nat /\ DOMAIN m = 1..Len(m)
  BY <1>3, CallsAreNumbers
<1>5. UserOrNone(msgs', turnUser')
  BY <1>1, <1>3, <1>4 DEF UserOrNone
<1>6. QuestionIn(msgs', turnUser', given')
  BY <1>1, <1>3, <1>4 DEF QuestionIn
<1>7. UserOrNone(msgs', retryMsg')
  <2>1. retryMsg' \in 0..Len(msgs') /\ (retryMsg' # 0 => retryMsg' \in DOMAIN m)
    BY <1>3, <1>4 DEF UserOrNone
  <2>2. QED
    BY <2>1, <1>3 DEF UserOrNone
<1>8. QED
  BY <1>3, <1>5, <1>6, <1>7 DEF HistoryInv, TextInv, PlaceInv, TurnInv

LEMMA LastUserIs ==
  ASSUME NEW n, msgs \in Seq(Messages(n)), UserAt(msgs) # {}
  PROVE  LastUser \in DOMAIN msgs /\ msgs[LastUser].role = "user"
<1>1. Len(msgs) \in Nat /\ DOMAIN msgs = 1..Len(msgs)
  BY CallsAreNumbers
<1>2. UserAt(msgs) \in SUBSET (1..Len(msgs))
  BY <1>1 DEF UserAt
<1>3. LastUser \in UserAt(msgs)
  BY <1>1, <1>2, NewestIs DEF LastUser
<1>4. QED
  BY <1>3 DEF UserAt

LEMMA SendSteps ==
  ASSUME Bounds, Scalars, TextsKnown, HistoryInv, Type \/ SendQueued \/ Retry
  PROVE  HistoryInv'
<1>1. /\ pc = "idle" /\ pc' = "top" /\ retryMsg' = retryMsg /\ retryMsg = 0
  BY DEF Type, SendQueued, Retry, Send, locals, HistoryInv, PlaceInv
<1>2. msgs \in Seq(Messages(typed)) /\ Whole(msgs) /\ typed \in Nat
  BY <1>1 DEF HistoryInv, TextInv, Scalars
<1>3. \A m \in Seq(Messages(typed')) : UserOrNone(m, retryMsg')
  <2> SUFFICES ASSUME NEW m \in Seq(Messages(typed')) PROVE UserOrNone(m, 0)
    BY <1>1
  <2>1. Len(m) \in Nat
    BY CallsAreNumbers
  <2>2. QED
    BY <2>1 DEF UserOrNone
<1>4. CASE Type
  <2>1. typed' = typed + 1 /\ Ask(msgs, {typed'})
    BY <1>4 DEF Type, Send
  <2>2. msgs \in Seq(Messages(typed'))
    BY <2>1, <1>2, MoreMessages
  <2>3. {typed'} \subseteq 1..typed'
    BY <2>1, <1>2
  <2>4. QED
    BY <2>1, <2>2, <2>3, <1>1, <1>2, <1>3, AskingStep
<1>5. CASE SendQueued
  <2>1. typed' = typed /\ Ask(msgs, steer) /\ steer \subseteq 1..typed'
    BY <1>5 DEF SendQueued, Send, TextsKnown
  <2>2. QED
    BY <2>1, <1>1, <1>2, <1>3, AskingStep
<1>6. CASE Retry
  <2>1. typed' = typed /\ Ask(SubSeq(msgs, 1, LastUser - 1), msgs[LastUser].says) /\ UserAt(msgs) # {}
    BY <1>6 DEF Retry, Send
  <2>2. LastUser \in DOMAIN msgs /\ msgs[LastUser].role = "user"
    BY <1>2, <2>1, LastUserIs
  <2>3. /\ SubSeq(msgs, 1, LastUser - 1) \in Seq(Messages(typed))
        /\ Whole(SubSeq(msgs, 1, LastUser - 1))
    BY <1>2, <2>2, CutWhole
  <2>4. msgs[LastUser].says \subseteq 1..typed
    <3>1. msgs[LastUser] \in Messages(typed)
      BY <1>2, <2>2, CallsAreNumbers
    <3>2. QED
      BY <3>1 DEF Messages
  <2>5. QED
    BY <2>1, <2>3, <2>4, <1>1, <1>3, AskingStep
<1>7. QED
  BY <1>4, <1>5, <1>6

LEMMA TopSteps ==
  ASSUME Bounds, Scalars, TextsKnown, HistoryInv, Interrupted \/ WrapUp \/ NextRound
  PROVE  HistoryInv'
<1>1. pc = "top" /\ typed' = typed
  BY DEF Interrupted, WrapUp, NextRound, Return, world
<1>2. /\ msgs \in Seq(Messages(typed)) /\ Whole(msgs) /\ Continues(msgs, msgs, typed)
      /\ UserOrNone(msgs, retryMsg)
  BY <1>1, ContinuesSame DEF HistoryInv, TextInv, PlaceInv
<1>3. CASE Interrupted
  <2>1. msgs' = msgs /\ turnUser' = turnUser /\ given' = given /\ pc' = "idle" /\ retryMsg' = 0
    BY <1>3 DEF Interrupted, Return
  <2>2. QED
    BY <2>1, <1>1, <1>2, PlainStep
<1>4. CASE WrapUp
  <2>1. /\ msgs' \in {msgs, Append(msgs, Assistant)}
        /\ turnUser' = turnUser /\ given' = given /\ pc' = "idle" /\ retryMsg' = 0
    BY <1>4 DEF WrapUp, Return
  <2>2. Continues(msgs, msgs', typed)
    BY <2>1, <1>2, ContinuesAppend
  <2>3. QED
    BY <2>1, <2>2, <1>1, PlainStep
<1>5. CASE NextRound /\ steer = {}
  <2>1. /\ msgs' = msgs /\ turnUser' = turnUser /\ given' = given
        /\ pc' \in {"compact", "request"} /\ retryMsg' = retryMsg
    BY <1>5 DEF NextRound
  <2>2. QED
    BY <2>1, <1>1, <1>2, PlainStep
<1>6. CASE NextRound /\ steer # {}
  <2>1. /\ Ask(msgs, steer) /\ pc' \in {"compact", "request"} /\ retryMsg' = retryMsg
        /\ steer \subseteq 1..typed'
    BY <1>1, <1>6 DEF NextRound, TextsKnown
  <2>2. QED
    BY <2>1, <1>1, <1>2, AskingStep
<1>7. QED
  BY <1>3, <1>4, <1>5, <1>6

LEMMA ToolCallsStep ==
  ASSUME Bounds, HistoryInv, ToolCalls
  PROVE  HistoryInv'
<1>1. /\ pc = "request" /\ pc' = "batch" /\ typed' = typed /\ given' = given
      /\ turnUser' = turnUser /\ retryMsg' = retryMsg
  BY DEF ToolCalls, world
<1>2. PICK m \in Replied, k \in 1..MaxCalls : msgs' = Append(m, Calls(k)) /\ left' = k
  BY DEF ToolCalls
<1>3. /\ msgs \in Seq(Messages(typed)) /\ UserOrNone(msgs, turnUser) /\ UserOrNone(msgs, retryMsg)
      /\ QuestionIn(msgs, turnUser, given)
  BY <1>1 DEF HistoryInv, TextInv, PlaceInv, TurnInv
<1>4. Continues(msgs, m, typed)
  BY <1>1, RepliedContinues
<1>5. /\ m \in Seq(Messages(typed)) /\ Whole(m)
      /\ UserOrNone(m, turnUser) /\ UserOrNone(m, retryMsg) /\ QuestionIn(m, turnUser, given)
  BY <1>3, <1>4, ContinuesKeeps DEF Continues
<1> DEFINE w == Append(m, Calls(k))
<1>6. /\ w \in Seq(Messages(typed)) /\ Len(w) = Len(m) + 1 /\ w[Len(m) + 1] = Calls(k)
      /\ \A i \in DOMAIN m : w[i] = m[i]
      /\ OpenBatch(w, k, Len(m) + 1)
  BY <1>5, BatchOpens
<1> HIDE DEF w
<1>7. Len(m) \in Nat /\ DOMAIN m = 1..Len(m) /\ DOMAIN w = 1..Len(w) /\ Calls(k).says = {}
  BY <1>5, <1>6, CallsAreNumbers, SomeMessages
<1>8. ASSUME NEW q, UserOrNone(m, q) PROVE UserOrNone(w, q) /\ (q # 0 => q \in DOMAIN m)
  <2>1. q \in 0..Len(w) /\ (q # 0 => q \in DOMAIN m)
    BY <1>6, <1>7, <1>8 DEF UserOrNone
  <2>2. QED
    BY <2>1, <1>6, <1>8 DEF UserOrNone
<1>9. QuestionIn(w, turnUser, given)
  <2>1. turnUser # 0 /\ given \subseteq m[turnUser].says /\ turnUser \in DOMAIN m
    BY <1>5, <1>8 DEF QuestionIn
  <2>2. ASSUME NEW i \in DOMAIN w, i > turnUser PROVE w[i].says = {}
    <3>1. CASE i = Len(m) + 1
      BY <3>1, <1>6, <1>7
    <3>2. CASE i # Len(m) + 1
      <4>1. i \in DOMAIN m
        BY <3>2, <1>6, <1>7
      <4>2. QED
        BY <4>1, <2>2, <1>5, <1>6 DEF QuestionIn
    <3>3. QED
      BY <3>1, <3>2
  <2>3. QED
    BY <2>1, <2>2, <1>6 DEF QuestionIn
<1>10. msgs' = w /\ Len(m) + 1 \in DOMAIN w
  BY <1>2, <1>6, <1>7 DEF w
<1>11. QED
  BY <1>1, <1>2, <1>5, <1>6, <1>8, <1>9, <1>10 DEF HistoryInv, TextInv, PlaceInv, TurnInv

LEMMA RunCallStep ==
  ASSUME Bounds, Scalars, HistoryInv, RunCall
  PROVE  HistoryInv'
<1>1. /\ pc = "batch" /\ typed' = typed /\ given' = given
      /\ turnUser' = turnUser /\ retryMsg' = retryMsg /\ left' = left - 1
      /\ pc' = IF left = 1 THEN "after" ELSE "batch"
      /\ left \in Nat \ {0}
  BY DEF RunCall, world, Scalars
<1>2. /\ msgs \in Seq(Messages(typed)) /\ UserOrNone(msgs, turnUser) /\ UserOrNone(msgs, retryMsg)
      /\ QuestionIn(msgs, turnUser, given)
  BY <1>1 DEF HistoryInv, TextInv, PlaceInv, TurnInv
<1>3. PICK h \in DOMAIN msgs : OpenBatch(msgs, left, h)
  BY <1>1 DEF HistoryInv, TextInv
<1> DEFINE w == Append(msgs, Msg("tool"))
<1>4. /\ w \in Seq(Messages(typed)) /\ Len(w) = Len(msgs) + 1 /\ w[Len(msgs) + 1] = Msg("tool")
      /\ \A i \in DOMAIN msgs : w[i] = msgs[i]
      /\ OpenBatch(w, left - 1, h)
  <2>1. left \in Nat \ {0} /\ h \in DOMAIN msgs /\ OpenBatch(msgs, left, h)
    BY <1>1, <1>3
  <2>2. QED
    BY <2>1, <1>2, BatchGoesOn
<1>5. msgs' = w
  BY DEF RunCall
<1> HIDE DEF w
<1>6. /\ Len(msgs) \in Nat /\ DOMAIN msgs = 1..Len(msgs) /\ DOMAIN w = 1..Len(w)
      /\ Msg("tool").says = {} /\ h \in DOMAIN w
  <2>1. Len(msgs) \in Nat /\ DOMAIN msgs = 1..Len(msgs) /\ DOMAIN w = 1..Len(w)
    BY <1>2, <1>4, CallsAreNumbers
  <2>2. Msg("tool").says = {}
    BY SomeMessages DEF Roles
  <2>3. h \in DOMAIN w
    BY <2>1, <1>4
  <2>4. QED
    BY <2>1, <2>2, <2>3
<1>7. ASSUME NEW q, UserOrNone(msgs, q) PROVE UserOrNone(w, q) /\ (q # 0 => q \in DOMAIN msgs)
  <2>1. q \in 0..Len(w) /\ (q # 0 => q \in DOMAIN msgs)
    BY <1>4, <1>6, <1>7 DEF UserOrNone
  <2>2. QED
    BY <2>1, <1>4, <1>7 DEF UserOrNone
<1>8. QuestionIn(w, turnUser, given)
  <2>1. turnUser # 0 /\ given \subseteq msgs[turnUser].says /\ turnUser \in DOMAIN msgs
    BY <1>2, <1>7 DEF QuestionIn
  <2>2. ASSUME NEW i \in DOMAIN w, i > turnUser PROVE w[i].says = {}
    <3>1. CASE i = Len(msgs) + 1
      BY <3>1, <1>4, <1>6
    <3>2. CASE i # Len(msgs) + 1
      <4>1. i \in DOMAIN msgs
        BY <3>2, <1>4, <1>6
      <4>2. QED
        BY <4>1, <2>2, <1>2, <1>4 DEF QuestionIn
    <3>3. QED
      BY <3>1, <3>2
  <2>3. QED
    BY <2>1, <2>2, <1>4 DEF QuestionIn
<1>9. TextInv'
  <2>1. CASE left = 1
    <3>1. OpenBatch(w, 0, h)
      BY <2>1, <1>4
    <3>2. Whole(w)
      BY <3>1, <1>4, <1>6, BatchCloses
    <3>3. QED
      BY <3>2, <2>1, <1>1, <1>4, <1>5 DEF TextInv
  <2>2. CASE left # 1
    BY <2>2, <1>1, <1>4, <1>5, <1>6 DEF TextInv
  <2>3. QED
    BY <2>1, <2>2
<1>10. PlaceInv' /\ TurnInv'
  BY <1>1, <1>2, <1>5, <1>7, <1>8 DEF PlaceInv, TurnInv
<1>11. QED
  BY <1>9, <1>10 DEF HistoryInv

\* Where a loop is cut: after the question, and not in front of a result.
LEMMA LoopFromIs ==
  ASSUME NEW n, msgs \in Seq(Messages(n)), turnUser \in Nat,
         NEW first \in CallsAt(msgs), first > turnUser
  PROVE  /\ LoopFrom(first) \in DOMAIN msgs /\ LoopFrom(first) > turnUser
         /\ LoopFrom(first) <= first /\ msgs[LoopFrom(first)].role # "tool"
<1> DEFINE Back(c) == \A k \in c..(first - 1) : k > turnUser /\ msgs[k].role = "thinking"
           Stop(c) == c - 1 > turnUser => msgs[c - 1].role # "thinking"
           T == {j \in 1..first : Back(first + 1 - j)}
<1>1. /\ Len(msgs) \in Nat /\ DOMAIN msgs = 1..Len(msgs)
      /\ first \in 1..Len(msgs) /\ msgs[first].role = "assistant"
  BY CallsAreNumbers DEF CallsAt
<1>2. first \in Nat /\ T \in SUBSET (1..first) /\ T # {}
  <2>1. (first + 1 - 1)..(first - 1) = {}
    BY <1>1
  <2>2. 1 \in T
    BY <2>1, <1>1
  <2>3. T \in SUBSET (1..first)
    <3> HIDE DEF Back
    <3>1. QED
      BY Zenon
  <2>4. first \in Nat
    BY <1>1
  <2>5. T # {}
    <3> HIDE DEF T
    <3>1. QED
      BY <2>2
  <2>6. QED
    BY <2>3, <2>4, <2>5, Zenon
<1>3. PICK j \in T : \A i \in T : i <= j
  <2> HIDE DEF T
  <2>1. QED
    BY <1>2, NewestIs
<1>4. first + 1 - j \in 1..first /\ Back(first + 1 - j)
  BY <1>1, <1>3
<1>5. Stop(first + 1 - j)
  <2> DEFINE c == first + 1 - j
  <2>1. SUFFICES ASSUME c - 1 > turnUser, msgs[c - 1].role = "thinking" PROVE FALSE
    OBVIOUS
  <2>2. c \in 1..first /\ Back(c) /\ j \in 1..first /\ c - 1 = first + 1 - (j + 1)
    <3>1. c \in 1..first /\ Back(c)
      BY <1>4
    <3>2. j \in 1..first
      BY <1>2
    <3>3. c - 1 = first + 1 - (j + 1)
      BY <3>2, <1>2
    <3>4. QED
      BY <3>1, <3>2, <3>3
  <2>3. j + 1 \in 1..first
    BY <2>1, <2>2, <1>1
  <2>4. Back(first + 1 - (j + 1))
    <3> SUFFICES ASSUME NEW k \in (c - 1)..(first - 1)
                 PROVE  k > turnUser /\ msgs[k].role = "thinking"
      BY <2>2
    <3>1. CASE k = c - 1
      BY <3>1, <2>1
    <3>2. CASE k # c - 1
      <4>1. k \in c..(first - 1)
        BY <3>2, <2>2, <1>1
      <4>2. QED
        BY <4>1, <2>2
    <3>3. QED
      BY <3>1, <3>2
  <2>5. j + 1 \in T /\ ~(j + 1 <= j)
    BY <2>2, <2>3, <2>4
  <2>6. QED
    BY <2>5, <1>3
<1>6. \E c \in 1..first : Back(c) /\ Stop(c)
  BY <1>4, <1>5
<1>7. LoopFrom(first) \in 1..first /\ Back(LoopFrom(first))
  <2>1. LoopFrom(first) = CHOOSE c \in 1..first : Back(c) /\ Stop(c)
    BY DEF LoopFrom
  <2> HIDE DEF Back, Stop
  <2>2. QED
    BY <2>1, <1>6
<1>8. CASE LoopFrom(first) = first
  BY <1>1, <1>8
<1>9. CASE LoopFrom(first) # first
  <2> DEFINE c == LoopFrom(first)
  <2>1. c \in c..(first - 1) /\ c \in 1..Len(msgs) /\ c <= first
    BY <1>1, <1>7, <1>9
  <2>2. c > turnUser /\ msgs[c].role = "thinking"
    BY <2>1, <1>7
  <2>3. QED
    BY <2>1, <2>2, <1>1
<1>10. QED
  BY <1>8, <1>9

LEMMA RewindStep ==
  ASSUME Bounds, HistoryInv, Rewind
  PROVE  HistoryInv'
<1>1. /\ pc = "after" /\ pc' = "top" /\ typed' = typed /\ given' = given /\ turnUser' = turnUser
  BY DEF Rewind, world
<1>2. PICK first \in {i \in CallsAt(msgs) : i > turnUser} :
             /\ msgs' = SubSeq(msgs, 1, LoopFrom(first) - 1) \o <<Assistant, Note>>
             /\ retryMsg' = IF retryMsg < LoopFrom(first) THEN retryMsg ELSE 0
  BY DEF Rewind
<1>3. /\ msgs \in Seq(Messages(typed)) /\ Whole(msgs)
      /\ UserOrNone(msgs, turnUser) /\ UserOrNone(msgs, retryMsg)
      /\ QuestionIn(msgs, turnUser, given)
  BY <1>1 DEF HistoryInv, TextInv, PlaceInv, TurnInv
<1>4. /\ Len(msgs) \in Nat /\ DOMAIN msgs = 1..Len(msgs)
  BY <1>3, CallsAreNumbers
<1>5. turnUser \in Nat /\ retryMsg \in Nat
  BY <1>3, <1>4 DEF UserOrNone
<1> DEFINE cut == LoopFrom(first)
           m == SubSeq(msgs, 1, cut - 1)
<1>6. cut \in DOMAIN msgs /\ cut > turnUser /\ msgs[cut].role # "tool"
  BY <1>2, <1>3, <1>5, LoopFromIs
<1> HIDE DEF cut
<1>7. /\ m \in Seq(Messages(typed)) /\ Whole(m) /\ Len(m) = cut - 1
      /\ \A i \in 1..(cut - 1) : m[i] = msgs[i]
  BY <1>3, <1>6, CutWhole
<1> HIDE DEF m
<1>8. DOMAIN m = 1..(cut - 1)
  BY <1>7, CallsAreNumbers
<1>9. ASSUME NEW q, UserOrNone(msgs, q), q < cut
      PROVE  UserOrNone(m, q) /\ (q # 0 => q \in 1..(cut - 1))
  <2>1. q \in 0..(cut - 1) /\ (q # 0 => q \in 1..(cut - 1))
    BY <1>4, <1>6, <1>9 DEF UserOrNone
  <2>2. QED
    BY <2>1, <1>7, <1>9 DEF UserOrNone
<1>10. UserOrNone(m, turnUser) /\ turnUser \in 1..(cut - 1)
  BY <1>3, <1>4, <1>5, <1>6, <1>9 DEF QuestionIn
<1>11. QuestionIn(m, turnUser, given)
  <2>1. \A i \in DOMAIN m : i > turnUser => m[i].says = {}
    <3>1. \A i \in DOMAIN m : i \in DOMAIN msgs /\ m[i] = msgs[i]
      BY <1>4, <1>6, <1>7, <1>8
    <3>2. QED
      BY <3>1, <1>3 DEF QuestionIn
  <2>2. QED
    BY <2>1, <1>3, <1>7, <1>10 DEF QuestionIn
<1>12. UserOrNone(m, retryMsg')
  <2>1. CASE retryMsg < cut
    BY <2>1, <1>2, <1>3, <1>9 DEF cut
  <2>2. CASE ~(retryMsg < cut)
    <3>1. retryMsg' = 0
      BY <2>2, <1>2 DEF cut
    <3>2. 0 \in 0..Len(m)
      BY <1>4, <1>6, <1>7
    <3>3. QED
      BY <3>1, <3>2 DEF UserOrNone
  <2>3. QED
    BY <2>1, <2>2
<1>13. Continues(m, msgs', typed)
  <2>1. Continues(m, m, typed) /\ Plain(<<Assistant, Note>>, typed)
    BY <1>7, ContinuesSame, PlainOnes
  <2>2. msgs' = m \o <<Assistant, Note>>
    BY <1>2 DEF m, cut
  <2>3. QED
    BY <2>1, <2>2, <1>7, ContinuesMore
<1>14. UserOrNone(msgs', turnUser) /\ UserOrNone(msgs', retryMsg') /\ QuestionIn(msgs', turnUser, given)
  BY <1>7, <1>10, <1>11, <1>12, <1>13, ContinuesKeeps
<1>15. msgs' \in Seq(Messages(typed)) /\ Whole(msgs')
  BY <1>13 DEF Continues
<1>16. QED
  BY <1>1, <1>14, <1>15 DEF HistoryInv, TextInv, PlaceInv, TurnInv

LEMMA AfterSteps ==
  ASSUME Bounds, HistoryInv, BatchEnds \/ GoOn
  PROVE  HistoryInv'
<1>1. pc = "after" /\ turnUser' = turnUser /\ given' = given /\ typed' = typed
  BY DEF BatchEnds, GoOn, Return, world
<1>2. msgs \in Seq(Messages(typed)) /\ Whole(msgs) /\ Continues(msgs, msgs, typed)
  BY <1>1, ContinuesSame DEF HistoryInv, TextInv
<1>3. CASE BatchEnds
  <2>1. msgs' = msgs /\ pc' = "idle" /\ retryMsg' = 0
    BY <1>3 DEF BatchEnds, Return
  <2>2. QED
    BY <2>1, <1>1, <1>2, PlainStep
<1>4. CASE GoOn
  <2>1. msgs' \in {msgs, Append(msgs, Note)} /\ pc' = "top" /\ retryMsg' = retryMsg
    BY <1>4 DEF GoOn, locals
  <2>2. Continues(msgs, msgs', typed)
    BY <2>1, <1>2, ContinuesAppend
  <2>3. QED
    BY <2>1, <2>2, <1>1, PlainStep
<1>5. QED
  BY <1>3, <1>4

\* The user types into a running turn, or presses Esc.
LEMMA UserAside ==
  ASSUME Scalars, HistoryInv, Steer \/ Esc \/ UNCHANGED vars
  PROVE  HistoryInv'
<1>1. /\ msgs' = msgs /\ turnUser' = turnUser /\ pc' = pc /\ retryMsg' = retryMsg
      /\ left' = left /\ given' = given
      /\ typed' = typed \/ typed' = typed + 1
  BY DEF Steer, Esc, vars, locals, world
<1>2. msgs' \in Seq(Messages(typed'))
  <2>1. msgs \in Seq(Messages(typed)) /\ typed \in Nat
    BY DEF HistoryInv, TextInv, Scalars
  <2>2. QED
    BY <2>1, <1>1, MoreMessages
<1>3. TextInv'
  BY <1>1, <1>2 DEF HistoryInv, TextInv
<1>4. PlaceInv' /\ TurnInv'
  BY <1>1 DEF HistoryInv, PlaceInv, TurnInv
<1>5. QED
  BY <1>3, <1>4 DEF HistoryInv

-----------------------------------------------------------------------------
(* The theorems *)

LEMMA HistoryStep ==
  ASSUME Bounds, Scalars, TextsKnown, HistoryInv, [Next]_vars
  PROVE  HistoryInv'
<1>1. CASE Interrupted \/ WrapUp \/ NextRound
  BY <1>1, TopSteps
<1>2. CASE Compact \/ SendShorter \/ CompactInterrupted \/ TooLongStill \/ CompactAtRest
  BY <1>2, CompactionSteps
<1>3. CASE Failed \/ TooLong \/ TryAgain \/ Overrun \/ TextAndNote \/ FinalText
  <2>1. pc = "request"
    BY <1>3 DEF Failed, TooLong, TryAgain, Overrun, TextAndNote, FinalText
  <2>2. QED
    BY <1>3, <2>1, RequestSteps
<1>4. CASE ToolCalls
  BY <1>4, ToolCallsStep
<1>5. CASE Empty
  BY <1>5, EmptyStep
<1>6. CASE EmptyAgain
  BY <1>6, EmptyAgainStep
<1>7. CASE RunCall
  BY <1>7, RunCallStep
<1>8. CASE BatchEnds \/ GoOn
  BY <1>8, AfterSteps
<1>9. CASE Rewind
  BY <1>9, RewindStep
<1>10. CASE Type \/ SendQueued \/ Retry
  BY <1>10, SendSteps
<1>11. CASE Steer \/ Esc \/ UNCHANGED vars
  BY <1>11, UserAside
<1>12. QED
  BY <1>1, <1>2, <1>3, <1>4, <1>5, <1>6, <1>7, <1>8, <1>9, <1>10, <1>11
     DEF Next, WorkerStep, UserStep

LEMMA InvInit ==
  ASSUME Bounds, Init
  PROVE  IInv
<1>1. Scalars /\ TextsKnown
  <2>1. cancel \in BOOLEAN /\ emptied \in BOOLEAN /\ overflowed \in BOOLEAN
    BY DEF Init
  <2>2. /\ typed \in 0..MaxMsgs /\ turns \in 0..MaxTurns /\ pc \in PCs
        /\ iteration \in 0..MaxRounds /\ resets \in 0..MaxResets
        /\ retries \in 0..MaxRetries /\ left \in 0..MaxCalls
    BY DEF Bounds, Init, PCs
  <2>3. pc = "idle" /\ left = 0 /\ steer = {} /\ given = {}
    BY DEF Init
  <2>4. QED
    BY <2>1, <2>2, <2>3 DEF Scalars, TextsKnown
<1>2. msgs = <<>> /\ Len(msgs) = 0 /\ DOMAIN msgs = {} /\ msgs \in Seq(Messages(typed))
  BY EmptySeq DEF Init
<1>3. Whole(msgs)
  BY <1>2 DEF Whole, CallsAt
<1>4. TextInv /\ PlaceInv /\ TurnInv
  BY <1>2, <1>3 DEF Init, TextInv, PlaceInv, TurnInv, UserOrNone
<1>5. QED
  BY <1>1, <1>4 DEF IInv

LEMMA InvStep ==
  ASSUME Bounds, IInv, [Next]_vars
  PROVE  IInv'
<1>1. Scalars /\ TextsKnown /\ HistoryInv /\ TextInv
  BY DEF IInv, HistoryInv
<1>2. Scalars' /\ TextsKnown'
  BY <1>1, ScalarsStep, TextsStep
<1>3. HistoryInv'
  BY <1>1, HistoryStep
<1>4. QED
  BY <1>2, <1>3 DEF IInv, HistoryInv

\* The inductive invariant of a conversation (_run_loop, harness.py).
THEOREM RunInvariant == Spec => []IInv
<1> USE NumericBounds
<1>1. Init => IInv
  BY InvInit
<1>2. IInv /\ [Next]_vars => IInv'
  BY InvStep
<1>3. QED
  BY <1>1, <1>2, PTL DEF Spec

\* Every reachable state is well typed: rounds, retries and rewinds stay within their caps.
THEOREM Typing == Spec => []TypeOK
<1> USE NumericBounds
<1>1. ASSUME IInv PROVE TypeOK
  <2>1. 1..typed \subseteq 1..MaxMsgs
    BY <1>1 DEF IInv, Scalars, Bounds
  <2>2. Messages(typed) \subseteq [role : Roles, says : SUBSET (1..MaxMsgs), calls : 0..MaxCalls]
    BY <2>1 DEF Messages
  <2>3. msgs \in Seq(Messages(typed))
    BY <1>1 DEF IInv, TextInv
  <2>4. msgs \in Seq([role : Roles, says : SUBSET (1..MaxMsgs), calls : 0..MaxCalls])
    BY <2>2, <2>3, SeqMonotonic
  <2>5. QED
    BY <1>1, <2>4 DEF IInv, Scalars, TextsKnown, PlaceInv, UserOrNone, TypeOK
<1>2. QED
  BY <1>1, RunInvariant, PTL

\* Calls and results stay paired, whatever is compacted, rewound, retried or
\* interrupted: what a server accepts (_compact, _break_loop, _run_loop).
THEOREM CallsArePaired == Spec => []Paired
<1> USE NumericBounds
<1>1. ASSUME IInv PROVE Paired
  <2>1. /\ msgs \in Seq(Messages(typed)) /\ left \in Nat
        /\ Len(msgs) \in Nat /\ DOMAIN msgs = 1..Len(msgs)
    BY <1>1, CallsAreNumbers DEF IInv, TextInv, Scalars
  <2>2. CASE pc # "batch"
    <3>1. Whole(msgs) /\ 0 \notin CallsAt(msgs)
      BY <1>1, <2>1, <2>2 DEF IInv, TextInv, CallsAt
    <3>2. QED
      BY <2>2, <3>1 DEF Paired, Whole
  <2>3. CASE pc = "batch"
    <3>1. PICK h \in DOMAIN msgs : OpenBatch(msgs, left, h)
      BY <1>1, <2>3 DEF IInv, TextInv
    <3> DEFINE done(i) == IF i = h THEN msgs[i].calls - left ELSE msgs[i].calls
    <3>2. /\ h \in CallsAt(msgs) /\ \A i \in CallsAt(msgs) : i <= h
          /\ msgs[h].calls \in Nat /\ h + (msgs[h].calls - left) = Len(msgs)
          /\ \A i \in CallsAt(msgs) \ {h} :
               /\ i + msgs[i].calls < h
               /\ \A k \in (i + 1)..(i + msgs[i].calls) : msgs[k].role = "tool"
          /\ \A k \in 1..(h - 1) : msgs[k].role = "tool" =>
               \E i \in CallsAt(msgs) \ {h} : k \in (i + 1)..(i + msgs[i].calls)
      BY <2>1, <3>1, BatchCalls
    <3>3. Newest(CallsAt(msgs)) = h
      <4>1. CallsAt(msgs) \in SUBSET (1..Len(msgs)) /\ CallsAt(msgs) # {}
        BY <2>1, <3>2 DEF CallsAt
      <4>2. Newest(CallsAt(msgs)) \in CallsAt(msgs) /\ \A j \in CallsAt(msgs) : j <= Newest(CallsAt(msgs))
        BY <2>1, <4>1, NewestIs
      <4>3. QED
        BY <2>1, <3>2, <4>1, <4>2
    <3>4. ASSUME NEW i \in CallsAt(msgs)
          PROVE  /\ i + done(i) <= Len(msgs)
                 /\ \A k \in (i + 1)..(i + done(i)) : msgs[k].role = "tool"
      <4>1. CASE i = h
        <5>1. i + done(i) = Len(msgs)
          BY <4>1, <3>2
        <5>2. \A k \in (h + 1)..Len(msgs) : msgs[k].role = "tool"
          BY <3>1 DEF OpenBatch
        <5>3. QED
          BY <4>1, <5>1, <5>2, <2>1
      <4>2. CASE i # h
        <5>1. i \in 1..Len(msgs) /\ h \in 1..Len(msgs) /\ msgs[i].calls \in Nat
          BY <2>1, <3>1, CallsAreNumbers DEF CallsAt
        <5>2. i + msgs[i].calls < h /\ \A k \in (i + 1)..(i + msgs[i].calls) : msgs[k].role = "tool"
          BY <4>2, <3>2
        <5>3. i + msgs[i].calls <= Len(msgs)
          BY <5>1, <5>2, <2>1
        <5>4. QED
          BY <4>2, <5>2, <5>3
      <4>3. QED
        BY <4>1, <4>2
    <3>5. ASSUME NEW k \in DOMAIN msgs, msgs[k].role = "tool"
          PROVE  \E i \in CallsAt(msgs) : k \in (i + 1)..(i + done(i))
      <4>1. k \in 1..Len(msgs) /\ h \in 1..Len(msgs) /\ msgs[h].role = "assistant"
        BY <2>1, <3>1, <3>2, CallsAreNumbers DEF CallsAt
      <4>2. CASE k < h
        <5>1. k \in 1..(h - 1)
          BY <4>1, <4>2
        <5>2. PICK i \in CallsAt(msgs) \ {h} : k \in (i + 1)..(i + msgs[i].calls)
          BY <5>1, <3>2, <3>5
        <5>3. done(i) = msgs[i].calls
          BY <5>2
        <5>4. QED
          BY <5>2, <5>3
      <4>3. CASE k > h
        <5>1. k \in (h + 1)..(h + done(h))
          BY <4>1, <4>3, <3>2
        <5>2. QED
          BY <5>1, <3>2
      <4>4. k # h
        BY <4>1, <3>5
      <4>5. QED
        BY <4>1, <4>2, <4>3, <4>4
    <3>6. QED
      BY <2>3, <3>3, <3>4, <3>5 DEF Paired
  <2>4. QED
    BY <2>2, <2>3
<1>2. QED
  BY <1>1, RunInvariant, PTL

\* The running turn's question stays where the loop looks for it (_turn_user).
THEOREM QuestionStays == Spec => []QuestionKept
<1> USE NumericBounds
<1>1. IInv => QuestionKept
  BY DEF IInv, TurnInv, QuestionIn, QuestionKept
<1>2. QED
  BY <1>1, RunInvariant, PTL

\* After Esc no further request is sent (the checks of _cancel in _run_loop).
THEOREM EscIsHeard == Spec => EscSendsNothing
<1>1. [Next]_vars => [cancel /\ pc # "request" => pc' # "request"]_vars
  <2> SUFFICES ASSUME Next, cancel, pc # "request" PROVE pc' # "request"
    OBVIOUS
  <2>1. CASE Interrupted \/ WrapUp \/ NextRound \/ Compact \/ CompactInterrupted
    BY <2>1 DEF Interrupted, WrapUp, NextRound, Compact, CompactInterrupted, Return
  <2>2. CASE TooLong \/ SendShorter \/ TooLongStill \/ TryAgain \/ Failed \/ Overrun
    BY <2>2 DEF TooLong, SendShorter, TooLongStill, TryAgain, Failed, Overrun, Return
  <2>3. CASE ToolCalls \/ TextAndNote \/ FinalText \/ Empty \/ EmptyAgain
    BY <2>3 DEF ToolCalls, TextAndNote, FinalText, Empty, EmptyAgain, Return
  <2>4. CASE RunCall \/ BatchEnds \/ GoOn \/ Rewind
    BY <2>4 DEF RunCall, BatchEnds, GoOn, Rewind, Return
  <2>5. CASE UserStep
    BY <2>5 DEF UserStep, Type, SendQueued, Retry, Send, CompactAtRest, Steer, Esc
  <2>6. QED
    BY <2>1, <2>2, <2>3, <2>4, <2>5 DEF Next, WorkerStep
<1>2. QED
  BY <1>1, PTL DEF Spec, EscSendsNothing

-----------------------------------------------------------------------------
(* What a step may never take away *)

LEMMA SaidKept ==
  ASSUME NEW m, NEW w, NEW D,
         \A i \in DOMAIN m \ D : \E k \in DOMAIN w : m[i].says \subseteq w[k].says
  PROVE  Said(m) \ Said(w) \subseteq UNION {m[i].says : i \in (DOMAIN m) \cap D}
<1> SUFFICES ASSUME NEW t \in Said(m), t \notin Said(w)
             PROVE  t \in UNION {m[i].says : i \in (DOMAIN m) \cap D}
  OBVIOUS
<1>1. PICK i \in DOMAIN m : t \in m[i].says
  BY DEF Said
<1>2. i \in D
  <2>1. SUFFICES ASSUME i \notin D PROVE FALSE
    OBVIOUS
  <2>2. PICK k \in DOMAIN w : m[i].says \subseteq w[k].says
    BY <2>1
  <2>3. t \in Said(w)
    BY <1>1, <2>2 DEF Said
  <2>4. QED
    BY <2>3
<1>3. QED
  BY <1>1, <1>2

LEMMA ContinuesSaid ==
  ASSUME NEW n, NEW m \in Seq(Messages(n)), NEW w, Continues(m, w, n)
  PROVE  Said(m) \ Said(w) = {}
<1>1. \A i \in DOMAIN m \ {} : i \in DOMAIN w /\ m[i].says \subseteq w[i].says
  <2>1. /\ w \in Seq(Messages(n)) /\ Len(m) <= Len(w)
        /\ \A i \in DOMAIN m : w[i] = m[i]
    BY DEF Continues
  <2>2. /\ Len(m) \in Nat /\ DOMAIN m = 1..Len(m)
        /\ Len(w) \in Nat /\ DOMAIN w = 1..Len(w)
    BY <2>1, CallsAreNumbers
  <2>3. QED
    BY <2>1, <2>2
<1>2. Said(m) \ Said(w) \subseteq UNION {m[i].says : i \in (DOMAIN m) \cap {}}
  BY <1>1, SaidKept
<1>3. QED
  BY <1>2

LEMMA RequestSaid ==
  ASSUME Bounds, HistoryInv, pc = "request",
         \/ Overrun \/ TextAndNote \/ FinalText \/ Empty \/ ToolCalls
  PROVE  Said(msgs) \ Said(msgs') = {}
<1>1. msgs \in Seq(Messages(typed)) /\ Whole(msgs) /\ Continues(msgs, msgs, typed)
  BY ContinuesSame DEF HistoryInv, TextInv
<1>2. CASE Overrun
  <2>1. PICK thought \in {<<>>, <<Msg("thinking")>>}, bridge \in {<<>>, <<Assistant>>} :
               msgs' = msgs \o thought \o bridge \o <<Note>>
    BY <1>2 DEF Overrun
  <2>2. Plain(thought, typed) /\ Plain(bridge, typed) /\ Plain(<<Note>>, typed)
    BY PlainOnes
  <2>3. Continues(msgs, msgs \o thought, typed)
    BY <1>1, <2>2, ContinuesMore
  <2>4. Continues(msgs, msgs \o thought \o bridge, typed)
    BY <1>1, <2>2, <2>3, ContinuesMore
  <2>5. Continues(msgs, msgs', typed)
    BY <1>1, <2>1, <2>2, <2>4, ContinuesMore
  <2>6. QED
    BY <1>1, <2>5, ContinuesSaid
<1>3. CASE TextAndNote
  <2>1. PICK m \in Replied : msgs' = m \o <<Assistant, Note>>
    BY <1>3 DEF TextAndNote
  <2>2. Continues(msgs, m, typed) /\ Plain(<<Assistant, Note>>, typed)
    BY RepliedContinues, PlainOnes
  <2>3. Continues(msgs, msgs', typed)
    BY <1>1, <2>1, <2>2, ContinuesMore
  <2>4. QED
    BY <1>1, <2>3, ContinuesSaid
<1>4. CASE FinalText
  <2>1. PICK m \in Replied : msgs' = Append(m, Assistant)
    BY <1>4 DEF FinalText
  <2>2. Continues(msgs, msgs', typed)
    BY <1>1, <2>1, RepliedContinues, ContinuesAppend
  <2>3. QED
    BY <1>1, <2>2, ContinuesSaid
<1>5. CASE Empty
  <2>1. PICK m \in Replied : \/ msgs' = m
                             \/ msgs' = Append(Bridge(m), Note)
    BY <1>5 DEF Empty
  <2>2. Continues(msgs, m, typed)
    BY RepliedContinues
  <2>3. Bridge(m) \in {m, Append(m, Assistant)}
    BY DEF Bridge
  <2>4. Continues(msgs, Bridge(m), typed)
    BY <1>1, <2>2, <2>3, ContinuesAppend
  <2>5. Continues(msgs, Append(Bridge(m), Note), typed)
    BY <1>1, <2>4, ContinuesAppend
  <2>6. QED
    BY <1>1, <2>1, <2>2, <2>5, ContinuesSaid
<1>6. CASE ToolCalls
  <2>1. PICK m \in Replied, k \in 1..MaxCalls : msgs' = Append(m, Calls(k))
    BY <1>6 DEF ToolCalls
  <2>2. Continues(msgs, m, typed)
    BY RepliedContinues
  <2>3. Said(msgs) \subseteq Said(m)
    BY <1>1, <2>2, ContinuesSaid
  <2>4. m \in Seq(Messages(typed)) /\ Whole(m)
    BY <2>2 DEF Continues
  <2>5. /\ msgs' \in Seq(Messages(typed)) /\ Len(msgs') = Len(m) + 1
        /\ \A i \in DOMAIN m : msgs'[i] = m[i]
    BY <2>1, <2>4, BatchOpens
  <2>6. \A i \in DOMAIN m \ {} : \E j \in DOMAIN msgs' : m[i].says \subseteq msgs'[j].says
    <3>1. /\ Len(m) \in Nat /\ DOMAIN m = 1..Len(m) /\ DOMAIN msgs' = 1..Len(msgs')
      BY <2>4, <2>5, CallsAreNumbers
    <3>2. \A i \in DOMAIN m : i \in DOMAIN msgs'
      BY <2>5, <3>1
    <3>3. QED
      BY <2>5, <3>2
  <2>7. Said(m) \ Said(msgs') \subseteq UNION {m[i].says : i \in (DOMAIN m) \cap {}}
    BY <2>6, SaidKept
  <2>8. QED
    BY <2>3, <2>7
<1>7. QED
  BY <1>2, <1>3, <1>4, <1>5, <1>6

LEMMA AskingSaid ==
  ASSUME Bounds, NEW n, NEW m \in Seq(Messages(n)), Whole(m), NEW said \in SUBSET (1..n)
  PROVE  Said(m) \ Said(AppendUser(m, said)) = {}
<1> DEFINE w == AppendUser(m, said)
<1>1. AskedIn(m, w, said, n)
  BY AppendUserIs
<1> HIDE DEF w
<1>2. /\ Len(m) \in Nat /\ DOMAIN m = 1..Len(m) /\ Len(m) <= Len(w)
      /\ Len(w) \in Nat /\ DOMAIN w = 1..Len(w)
      /\ \A i \in DOMAIN m : m[i].says \subseteq w[i].says
  <2>1. w \in Seq(Messages(n))
    BY <1>1 DEF AskedIn
  <2>2. QED
    BY <1>1, <2>1, CallsAreNumbers DEF AskedIn
<1>3. \A i \in DOMAIN m \ {} : i \in DOMAIN w /\ m[i].says \subseteq w[i].says
  BY <1>2
<1>4. Said(m) \ Said(w) \subseteq UNION {m[i].says : i \in (DOMAIN m) \cap {}}
  BY <1>3, SaidKept
<1>5. QED
  BY <1>4 DEF w

LEMMA EmptyAgainSaid ==
  ASSUME Bounds, HistoryInv, EmptyAgain
  PROVE  Said(msgs) \ Said(msgs') \subseteq InPrompt
<1> DEFINE prompt == {retryMsg} \ {0}
           w == Without(msgs, prompt)
<1>1. msgs \in Seq(Messages(typed)) /\ UserOrNone(msgs, retryMsg) /\ pc = "request" /\ emptied
  BY DEF HistoryInv, TextInv, PlaceInv, EmptyAgain
<1>2. Len(msgs) \in Nat /\ DOMAIN msgs = 1..Len(msgs)
  BY <1>1, CallsAreNumbers
<1>3. prompt \in SUBSET (DOMAIN msgs)
  BY <1>1, <1>2 DEF UserOrNone
<1>4. PICK rest \in EmptyTails : msgs' = w \o rest
  BY DEF EmptyAgain
<1>5. /\ w \in Seq(Messages(typed))
      /\ \A k \in DOMAIN msgs \ prompt : /\ Moved(k, prompt) \in 1..Len(w)
                                         /\ w[Moved(k, prompt)] = msgs[k]
  <2> HIDE DEF prompt
  <2>1. QED
    BY <1>1, <1>3, WithoutIs
<1> HIDE DEF w
<1>6. rest \in Seq(Messages(typed))
  BY PlainOnes DEF EmptyTails, Plain
<1>7. /\ Len(w) \in Nat /\ Len(rest) \in Nat /\ Len(msgs') = Len(w) + Len(rest)
      /\ DOMAIN msgs' = 1..Len(msgs')
      /\ \A i \in 1..Len(w) : msgs'[i] = w[i]
  <2>1. /\ w \o rest \in Seq(Messages(typed)) /\ Len(w \o rest) = Len(w) + Len(rest)
        /\ \A i \in 1..(Len(w) + Len(rest)) :
             (w \o rest)[i] = IF i <= Len(w) THEN w[i] ELSE rest[i - Len(w)]
    BY <1>5, <1>6, ConcatProperties
  <2>2. Len(w) \in Nat /\ Len(rest) \in Nat /\ DOMAIN (w \o rest) = 1..Len(w \o rest)
    BY <2>1, <1>5, <1>6, CallsAreNumbers
  <2>3. \A i \in 1..Len(w) : i \in 1..(Len(w) + Len(rest)) /\ i <= Len(w)
    BY <2>2
  <2>4. QED
    BY <1>4, <2>1, <2>2, <2>3
<1>8. \A i \in DOMAIN msgs \ prompt : \E j \in DOMAIN msgs' : msgs[i].says \subseteq msgs'[j].says
  <2> TAKE i \in DOMAIN msgs \ prompt
  <2>1. Moved(i, prompt) \in 1..Len(w) /\ w[Moved(i, prompt)] = msgs[i]
    BY <1>5
  <2>2. Moved(i, prompt) \in DOMAIN msgs' /\ msgs'[Moved(i, prompt)] = msgs[i]
    BY <2>1, <1>7
  <2>3. QED
    BY <2>2
<1>9. Said(msgs) \ Said(msgs') \subseteq UNION {msgs[i].says : i \in (DOMAIN msgs) \cap prompt}
  <2> HIDE DEF prompt
  <2>1. QED
    BY <1>8, SaidKept
<1>10. QED
  BY <1>1, <1>9 DEF InPrompt

LEMMA RewindSaid ==
  ASSUME Bounds, HistoryInv, Rewind
  PROVE  Said(msgs) \ Said(msgs') = {}
<1>1. pc = "after"
  BY DEF Rewind
<1>2. PICK first \in {i \in CallsAt(msgs) : i > turnUser} :
             msgs' = SubSeq(msgs, 1, LoopFrom(first) - 1) \o <<Assistant, Note>>
  BY DEF Rewind
<1>3. /\ msgs \in Seq(Messages(typed)) /\ Whole(msgs) /\ UserOrNone(msgs, turnUser)
      /\ \A i \in DOMAIN msgs : i > turnUser => msgs[i].says = {}
  BY <1>1 DEF HistoryInv, TextInv, PlaceInv, TurnInv, QuestionIn
<1>4. Len(msgs) \in Nat /\ DOMAIN msgs = 1..Len(msgs) /\ turnUser \in Nat
  <2>1. Len(msgs) \in Nat /\ DOMAIN msgs = 1..Len(msgs)
    BY <1>3, CallsAreNumbers
  <2>2. QED
    BY <2>1, <1>3 DEF UserOrNone
<1> DEFINE cut == LoopFrom(first)
           m == SubSeq(msgs, 1, cut - 1)
<1>5. cut \in DOMAIN msgs /\ cut > turnUser /\ msgs[cut].role # "tool"
  BY <1>2, <1>3, <1>4, LoopFromIs
<1> HIDE DEF cut
<1>6. /\ m \in Seq(Messages(typed)) /\ Whole(m) /\ Len(m) = cut - 1
      /\ \A i \in 1..(cut - 1) : m[i] = msgs[i]
  BY <1>3, <1>5, CutWhole
<1>7. msgs' = m \o <<Assistant, Note>>
  BY <1>2 DEF cut
<1> HIDE DEF m
<1>8. Said(m) \ Said(msgs') = {}
  <2>1. Continues(m, m, typed) /\ Plain(<<Assistant, Note>>, typed)
    BY <1>6, ContinuesSame, PlainOnes
  <2>2. Continues(m, msgs', typed)
    BY <2>1, <1>6, <1>7, ContinuesMore
  <2>3. QED
    BY <2>2, <1>6, ContinuesSaid
<1>9. Said(msgs) \subseteq Said(m)
  <2> SUFFICES ASSUME NEW i \in DOMAIN msgs, NEW t \in msgs[i].says PROVE t \in Said(m)
    BY DEF Said
  <2>1. ~(i > turnUser)
    BY <1>3
  <2>2. i \in 1..(cut - 1)
    BY <2>1, <1>4, <1>5
  <2>3. i \in DOMAIN m /\ t \in m[i].says
    <3>1. DOMAIN m = 1..(cut - 1)
      BY <1>6, CallsAreNumbers
    <3>2. QED
      BY <3>1, <2>2, <1>6
  <2>4. QED
    BY <2>3 DEF Said
<1>10. QED
  BY <1>8, <1>9

LEMMA RunCallSaid ==
  ASSUME Bounds, Scalars, HistoryInv, RunCall
  PROVE  Said(msgs) \ Said(msgs') = {}
<1>1. msgs \in Seq(Messages(typed)) /\ msgs' = Append(msgs, Msg("tool"))
  BY DEF HistoryInv, TextInv, RunCall
<1>2. Msg("tool") \in Messages(typed)
  BY SomeMessages DEF Roles
<1>3. /\ msgs' \in Seq(Messages(typed)) /\ Len(msgs') = Len(msgs) + 1
      /\ \A i \in 1..Len(msgs) : msgs'[i] = msgs[i]
  BY <1>1, <1>2, AppendProperties
<1>4. /\ Len(msgs) \in Nat /\ DOMAIN msgs = 1..Len(msgs) /\ DOMAIN msgs' = 1..Len(msgs')
  BY <1>1, <1>3, CallsAreNumbers
<1>5. \A i \in DOMAIN msgs \ {} : i \in DOMAIN msgs' /\ msgs[i].says \subseteq msgs'[i].says
  BY <1>3, <1>4
<1>6. Said(msgs) \ Said(msgs') \subseteq UNION {msgs[i].says : i \in (DOMAIN msgs) \cap {}}
  BY <1>5, SaidKept
<1>7. QED
  BY <1>6

\* Outside compaction and Retry nothing the user typed leaves the history, but for
\* a text merged into the prompt that answered an empty reply (_run_loop).
THEOREM TypedStays == Spec => TypedKept
<1> USE NumericBounds
<1> DEFINE A == (pc \in {"top", "request", "batch", "after"}) =>
                  Said(msgs) \ Said(msgs') \subseteq InPrompt
<1>1. IInv /\ [Next]_vars => [A]_vars
  <2> SUFFICES ASSUME IInv, Next, pc \in {"top", "request", "batch", "after"}
               PROVE  Said(msgs) \ Said(msgs') \subseteq InPrompt
    OBVIOUS
  <2>1. Scalars /\ TextsKnown /\ HistoryInv /\ msgs \in Seq(Messages(typed))
    BY DEF IInv, HistoryInv, TextInv
  <2>2. CASE msgs' = msgs
    BY <2>2
  <2>3. CASE Interrupted \/ TooLong \/ TryAgain \/ Failed \/ BatchEnds \/ Steer \/ Esc
    BY <2>2, <2>3 DEF Interrupted, TooLong, TryAgain, Failed, BatchEnds, Steer, Esc
  <2>4. CASE Type \/ SendQueued \/ Retry \/ CompactAtRest
    BY <2>4 DEF Type, SendQueued, Retry, Send, CompactAtRest
  <2>5. CASE Compact \/ SendShorter \/ CompactInterrupted \/ TooLongStill
    BY <2>5 DEF Compact, SendShorter, CompactInterrupted, TooLongStill
  <2>6. CASE Overrun \/ TextAndNote \/ FinalText \/ Empty \/ ToolCalls
    <3>1. pc = "request"
      BY <2>6 DEF Overrun, TextAndNote, FinalText, Empty, ToolCalls
    <3>2. Said(msgs) \ Said(msgs') = {}
      BY <2>1, <2>6, <3>1, RequestSaid
    <3>3. QED
      BY <3>2
  <2>7. CASE EmptyAgain
    BY <2>1, <2>7, EmptyAgainSaid
  <2>8. CASE RunCall
    <3>1. Said(msgs) \ Said(msgs') = {}
      BY <2>1, <2>8, RunCallSaid
    <3>2. QED
      BY <3>1
  <2>9. CASE Rewind
    <3>1. Said(msgs) \ Said(msgs') = {}
      BY <2>1, <2>9, RewindSaid
    <3>2. QED
      BY <3>1
  <2>10. CASE WrapUp \/ GoOn
    <3>1. /\ pc # "batch" /\ msgs' \in {msgs, Append(msgs, Assistant), Append(msgs, Note)}
      BY <2>10 DEF WrapUp, GoOn
    <3>2. Continues(msgs, msgs, typed)
      BY <2>1, <3>1, ContinuesSame DEF HistoryInv, TextInv
    <3>3. Continues(msgs, msgs', typed)
      BY <2>1, <3>1, <3>2, ContinuesAppend
    <3>4. Said(msgs) \ Said(msgs') = {}
      BY <2>1, <3>3, ContinuesSaid
    <3>5. QED
      BY <3>4
  <2>11. CASE NextRound
    <3>1. pc # "batch" /\ (msgs' = msgs \/ msgs' = AppendUser(msgs, steer)) /\ steer \in SUBSET (1..typed)
      BY <2>1, <2>11 DEF NextRound, Ask, TextsKnown
    <3>2. Whole(msgs)
      BY <2>1, <3>1 DEF HistoryInv, TextInv
    <3>3. CASE msgs' = AppendUser(msgs, steer)
      <4>1. Said(msgs) \ Said(msgs') = {}
        BY <2>1, <3>1, <3>2, <3>3, AskingSaid
      <4>2. QED
        BY <4>1
    <3>4. QED
      BY <2>2, <3>1, <3>3
  <2>12. QED
    BY <2>3, <2>4, <2>5, <2>6, <2>7, <2>8, <2>9, <2>10, <2>11 DEF Next, WorkerStep, UserStep
<1>2. QED
  BY <1>1, RunInvariant, PTL DEF Spec, TypedKept

-----------------------------------------------------------------------------
(* What a compaction leaves *)

\* The first message that stays is the first one of what is left.
LEMMA FirstStays ==
  ASSUME NEW n, NEW m \in Seq(Messages(n)), NEW D \in SUBSET (DOMAIN m),
         NEW c \in DOMAIN m \ D, 1..(c - 1) \subseteq D
  PROVE  Without(m, D)[1] = m[c]
<1> DEFINE w == Without(m, D)
<1>1. Len(m) \in Nat /\ DOMAIN m = 1..Len(m) /\ D \in SUBSET (1..Len(m))
  BY CallsAreNumbers
<1>2. /\ w \in Seq(Messages(n))
      /\ \A k \in DOMAIN m \ D : Moved(k, D) \in 1..Len(w)
      /\ \A p \in 1..Len(w) : \E k \in DOMAIN m \ D : Moved(k, D) = p /\ w[p] = m[k]
  BY WithoutIs
<1> HIDE DEF w
<1>3. Len(w) \in Nat /\ Moved(c, D) \in 1..Len(w)
  BY <1>2, CallsAreNumbers
<1>4. PICK k \in DOMAIN m \ D : Moved(k, D) = 1 /\ w[1] = m[k]
  <2>1. 1 \in 1..Len(w)
    BY <1>3
  <2>2. QED
    BY <1>2, <2>1
<1>5. ~(k < c)
  <2>1. k < c => k \in 1..(c - 1)
    BY <1>1
  <2>2. QED
    BY <2>1
<1>6. ~(c < k)
  <2>1. c < k => Moved(c, D) < Moved(k, D)
    BY <1>1, MovedOrder
  <2>2. QED
    BY <2>1, <1>3, <1>4
<1>7. k = c
  BY <1>1, <1>5, <1>6
<1>8. QED
  BY <1>4, <1>7 DEF w

LEMMA AskingFirst ==
  ASSUME Bounds, NEW n, NEW m \in Seq(Messages(n)), Whole(m), NEW said \in SUBSET (1..n),
         m # <<>> => m[1].role = "user"
  PROVE  AppendUser(m, said)[1].role = "user"
<1>1. Len(m) \in Nat /\ DOMAIN m = 1..Len(m)
  BY CallsAreNumbers
<1>2. CASE m # <<>>
  <2>1. 1 \in DOMAIN m
    BY <1>1, <1>2, EmptySeq
  <2>2. AskedIn(m, AppendUser(m, said), said, n)
    BY AppendUserIs
  <2>3. QED
    BY <1>2, <2>1, <2>2 DEF AskedIn
<1>3. CASE m = <<>>
  <2>1. AppendUser(m, said) = <<User(said)>>
    <3>1. LastRole(m) = "system" /\ Bridge(m) = m
      BY <1>3 DEF LastRole, Bridge
    <3>2. Append(m, User(said)) = <<User(said)>>
      BY <1>3
    <3>3. QED
      BY <3>1, <3>2 DEF AppendUser
  <2>2. User(said).role = "user"
    BY SomeMessages
  <2>3. QED
    BY <2>1, <2>2
<1>4. QED
  BY <1>2, <1>3

LEMMA DroppingFirst ==
  ASSUME NEW n, AtRest(n), msgs # <<>>, msgs[1].role = "user", NEW D \in Drops \cup {{}}
  PROVE  Without(msgs, D)[1].role = "user"
<1>1. /\ msgs \in Seq(Messages(n)) /\ Len(msgs) \in Nat /\ DOMAIN msgs = 1..Len(msgs)
  BY CallsAreNumbers DEF AtRest
<1>2. PICK c \in DOMAIN msgs \ D : 1..(c - 1) \subseteq D /\ msgs[c].role = "user"
  <2>1. CASE D \in Drops
    BY <2>1, DropsSpare
  <2>2. CASE D = {}
    <3>1. 1 \in DOMAIN msgs
      BY <1>1, EmptySeq
    <3>2. 1..(1 - 1) \subseteq D
      OBVIOUS
    <3>3. QED
      BY <2>2, <3>1, <3>2
  <2>3. QED
    BY <2>1, <2>2
<1>3. D \in SUBSET (DOMAIN msgs)
  BY DropsSpare
<1>4. Without(msgs, D)[1] = msgs[c]
  BY <1>1, <1>2, <1>3, FirstStays
<1>5. QED
  BY <1>2, <1>4

\* Retry of the first message, or of a later one.
LEMMA RetryFirst ==
  ASSUME Bounds, TextsKnown, HistoryInv, Retry, typed \in Nat, msgs # <<>>, msgs[1].role = "user"
  PROVE  msgs'[1].role = "user"
<1> DEFINE m == SubSeq(msgs, 1, LastUser - 1)
           said == msgs[LastUser].says
<1>1. /\ msgs \in Seq(Messages(typed)) /\ Whole(msgs)
      /\ UserAt(msgs) # {} /\ msgs' = AppendUser(m, said)
  BY DEF HistoryInv, TextInv, Retry, Send, Ask
<1>2. /\ LastUser \in DOMAIN msgs /\ msgs[LastUser].role = "user"
  BY <1>1, LastUserIs
<1>3. said \in SUBSET (1..typed)
  BY <1>1, <1>2 DEF Messages
<1>4. /\ m \in Seq(Messages(typed)) /\ Whole(m) /\ Len(m) = LastUser - 1
      /\ \A i \in 1..(LastUser - 1) : m[i] = msgs[i]
  BY <1>1, <1>2, CutWhole
<1> HIDE DEF m, said
<1>5. m # <<>> => m[1].role = "user"
  <2>1. Len(m) \in Nat /\ (m # <<>> => Len(m) # 0)
    BY <1>4, CallsAreNumbers, EmptySeq
  <2>2. m # <<>> => 1 \in 1..(LastUser - 1)
    BY <2>1, <1>4
  <2>3. QED
    BY <2>2, <1>4
<1>6. QED
  BY <1>1, <1>3, <1>4, <1>5, AskingFirst

\* What a compaction, a retry or a new message leaves still starts with a user
\* message, as chat templates require (_compact, truncate_at_last_user).
THEOREM FirstIsUser == Spec => StartsWithUser
<1> USE NumericBounds
<1> DEFINE A == (pc \in {"idle", "compact", "overflow"}) /\ msgs # <<>> /\ msgs[1].role = "user"
                  => msgs'[1].role = "user"
<1>1. IInv /\ [Next]_vars => [A]_vars
  <2> SUFFICES ASSUME IInv, Next, pc \in {"idle", "compact", "overflow"},
                      msgs # <<>>, msgs[1].role = "user"
               PROVE  msgs'[1].role = "user"
    OBVIOUS
  <2>1. Scalars /\ TextsKnown /\ HistoryInv
    BY DEF IInv, HistoryInv
  <2>2. AtRest(typed)
    BY <2>1, HistoryAtRest
  <2>3. CASE Compact \/ SendShorter \/ CompactInterrupted \/ TooLongStill \/ CompactAtRest
    <3>1. PICK D \in Drops \cup {{}} : msgs' = Without(msgs, D)
      BY <2>3 DEF Compact, SendShorter, CompactInterrupted, TooLongStill, CompactAtRest, DropAt
    <3>2. QED
      BY <2>2, <3>1, DroppingFirst
  <2>4. CASE Type \/ SendQueued
    <3>1. PICK said : msgs' = AppendUser(msgs, said) /\ said \in SUBSET (1..typed') /\ typed' \in {typed, typed + 1}
      <4>1. CASE Type
        BY <4>1, <2>1 DEF Type, Send, Ask, Scalars
      <4>2. CASE SendQueued
        BY <4>2, <2>1 DEF SendQueued, Send, Ask, TextsKnown
      <4>3. QED
        BY <2>4, <4>1, <4>2
    <3>2. msgs \in Seq(Messages(typed')) /\ Whole(msgs)
      <4>1. msgs \in Seq(Messages(typed)) /\ Whole(msgs) /\ typed \in Nat
        BY <2>1, <2>2 DEF AtRest, Scalars
      <4>2. QED
        BY <4>1, <3>1, MoreMessages
    <3>3. QED
      BY <3>1, <3>2, AskingFirst
  <2>5. CASE Retry
    BY <2>1, <2>5, RetryFirst DEF Scalars
  <2>6. CASE Steer \/ Esc
    BY <2>6 DEF Steer, Esc
  <2>7. CASE \/ Interrupted \/ WrapUp \/ NextRound \/ TooLong \/ TryAgain \/ Failed \/ Overrun
             \/ ToolCalls \/ TextAndNote \/ FinalText \/ Empty \/ EmptyAgain
             \/ RunCall \/ BatchEnds \/ GoOn \/ Rewind
    BY <2>7 DEF Interrupted, WrapUp, NextRound, TooLong, TryAgain, Failed, Overrun, ToolCalls,
                TextAndNote, FinalText, Empty, EmptyAgain, RunCall, BatchEnds, GoOn, Rewind
  <2>8. QED
    BY <2>3, <2>4, <2>5, <2>6, <2>7 DEF Next, WorkerStep, UserStep
<1>2. QED
  BY <1>1, RunInvariant, PTL DEF Spec, StartsWithUser

LEMMA SuffixIs ==
  ASSUME NEW X, NEW s \in Seq(X), NEW t \in Seq(X), Len(s) <= Len(t),
         \A i \in 1..Len(s) : s[i] = t[(Len(t) - Len(s)) + i]
  PROVE  IsSuffix(s, t)
<1>1. /\ Len(s) \in Nat /\ DOMAIN s = 1..Len(s) /\ Len(t) \in Nat /\ DOMAIN t = 1..Len(t)
  BY LenProperties
<1> DEFINE rs == Reverse(s)
           rt == Reverse(t)
<1>2. /\ Len(rs) = Len(s) /\ Len(rt) = Len(t) /\ rs \in Seq(X) /\ rt \in Seq(X)
      /\ \A i \in 1..Len(s) : rs[i] = s[(Len(s) - i) + 1]
      /\ \A i \in 1..Len(t) : rt[i] = t[(Len(t) - i) + 1]
  BY <1>1 DEF Reverse
<1> HIDE DEF rs, rt
<1>3. \A i \in 1..Len(s) : rs[i] = rt[i]
  <2> TAKE i \in 1..Len(s)
  <2>1. (Len(s) - i) + 1 \in 1..Len(s) /\ i \in 1..Len(t)
    BY <1>1
  <2>2. (Len(t) - Len(s)) + ((Len(s) - i) + 1) = (Len(t) - i) + 1
    BY <1>1
  <2>3. QED
    BY <1>2, <2>1, <2>2
<1>4. SubSeq(rs, 1, Len(rs)) = SubSeq(rt, 1, Len(rs))
  <2>1. 1 \in 1..(Len(rs) + 1) /\ Len(rs) \in 0..Len(rs) /\ Len(rs) \in 0..Len(rt)
    BY <1>1, <1>2
  <2>2. SubSeq(rs, 1, Len(rs)) = [i \in 1..Len(s) |-> rs[i]]
    BY <1>1, <1>2
  <2>3. SubSeq(rt, 1, Len(rs)) = [i \in 1..Len(s) |-> rt[i]]
    BY <1>1, <1>2
  <2>4. QED
    BY <1>3, <2>2, <2>3
<1>5. QED
  BY <1>2, <1>4 DEF IsSuffix, IsPrefix, rs, rt

\* What is from the latest tool group on, and only moved, ends the history still.
LEMMA LatestEnds ==
  ASSUME NEW n, AtRest(n), turnUser # 0, NEW w \in Seq(Messages(n)), NEW C \in Nat,
         Len(w) = Len(msgs) - C,
         \A i \in DOMAIN msgs : i >= LatestGroup => i - C \in 1..Len(w) /\ w[i - C] = msgs[i]
  PROVE  IsSuffix(InFlight, w)
<1> DEFINE groups == {i \in CallsAt(msgs) : i > turnUser}
           L == LatestGroup
           s == SubSeq(msgs, L, Len(msgs))
<1>1. /\ msgs \in Seq(Messages(n)) /\ Len(msgs) \in Nat /\ DOMAIN msgs = 1..Len(msgs)
      /\ Len(w) \in Nat
  BY CallsAreNumbers DEF AtRest
<1>2. Anchor = turnUser
  BY AnchorIs
<1>3. CASE groups = {}
  <2> DEFINE e == <<>>
  <2>1. InFlight = e /\ e \in Seq(Messages(n)) /\ Len(e) = 0
    BY <1>3, EmptySeq DEF InFlight
  <2> HIDE DEF e
  <2>2. Len(e) <= Len(w) /\ \A i \in 1..Len(e) : e[i] = w[(Len(w) - Len(e)) + i]
    BY <1>1, <2>1
  <2>3. IsSuffix(e, w)
    BY <2>1, <2>2, SuffixIs
  <2>4. QED
    BY <2>1, <2>3
<1>4. CASE groups # {}
  <2>1. InFlight = s /\ L \in DOMAIN msgs
    <3>1. L = Newest(groups)
      BY <1>2, <1>4, LatestIs
    <3>2. L \in groups
      <4>1. groups \in SUBSET (1..Len(msgs))
        BY <1>1 DEF CallsAt
      <4>2. QED
        BY <3>1, <4>1, <1>1, <1>4, NewestIs
    <3>3. QED
      BY <1>4, <3>1, <3>2 DEF InFlight, CallsAt
  <2> HIDE DEF L
  <2>2. /\ s \in Seq(Messages(n)) /\ Len(s) = (Len(msgs) - L) + 1
        /\ \A i \in 1..((Len(msgs) - L) + 1) : s[i] = msgs[(L + i) - 1]
    BY <1>1, <2>1, SubSeqProperties
  <2> HIDE DEF s
  <2>3. L - C \in 1..Len(w)
    BY <2>1, <1>1 DEF L
  <2>4. Len(s) <= Len(w)
    <3>1. L \in Int /\ 1 <= L - C /\ Len(w) = Len(msgs) - C
      BY <1>1, <2>1, <2>3
    <3>2. QED
      BY <1>1, <2>2, <3>1
  <2>5. \A i \in 1..Len(s) : s[i] = w[(Len(w) - Len(s)) + i]
    <3> TAKE i \in 1..Len(s)
    <3>1. /\ (L + i) - 1 \in DOMAIN msgs /\ (L + i) - 1 >= L
          /\ (Len(w) - Len(s)) + i = ((L + i) - 1) - C
      <4>1. /\ L \in Int /\ 1 <= L /\ L <= Len(msgs) /\ i \in Int /\ 1 <= i
            /\ i <= (Len(msgs) - L) + 1 /\ Len(msgs) \in Int
        BY <1>1, <2>1, <2>2
      <4>2. (L + i) - 1 \in DOMAIN msgs /\ (L + i) - 1 >= L
        BY <1>1, <4>1
      <4>3. (Len(w) - Len(s)) + i = ((L + i) - 1) - C
        BY <2>2, <4>1
      <4>4. QED
        BY <4>2, <4>3
    <3>2. w[((L + i) - 1) - C] = msgs[(L + i) - 1]
      BY <3>1 DEF L
    <3>3. QED
      BY <2>2, <3>1, <3>2
  <2>6. QED
    BY <2>1, <2>2, <2>4, <2>5, SuffixIs
<1>5. QED
  BY <1>3, <1>4

LEMMA SameEnds ==
  ASSUME NEW n, AtRest(n), turnUser # 0, NEW w, w = msgs
  PROVE  IsSuffix(InFlight, w)
<1>1. /\ msgs \in Seq(Messages(n)) /\ Len(msgs) \in Nat /\ DOMAIN msgs = 1..Len(msgs)
  BY CallsAreNumbers DEF AtRest
<1>2. PICK C \in Nat : C = 0
  OBVIOUS
<1>3. Len(w) = Len(msgs) - C
  BY <1>1, <1>2
<1>4. \A i \in DOMAIN msgs : i - C \in 1..Len(w) /\ w[i - C] = msgs[i]
  BY <1>1, <1>2
<1>5. w \in Seq(Messages(n))
  BY <1>1
<1>6. QED
  BY ONLY AtRest(n), turnUser # 0, C \in Nat, <1>3, <1>4, <1>5, LatestEnds

LEMMA DroppingEnds ==
  ASSUME NEW n, AtRest(n), turnUser # 0, NEW D \in Drops \cup {{}}
  PROVE  IsSuffix(InFlight, Without(msgs, D))
<1> DEFINE w == Without(msgs, D)
           C == Cardinality(D)
<1>1. /\ msgs \in Seq(Messages(n)) /\ Len(msgs) \in Nat /\ DOMAIN msgs = 1..Len(msgs)
      /\ LatestGroup \in 1..(Len(msgs) + 1)
  BY CallsAreNumbers, LatestIs DEF AtRest
<1>2. D \in SUBSET (DOMAIN msgs) /\ D \in SUBSET (1..(LatestGroup - 1))
  BY DropsSpare
<1>3. /\ w \in Seq(Messages(n)) /\ Len(w) = Len(msgs) - C
      /\ \A k \in DOMAIN msgs \ D : Moved(k, D) \in 1..Len(w) /\ w[Moved(k, D)] = msgs[k]
  BY <1>1, <1>2, WithoutIs
<1>4. C \in Nat
  BY <1>1, <1>2, DropCount
<1>5. ASSUME NEW i \in DOMAIN msgs, i >= LatestGroup
      PROVE  i \notin D /\ Moved(i, D) = i - C
  <2>1. \A d \in D : d < i
    BY <1>1, <1>2, <1>5
  <2>2. i \notin D /\ {d \in D : d < i} = D
    BY <2>1, <1>1
  <2>3. QED
    BY <2>2 DEF Moved
<1> HIDE DEF w, C
<1>6. \A i \in DOMAIN msgs : i >= LatestGroup => i - C \in 1..Len(w) /\ w[i - C] = msgs[i]
  BY <1>3, <1>5
<1>7. IsSuffix(InFlight, w)
  BY <1>3, <1>4, <1>6, LatestEnds
<1>8. QED
  BY <1>7 DEF w

\* A compaction leaves the running turn's latest tool group, and all after it, as
\* it is (_compact, and the compaction that answers a prompt that is too long).
THEOREM LatestGroupStays == Spec => LatestGroupKept
<1> USE NumericBounds
<1> DEFINE A == (pc \in {"compact", "overflow"}) => IsSuffix(InFlight, msgs')
<1>1. IInv /\ [Next]_vars => [A]_vars
  <2> SUFFICES ASSUME IInv, Next, pc \in {"compact", "overflow"}
               PROVE  IsSuffix(InFlight, msgs')
    OBVIOUS
  <2>1. AtRest(typed) /\ turnUser # 0
    <3>1. HistoryInv /\ turnUser # 0
      BY DEF IInv, HistoryInv, TurnInv, QuestionIn
    <3>2. QED
      BY <3>1, HistoryAtRest
  <2>2. CASE Compact \/ SendShorter \/ CompactInterrupted \/ TooLongStill
    <3>1. PICK D \in Drops \cup {{}} : msgs' = Without(msgs, D)
      BY <2>2 DEF Compact, SendShorter, CompactInterrupted, TooLongStill, DropAt
    <3>2. QED
      BY <2>1, <3>1, DroppingEnds
  <2>3. CASE Steer \/ Esc
    <3>1. msgs' = msgs
      BY <2>3 DEF Steer, Esc
    <3>2. QED
      BY <2>1, <3>1, SameEnds
  <2>4. CASE \/ Interrupted \/ WrapUp \/ NextRound \/ TooLong \/ TryAgain \/ Failed \/ Overrun
             \/ ToolCalls \/ TextAndNote \/ FinalText \/ Empty \/ EmptyAgain
             \/ RunCall \/ BatchEnds \/ GoOn \/ Rewind
    BY <2>4 DEF Interrupted, WrapUp, NextRound, TooLong, TryAgain, Failed, Overrun, ToolCalls,
                TextAndNote, FinalText, Empty, EmptyAgain, RunCall, BatchEnds, GoOn, Rewind
  <2>5. CASE Type \/ SendQueued \/ Retry \/ CompactAtRest
    BY <2>5 DEF Type, SendQueued, Retry, Send, CompactAtRest
  <2>6. QED
    BY <2>2, <2>3, <2>4, <2>5 DEF Next, WorkerStep, UserStep
<1>2. QED
  BY <1>1, RunInvariant, PTL DEF Spec, LatestGroupKept

=============================================================================
