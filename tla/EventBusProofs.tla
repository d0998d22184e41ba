---------------------------- MODULE EventBusProofs ----------------------------
(* Theorems about the event bus, for any number of pages and terminals, any   *)
(* backlog and any number of events.                                          *)
EXTENDS EventBus, TLAPS, SequenceTheorems, FiniteSetTheorems

(***************************************************************************)
(* The inductive invariants.                                               *)
(***************************************************************************)

\* A line has a number; only lines and resets are kept for windows that connect.
Numbered == {e \in Event : IsLine(e) => e.line # 0}
Kept     == {e \in Numbered : e.kind \in {"line", "reset"}}

TypeInv == TypeOK /\ backlog \in Seq(Kept) /\ queue \in [Windows -> Seq(Numbered)]

\* The last event of the queue with a kind of K has one of S, and so has what the window
\* shows, v, if the queue holds none.
Ends(q, K, v, S) ==
  /\ \A i \in 1..Len(q) :
       q[i].kind \in K /\ (\A j \in 1..Len(q) : j > i => q[j].kind \notin K) => q[i].kind \in S
  /\ (\A i \in 1..Len(q) : q[i].kind \notin K) => v \in S

\* What is on its way to a page ends with the latest busy state, and that is the
\* worker's, also while an answer waits for its busy event.
BusyInv ==
  /\ \A w \in Pages \cap subs : Ends(queue[w], Busy, shown[w], {latest})
  /\ worker = "idle" <=> latest = "idle"
  /\ submit \in {"answered", "working", "waiting"} => worker # "idle"

StreamKinds == {"delta", "reset", "stream_end"}
Half(w)     == IF w \in preview THEN "delta" ELSE "reset"

\* What is on its way to a window ends a half-streamed reply, unless it still streams.
PreviewInv ==
  \A w \in subs : Ends(queue[w], StreamKinds, Half(w), IF worker = "streaming" THEN StreamKinds ELSE {"reset", "stream_end"})

(***************************************************************************)
(* Lemmas about queues of events.                                          *)
(***************************************************************************)

LEMMA EndsAppend ==
  ASSUME NEW q \in Seq(Event), NEW e \in Event, NEW K, NEW v, NEW S, NEW T, Ends(q, K, v, S),
         e.kind \in K => e.kind \in T, e.kind \notin K => S \subseteq T
  PROVE  Ends(Append(q, e), K, v, T)
<1> DEFINE r == Append(q, e)
           n == Len(q)
<1>1. /\ n \in Nat /\ Len(r) = n + 1 /\ r[n + 1] = e
      /\ \A i \in 1..n : r[i] = q[i]
  BY AppendProperties, LenProperties
<1> HIDE DEF r
<1>2. ASSUME NEW i \in 1..Len(r), r[i].kind \in K, \A j \in 1..Len(r) : j > i => r[j].kind \notin K
      PROVE  r[i].kind \in T
  <2>1. CASE i = n + 1
    BY <1>1, <1>2, <2>1
  <2>2. CASE i # n + 1
    <3>1. i \in 1..n /\ n + 1 \in 1..Len(r) /\ n + 1 > i /\ \A j \in 1..n : j \in 1..Len(r)
      BY <1>1, <2>2
    <3>2. e.kind \notin K /\ r[i] = q[i]
      BY <1>1, <1>2, <3>1
    <3>3. \A j \in 1..n : j > i => q[j].kind \notin K
      BY <1>1, <1>2, <3>1
    <3>4. q[i].kind \in S
      BY <1>2, <3>1, <3>2, <3>3 DEF Ends
    <3>5. QED
      BY <3>2, <3>4
  <2>3. QED
    BY <2>1, <2>2
<1>3. ASSUME \A i \in 1..Len(r) : r[i].kind \notin K PROVE v \in T
  <2>1. n + 1 \in 1..Len(r) /\ \A j \in 1..n : j \in 1..Len(r)
    BY <1>1
  <2>2. e.kind \notin K /\ \A j \in 1..n : q[j].kind \notin K
    BY <1>1, <1>3, <2>1
  <2>3. QED
    BY <2>2 DEF Ends
<1>4. QED
  BY <1>2, <1>3 DEF Ends, r

LEMMA EndsTail ==
  ASSUME NEW q \in Seq(Event), q # <<>>, NEW K, NEW v, NEW S, NEW u, Ends(q, K, v, S),
         Head(q).kind \in K /\ Head(q).kind \in S => u \in S, Head(q).kind \notin K => u = v
  PROVE  Ends(Tail(q), K, u, S)
<1> DEFINE r == Tail(q)
           n == Len(q)
<1>1. /\ n \in Nat /\ n > 0 /\ Len(r) = n - 1 /\ Head(q) = q[1]
      /\ \A i \in 1..(n - 1) : r[i] = q[i + 1]
  BY HeadTailProperties, LenProperties, EmptySeq
<1> HIDE DEF r
<1>2. ASSUME NEW i \in 1..Len(r), r[i].kind \in K, \A j \in 1..Len(r) : j > i => r[j].kind \notin K
      PROVE  r[i].kind \in S
  <2>1. i + 1 \in 1..n /\ q[i + 1] = r[i]
    BY <1>1
  <2>2. ASSUME NEW j \in 1..n, j > i + 1 PROVE q[j].kind \notin K
    <3>1. j - 1 \in 1..Len(r) /\ j - 1 > i /\ r[j - 1] = q[j]
      BY <1>1, <2>2
    <3>2. QED
      BY <1>2, <3>1
  <2>3. QED
    BY <1>2, <2>1, <2>2 DEF Ends
<1>3. ASSUME \A i \in 1..Len(r) : r[i].kind \notin K PROVE u \in S
  <2>1. ASSUME NEW j \in 1..n, j > 1 PROVE q[j].kind \notin K
    <3>1. j - 1 \in 1..Len(r) /\ r[j - 1] = q[j]
      BY <1>1, <2>1
    <3>2. QED
      BY <1>3, <3>1
  <2>2. 1 \in 1..n
    BY <1>1
  <2>3. CASE q[1].kind \in K
    <3>1. q[1].kind \in S
      BY <2>1, <2>2, <2>3 DEF Ends
    <3>2. QED
      BY <1>1, <2>3, <3>1
  <2>4. CASE q[1].kind \notin K
    <3>1. \A j \in 1..n : q[j].kind \notin K
      BY <1>1, <2>1, <2>4
    <3>2. v \in S
      BY <3>1 DEF Ends
    <3>3. QED
      BY <1>1, <2>4, <3>2
  <2>5. QED
    BY <2>3, <2>4
<1>4. QED
  BY <1>2, <1>3 DEF Ends, r

\* Nothing in the queue: what the window shows is what counts.
LEMMA EndsEmpty ==
  ASSUME NEW K, NEW v, NEW S, Ends(<<>>, K, v, S)
  PROVE  v \in S
<1>1. Len(<<>>) = 0
  BY EmptySeq
<1>2. QED
  BY <1>1 DEF Ends

LEMMA SignalNumbered ==
  \A k \in Kinds \ {"line"} : Signal(k) \in Numbered /\ Signal(k).kind = k
BY EventBusAssumption DEF Signal, Numbered, Event, IsLine

\* What a window that connects is sent.
LEMMA EndsSubscription ==
  ASSUME TypeInv, NEW v
  PROVE  /\ Subscription \in Seq(Numbered)
         /\ Ends(Subscription, Busy, v, {latest})
         /\ \A S : {"reset", "stream_end"} \subseteq S => Ends(Subscription, StreamKinds, "reset", S)
<1> DEFINE n == Len(backlog)
<1>1. backlog \in Seq(Kept) /\ Signal(latest) \in Numbered /\ Signal(latest).kind = latest /\ latest \in Busy
  BY SignalNumbered DEF TypeInv, TypeOK, Kinds, Busy
<1>2. backlog \in Seq(Numbered)
  BY <1>1 DEF Kept
<1>3. /\ n \in Nat /\ Len(Subscription) = n + 1 /\ Subscription[n + 1] = Signal(latest)
      /\ \A i \in 1..n : Subscription[i] = backlog[i] /\ backlog[i] \in Kept
  BY <1>1, <1>2, AppendProperties, LenProperties, ElementOfSeq DEF Subscription
<1>4. \A i \in 1..n : Subscription[i].kind \in {"line", "reset"}
  BY <1>3 DEF Kept
<1>5. Subscription \in Seq(Numbered)
  BY <1>1, <1>2, AppendProperties DEF Subscription
<1>6. Ends(Subscription, Busy, v, {latest})
  BY <1>1, <1>3, <1>4 DEF Ends, Busy
<1>7. \A S : {"reset", "stream_end"} \subseteq S => Ends(Subscription, StreamKinds, "reset", S)
  BY <1>1, <1>3, <1>4 DEF Ends, StreamKinds, Busy
<1>8. QED
  BY <1>5, <1>6, <1>7

\* The suffix of a backlog is as long as the backlog may be.
LEMMA BoundedKept ==
  ASSUME NEW s \in Seq(Kept)
  PROVE  Bounded(s) \in Seq(Kept) /\ Len(Bounded(s)) <= BacklogMax
<1> DEFINE n == Len(s)
           m == IF n > BacklogMax THEN n - BacklogMax + 1 ELSE 1
<1>1. n \in Nat /\ BacklogMax \in Nat \ {0}
  BY EventBusAssumption, LenProperties
<1>2. m \in 1..(n + 1) /\ n \in 0..n
  BY <1>1
<1>3. Bounded(s) = SubSeq(s, m, n)
  BY DEF Bounded, Suffix
<1>4. Bounded(s) \in Seq(Kept) /\ Len(Bounded(s)) = IF m <= n THEN n - m + 1 ELSE 0
  BY <1>2, <1>3, SubSeqProperties
<1>5. QED
  BY <1>1, <1>4

(***************************************************************************)
(* Events that are put.                                                    *)
(***************************************************************************)

LEMMA PutTyped ==
  ASSUME TypeInv, NEW e \in Numbered, Put(e)
  PROVE  /\ backlog' \in Seq(Kept) /\ backlog' \in Seq(Event) /\ Len(backlog') <= BacklogMax
         /\ latest' \in Busy /\ subs' = subs /\ puts' \in 0..MaxPuts /\ said' \in Seq(1..MaxPuts)
         /\ queue' \in [Windows -> Seq(Numbered)] /\ queue' \in [Windows -> Seq(Event)]
<1>1. /\ puts \in 0..MaxPuts /\ MaxPuts \in Nat /\ latest \in Busy /\ said \in Seq(1..MaxPuts)
      /\ backlog \in Seq(Kept) /\ Len(backlog) <= BacklogMax /\ queue \in [Windows -> Seq(Numbered)]
  BY EventBusAssumption DEF TypeInv, TypeOK
<1>2. /\ puts < MaxPuts /\ puts' = puts + 1 /\ subs' = subs
      /\ latest' = IF e.kind \in Busy THEN e.kind ELSE latest
      /\ backlog' = IF e.kind \in {"line", "reset"} THEN Bounded(Append(backlog, e)) ELSE backlog
      /\ queue' = [w \in Windows |-> IF w \in subs THEN Append(queue[w], e) ELSE queue[w]]
      /\ said' = IF IsLine(e) THEN Append(said, e.line) ELSE IF e.kind = "reset" THEN <<>> ELSE said
  BY DEF Put
<1>3. backlog' \in Seq(Kept) /\ Len(backlog') <= BacklogMax
  <2>1. CASE e.kind \in {"line", "reset"}
    <3>1. Append(backlog, e) \in Seq(Kept)
      BY <1>1, <2>1, AppendProperties DEF Kept
    <3>2. QED
      BY <1>2, <2>1, <3>1, BoundedKept
  <2>2. CASE e.kind \notin {"line", "reset"}
    BY <1>1, <1>2, <2>2
  <2>3. QED
    BY <2>1, <2>2
<1>4. queue' \in [Windows -> Seq(Numbered)]
  <2>1. \A w \in Windows : Append(queue[w], e) \in Seq(Numbered)
    BY <1>1, AppendProperties
  <2>2. QED
    BY <1>1, <1>2, <2>1
<1>5. said' \in Seq(1..MaxPuts)
  <2>1. CASE IsLine(e)
    <3>1. e.line \in 1..MaxPuts
      BY <1>1, <2>1 DEF Numbered, Event
    <3>2. QED
      BY <1>1, <1>2, <2>1, <3>1, AppendProperties
  <2>2. CASE ~IsLine(e)
    BY <1>1, <1>2, <2>2, EmptySeq
  <2>3. QED
    BY <2>1, <2>2
<1>6. Kept \subseteq Event /\ Numbered \subseteq Event
  BY DEF Kept, Numbered
<1>7. backlog' \in Seq(Event) /\ queue' \in [Windows -> Seq(Event)]
  BY <1>3, <1>4, <1>6
<1>8. QED
  BY <1>1, <1>2, <1>3, <1>4, <1>5, <1>7

\* An event put reaches every window that is subscribed, so a queue that ended as it
\* should still does, if the event itself is right.
LEMMA PutEnds ==
  ASSUME TypeInv, NEW e \in Numbered, Put(e), NEW w \in subs, NEW K, NEW v, NEW S, NEW T,
         Ends(queue[w], K, v, S), e.kind \in K => e.kind \in T, e.kind \notin K => S \subseteq T
  PROVE  Ends(queue'[w], K, v, T)
<1>1. queue[w] \in Seq(Event) /\ e \in Event /\ w \in Windows
  BY DEF TypeInv, TypeOK, Numbered
<1>2. queue'[w] = Append(queue[w], e)
  BY <1>1 DEF Put
<1>3. QED
  BY <1>1, <1>2, EndsAppend

\* A put that is no busy event, while the worker and the controller go on.
LEMMA PutBusy ==
  ASSUME TypeInv, BusyInv, NEW e \in Numbered, Put(e), e.kind \notin Busy, shown' = shown,
         worker' = "idle" <=> worker = "idle",
         submit' \in {"answered", "working", "waiting"} => submit \in {"answered", "working", "waiting"}
  PROVE  BusyInv'
<1>1. latest' = latest /\ subs' = subs
  BY DEF Put
<1>2. \A w \in Pages \cap subs : Ends(queue'[w], Busy, shown[w], {latest})
  BY PutEnds DEF BusyInv
<1>3. QED
  BY <1>1, <1>2 DEF BusyInv

\* A busy event that tells what the worker then is.
LEMMA PutSignal ==
  ASSUME TypeInv, BusyInv, NEW k \in Busy, Put(Signal(k)), shown' = shown,
         worker' = "idle" <=> k = "idle",
         submit' \in {"answered", "working", "waiting"} => worker' # "idle"
  PROVE  BusyInv'
<1>1. Signal(k) \in Numbered /\ Signal(k).kind = k
  BY SignalNumbered DEF Kinds, Busy
<1>2. latest' = k /\ subs' = subs
  BY <1>1 DEF Put
<1>3. \A w \in Pages \cap subs : Ends(queue'[w], Busy, shown[w], {k})
  BY <1>1, PutEnds DEF BusyInv
<1>4. QED
  BY <1>2, <1>3 DEF BusyInv

\* A put that neither begins nor continues a stream.
LEMMA PutPreview ==
  ASSUME TypeInv, PreviewInv, NEW e \in Numbered, Put(e), preview' = preview,
         e.kind = "delta" => worker' = "streaming",
         worker = "streaming" /\ worker' # "streaming" => e.kind \in {"reset", "stream_end"}
  PROVE  PreviewInv'
<1>1. subs' = subs /\ \A w : Half(w)' = Half(w)
  BY DEF Put, Half
<1>2. ASSUME NEW w \in subs
      PROVE  Ends(queue'[w], StreamKinds, Half(w), IF worker' = "streaming" THEN StreamKinds ELSE {"reset", "stream_end"})
  <2> DEFINE S == IF worker = "streaming" THEN StreamKinds ELSE {"reset", "stream_end"}
             T == IF worker' = "streaming" THEN StreamKinds ELSE {"reset", "stream_end"}
  <2>1. Ends(queue[w], StreamKinds, Half(w), S)
    BY DEF PreviewInv
  <2>2. e.kind \in StreamKinds => e.kind \in T
    BY DEF StreamKinds
  <2>3. e.kind \notin StreamKinds => S \subseteq T
    BY DEF StreamKinds
  <2>4. QED
    BY <2>1, <2>2, <2>3, PutEnds
<1>3. QED
  BY <1>1, <1>2 DEF PreviewInv

(***************************************************************************)
(* The steps.                                                              *)
(***************************************************************************)

LEMMA BusInit == Init => TypeInv /\ BusyInv /\ PreviewInv
<1> SUFFICES ASSUME Init PROVE TypeInv /\ BusyInv /\ PreviewInv
  OBVIOUS
<1>1. Signal("idle") \in Numbered /\ Signal("idle").kind = "idle"
  BY SignalNumbered DEF Kinds, Busy
<1>2. Numbered \subseteq Event
  BY DEF Numbered
<1>3. <<Signal("idle")>> \in Seq(Numbered) /\ <<Signal("idle")>> \in Seq(Event)
  BY <1>1, <1>2
<1>4. queue \in [Windows -> Seq(Numbered)] /\ queue \in [Windows -> Seq(Event)]
  BY <1>3, EmptySeq DEF Init
<1>5. <<>> \in Seq(Kept) /\ <<>> \in Seq(Event) /\ Len(<<>>) = 0 /\ <<>> \in Seq(1..MaxPuts)
  BY EmptySeq
<1>6. 0 <= BacklogMax /\ 0 \in 0..MaxPuts
  BY EventBusAssumption
<1>7. TypeInv
  BY <1>4, <1>5, <1>6 DEF Init, TypeInv, TypeOK, Busy, Windows
<1>8. BusyInv
  BY EventBusAssumption DEF Init, BusyInv
<1>9. PreviewInv
  <2>1. \A w \in subs : queue[w] = <<Signal("idle")>> /\ Half(w) = "reset"
    BY DEF Init, Half, Windows
  <2>2. Len(<<Signal("idle")>>) = 1 /\ <<Signal("idle")>>[1].kind \notin StreamKinds
    BY <1>1 DEF StreamKinds
  <2>3. Ends(<<Signal("idle")>>, StreamKinds, "reset", {"reset", "stream_end"})
    BY <2>2 DEF Ends
  <2>4. QED
    BY <2>1, <2>3 DEF Init, PreviewInv
<1>10. QED
  BY <1>7, <1>8, <1>9

\* One event rendered: its effect on the view and on what is still to come.
LEMMA RenderStep ==
  ASSUME TypeInv, BusyInv, PreviewInv, NEW w \in Windows, Render(w)
  PROVE  (TypeInv /\ BusyInv /\ PreviewInv)'
<1> DEFINE q == queue[w]
           e == Head(q)
<1>1. /\ q # <<>> /\ q \in Seq(Numbered) /\ q \in Seq(Event) /\ e \in Numbered
      /\ Tail(q) \in Seq(Numbered)
  <2>1. q \in Seq(Numbered) /\ q # <<>>
    BY DEF TypeInv, Render
  <2>2. Numbered \subseteq Event
    BY DEF Numbered
  <2>3. e \in Numbered /\ Tail(q) \in Seq(Numbered)
    BY <2>1, HeadTailProperties
  <2>4. QED
    BY <2>1, <2>2, <2>3
<1>2. /\ queue' = [queue EXCEPT ![w] = Tail(@)]
      /\ view' = [view EXCEPT ![w] = IF IsLine(e) THEN Append(@, e.line)
                                     ELSE IF e.kind = "reset" THEN <<>> ELSE @]
      /\ preview' = IF e.kind = "delta" THEN preview \cup {w}
                    ELSE IF e.kind \in {"reset", "stream_end"} THEN preview \ {w} ELSE preview
      /\ shown' = IF e.kind \in Busy /\ w \in Pages THEN [shown EXCEPT ![w] = e.kind] ELSE shown
      /\ UNCHANGED <<backlog, latest, subs, worker, awaiting, answered, submit, puts, said>>
  BY DEF Render, Rendered
<1>3. queue \in [Windows -> Seq(Numbered)] /\ view \in [Windows -> Seq(1..MaxPuts)]
      /\ shown \in [Pages -> Busy] /\ preview \subseteq Windows
  BY DEF TypeInv, TypeOK
<1>4. queue'[w] = Tail(q) /\ \A x \in Windows : x # w => queue'[x] = queue[x]
  BY <1>2, <1>3
<1>5. TypeInv'
  <2>1. queue' \in [Windows -> Seq(Numbered)] /\ queue' \in [Windows -> Seq(Event)]
    <3>1. queue' \in [Windows -> Seq(Numbered)]
      BY <1>1, <1>2, <1>3
    <3>2. Numbered \subseteq Event
      BY DEF Numbered
    <3>3. QED
      BY <3>1, <3>2
  <2>2. view' \in [Windows -> Seq(1..MaxPuts)]
    <3>1. IsLine(e) => e.line \in 1..MaxPuts
      BY <1>1, EventBusAssumption DEF Numbered, Event
    <3>2. IsLine(e) => Append(view[w], e.line) \in Seq(1..MaxPuts)
      BY <1>3, <3>1, AppendProperties
    <3>3. <<>> \in Seq(1..MaxPuts)
      BY EmptySeq
    <3>4. QED
      BY <1>2, <1>3, <3>2, <3>3
  <2>3. preview' \subseteq Windows /\ shown' \in [Pages -> Busy]
    BY <1>2, <1>3
  <2>4. QED
    BY <1>2, <2>1, <2>2, <2>3 DEF TypeInv, TypeOK
<1>6. BusyInv'
  <2>1. ASSUME NEW x \in Pages \cap subs PROVE Ends(queue'[x], Busy, shown'[x], {latest})
    <3>1. Ends(queue[x], Busy, shown[x], {latest}) /\ x \in Windows
      BY DEF BusyInv, Windows
    <3>2. CASE x = w
      <4>1. e.kind \in Busy => shown'[w] = e.kind
        BY <1>2, <1>3, <3>2
      <4>2. e.kind \notin Busy => shown'[w] = shown[w]
        BY <1>2
      <4>3. QED
        BY <1>1, <1>4, <3>1, <3>2, <4>1, <4>2, EndsTail
    <3>3. CASE x # w
      BY <1>2, <1>3, <1>4, <3>1, <3>3
    <3>4. QED
      BY <3>2, <3>3
  <2>2. QED
    BY <1>2, <2>1 DEF BusyInv
<1>7. PreviewInv'
  <2> DEFINE S == IF worker = "streaming" THEN StreamKinds ELSE {"reset", "stream_end"}
  <2>1. ASSUME NEW x \in subs PROVE Ends(queue'[x], StreamKinds, Half(x)', S)
    <3>1. Ends(queue[x], StreamKinds, Half(x), S) /\ x \in Windows
      BY DEF PreviewInv, TypeInv, TypeOK
    <3>2. CASE x = w
      <4>1. e.kind \in StreamKinds /\ e.kind \in S => Half(w)' \in S
        BY <1>2 DEF StreamKinds, Half
      <4>2. e.kind \notin StreamKinds => Half(w)' = Half(w)
        BY <1>2 DEF StreamKinds, Half
      <4>3. QED
        BY <1>1, <1>4, <3>1, <3>2, <4>1, <4>2, EndsTail
    <3>3. CASE x # w
      BY <1>2, <1>4, <3>1, <3>3 DEF Half
    <3>4. QED
      BY <3>2, <3>3
  <2>2. QED
    BY <1>2, <2>1 DEF PreviewInv
<1>8. QED
  BY <1>5, <1>6, <1>7

LEMMA ConnectStep ==
  ASSUME TypeInv, BusyInv, PreviewInv, NEW w \in Windows, Connect(w)
  PROVE  (TypeInv /\ BusyInv /\ PreviewInv)'
<1>1. /\ w \in Pages /\ subs' = subs \cup {w} /\ queue' = [queue EXCEPT ![w] = Subscription]
      /\ view' = [view EXCEPT ![w] = <<>>] /\ preview' = preview \ {w}
      /\ UNCHANGED <<backlog, latest, shown, worker, awaiting, answered, submit, puts, said>>
  BY DEF Connect
<1>2. queue \in [Windows -> Seq(Numbered)] /\ view \in [Windows -> Seq(1..MaxPuts)] /\ subs \subseteq Windows
      /\ Numbered \subseteq Event
  BY DEF TypeInv, TypeOK, Numbered
<1>3. queue'[w] = Subscription /\ \A x \in Windows : x # w => queue'[x] = queue[x]
  BY <1>1, <1>2
<1>4. Subscription \in Seq(Numbered)
  BY EndsSubscription
<1>5. TypeInv'
  <2>1. queue' \in [Windows -> Seq(Numbered)] /\ queue' \in [Windows -> Seq(Event)]
    <3>1. queue' \in [Windows -> Seq(Numbered)]
      BY <1>1, <1>2, <1>4
    <3>2. QED
      BY <1>2, <3>1
  <2>2. view' \in [Windows -> Seq(1..MaxPuts)]
    BY <1>1, <1>2, EmptySeq
  <2>3. QED
    BY <1>1, <1>2, <2>1, <2>2 DEF TypeInv, TypeOK
<1>6. \A x \in Pages \cap subs' : Ends(queue'[x], Busy, shown[x], {latest})
  BY <1>1, <1>2, <1>3, EndsSubscription DEF BusyInv
<1>7. \A x \in subs' : Ends(queue'[x], StreamKinds, Half(x)',
                            IF worker = "streaming" THEN StreamKinds ELSE {"reset", "stream_end"})
  <2> DEFINE S == IF worker = "streaming" THEN StreamKinds ELSE {"reset", "stream_end"}
  <2>1. Half(w)' = "reset" /\ \A x : x # w => Half(x)' = Half(x)
    BY <1>1 DEF Half
  <2>2. {"reset", "stream_end"} \subseteq S
    BY DEF StreamKinds
  <2>3. Ends(queue'[w], StreamKinds, Half(w)', S)
    BY <1>3, <2>1, <2>2, EndsSubscription
  <2>4. ASSUME NEW x \in subs', x # w PROVE Ends(queue'[x], StreamKinds, Half(x)', S)
    BY <1>1, <1>2, <1>3, <2>1, <2>4 DEF PreviewInv
  <2>5. QED
    BY <2>3, <2>4
<1>8. QED
  BY <1>1, <1>5, <1>6, <1>7 DEF BusyInv, PreviewInv

LEMMA DisconnectStep ==
  ASSUME TypeInv, BusyInv, PreviewInv, NEW w \in Windows, Disconnect(w)
  PROVE  (TypeInv /\ BusyInv /\ PreviewInv)'
<1>1. /\ w \in Pages /\ subs' = subs \ {w} /\ queue' = [queue EXCEPT ![w] = <<>>]
      /\ UNCHANGED <<backlog, latest, view, preview, shown, worker, awaiting, answered, submit, puts, said>>
  BY DEF Disconnect, windows
<1>2. queue \in [Windows -> Seq(Numbered)] /\ queue \in [Windows -> Seq(Event)] /\ subs \subseteq Windows
  BY DEF TypeInv, TypeOK
<1>3. queue' \in [Windows -> Seq(Numbered)] /\ queue' \in [Windows -> Seq(Event)]
  BY <1>1, <1>2, EmptySeq
<1>4. TypeInv'
  BY <1>1, <1>2, <1>3 DEF TypeInv, TypeOK
<1>5. \A x \in subs' : x \in subs /\ queue'[x] = queue[x] /\ Half(x)' = Half(x)
  BY <1>1, <1>2 DEF Half
<1>6. BusyInv'
  BY <1>1, <1>5 DEF BusyInv
<1>7. PreviewInv'
  BY <1>1, <1>5 DEF PreviewInv
<1>8. QED
  BY <1>4, <1>6, <1>7

\* The steps that put no event.
LEMMA QuietStep ==
  ASSUME TypeInv, BusyInv, PreviewInv, Ask \/ TakeAnswer \/ Answer \/ Steer \/ ReadBusy \/ Clear
  PROVE  (TypeInv /\ BusyInv /\ PreviewInv)'
<1>1. /\ UNCHANGED <<latest, subs, queue, view, preview, shown, puts, said>>
      /\ backlog' \in {backlog, <<>>}
  BY DEF Ask, TakeAnswer, Answer, Steer, ReadBusy, Clear, bus, windows
<1>2. /\ worker' \in {"idle", "working", "streaming", "asking", "asked", "blocked"}
      /\ worker' = "streaming" <=> worker = "streaming"
      /\ worker' = "idle" <=> worker = "idle"
      /\ awaiting' \in BOOLEAN /\ answered' \in BOOLEAN
  BY DEF TypeInv, TypeOK, Ask, TakeAnswer, Answer, Steer, ReadBusy, Clear, bus, windows
<1>3. /\ submit' \in {"none", "echoed", "answered", "clearing", "replaying", "working", "waiting"}
      /\ submit' \in {"answered", "working", "waiting"} => worker' # "idle"
  BY DEF TypeInv, TypeOK, BusyInv, Now, Ask, TakeAnswer, Answer, Steer, ReadBusy, Clear, bus, windows
<1>4. backlog' \in Seq(Kept) /\ backlog' \in Seq(Event) /\ Len(backlog') <= BacklogMax
  <2>1. <<>> \in Seq(Kept) /\ <<>> \in Seq(Event) /\ Len(<<>>) = 0 /\ 0 <= BacklogMax
    BY EmptySeq, EventBusAssumption
  <2>2. QED
    BY <1>1, <2>1 DEF TypeInv, TypeOK
<1>5. TypeInv'
  BY <1>1, <1>2, <1>3, <1>4 DEF TypeInv, TypeOK
<1>6. BusyInv'
  BY <1>1, <1>2, <1>3 DEF BusyInv
<1>7. PreviewInv'
  BY <1>1, <1>2 DEF PreviewInv, Half
<1>8. QED
  BY <1>5, <1>6, <1>7

\* The steps that put one: it is typed, and the worker and the controller go on as told.
LEMMA PutStep ==
  ASSUME TypeInv, BusyInv, PreviewInv, NEW e \in Numbered, Put(e), UNCHANGED windows,
         worker' \in {"idle", "working", "streaming", "asking", "asked", "blocked"},
         awaiting' \in BOOLEAN, answered' \in BOOLEAN,
         submit' \in {"none", "echoed", "answered", "clearing", "replaying", "working", "waiting"},
         submit' \in {"answered", "working", "waiting"} => submit = submit' /\ worker' # "idle",
         e.kind = "delta" => worker' = "streaming",
         worker = "streaming" /\ worker' # "streaming" => e.kind \in {"reset", "stream_end"},
         \/ e.kind \notin Busy /\ (worker' = "idle" <=> worker = "idle")
         \/ e.kind \in Busy /\ e = Signal(e.kind) /\ (worker' = "idle" <=> e.kind = "idle")
  PROVE  (TypeInv /\ BusyInv /\ PreviewInv)'
<1>1. view' = view /\ preview' = preview /\ shown' = shown
  BY DEF windows
<1>2. TypeInv'
  BY <1>1, PutTyped DEF TypeInv, TypeOK
<1>3. BusyInv'
  <2>1. CASE e.kind \notin Busy
    BY <1>1, <2>1, PutBusy
  <2>2. CASE e.kind \in Busy
    BY <1>1, <2>2, PutSignal
  <2>3. QED
    BY <2>1, <2>2
<1>4. PreviewInv'
  BY <1>1, PutPreview
<1>5. QED
  BY <1>2, <1>3, <1>4

LEMMA LineNumbered ==
  ASSUME TypeInv, PutLine
  PROVE  \E e \in Numbered : e.kind = "line" /\ Put(e)
<1> DEFINE e == [kind |-> "line", line |-> puts + 1]
<1>1. puts + 1 \in 0..MaxPuts /\ puts + 1 # 0
  BY EventBusAssumption DEF TypeInv, TypeOK, PutLine, Put
<1>2. e \in Numbered /\ e.kind = "line"
  BY <1>1 DEF Numbered, Event, Kinds, IsLine
<1>3. QED
  BY <1>2 DEF PutLine

LEMMA BusStep == TypeInv /\ BusyInv /\ PreviewInv /\ [Next]_vars => (TypeInv /\ BusyInv /\ PreviewInv)'
<1> SUFFICES ASSUME TypeInv, BusyInv, PreviewInv, [Next]_vars PROVE (TypeInv /\ BusyInv /\ PreviewInv)'
  OBVIOUS
<1>t. /\ worker \in {"idle", "working", "streaming", "asking", "asked", "blocked"}
      /\ awaiting \in BOOLEAN /\ answered \in BOOLEAN
      /\ submit \in {"none", "echoed", "answered", "clearing", "replaying", "working", "waiting"}
      /\ submit \in {"answered", "working", "waiting"} => worker # "idle"
  BY DEF TypeInv, TypeOK, BusyInv
<1>1. CASE Say \/ PutQuestion \/ Submit \/ Replay \/ Note
  <2>1. PICK e \in Numbered : e.kind = "line" /\ Put(e)
    BY <1>1, LineNumbered DEF Say, PutQuestion, Submit, Replay, Note
  <2>2. UNCHANGED windows /\ awaiting' = awaiting /\ answered' = answered
    BY <1>1 DEF Say, PutQuestion, Submit, Replay, Note
  <2>3. /\ worker' \in {"idle", "working", "streaming", "asking", "asked", "blocked"}
        /\ worker' = "idle" <=> worker = "idle"
        /\ worker = "streaming" => worker' = "streaming"
    BY <1>1, <1>t DEF Say, PutQuestion, Submit, Replay, Note
  <2>4. /\ submit' \in {"none", "echoed", "answered", "clearing", "replaying", "working", "waiting"}
        /\ submit' \in {"answered", "working", "waiting"} => submit = submit'
    BY <1>1, <1>t DEF Say, PutQuestion, Submit, Replay, Note
  <2>5. e.kind \notin Busy /\ e.kind # "delta"
    BY <2>1 DEF Busy
  <2>6. QED
    BY <1>t, <2>1, <2>2, <2>3, <2>4, <2>5, PutStep
<1>2. ASSUME NEW k \in {"delta", "stream_end", "reset"}, Put(Signal(k)), UNCHANGED <<windows, awaiting, answered>>,
             worker' \in {"idle", "working", "streaming"} \cup {worker}, worker' = "idle" <=> worker = "idle",
             submit' = submit \/ (submit = "clearing" /\ submit' = "replaying"),
             k = "delta" => worker' = "streaming",
             worker = "streaming" /\ worker' # "streaming" => k = "stream_end"
      PROVE  (TypeInv /\ BusyInv /\ PreviewInv)'
  <2>1. Signal(k) \in Numbered /\ Signal(k).kind = k /\ k \notin Busy
    BY SignalNumbered DEF Kinds, Busy
  <2>2. QED
    BY <1>t, <1>2, <2>1, PutStep
<1>3. CASE Delta
  BY <1>2, <1>3 DEF Delta
<1>4. CASE StreamEnd
  BY <1>2, <1>4 DEF StreamEnd
<1>5. CASE PutReset
  BY <1>2, <1>5, <1>t DEF PutReset
<1>6. ASSUME NEW k \in Busy, Put(Signal(k)), UNCHANGED <<windows, awaiting, answered>>,
             worker' \in {"idle", "working", "blocked"} \cup {worker}, worker' = "idle" <=> k = "idle",
             submit' \in {submit, "none"},
             submit' \in {"answered", "working", "waiting"} => worker' # "idle",
             worker = "streaming" => worker' = "streaming"
      PROVE  (TypeInv /\ BusyInv /\ PreviewInv)'
  <2>1. Signal(k) \in Numbered /\ Signal(k).kind = k /\ k # "delta"
    BY SignalNumbered DEF Kinds, Busy
  <2>2. QED
    BY <1>t, <1>6, <2>1, PutStep
<1>7. CASE PutWaiting
  BY <1>6, <1>7 DEF PutWaiting, Busy
<1>8. CASE EndTurn
  BY <1>6, <1>8 DEF EndTurn, Busy
<1>9. CASE StartTurn
  BY <1>6, <1>9 DEF StartTurn, Busy
<1>10. CASE EmitBusy
  BY <1>6, <1>10, <1>t DEF EmitBusy, Busy
<1>11. CASE Ask \/ TakeAnswer \/ Answer \/ Steer \/ ReadBusy \/ Clear
  BY <1>11, QuietStep
<1>12. ASSUME NEW w \in Windows, WindowStep(w) PROVE (TypeInv /\ BusyInv /\ PreviewInv)'
  BY <1>12, RenderStep, ConnectStep, DisconnectStep DEF WindowStep
<1>13. CASE UNCHANGED vars
  BY <1>13 DEF vars, bus, windows, TypeInv, TypeOK, BusyInv, PreviewInv, Half
<1>14. QED
  BY <1>1, <1>3, <1>4, <1>5, <1>7, <1>8, <1>9, <1>10, <1>11, <1>12, <1>13 DEF Next, WorkerStep, ControllerStep

THEOREM BusInvariant == Spec => [](TypeInv /\ BusyInv /\ PreviewInv)
<1>1. Init => TypeInv /\ BusyInv /\ PreviewInv
  BY BusInit
<1>2. TypeInv /\ BusyInv /\ PreviewInv /\ [Next]_vars => (TypeInv /\ BusyInv /\ PreviewInv)'
  BY BusStep
<1>3. QED
  BY <1>1, <1>2, PTL DEF Spec

\* "While the model works, both windows show it as busy": once a page has rendered what
\* it was sent, it shows the model busy exactly when it is, also after a connection that
\* broke and after an answer whose busy event came late (controller.py _emit_busy,
\* events.py subscribe).
THEOREM BusyIsShown == Spec => []BusyShown
<1>1. TypeInv /\ BusyInv => BusyShown
  <2> SUFFICES ASSUME TypeInv, BusyInv, NEW w \in Pages, CaughtUp(w) PROVE shown[w] = "idle" <=> worker = "idle"
    BY DEF BusyShown
  <2>1. w \in subs /\ queue[w] = <<>>
    BY DEF CaughtUp
  <2>2. Ends(<<>>, Busy, shown[w], {latest})
    BY <2>1 DEF BusyInv
  <2>3. shown[w] \in {latest}
    BY <2>2, EndsEmpty
  <2>4. QED
    BY <2>3 DEF BusyInv
<1>2. QED
  BY <1>1, BusInvariant, PTL

\* A window that has rendered what it was sent shows no half-streamed reply once the
\* stream is over, wherever in the reply it lost or got its connection.
THEOREM NoPreviewStays == Spec => []NoStalePreview
<1>1. TypeInv /\ PreviewInv => NoStalePreview
  <2> SUFFICES ASSUME TypeInv, PreviewInv, NEW w \in Windows, CaughtUp(w), worker # "streaming" PROVE w \notin preview
    BY DEF NoStalePreview
  <2>1. w \in subs /\ queue[w] = <<>>
    BY DEF CaughtUp
  <2>2. Ends(<<>>, StreamKinds, Half(w), {"reset", "stream_end"})
    BY <2>1 DEF PreviewInv
  <2>3. Half(w) \in {"reset", "stream_end"}
    BY <2>2, EndsEmpty
  <2>4. QED
    BY <2>3 DEF Half
<1>2. QED
  BY <1>1, BusInvariant, PTL

(***************************************************************************)
(* What a window comes to show.                                            *)
(***************************************************************************)

LEMMA LeastNumber ==
  ASSUME NEW T \in SUBSET Nat, T # {}
  PROVE  \E n \in T : \A k \in T : n <= k
<1>1. PICK t \in T : TRUE
  OBVIOUS
<1> DEFINE Low == {n \in T : n <= t}
           Upto == {0..n : n \in Low}
<1>2. t \in Nat /\ t \in Low /\ Low \subseteq Nat
  <2>1. t \in Nat /\ t <= t
    BY <1>1
  <2>2. QED
    BY <2>1
<1>3. Upto \subseteq FiniteSubsetsOf(0..t) /\ Upto # {}
  <2>1. FiniteSubsetsOf(0..t) = SUBSET (0..t)
    <3>1. 0 \in Int /\ t \in Int
      BY <1>2
    <3>2. IsFiniteSet(0..t)
      BY <3>1, FS_Interval
    <3>3. QED
      BY <3>2, FS_FiniteSubsetsOfFinite, Zenon
  <2>2. \A n \in Low : 0..n \subseteq 0..t
    BY <1>2
  <2>3. QED
    BY <1>2, <2>1, <2>2
<1>4. PICK U \in Upto : \A V \in Upto : <<V, U>> \notin StrictSubsetOrdering(0..t)
  BY <1>3, FS_StrictSubsetOrderingWellFounded, WFMin
<1>5. PICK n \in Low : U = 0..n
  BY <1>4
<1>6. ASSUME NEW k \in Low, k < n PROVE FALSE
  <2>1. 0..k \subseteq 0..n /\ n \in 0..n /\ n \notin 0..k /\ 0..n \subseteq 0..t
    BY <1>2, <1>6
  <2>2. <<0..k, 0..n>> \in StrictSubsetOrdering(0..t)
    BY <2>1 DEF StrictSubsetOrdering
  <2>3. 0..k \in Upto
    BY <1>6
  <2>4. QED
    BY <1>4, <1>5, <2>2, <2>3
<1>7. ASSUME NEW k \in T PROVE n <= k
  <2>1. n \in Nat /\ k \in Nat /\ t \in Nat /\ n <= t
    BY <1>2
  <2>2. CASE k <= t
    BY <1>6, <2>1, <2>2
  <2>3. CASE ~(k <= t)
    BY <2>1, <2>3
  <2>4. QED
    BY <2>2, <2>3
<1>8. QED
  BY <1>7

\* Two courses of events that begin alike and go on alike are the same.
GoAlike(f, g, n) == \A i \in 1..n : f[i - 1] = g[i - 1] => f[i] = g[i]
LEMMA SameCourse ==
  ASSUME NEW n \in Nat, NEW f, NEW g, f[0] = g[0], GoAlike(f, g, n)
  PROVE  f[n] = g[n]
<1> DEFINE T == {i \in 0..n : f[i] # g[i]}
<1>1. SUFFICES ASSUME T # {} PROVE FALSE
  <2>1. n \in 0..n
    OBVIOUS
  <2>2. QED
    BY <2>1
<1>2. T \in SUBSET Nat
  OBVIOUS
<1>3. PICK m \in T : \A k \in T : m <= k
  BY <1>1, <1>2, LeastNumber
<1>4. m \in 1..n /\ m - 1 \in 0..n /\ ~(m <= m - 1)
  BY <1>3
<1>5. f[m - 1] = g[m - 1]
  BY <1>3, <1>4
<1>6. QED
  BY <1>3, <1>4, <1>5 DEF GoAlike

IsCourse(f, v, q, n) ==
  f = [i \in 0..n |-> IF i = 0 THEN v ELSE Rendered(f[i - 1], q[i])]

LEMMA CourseExists ==
  ASSUME NEW v, NEW q, NEW n \in Nat
  PROVE  \E f : IsCourse(f, v, q, n)
<1> DEFINE T == {i \in 0..n : ~ \E f : IsCourse(f, v, q, i)}
<1>1. SUFFICES ASSUME T # {} PROVE FALSE
  OBVIOUS
<1>2. T \in SUBSET Nat
  OBVIOUS
<1>3. PICK m \in T : \A k \in T : m <= k
  BY <1>1, <1>2, LeastNumber
<1>4. CASE m = 0
  <2> DEFINE f == [i \in 0..0 |-> v]
  <2>1. IsCourse(f, v, q, 0)
    BY DEF IsCourse
  <2>2. QED
    BY <1>3, <1>4, <2>1
<1>5. CASE m # 0
  <2>1. m - 1 \in 0..n /\ ~(m <= m - 1) /\ m \in 1..n
    BY <1>3, <1>5
  <2>2. m - 1 \notin T
    BY <1>3, <2>1
  <2>3. PICK f : IsCourse(f, v, q, m - 1)
    BY <2>1, <2>2
  <2> DEFINE g == [i \in 0..m |-> IF i = m THEN Rendered(f[m - 1], q[m]) ELSE f[i]]
  <2>4. \A i \in 0..(m - 1) : /\ i \in 0..m /\ i # m
                              /\ f[i] = IF i = 0 THEN v ELSE Rendered(f[i - 1], q[i])
    BY <2>1, <2>3 DEF IsCourse
  <2>5. \A i \in 0..m : g[i] = IF i = 0 THEN v ELSE Rendered(g[i - 1], q[i])
    <3> SUFFICES ASSUME NEW i \in 0..m
                 PROVE  g[i] = IF i = 0 THEN v ELSE Rendered(g[i - 1], q[i])
      OBVIOUS
    <3>1. CASE i = m
      <4>1. m - 1 \in 0..m /\ m - 1 # m /\ i # 0
        BY <2>1, <3>1
      <4>2. g[m - 1] = f[m - 1]
        BY <4>1
      <4>3. QED
        BY <2>1, <3>1, <4>1, <4>2
    <3>2. CASE i # m
      <4>1. i \in 0..(m - 1)
        BY <2>1, <3>2
      <4>2. CASE i = 0
        BY <2>4, <3>2, <4>1, <4>2
      <4>3. CASE i # 0
        <5>1. i - 1 \in 0..m /\ i - 1 # m
          BY <2>1, <4>1, <4>3
        <5>2. g[i - 1] = f[i - 1]
          BY <5>1
        <5>3. QED
          BY <2>4, <3>2, <4>1, <4>3, <5>2
      <4>4. QED
        BY <4>2, <4>3
    <3>3. QED
      BY <3>1, <3>2
  <2>6. IsCourse(g, v, q, m)
    <3>1. g = [i \in 0..m |-> g[i]]
      OBVIOUS
    <3> HIDE DEF g
    <3>2. QED
      BY <2>5, <3>1 DEF IsCourse
  <2>7. QED
    BY <1>3, <2>6
<1>6. QED
  BY <1>4, <1>5

LEMMA CourseIs ==
  ASSUME NEW v, NEW E, NEW q \in Seq(E)
  PROVE  /\ Course(v, q)[0] = v
         /\ \A i \in 1..Len(q) : Course(v, q)[i] = Rendered(Course(v, q)[i - 1], q[i])
<1>1. Len(q) \in Nat
  BY LenProperties
<1>2. Course(v, q) = CHOOSE f : IsCourse(f, v, q, Len(q))
  BY DEF Course, IsCourse
<1>3. IsCourse(Course(v, q), v, q, Len(q))
  BY <1>1, <1>2, CourseExists
<1> DEFINE f == Course(v, q)
<1> HIDE DEF f
<1>4. f = [i \in 0..Len(q) |-> IF i = 0 THEN v ELSE Rendered(f[i - 1], q[i])]
  BY <1>3 DEF IsCourse, f
<1>5. f[0] = v
  BY <1>1, <1>4
<1>6. \A i \in 1..Len(q) : i \in 0..Len(q) /\ i # 0
  BY <1>1
<1>7. \A i \in 1..Len(q) : f[i] = Rendered(f[i - 1], q[i])
  BY <1>4, <1>6
<1>8. QED
  BY <1>5, <1>7 DEF f

\* A window with nothing queued shows what it comes to show.
LEMMA AfterNothing ==
  ASSUME NEW v
  PROVE  After(v, <<>>) = v
<1>1. <<>> \in Seq(Event) /\ Len(<<>>) = 0
  OBVIOUS
<1>2. QED
  BY <1>1, CourseIs DEF After

\* A further event is the last one rendered.
LEMMA AfterAppend ==
  ASSUME NEW v, NEW q \in Seq(Event), NEW e \in Event
  PROVE  After(v, Append(q, e)) = Rendered(After(v, q), e)
<1> DEFINE r == Append(q, e)
           n == Len(q)
           f == Course(v, q)
           g == Course(v, r)
<1>1. /\ n \in Nat /\ r \in Seq(Event) /\ Len(r) = n + 1 /\ r[n + 1] = e
      /\ \A i \in 1..n : r[i] = q[i]
  BY AppendProperties, LenProperties
<1>2. /\ f[0] = v /\ \A i \in 1..n : f[i] = Rendered(f[i - 1], q[i])
  BY CourseIs
<1>3. /\ g[0] = v /\ \A i \in 1..(n + 1) : g[i] = Rendered(g[i - 1], r[i])
  <2> HIDE DEF r
  <2>1. Len(r) = n + 1 /\ r \in Seq(Event)
    BY <1>1
  <2>2. g[0] = v /\ \A i \in 1..Len(r) : g[i] = Rendered(g[i - 1], r[i])
    BY <2>1, CourseIs
  <2>3. QED
    BY <2>1, <2>2
<1>4. After(v, r) = g[n + 1] /\ After(v, q) = f[n]
  BY <1>1 DEF After
<1> HIDE DEF r, f, g, n
<1>5. \A i \in 1..n : i \in 1..(n + 1)
  BY <1>1
<1>6. \A i \in 1..n : f[i - 1] = g[i - 1] => f[i] = g[i]
  BY <1>1, <1>2, <1>3, <1>5
<1>7. f[n] = g[n]
  <2>1. n \in Nat /\ f[0] = g[0]
    BY <1>1, <1>2, <1>3
  <2>2. GoAlike(f, g, n)
    BY <1>6 DEF GoAlike
  <2>3. QED
    BY <2>1, <2>2, SameCourse, Zenon
<1>8. g[n + 1] = Rendered(g[n], e)
  BY <1>1, <1>3
<1>9. QED
  BY <1>4, <1>7, <1>8 DEF r

\* Rendering the first event changes nothing of what the window comes to show.
LEMMA AfterTail ==
  ASSUME NEW v, NEW q \in Seq(Event), q # <<>>
  PROVE  After(Rendered(v, Head(q)), Tail(q)) = After(v, q)
<1> DEFINE r == Tail(q)
           u == Rendered(v, Head(q))
           n == Len(r)
           f == Course(v, q)
           g == Course(u, r)
           h == [i \in 0..n |-> f[i + 1]]
<1>1. /\ n \in Nat /\ r \in Seq(Event) /\ Len(q) = n + 1 /\ Head(q) = q[1]
      /\ \A i \in 1..n : r[i] = q[i + 1]
  BY HeadTailProperties, LenProperties, EmptySeq
<1>2. /\ f[0] = v /\ \A i \in 1..(n + 1) : f[i] = Rendered(f[i - 1], q[i])
  BY <1>1, CourseIs
<1>3. /\ g[0] = u /\ \A i \in 1..n : g[i] = Rendered(g[i - 1], r[i])
  <2> HIDE DEF r, u
  <2>1. r \in Seq(Event)
    BY <1>1
  <2>2. QED
    BY <2>1, CourseIs
<1>4. After(u, r) = g[n] /\ After(v, q) = f[n + 1]
  BY <1>1 DEF After
<1>5. u = Rendered(v, q[1])
  BY <1>1
<1> HIDE DEF r, f, g, n, u
<1>6. h[0] = u
  BY <1>1, <1>2, <1>5
<1>7. ASSUME NEW i \in 1..n PROVE h[i] = Rendered(h[i - 1], r[i])
  <2>1. i + 1 \in 1..(n + 1) /\ i \in 0..n /\ i - 1 \in 0..n /\ (i + 1) - 1 = i /\ (i - 1) + 1 = i
    BY <1>1
  <2>2. f[i + 1] = Rendered(f[i], q[i + 1])
    BY <1>2, <2>1
  <2>3. h[i] = f[i + 1] /\ h[i - 1] = f[i]
    BY <2>1
  <2>4. QED
    BY <1>1, <2>2, <2>3
<1>8. h[n] = f[n + 1]
  BY <1>1
<1> HIDE DEF h
<1>9. \A i \in 1..n : h[i - 1] = g[i - 1] => h[i] = g[i]
  BY <1>3, <1>7
<1>10. h[n] = g[n]
  <2>1. n \in Nat /\ h[0] = g[0]
    BY <1>1, <1>3, <1>6
  <2>2. GoAlike(h, g, n)
    BY <1>9 DEF GoAlike
  <2>3. QED
    BY <2>1, <2>2, SameCourse, Zenon
<1>11. QED
  BY <1>4, <1>8, <1>10 DEF r, u

(***************************************************************************)
(* The backlog.                                                            *)
(***************************************************************************)

\* Behind its last reset, at k, a backlog has only lines, and they are what was said
\* from the d-th line on.
Tells(b, s, k, d) ==
  /\ k = 0 \/ b[k].kind = "reset"
  /\ Len(s) = d + (Len(b) - k)
  /\ \A i \in 1..(Len(b) - k) : IsLine(b[k + i]) /\ b[k + i].line = s[d + i]

\* It tells all that was said, or as much as it may hold, unless a clear has begun.
BacklogInv ==
  \E k \in 0..Len(backlog), d \in 0..Len(said) :
    /\ Tells(backlog, said, k, d)
    /\ submit = "clearing" \/ d = 0 \/ (k = 0 /\ Len(backlog) = BacklogMax)

\* A window that renders a backlog shows what it tells.
LEMMA ReplayShows ==
  ASSUME NEW b \in Seq(Event), NEW s \in Seq(1..MaxPuts),
         NEW k \in 0..Len(b), NEW d \in 0..Len(s), Tells(b, s, k, d)
  PROVE  After(<<>>, b) = SubSeq(s, d + 1, Len(s))
<1> DEFINE c == Course(<<>>, b)
           n == Len(b) - k
           f == [j \in 0..n |-> c[k + j]]
           g == [j \in 0..n |-> SubSeq(s, d + 1, d + j)]
<1>1. /\ Len(b) \in Nat /\ Len(s) \in Nat /\ k \in Nat /\ d \in Nat /\ n \in Nat
      /\ k + n = Len(b) /\ d + n = Len(s)
  BY LenProperties DEF Tells
<1>2. c[0] = <<>> /\ \A i \in 1..Len(b) : c[i] = Rendered(c[i - 1], b[i])
  BY CourseIs
<1> HIDE DEF c, n
<1>3. f[0] = g[0]
  <2>1. f[0] = c[k] /\ g[0] = SubSeq(s, d + 1, d)
    BY <1>1
  <2>2. SubSeq(s, d + 1, d) = <<>>
    BY <1>1, SubSeqEmpty
  <2>3. c[k] = <<>>
    <3>1. CASE k = 0
      BY <1>2, <3>1
    <3>2. CASE k # 0
      <4>1. k \in 1..Len(b) /\ b[k].kind = "reset" /\ ~IsLine(b[k])
        BY <1>1, <3>2 DEF Tells, IsLine
      <4>2. QED
        BY <1>2, <4>1 DEF Rendered
    <3>3. QED
      BY <3>1, <3>2
  <2>4. QED
    BY <2>1, <2>2, <2>3
<1>4. ASSUME NEW j \in 1..n, f[j - 1] = g[j - 1] PROVE f[j] = g[j]
  <2>1. /\ j \in 0..n /\ j - 1 \in 0..n /\ k + j \in 1..Len(b) /\ (k + j) - 1 = k + (j - 1)
        /\ d + 1 \in 1..Len(s) /\ d + j \in (d + 1)..Len(s) /\ (d + j) - 1 = d + (j - 1)
    BY <1>1
  <2>2. f[j] = c[k + j] /\ f[j - 1] = c[k + (j - 1)]
    BY <2>1
  <2>3. g[j] = SubSeq(s, d + 1, d + j) /\ g[j - 1] = SubSeq(s, d + 1, d + (j - 1))
    BY <2>1
  <2>4. IsLine(b[k + j]) /\ b[k + j].line = s[d + j]
    BY DEF Tells, n
  <2>5. c[k + j] = Append(c[k + (j - 1)], s[d + j])
    BY <1>2, <2>1, <2>4 DEF Rendered
  <2>6. SubSeq(s, d + 1, d + j) = Append(SubSeq(s, d + 1, d + (j - 1)), s[d + j])
    <3>1. SubSeq(s, d + 1, d + j) = SubSeq(s, d + 1, (d + j) - 1) \o <<s[d + j]>>
      BY <2>1, SubSeqRecursiveSecond
    <3>2. SubSeq(s, d + 1, d + (j - 1)) \in Seq(1..MaxPuts) /\ s[d + j] \in 1..MaxPuts
      <4>1. d + j \in 1..Len(s) /\ d + 1 \in Int /\ d + (j - 1) \in Int
        BY <1>1, <2>1
      <4>2. \A i \in (d + 1)..(d + (j - 1)) : s[i] \in 1..MaxPuts
        <5>1. \A i \in (d + 1)..(d + (j - 1)) : i \in 1..Len(s)
          BY <1>1, <2>1
        <5>2. QED
          BY <5>1, ElementOfSeq
      <4>3. QED
        BY <4>1, <4>2, ElementOfSeq, SubSeqProperties
    <3>3. QED
      BY <2>1, <3>1, <3>2, AppendIsConcat
  <2>7. QED
    BY <1>4, <2>2, <2>3, <2>5, <2>6
<1> HIDE DEF f, g
<1>5. f[n] = g[n]
  <2>1. n \in Nat /\ f[0] = g[0]
    BY <1>1, <1>3
  <2>2. GoAlike(f, g, n)
    BY <1>4 DEF GoAlike
  <2>3. QED
    BY <2>1, <2>2, SameCourse, Zenon
<1>6. f[n] = c[Len(b)] /\ g[n] = SubSeq(s, d + 1, Len(s))
  <2>1. n \in 0..n
    BY <1>1
  <2>2. f[n] = c[k + n] /\ g[n] = SubSeq(s, d + 1, d + n)
    BY <2>1 DEF f, g
  <2>3. QED
    BY <1>1, <2>2
<1>7. QED
  BY <1>5, <1>6 DEF After, c

\* A line put: the backlog tells one more, or drops its oldest event for it.
LEMMA BacklogLine ==
  ASSUME TypeInv, BacklogInv, NEW e \in Numbered, IsLine(e), Put(e),
         submit = "clearing" => submit' = "clearing"
  PROVE  BacklogInv'
<1> DEFINE b == backlog
           r == Append(backlog, e)
           t == Append(said, e.line)
           n == Len(backlog)
<1>1. PICK k \in 0..Len(backlog), d \in 0..Len(said) :
             /\ Tells(backlog, said, k, d)
             /\ submit = "clearing" \/ d = 0 \/ (k = 0 /\ Len(backlog) = BacklogMax)
  BY DEF BacklogInv
<1>2. /\ backlog \in Seq(Event) /\ said \in Seq(1..MaxPuts) /\ e \in Event /\ e.line \in 1..MaxPuts
      /\ BacklogMax \in Nat \ {0} /\ n <= BacklogMax
  BY EventBusAssumption DEF TypeInv, TypeOK, Numbered, Event
<1>3. /\ n \in Nat /\ Len(said) \in Nat /\ k \in Nat /\ d \in Nat /\ k <= n
      /\ Len(said) = d + (n - k)
  BY <1>1, <1>2, LenProperties DEF Tells
<1>4. /\ r \in Seq(Event) /\ Len(r) = n + 1 /\ r[n + 1] = e /\ \A i \in 1..n : r[i] = b[i]
      /\ Len(t) = Len(said) + 1 /\ t[Len(said) + 1] = e.line /\ \A i \in 1..Len(said) : t[i] = said[i]
  BY <1>2, AppendProperties
<1>5. said' = t /\ backlog' = Bounded(r)
  BY DEF Put, IsLine
<1>6. Tells(r, t, k, d)
  <2>1. k = 0 \/ r[k].kind = "reset"
    <3>1. CASE k # 0
      BY <1>1, <1>3, <1>4, <3>1 DEF Tells
    <3>2. QED
      BY <3>1
  <2>2. Len(t) = d + (Len(r) - k)
    BY <1>3, <1>4
  <2>3. ASSUME NEW i \in 1..(Len(r) - k) PROVE IsLine(r[k + i]) /\ r[k + i].line = t[d + i]
    <3>1. CASE k + i = n + 1
      <4>1. d + i = Len(said) + 1
        BY <1>3, <3>1
      <4>2. r[k + i] = e /\ t[d + i] = e.line
        BY <1>4, <3>1, <4>1
      <4>3. QED
        BY <4>2
    <3>2. CASE k + i # n + 1
      <4>1. i \in 1..(n - k) /\ k + i \in 1..n /\ d + i \in 1..Len(said)
        BY <1>3, <1>4, <3>2
      <4>2. r[k + i] = b[k + i] /\ t[d + i] = said[d + i]
        BY <1>4, <4>1
      <4>3. QED
        BY <1>1, <4>1, <4>2 DEF Tells
    <3>3. QED
      BY <3>1, <3>2
  <2>4. QED
    BY <2>1, <2>2, <2>3 DEF Tells
<1> HIDE DEF r, t, n, b
<1>7. CASE n < BacklogMax
  <2>1. backlog' = r
    <3>1. Bounded(r) = SubSeq(r, 1, Len(r))
      <4>1. ~(Len(r) > BacklogMax)
        BY <1>2, <1>3, <1>4, <1>7
      <4>2. QED
        BY <4>1 DEF Bounded, Suffix
    <3>2. SubSeq(r, 1, Len(r)) = r
      BY <1>4
    <3>3. QED
      BY <1>5, <3>1, <3>2
  <2>2. k \in 0..Len(backlog') /\ d \in 0..Len(said')
    BY <1>3, <1>4, <1>5, <2>1
  <2>3. submit' = "clearing" \/ d = 0
    BY <1>1, <1>2, <1>3, <1>7 DEF n
  <2>4. QED
    BY <1>5, <1>6, <2>1, <2>2, <2>3 DEF BacklogInv
<1>8. CASE ~(n < BacklogMax)
  <2>1. n = BacklogMax
    BY <1>2, <1>3, <1>8
  <2> DEFINE q == SubSeq(r, 2, n + 1)
  <2>2. backlog' = q
    <3>1. Len(r) > BacklogMax /\ Len(r) - BacklogMax + 1 = 2
      <4>1. Len(r) = n + 1 /\ n \in Int
        BY <1>3, <1>4
      <4>2. Len(r) = BacklogMax + 1 /\ BacklogMax \in Int
        BY <2>1, <4>1
      <4>3. QED
        BY <4>2
    <3>2. Bounded(r) = SubSeq(r, 2, n + 1)
      BY <1>4, <3>1 DEF Bounded, Suffix
    <3>3. QED
      BY <1>5, <3>2
  <2>3. Len(q) = n /\ \A i \in 1..n : q[i] = r[i + 1]
    <3>1. \A i \in 2..(n + 1) : r[i] \in Event
      <4>1. \A i \in 2..(n + 1) : i \in 1..Len(r)
        BY <1>3, <1>4
      <4>2. QED
        BY <1>4, <4>1, ElementOfSeq
    <3>2. /\ Len(q) = IF 2 <= n + 1 THEN (n + 1) - 2 + 1 ELSE 0
          /\ \A i \in 1..((n + 1) - 2 + 1) : q[i] = r[2 + i - 1]
      BY <1>3, <3>1, SubSeqProperties
    <3>3. 2 <= n + 1 /\ (n + 1) - 2 + 1 = n
      BY <1>2, <1>3, <2>1
    <3>4. \A i \in 1..n : 2 + i - 1 = i + 1
      BY <1>3
    <3>5. QED
      BY <3>2, <3>3, <3>4
  <2> HIDE DEF q
  <2>4. CASE k = 0
    <3>1. Tells(q, t, 0, d + 1)
      <4>1. Len(t) = (d + 1) + (Len(q) - 0)
        BY <1>3, <1>4, <2>3, <2>4
      <4>2. ASSUME NEW i \in 1..(Len(q) - 0) PROVE IsLine(q[0 + i]) /\ q[0 + i].line = t[(d + 1) + i]
        <5>1. i \in 1..n /\ i + 1 \in 1..(Len(r) - k) /\ 0 + i = i /\ k + (i + 1) = i + 1
              /\ (d + 1) + i = d + (i + 1)
          <6>1. Len(q) - 0 = n /\ Len(r) - k = n + 1
            BY <1>3, <1>4, <2>3, <2>4
          <6>2. i \in 1..n
            BY <6>1
          <6>3. QED
            BY <1>3, <2>4, <6>1, <6>2
        <5>2. IsLine(r[k + (i + 1)]) /\ r[k + (i + 1)].line = t[d + (i + 1)]
          BY <1>6, <5>1 DEF Tells
        <5>3. QED
          BY <2>3, <5>1, <5>2
      <4>3. QED
        BY <4>1, <4>2 DEF Tells
    <3>2. 0 \in 0..Len(q) /\ d + 1 \in 0..Len(t) /\ Len(q) = BacklogMax
      BY <1>3, <1>4, <2>1, <2>3, <2>4
    <3>3. QED
      BY <1>5, <2>2, <3>1, <3>2 DEF BacklogInv
  <2>5. CASE k # 0
    <3>1. Tells(q, t, k - 1, d)
      <4>1. k - 1 = 0 \/ q[k - 1].kind = "reset"
        <5>1. CASE k - 1 # 0
          <6>1. k - 1 \in 1..n /\ (k - 1) + 1 = k
            BY <1>3, <2>5, <5>1
          <6>2. q[k - 1] = r[k]
            BY <2>3, <6>1
          <6>3. QED
            BY <1>6, <2>5, <6>2 DEF Tells
        <5>2. QED
          BY <5>1
      <4>2. Len(t) = d + (Len(q) - (k - 1))
        BY <1>3, <1>4, <2>3
      <4>3. ASSUME NEW i \in 1..(Len(q) - (k - 1))
            PROVE  IsLine(q[(k - 1) + i]) /\ q[(k - 1) + i].line = t[d + i]
        <5>1. i \in 1..(Len(r) - k) /\ (k - 1) + i \in 1..n /\ ((k - 1) + i) + 1 = k + i
          BY <1>3, <1>4, <2>3, <2>5
        <5>2. IsLine(r[k + i]) /\ r[k + i].line = t[d + i]
          BY <1>6, <5>1 DEF Tells
        <5>3. q[(k - 1) + i] = r[k + i]
          BY <2>3, <5>1
        <5>4. QED
          BY <5>2, <5>3
      <4>4. QED
        BY <4>1, <4>2, <4>3 DEF Tells
    <3>2. k - 1 \in 0..Len(q) /\ d \in 0..Len(t)
      BY <1>3, <1>4, <2>3, <2>5
    <3>3. submit' = "clearing" \/ d = 0
      BY <1>1, <2>5
    <3>4. QED
      BY <1>5, <2>2, <3>1, <3>2, <3>3 DEF BacklogInv
  <2>6. QED
    BY <2>4, <2>5
<1>9. QED
  BY <1>7, <1>8

\* A reset put: what was said before is forgotten.
LEMMA BacklogReset ==
  ASSUME TypeInv, NEW e \in Numbered, e.kind = "reset", Put(e)
  PROVE  BacklogInv'
<1> DEFINE r == Append(backlog, e)
           n == Len(r)
           m == IF n > BacklogMax THEN n - BacklogMax + 1 ELSE 1
           q == SubSeq(r, m, n)
<1>1. backlog \in Seq(Event) /\ e \in Event /\ BacklogMax \in Nat \ {0}
  BY EventBusAssumption DEF TypeInv, TypeOK, Numbered
<1>2. /\ r \in Seq(Event) /\ n = Len(backlog) + 1 /\ r[n] = e /\ n \in Nat \ {0}
  BY <1>1, AppendProperties, LenProperties
<1>3. said' = <<>> /\ backlog' = q
  BY DEF Put, IsLine, Bounded, Suffix
<1>4. m \in 1..n
  BY <1>1, <1>2
<1> HIDE DEF r, m
<1>5. Len(q) = n - m + 1 /\ q[n - m + 1] = r[n]
  <2>1. \A i \in m..n : r[i] \in Event
    <3>1. \A i \in m..n : i \in 1..n
      BY <1>2, <1>4
    <3>2. QED
      BY <1>2, <3>1, ElementOfSeq
  <2>2. /\ m \in Int /\ n \in Int /\ m <= n /\ n - m + 1 \in 1..(n - m + 1) /\ m + (n - m + 1) - 1 = n
    BY <1>2, <1>4
  <2>3. /\ Len(q) = IF m <= n THEN n - m + 1 ELSE 0
        /\ \A i \in 1..(n - m + 1) : q[i] = r[m + i - 1]
    BY <2>1, <2>2, SubSeqProperties
  <2>4. QED
    BY <2>2, <2>3
<1> HIDE DEF q, n
<1>6. Len(q) \in Nat /\ q[Len(q)] = e
  BY <1>2, <1>4, <1>5
<1>7. Tells(q, <<>>, Len(q), 0)
  <2>1. Len(q) - Len(q) = 0 /\ Len(<<>>) = 0
    BY <1>6
  <2>2. \A i \in 1..(Len(q) - Len(q)) : FALSE
    BY <2>1
  <2>3. QED
    BY <1>6, <2>1, <2>2 DEF Tells
<1>8. Len(q) \in 0..Len(q) /\ 0 \in 0..Len(<<>>)
  BY <1>6
<1>9. QED
  BY <1>3, <1>7, <1>8 DEF BacklogInv

LEMMA BacklogKept ==
  ASSUME BacklogInv, UNCHANGED <<backlog, said>>, submit = "clearing" => submit' = "clearing"
  PROVE  BacklogInv'
BY DEF BacklogInv

\* The backlog is dropped: all that was said is to be forgotten.
LEMMA BacklogCleared ==
  ASSUME TypeInv, Clear
  PROVE  BacklogInv'
<1>1. backlog' = <<>> /\ said' = said /\ submit' = "clearing"
  BY DEF Clear
<1>2. Len(said) \in Nat /\ Len(<<>>) = 0
  BY LenProperties DEF TypeInv, TypeOK
<1>3. Tells(<<>>, said, 0, Len(said))
  <2>1. \A i \in 1..(Len(<<>>) - 0) : FALSE
    BY <1>2
  <2>2. Len(said) = Len(said) + (Len(<<>>) - 0)
    BY <1>2
  <2>3. QED
    BY <2>1, <2>2 DEF Tells
<1>4. 0 \in 0..Len(<<>>) /\ Len(said) \in 0..Len(said)
  BY <1>2
<1>5. QED
  BY <1>1, <1>3, <1>4 DEF BacklogInv

(***************************************************************************)
(* The bus implements the shared transcript.                               *)
(***************************************************************************)

\* What the windows that are there come to show.
Shows == [w \in Windows |-> IF w \in subs THEN Eventual(w) ELSE <<>>]

LEMMA BacklogStep ==
  ASSUME TypeInv, BacklogInv, [Next]_vars
  PROVE  BacklogInv'
<1>1. CASE Say \/ PutQuestion \/ Submit \/ Replay \/ Note
  <2>1. PICK e \in Numbered : e.kind = "line" /\ Put(e)
    BY <1>1, LineNumbered DEF Say, PutQuestion, Submit, Replay, Note
  <2>2. submit = "clearing" => submit' = "clearing"
    BY <1>1 DEF Say, PutQuestion, Submit, Replay, Note
  <2>3. QED
    BY <2>1, <2>2, BacklogLine DEF IsLine
<1>2. CASE PutReset
  <2>1. Signal("reset") \in Numbered /\ Signal("reset").kind = "reset"
    BY SignalNumbered DEF Kinds
  <2>2. QED
    BY <1>2, <2>1, BacklogReset DEF PutReset
<1>3. ASSUME NEW k \in Kinds \ {"line", "reset"}, Put(Signal(k)),
             submit = "clearing" => submit' = "clearing"
      PROVE  BacklogInv'
  <2>1. Signal(k).kind = k
    BY SignalNumbered
  <2>2. UNCHANGED <<backlog, said>>
    BY <1>3, <2>1 DEF Put, IsLine
  <2>3. QED
    BY <1>3, <2>2, BacklogKept
<1>4. CASE Delta \/ StreamEnd \/ PutWaiting \/ EndTurn \/ StartTurn
  BY <1>3, <1>4 DEF Delta, StreamEnd, PutWaiting, EndTurn, StartTurn, Kinds, Busy
<1>5. CASE EmitBusy
  <2>1. submit \in Kinds \ {"line", "reset"} /\ submit # "clearing"
    BY <1>5 DEF EmitBusy, Kinds, Busy
  <2>2. QED
    BY <1>3, <1>5, <2>1 DEF EmitBusy
<1>6. CASE Ask \/ TakeAnswer \/ Answer \/ Steer \/ ReadBusy
  BY <1>6, BacklogKept DEF Ask, TakeAnswer, Answer, Steer, ReadBusy, bus
<1>7. CASE Clear
  BY <1>7, BacklogCleared
<1>8. ASSUME NEW w \in Windows, WindowStep(w) PROVE BacklogInv'
  BY <1>8, BacklogKept DEF WindowStep, Render, Connect, Disconnect, windows
<1>9. CASE UNCHANGED vars
  BY <1>9, BacklogKept DEF vars, bus
<1>10. QED
  BY <1>1, <1>2, <1>4, <1>5, <1>6, <1>7, <1>8, <1>9 DEF Next, WorkerStep, ControllerStep

\* An event put changes what every window that is there comes to show.
LEMMA PutShows ==
  ASSUME TypeInv, NEW e \in Numbered, Put(e), view' = view
  PROVE  /\ subs' = subs
         /\ Shows' = [w \in Windows |-> IF w \in subs THEN Rendered(Shows[w], e) ELSE <<>>]
<1>1. queue \in [Windows -> Seq(Event)] /\ e \in Event /\ subs' = subs
  BY DEF TypeInv, TypeOK, Numbered, Put
<1>2. \A w \in Windows : queue'[w] = IF w \in subs THEN Append(queue[w], e) ELSE queue[w]
  BY DEF Put
<1>3. \A w \in Windows \cap subs : After(view[w], Append(queue[w], e)) = Rendered(After(view[w], queue[w]), e)
  BY <1>1, AfterAppend
<1>4. \A w \in Windows \cap subs : Eventual(w)' = Rendered(Eventual(w), e)
  BY <1>2, <1>3 DEF Eventual
<1>5. QED
  BY <1>1, <1>4 DEF Shows

\* A line is said in every window that is there.
LEMMA LineIsSaid ==
  ASSUME TypeInv, PutLine, view' = view, submit = "clearing" <=> submit' = "clearing"
  PROVE  Shared!Next
<1>1. PICK l \in 1..MaxPuts : l = puts + 1
  BY EventBusAssumption DEF TypeInv, TypeOK, PutLine, Put
<1> DEFINE e == [kind |-> "line", line |-> l]
<1>2. e \in Numbered /\ IsLine(e) /\ e.line = l /\ Put(e)
  BY <1>1 DEF Numbered, Event, Kinds, IsLine, PutLine
<1>3. said' = Append(said, l)
  BY <1>2 DEF Put
<1>4. /\ subs' = subs
      /\ Shows' = [w \in Windows |-> IF w \in subs THEN Append(Shows[w], l) ELSE <<>>]
  <2>1. \A v : Rendered(v, e) = Append(v, l)
    BY <1>2 DEF Rendered
  <2> HIDE DEF e
  <2>2. Shows' = [w \in Windows |-> IF w \in subs THEN Rendered(Shows[w], e) ELSE <<>>]
    BY <1>2, PutShows
  <2>3. subs' = subs
    BY <1>2, PutShows
  <2>4. QED
    BY <2>1, <2>2, <2>3
<1>5. \A w \in Windows : w \notin subs => Shows[w] = <<>>
  BY DEF Shows
<1>6. Shows' = [w \in Windows |-> IF w \in subs THEN Append(Shows[w], l) ELSE Shows[w]]
  BY <1>4, <1>5
<1>7. (submit = "clearing")' = (submit = "clearing")
  OBVIOUS
<1> HIDE DEF e
<1>8. Shared!Say(l)
  BY <1>3, <1>4, <1>6, <1>7 DEF Shared!Say, Shows
<1>9. QED
  BY <1>8 DEF Shared!Next

\* The reset clears what every window shows.
LEMMA ResetClears ==
  ASSUME TypeInv, PutReset
  PROVE  Shared!Next
<1> DEFINE e == Signal("reset")
<1>1. e \in Numbered /\ e.kind = "reset" /\ ~IsLine(e)
  BY SignalNumbered DEF Kinds, IsLine
<1>2. Put(e) /\ view' = view /\ submit = "clearing" /\ submit' # "clearing"
  BY DEF PutReset, windows
<1>3. said' = <<>> /\ \A v : Rendered(v, e) = <<>>
  BY <1>1, <1>2 DEF Put, Rendered
<1> HIDE DEF e
<1>4. subs' = subs /\ Shows' = [w \in Windows |-> <<>>]
  BY <1>1, <1>2, <1>3, PutShows
<1>5. Shared!Clear
  BY <1>2, <1>3, <1>4 DEF Shared!Clear, Shows
<1>6. QED
  BY <1>5 DEF Shared!Next

\* Other events tell the windows nothing of the conversation.
LEMMA SignalIsQuiet ==
  ASSUME TypeInv, NEW k \in Kinds \ {"line", "reset"}, Put(Signal(k)), view' = view,
         submit = "clearing" <=> submit' = "clearing"
  PROVE  UNCHANGED Shared!vars
<1> DEFINE e == Signal(k)
<1>1. e \in Numbered /\ e.kind = k /\ ~IsLine(e) /\ e.kind # "reset"
  BY SignalNumbered DEF IsLine
<1>2. said' = said /\ \A v : Rendered(v, e) = v
  BY <1>1 DEF Put, Rendered
<1> HIDE DEF e
<1>3. subs' = subs /\ Shows' = [w \in Windows |-> IF w \in subs THEN Rendered(Shows[w], e) ELSE <<>>]
  BY <1>1, PutShows DEF e
<1>4. Shows' = Shows
  BY <1>2, <1>3 DEF Shows
<1>5. QED
  BY <1>2, <1>3, <1>4 DEF Shared!vars, Shows

\* A step that touches neither what windows show nor what is queued for them.
LEMMA WindowsKept ==
  ASSUME UNCHANGED <<said, subs, view, queue>>, submit = "clearing" <=> submit' = "clearing"
  PROVE  UNCHANGED Shared!vars
BY DEF Shared!vars, Eventual

\* What a window is about to show, it comes to show.
LEMMA RenderIsQuiet ==
  ASSUME TypeInv, NEW w \in Windows, Render(w)
  PROVE  UNCHANGED Shared!vars
<1> DEFINE q == queue[w]
           e == Head(q)
<1>1. queue \in [Windows -> Seq(Event)] /\ view \in [Windows -> Seq(1..MaxPuts)] /\ q # <<>>
  BY DEF TypeInv, TypeOK, Render
<1>2. /\ queue' = [queue EXCEPT ![w] = Tail(@)]
      /\ view' = [view EXCEPT ![w] = Rendered(@, e)]
      /\ UNCHANGED <<said, subs, submit>>
  BY DEF Render
<1>3. queue'[w] = Tail(q) /\ view'[w] = Rendered(view[w], e)
  BY <1>1, <1>2
<1>4. \A x \in Windows \ {w} : queue'[x] = queue[x] /\ view'[x] = view[x]
  BY <1>1, <1>2
<1>5. After(view'[w], queue'[w]) = After(view[w], queue[w])
  BY <1>1, <1>3, AfterTail
<1>6. \A x \in Windows : Eventual(x)' = Eventual(x)
  BY <1>4, <1>5 DEF Eventual
<1>7. QED
  BY <1>2, <1>6 DEF Shared!vars

\* A page that connects joins with the end of the conversation.
LEMMA ConnectJoins ==
  ASSUME TypeInv, BacklogInv, NEW w \in Windows, Connect(w)
  PROVE  Shared!Next
<1>1. /\ w \notin subs /\ subs' = subs \cup {w} /\ queue' = [queue EXCEPT ![w] = Subscription]
      /\ view' = [view EXCEPT ![w] = <<>>]
      /\ UNCHANGED <<said, submit>>
  BY DEF Connect
<1>2. /\ queue \in [Windows -> Seq(Numbered)] /\ view \in [Windows -> Seq(1..MaxPuts)]
      /\ backlog \in Seq(Event) /\ said \in Seq(1..MaxPuts) /\ latest \in Busy
  BY DEF TypeInv, TypeOK
<1>3. After(<<>>, Subscription) = After(<<>>, backlog)
  <2>1. Signal(latest) \in Event /\ ~IsLine(Signal(latest)) /\ Signal(latest).kind # "reset"
    BY <1>2, SignalNumbered DEF Kinds, Busy, IsLine, Numbered
  <2>2. QED
    BY <1>2, <2>1, AfterAppend DEF Subscription, Rendered
<1>4. PICK k \in 0..Len(backlog), d \in 0..Len(said) :
             /\ Tells(backlog, said, k, d)
             /\ submit = "clearing" \/ d = 0 \/ (k = 0 /\ Len(backlog) = BacklogMax)
  BY DEF BacklogInv
<1> DEFINE s == SubSeq(said, d + 1, Len(said))
<1>5. After(<<>>, backlog) = s
  BY <1>2, <1>4, ReplayShows
<1>6. /\ Len(said) \in Nat /\ Len(backlog) \in Nat /\ k \in Nat /\ d \in Nat /\ d <= Len(said)
      /\ Len(said) = d + (Len(backlog) - k) /\ BacklogMax \in Nat
  BY <1>2, <1>4, LenProperties, EventBusAssumption DEF Tells
<1>7. s \in Shared!Suffixes(said)
  <2>1. CASE d < Len(said)
    <3>1. d + 1 \in 1..Len(said)
      BY <1>6, <2>1
    <3>2. QED
      BY <3>1 DEF Shared!Suffixes
  <2>2. CASE ~(d < Len(said))
    <3>1. Len(said) < d + 1 /\ d + 1 \in Int /\ Len(said) \in Int
      BY <1>6, <2>2
    <3>2. s = <<>>
      BY <3>1, SubSeqEmpty
    <3>3. QED
      BY <3>2 DEF Shared!Suffixes
  <2>3. QED
    BY <2>1, <2>2
<1>8. Len(s) = Len(said) - d
  <2>1. \A i \in (d + 1)..Len(said) : said[i] \in 1..MaxPuts
    <3>1. \A i \in (d + 1)..Len(said) : i \in 1..Len(said)
      BY <1>6
    <3>2. QED
      BY <1>2, <3>1, ElementOfSeq
  <2>2. d + 1 \in Int /\ Len(said) \in Int
    BY <1>6
  <2>3. Len(s) = IF d + 1 <= Len(said) THEN Len(said) - (d + 1) + 1 ELSE 0
    BY <2>1, <2>2, SubSeqProperties
  <2>4. QED
    BY <1>6, <2>3
<1>9. submit = "clearing" \/ Len(s) >= Shared!Min({BacklogMax, Len(said)})
  <2> DEFINE m == Shared!Min({BacklogMax, Len(said)})
  <2>1. m = CHOOSE x \in {BacklogMax, Len(said)} : \A y \in {BacklogMax, Len(said)} : x <= y
    BY DEF Shared!Min
  <2>2. \E x \in {BacklogMax, Len(said)} : \A y \in {BacklogMax, Len(said)} : x <= y
    BY <1>6
  <2>3. m \in {BacklogMax, Len(said)} /\ m <= BacklogMax /\ m <= Len(said)
    BY <2>1, <2>2
  <2> HIDE DEF m, s
  <2>4. QED
    BY <1>4, <1>6, <1>8, <2>3 DEF m
<1> HIDE DEF s
<1>10. Shows' = [Shows EXCEPT ![w] = s]
  <2>1. queue'[w] = Subscription /\ view'[w] = <<>>
    BY <1>1, <1>2
  <2>2. \A x \in Windows \ {w} : queue'[x] = queue[x] /\ view'[x] = view[x] /\ (x \in subs' <=> x \in subs)
    BY <1>1, <1>2
  <2>3. Eventual(w)' = s
    BY <1>3, <1>5, <2>1 DEF Eventual
  <2>4. \A x \in Windows \ {w} : Eventual(x)' = Eventual(x)
    BY <2>2 DEF Eventual
  <2>5. QED
    BY <1>1, <2>2, <2>3, <2>4 DEF Shows
<1>11. (submit = "clearing")' = (submit = "clearing")
  BY <1>1
<1>12. Shared!Join(w)
  BY <1>1, <1>7, <1>9, <1>10, <1>11 DEF Shared!Join, Shows
<1>13. QED
  BY <1>12 DEF Shared!Next

LEMMA DisconnectLeaves ==
  ASSUME TypeInv, NEW w \in Windows, Disconnect(w)
  PROVE  Shared!Next
<1>1. /\ w \in subs /\ subs' = subs \ {w} /\ queue' = [queue EXCEPT ![w] = <<>>]
      /\ UNCHANGED <<view, said, submit>>
  BY DEF Disconnect, windows
<1>2. \A x \in Windows \ {w} : queue'[x] = queue[x] /\ (x \in subs' <=> x \in subs)
  BY <1>1 DEF TypeInv, TypeOK
<1>3. \A x \in Windows \ {w} : Eventual(x)' = Eventual(x)
  BY <1>1, <1>2 DEF Eventual
<1>4. Shows' = [Shows EXCEPT ![w] = <<>>]
  BY <1>1, <1>2, <1>3 DEF Shows
<1>5. (submit = "clearing")' = (submit = "clearing")
  BY <1>1
<1>6. Shared!Leave(w)
  BY <1>1, <1>4, <1>5 DEF Shared!Leave, Shows
<1>7. QED
  BY <1>6 DEF Shared!Next

\* "A message typed in either window appears in both": what the windows come to show is
\* one conversation.  Every event of the bus, every page that connects, breaks off or
\* renders is a step of the shared transcript or changes nothing of it (events.py put,
\* subscribe and reset; app.js connect and handleEvents).
THEOREM BusShares == Spec => SharedConversation
<1>1. Init => Shared!Init /\ BacklogInv
  <2> SUFFICES ASSUME Init PROVE Shared!Init /\ BacklogInv
    OBVIOUS
  <2>1. \A w \in Windows : Eventual(w) = <<>>
    <3> SUFFICES ASSUME NEW w \in Windows PROVE After(view[w], queue[w]) = <<>>
      BY DEF Eventual
    <3>1. view[w] = <<>> /\ queue[w] \in {<<>>, Append(<<>>, Signal("idle"))}
      BY DEF Init
    <3>2. Signal("idle") \in Event /\ ~IsLine(Signal("idle")) /\ Signal("idle").kind # "reset"
      BY SignalNumbered DEF Kinds, Busy, IsLine, Numbered
    <3>3. <<>> \in Seq(Event)
      OBVIOUS
    <3>4. After(<<>>, Append(<<>>, Signal("idle"))) = Rendered(After(<<>>, <<>>), Signal("idle"))
      BY <3>2, <3>3, AfterAppend
    <3>5. QED
      BY <3>1, <3>2, <3>4, AfterNothing DEF Rendered
  <2>2. Shows = [w \in Windows |-> <<>>]
    BY <2>1 DEF Shows
  <2>3. said = <<>> /\ subs \subseteq Windows /\ submit # "clearing"
    BY DEF Init, Windows
  <2>4. Shared!Init
    BY <2>2, <2>3 DEF Shared!Init, Shows
  <2>5. BacklogInv
    <3>1. Tells(<<>>, <<>>, 0, 0) /\ 0 \in 0..Len(<<>>)
      BY DEF Tells
    <3>2. QED
      BY <3>1 DEF Init, BacklogInv
  <2>6. QED
    BY <2>4, <2>5
<1>2. TypeInv /\ BacklogInv /\ [Next]_vars => [Shared!Next]_(Shared!vars)
  <2> SUFFICES ASSUME TypeInv, BacklogInv, [Next]_vars PROVE [Shared!Next]_(Shared!vars)
    OBVIOUS
  <2>1. CASE Say \/ PutQuestion \/ Submit \/ Replay \/ Note
    <3>1. PutLine /\ view' = view /\ (submit = "clearing" <=> submit' = "clearing")
      BY <2>1 DEF Say, PutQuestion, Submit, Replay, Note, windows
    <3>2. QED
      BY <3>1, LineIsSaid
  <2>2. CASE PutReset
    BY <2>2, ResetClears
  <2>3. CASE Delta \/ StreamEnd \/ PutWaiting \/ EndTurn \/ StartTurn
    <3>1. PICK k \in Kinds \ {"line", "reset"} : Put(Signal(k))
      BY <2>3 DEF Delta, StreamEnd, PutWaiting, EndTurn, StartTurn, Kinds, Busy
    <3>2. view' = view /\ (submit = "clearing" <=> submit' = "clearing")
      BY <2>3 DEF Delta, StreamEnd, PutWaiting, EndTurn, StartTurn, windows
    <3>3. QED
      BY <3>1, <3>2, SignalIsQuiet
  <2>4. CASE EmitBusy
    <3>1. submit \in Kinds \ {"line", "reset"} /\ Put(Signal(submit))
      BY <2>4 DEF EmitBusy, Kinds, Busy
    <3>2. view' = view /\ (submit = "clearing" <=> submit' = "clearing")
      BY <2>4 DEF EmitBusy, windows, Busy
    <3>3. QED
      BY <3>1, <3>2, SignalIsQuiet
  <2>5. CASE Ask \/ TakeAnswer \/ Answer \/ Steer \/ ReadBusy
    <3>1. UNCHANGED <<said, subs, view, queue>> /\ (submit = "clearing" <=> submit' = "clearing")
      BY <2>5 DEF Ask, TakeAnswer, Answer, Steer, ReadBusy, bus, windows, Now
    <3>2. QED
      BY <3>1, WindowsKept
  <2>6. CASE Clear
    <3>1. UNCHANGED <<said, subs, view, queue>> /\ submit' = "clearing"
      BY <2>6 DEF Clear, windows
    <3>2. Shared!BeginClear
      BY <3>1 DEF Shared!BeginClear, Eventual
    <3>3. QED
      BY <3>2 DEF Shared!Next
  <2>7. ASSUME NEW w \in Windows, WindowStep(w) PROVE [Shared!Next]_(Shared!vars)
    BY <2>7, RenderIsQuiet, ConnectJoins, DisconnectLeaves DEF WindowStep
  <2>8. CASE UNCHANGED vars
    BY <2>8, WindowsKept DEF vars, bus, windows
  <2>9. QED
    BY <2>1, <2>2, <2>3, <2>4, <2>5, <2>6, <2>7, <2>8 DEF Next, WorkerStep, ControllerStep
<1>3. TypeInv /\ BacklogInv /\ [Next]_vars => BacklogInv'
  BY BacklogStep
<1>4. QED
  BY <1>1, <1>2, <1>3, BusInvariant, PTL DEF Spec, SharedConversation, Shared!Spec

=============================================================================
