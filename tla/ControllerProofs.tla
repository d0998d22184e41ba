--------------------------- MODULE ControllerProofs ---------------------------
(* Theorems about the controller and its workers, for every number of        *)
(* messages, threads and rounds.                                             *)
EXTENDS Controller, TLAPS, SequenceTheorems

\* Type correctness: every variable keeps its range under every action.
THEOREM Typing == Spec => []TypeOK
<1>1. Init => TypeOK
  <2> SUFFICES ASSUME Init PROVE TypeOK
    OBVIOUS
  <2>1. <<>> \in Seq(Msgs) /\ 0 \in 0..MaxRounds
    BY ControllerAssumption
  <2>2. /\ calls \subseteq Threads
        /\ pc \in [Threads -> PCs]
        /\ fn \in [Threads -> Work]
        /\ text \in [Threads -> Seq(Msgs)]
        /\ rounds \in [Threads -> 0..MaxRounds]
        /\ how \in [Msgs -> How]
        /\ escaped \subseteq Msgs \X {"amid", "edge"}
    BY <2>1 DEF Init, PCs, How, Work
  <2>3. QED
    BY <2>1, <2>2, Zenon DEF Init, TypeOK
<1>2. TypeOK /\ [Next]_vars => TypeOK'
  <2> SUFFICES ASSUME TypeOK, [Next]_vars PROVE TypeOK'
    OBVIOUS
  <2> USE ControllerAssumption
  <2>1. ASSUME NEW m \in Msgs, StartTurn(m) PROVE TypeOK'
    BY <2>1 DEF TypeOK, StartTurn, RunBg, PCs, How, Work
  <2>2. ASSUME NEW m \in Msgs, Answer(m) PROVE TypeOK'
    <3>1. answers' \in Seq(Msgs)
      <4>1. answers \in Seq(Msgs)
        BY DEF TypeOK
      <4>2. answers' = Append(answers, m)
        BY <2>2 DEF Answer
      <4>3. QED
        BY <4>1, <4>2
    <3>2. how' \in [Msgs -> How]
      BY <2>2 DEF TypeOK, Answer, How
    <3>3. QED
      BY <2>2, <3>1, <3>2 DEF TypeOK, Answer, worker
  <2>3. ASSUME NEW m \in Msgs, Steer(m) PROVE TypeOK'
    <3>1. Running \in Work
      BY DEF TypeOK, Running, Work
    <3>2. QED
      BY <2>3, <3>1 DEF TypeOK, Steer, worker, How
  <2>4. CASE Compact
    BY <2>4 DEF TypeOK, Compact, RunBg, ghosts, PCs, Work
  <2>5. CASE RunPlan
    BY <2>5 DEF TypeOK, RunPlan, RunBg, ghosts, PCs, Work
  <2>6. CASE NewConversation
    BY <2>6 DEF TypeOK, NewConversation, worker, ghosts
  <2>7. CASE AskAboutFiles
    BY <2>7 DEF TypeOK, AskAboutFiles, worker, ghosts
  <2>8. TypeOK /\ Resend => /\ busy' \in BOOLEAN
                            /\ history' \in Seq(Msgs)
                            /\ calls' \subseteq Threads
                            /\ pc' \in [Threads -> PCs]
                            /\ fn' \in [Threads -> Work]
                            /\ text' \in [Threads -> Seq(Msgs)]
                            /\ rounds' \in [Threads -> 0..MaxRounds]
    BY DEF TypeOK, Resend, RunBg, PCs, Work
  <2>9. CASE RetryAsked
    BY <2>8, <2>9 DEF TypeOK, RetryAsked, worker, ghosts
  <2>10. CASE Confirm
    BY <2>8, <2>10 DEF TypeOK, Confirm, worker, ghosts
  <2>11. CASE Esc
    BY <2>11 DEF TypeOK, Esc, worker, ghosts
  <2>12. CASE EscLands
    <3>1. ToSet(steer) \subseteq Msgs
      BY DEF TypeOK, ToSet
    <3>2. escaped' \subseteq Msgs \X {"amid", "edge"}
      BY <2>12, <3>1 DEF TypeOK, EscLands
    <3>3. QED
      BY <2>12, <3>2 DEF TypeOK, EscLands, worker
  <2>13. ASSUME NEW t \in Threads, Begin(t) PROVE TypeOK'
    <3>1. pc' \in [Threads -> PCs]
      BY <2>13 DEF TypeOK, Begin, Goto, PCs, Work
    <3>2. rounds' \in [Threads -> 0..MaxRounds]
      <4>1. rounds' = [rounds EXCEPT ![t] = 0]
        BY <2>13 DEF Begin
      <4>2. QED
        BY <4>1 DEF TypeOK
    <3>3. QED
      BY <2>13, <3>1, <3>2 DEF TypeOK, Begin, ghosts
  <2>14. ASSUME NEW t \in Threads, Prepare(t) PROVE TypeOK'
    BY <2>14 DEF TypeOK, Prepare, Goto, ghosts, PCs
  <2>15. ASSUME NEW t \in Threads, Round(t) PROVE TypeOK'
    <3>1. pc' \in [Threads -> PCs]
      BY <2>15 DEF TypeOK, Round, Goto, PCs
    <3>2. \/ UNCHANGED <<steer, history, rounds>>
          \/ /\ ~(rounds[t] >= MaxRounds)
             /\ rounds' = [rounds EXCEPT ![t] = @ + 1]
             /\ history' = history \o steer
             /\ steer' = <<>>
      BY <2>15, Zenon DEF Round
    <3>3. /\ rounds' \in [Threads -> 0..MaxRounds]
          /\ history' \in Seq(Msgs)
          /\ steer' \in Seq(Msgs)
      <4>1. /\ rounds \in [Threads -> 0..MaxRounds]
            /\ history \in Seq(Msgs)
            /\ steer \in Seq(Msgs)
        BY DEF TypeOK
      <4>2. history \o steer \in Seq(Msgs) /\ <<>> \in Seq(Msgs)
        BY <4>1, ConcatProperties
      <4>3. history' \in Seq(Msgs) /\ steer' \in Seq(Msgs)
        BY <3>2, <4>1, <4>2, Zenon
      <4>4. \/ rounds' = rounds
            \/ ~(rounds[t] >= MaxRounds) /\ rounds' = [rounds EXCEPT ![t] = @ + 1]
        BY <3>2
      <4>5. rounds' \in [Threads -> 0..MaxRounds]
        BY <4>1, <4>4
      <4>6. QED
        BY <4>3, <4>5
    <3>4. QED
      BY <2>15, <3>1, <3>2, <3>3 DEF TypeOK, Round, ghosts
  <2>16. ASSUME NEW t \in Threads, Reply(t) PROVE TypeOK'
    BY <2>16 DEF TypeOK, Reply, Goto, ghosts, PCs
  <2>17. ASSUME NEW t \in Threads, NextCall(t) PROVE TypeOK'
    BY <2>17 DEF TypeOK, NextCall, Goto, shared, ghosts, PCs
  <2>18. ASSUME NEW t \in Threads, EndBatch(t) PROVE TypeOK'
    BY <2>18 DEF TypeOK, EndBatch, Goto, ghosts, PCs
  <2>19. ASSUME NEW t \in Threads, RunCall(t) PROVE TypeOK'
    BY <2>19 DEF TypeOK, RunCall, Goto, shared, ghosts, PCs
  <2>20. ASSUME NEW t \in Threads, Ask(t) PROVE TypeOK'
    BY <2>20 DEF TypeOK, Ask, Goto, ghosts, PCs
  <2>21. ASSUME NEW t \in Threads, Answered(t) PROVE TypeOK'
    <3>1. pc' \in [Threads -> PCs] /\ awaiting' \in BOOLEAN
      BY <2>21 DEF TypeOK, Answered, Goto, PCs
    <3>2. answers' \in Seq(Msgs)
      BY <2>21 DEF TypeOK, Answered
    <3>3. QED
      BY <2>21, <3>1, <3>2 DEF TypeOK, Answered, ghosts
  <2>22. ASSUME NEW t \in Threads, Leave(t) PROVE TypeOK'
    BY <2>22 DEF TypeOK, Leave, Goto, ghosts, PCs
  <2>23. ASSUME NEW t \in Threads, Finish(t) PROVE TypeOK'
    <3>1. pc' \in [Threads -> PCs]
      BY <2>23 DEF TypeOK, Finish, Goto, PCs
    <3>2. /\ busy' \in BOOLEAN
          /\ steer' \in Seq(Msgs)
          /\ text' \in [Threads -> Seq(Msgs)]
      <4>1. CASE fn[t] = "turn" /\ steer # <<>>
        <5>1. /\ busy' = busy
              /\ steer' = <<>>
              /\ text' = [text EXCEPT ![t] = steer]
          BY <2>23, <4>1 DEF Finish
        <5>2. /\ busy \in BOOLEAN
              /\ steer \in Seq(Msgs)
              /\ text \in [Threads -> Seq(Msgs)]
          BY DEF TypeOK
        <5>3. busy' \in BOOLEAN
          BY <5>1, <5>2, Zenon
        <5>4. steer' \in Seq(Msgs) /\ text' \in [Threads -> Seq(Msgs)]
          BY <5>1, <5>2
        <5>5. QED
          BY <5>3, <5>4
      <4>2. CASE ~(fn[t] = "turn" /\ steer # <<>>)
        BY <2>23, <4>2 DEF TypeOK, Finish
      <4>3. QED
        BY <4>1, <4>2
    <3>3. QED
      BY <2>23, <3>1, <3>2 DEF TypeOK, Finish, ghosts
  <2>24. CASE UNCHANGED vars
    BY <2>24 DEF TypeOK, vars, shared, worker, ghosts
  <2>25. QED
    BY <2>1, <2>2, <2>3, <2>4, <2>5, <2>6, <2>7, <2>9, <2>10, <2>11, <2>12, <2>13,
       <2>14, <2>15, <2>16, <2>17, <2>18, <2>19, <2>20, <2>21, <2>22, <2>23, <2>24
       DEF Next, UserStep, WorkerStep
<1>3. QED
  BY <1>1, <1>2, PTL DEF Spec

-----------------------------------------------------------------------------
(* One worker at a time.  The three facts hold together: busy can only be     *)
(* cleared under a lock by the one worker there is, and an answer finds its   *)
(* asker because no second worker can ask.                                    *)

WorkerInv == OneWorker /\ BusyIsWorker /\ AnswerReachesAsker

\* No command that starts work is typed while the model waits for an answer.
NoStarterAtQuestion == WaitingCommands \cap Starters = {}

\* A worker that goes on without asking keeps the invariant.
LEMMA GoesOn ==
  ASSUME TypeOK, WorkerInv, NEW t \in Threads, NEW where,
         pc[t] \notin {"off", "asking"}, where \notin {"off", "asking"},
         pc' = [pc EXCEPT ![t] = where],
         UNCHANGED <<busy, awaiting, answers>>
  PROVE  WorkerInv'
<1>1. pc \in [Threads -> PCs]
  BY DEF TypeOK
<1>2. \A u \in Threads : /\ pc'[u] = "off" <=> pc[u] = "off"
                         /\ pc'[u] = "asking" <=> pc[u] = "asking"
  BY <1>1
<1>3. QED
  BY <1>2 DEF WorkerInv, OneWorker, BusyIsWorker, AnswerReachesAsker, Alive

\* A worker started while none runs is the only one.
LEMMA StartsAlone ==
  ASSUME TypeOK, WorkerInv, ~busy, NEW work, NEW msgs, RunBg(work, msgs),
         UNCHANGED <<awaiting, answers>>
  PROVE  WorkerInv'
<1>1. PICK t \in Threads : busy' = TRUE /\ pc' = [pc EXCEPT ![t] = "start"]
  BY DEF RunBg
<1>2. pc \in [Threads -> PCs]
  BY DEF TypeOK
<1>3. \A u \in Threads : pc[u] = "off"
  BY DEF WorkerInv, BusyIsWorker, Alive
<1>4. /\ pc'[t] = "start"
      /\ \A u \in Threads \ {t} : pc'[u] = "off"
  BY <1>1, <1>2, <1>3
<1>5. ~awaiting /\ answers = <<>>
  BY <1>3 DEF WorkerInv, AnswerReachesAsker
<1>6. OneWorker' /\ BusyIsWorker'
  BY <1>1, <1>4 DEF OneWorker, BusyIsWorker, Alive
<1>7. AnswerReachesAsker'
  BY <1>4, <1>5 DEF AnswerReachesAsker
<1>8. QED
  BY <1>6, <1>7 DEF WorkerInv

\* At most one worker runs, busy says whether, and an answer is only given to a
\* worker that asks: provided no command that starts work is typed at a question.
THEOREM WorkerSafety ==
  ASSUME NoStarterAtQuestion
  PROVE  Spec => [](OneWorker /\ BusyIsWorker /\ AnswerReachesAsker)
<1>1. Init => WorkerInv
  BY DEF Init, WorkerInv, OneWorker, BusyIsWorker, AnswerReachesAsker, Alive
<1>2. TypeOK /\ WorkerInv /\ [Next]_vars => WorkerInv'
  <2> SUFFICES ASSUME TypeOK, WorkerInv, [Next]_vars PROVE WorkerInv'
    OBVIOUS
  <2>1. UNCHANGED <<busy, pc, awaiting, answers>> => WorkerInv'
    BY DEF WorkerInv, OneWorker, BusyIsWorker, AnswerReachesAsker, Alive
  <2>2. \A c \in Starters : Typed(c) => ~busy
    BY DEF Typed, NoStarterAtQuestion
  <2>3. ASSUME NEW m \in Msgs, StartTurn(m) PROVE WorkerInv'
    BY <2>3, StartsAlone DEF StartTurn
  <2>4. ASSUME NEW m \in Msgs, Answer(m) PROVE WorkerInv'
    <3>1. awaiting /\ awaiting' = FALSE /\ answers' = Append(answers, m) /\ UNCHANGED <<busy, pc>>
      BY <2>4 DEF Answer, Waiting, worker
    <3>2. /\ answers = <<>>
          /\ \E t \in Threads : pc[t] = "asking"
      BY <3>1 DEF WorkerInv, AnswerReachesAsker
    <3>3. answers' # <<>> /\ Len(answers') <= 1
      BY <3>1, <3>2
    <3>4. AnswerReachesAsker'
      BY <3>1, <3>2, <3>3 DEF AnswerReachesAsker
    <3>5. QED
      BY <3>1, <3>4 DEF WorkerInv, OneWorker, BusyIsWorker, Alive
  <2>5. ASSUME NEW m \in Msgs, Steer(m) PROVE WorkerInv'
    BY <2>1, <2>5 DEF Steer, worker
  <2>6. CASE Compact
    BY <2>2, <2>6, StartsAlone DEF Compact, Starters
  <2>7. CASE RunPlan
    BY <2>2, <2>7, StartsAlone DEF RunPlan, Starters
  <2>8. CASE NewConversation
    BY <2>1, <2>8 DEF NewConversation, worker
  <2>9. CASE AskAboutFiles
    BY <2>1, <2>9 DEF AskAboutFiles, worker
  <2>10. ASSUME ~busy, Resend, UNCHANGED <<awaiting, answers>> PROVE WorkerInv'
    BY <2>10, StartsAlone DEF Resend
  <2>11. CASE RetryAsked
    BY <2>1, <2>10, <2>11 DEF RetryAsked, worker
  <2>12. CASE Confirm
    BY <2>1, <2>10, <2>12 DEF Confirm, worker
  <2>13. CASE Esc
    BY <2>1, <2>13 DEF Esc, worker
  <2>14. CASE EscLands
    BY <2>1, <2>14 DEF EscLands, worker
  <2>15. ASSUME NEW t \in Threads, WorkerStep(t) PROVE WorkerInv'
    <3> pc \in [Threads -> PCs] /\ answers \in Seq(Msgs)
      BY DEF TypeOK
    <3>13. Alive(t) => \A u \in Threads \ {t} : pc[u] = "off"
      BY DEF WorkerInv, OneWorker, Alive
    <3>1. CASE Begin(t)
      <4>1. PICK where \in {"prepare", "round", "request"} : pc' = [pc EXCEPT ![t] = where]
        BY <3>1 DEF Begin, Goto, TypeOK, Work
      <4>2. QED
        BY <3>1, <4>1, GoesOn DEF Begin
    <3>2. CASE Prepare(t)
      BY <3>2, GoesOn DEF Prepare, Goto
    <3>3. CASE Round(t)
      BY <3>3, GoesOn DEF Round, Goto
    <3>4. CASE Reply(t)
      BY <3>4, GoesOn DEF Reply, Goto
    <3>5. CASE NextCall(t)
      BY <3>5, GoesOn DEF NextCall, Goto, shared
    <3>6. CASE EndBatch(t)
      BY <3>6, GoesOn DEF EndBatch, Goto
    <3>7. CASE RunCall(t)
      BY <3>7, GoesOn DEF RunCall, Goto, shared
    <3>8. CASE Ask(t)
      <4>1. /\ pc[t] = "call"
            /\ pc' = [pc EXCEPT ![t] = "asking"]
            /\ awaiting' = TRUE
            /\ UNCHANGED <<busy, answers>>
        BY <3>8 DEF Ask, Goto
      <4>2. /\ pc'[t] = "asking"
            /\ \A u \in Threads \ {t} : pc[u] = "off" /\ pc'[u] = "off"
        BY <3>13, <4>1 DEF Alive
      <4>3. answers = <<>>
        BY <4>1, <4>2 DEF WorkerInv, AnswerReachesAsker
      <4>4. AnswerReachesAsker'
        BY <4>1, <4>2, <4>3 DEF AnswerReachesAsker
      <4>5. OneWorker' /\ BusyIsWorker'
        BY <4>1, <4>2 DEF WorkerInv, OneWorker, BusyIsWorker, Alive
      <4>6. QED
        BY <4>4, <4>5 DEF WorkerInv
    <3>9. CASE Answered(t)
      <4>1. /\ pc[t] = "asking" /\ answers # <<>>
            /\ pc' = [pc EXCEPT ![t] = "tools"]
            /\ awaiting' = FALSE
            /\ answers' = Tail(answers)
            /\ UNCHANGED busy
        BY <3>9 DEF Answered, Goto
      <4>2. /\ pc'[t] = "tools"
            /\ \A u \in Threads \ {t} : pc[u] = "off" /\ pc'[u] = "off"
        BY <3>13, <4>1 DEF Alive
      <4>3. Len(answers) = 1
        <5>1. Len(answers) <= 1
          BY DEF WorkerInv, AnswerReachesAsker
        <5>2. Len(answers) \in Nat \ {0}
          BY <4>1, EmptySeq
        <5> DEFINE n == Len(answers)
        <5> HIDE DEF n
        <5>3. n <= 1 /\ n \in Nat \ {0} => n = 1
          OBVIOUS
        <5>4. QED
          BY <5>1, <5>2, <5>3 DEF n
      <4>4. answers' = <<>>
        BY <4>1, <4>3
      <4>5. AnswerReachesAsker'
        <5>1. Len(answers') <= 1
          BY <4>4
        <5>2. \A u \in Threads : pc'[u] # "asking"
          BY <4>2
        <5>3. QED
          BY <4>1, <4>4, <5>1, <5>2, Zenon DEF AnswerReachesAsker
      <4>6. OneWorker' /\ BusyIsWorker'
        BY <4>1, <4>2 DEF WorkerInv, OneWorker, BusyIsWorker, Alive
      <4>7. QED
        BY <4>5, <4>6 DEF WorkerInv
    <3>10. CASE Leave(t)
      BY <3>10, GoesOn DEF Leave, Goto
    <3>11. CASE Finish(t)
      <4>1. CASE fn[t] = "turn" /\ steer # <<>>
        BY <3>11, <4>1, GoesOn DEF Finish, Goto
      <4>2. CASE ~(fn[t] = "turn" /\ steer # <<>>)
        <5>1. /\ pc[t] = "ended"
              /\ busy' = FALSE
              /\ pc' = [pc EXCEPT ![t] = "off"]
              /\ UNCHANGED <<awaiting, answers>>
          BY <3>11, <4>2 DEF Finish, Goto
        <5>2. \A u \in Threads : pc'[u] = "off"
          BY <3>13, <5>1 DEF Alive
        <5>3. OneWorker' /\ BusyIsWorker'
          BY <5>1, <5>2 DEF OneWorker, BusyIsWorker, Alive
        <5>4. \A u \in Threads : pc[u] # "asking"
          BY <3>13, <5>1 DEF Alive
        <5>5. ~awaiting /\ answers = <<>>
          BY <5>4 DEF WorkerInv, AnswerReachesAsker
        <5>6. AnswerReachesAsker'
          BY <5>1, <5>2, <5>5 DEF AnswerReachesAsker
        <5>7. QED
          BY <5>3, <5>6 DEF WorkerInv
      <4>3. QED
        BY <4>1, <4>2
    <3>12. QED
      BY <2>15, <3>1, <3>2, <3>3, <3>4, <3>5, <3>6, <3>7, <3>8, <3>9, <3>10, <3>11
         DEF WorkerStep
  <2>16. CASE UNCHANGED vars
    BY <2>1, <2>16 DEF vars, shared, worker
  <2>17. QED
    BY <2>3, <2>4, <2>5, <2>6, <2>7, <2>8, <2>9, <2>11, <2>12, <2>13, <2>14, <2>15, <2>16
       DEF Next, UserStep
<1>3. WorkerInv => OneWorker /\ BusyIsWorker /\ AnswerReachesAsker
  BY DEF WorkerInv
<1>4. QED
  BY <1>1, <1>2, <1>3, Typing, PTL DEF Spec

\* Every answer that is given finds the question it answers.
THEOREM AnswersGoToAskers ==
  ASSUME NoStarterAtQuestion
  PROVE  Spec => []AnswerReachesAsker
<1>1. Spec => [](OneWorker /\ BusyIsWorker /\ AnswerReachesAsker)
  BY WorkerSafety
<1>2. QED
  BY <1>1, PTL

-----------------------------------------------------------------------------
(* What is left in the queue when the work ends.                              *)

\* A queued message was typed during a plan run or a compaction, or during a turn
\* that still runs and will look at the queue.
QueueInv ==
  \A m \in ToSet(steer) :
    \/ how[m] \in {"plan", "compact"}
    \/ how[m] = "turn" /\ \E t \in Threads : Alive(t) /\ fn[t] = "turn"

\* A step that keeps the queue, what is known of its messages, and every running
\* turn keeps the invariant.
LEMMA QueueUntouched ==
  ASSUME QueueInv, UNCHANGED <<steer, fn>>,
         \A m \in ToSet(steer) : how'[m] = how[m],
         \A t \in Threads : Alive(t) => Alive(t)'
  PROVE  QueueInv'
BY DEF QueueInv

\* A worker started while none runs finds only messages of finished helpers.
LEMMA QueueAtStart ==
  ASSUME QueueInv, BusyIsWorker, ~busy, UNCHANGED steer,
         \A m \in ToSet(steer) : how'[m] = how[m]
  PROVE  QueueInv'
BY DEF QueueInv, BusyIsWorker

\* _finish_bg: a message typed during a turn is never stranded; only those typed
\* during /compact or /plan run can be.
THEOREM NoTurnStrands ==
  ASSUME NoStarterAtQuestion
  PROVE  Spec => []StrandedOnlyByHelpers
<1> DEFINE I == TypeOK /\ OneWorker /\ BusyIsWorker
<1>1. Init => QueueInv
  BY DEF Init, QueueInv, ToSet
<1>2. I /\ QueueInv /\ [Next]_vars => QueueInv'
  <2> SUFFICES ASSUME TypeOK, OneWorker, BusyIsWorker, QueueInv, [Next]_vars
               PROVE  QueueInv'
    OBVIOUS
  <2>1. UNCHANGED <<steer, fn, how, pc>> => QueueInv'
    BY DEF QueueInv, Alive
  <2>2. \A m \in Msgs : how[m] \in {"new"} => m \notin ToSet(steer)
    BY DEF QueueInv
  <2>3. how \in [Msgs -> How] /\ ToSet(steer) \subseteq Msgs /\ pc \in [Threads -> PCs]
    BY DEF TypeOK, ToSet
  <2>4. ~busy /\ UNCHANGED <<steer, how>> => QueueInv'
    BY QueueAtStart
  <2>5. ASSUME NEW m \in Msgs, StartTurn(m) PROVE QueueInv'
    <3>1. \A k \in ToSet(steer) : how'[k] = how[k]
      BY <2>2, <2>3, <2>5 DEF StartTurn, Typable
    <3>2. QED
      BY <2>5, <3>1, QueueAtStart DEF StartTurn
  <2>6. ASSUME NEW m \in Msgs, Answer(m) PROVE QueueInv'
    <3>1. \A k \in ToSet(steer) : how'[k] = how[k]
      BY <2>2, <2>3, <2>6 DEF Answer, Typable
    <3>2. QED
      BY <2>6, <3>1, QueueUntouched DEF Answer, worker, Alive
  <2>7. ASSUME NEW m \in Msgs, Steer(m) PROVE QueueInv'
    <3>1. PICK t \in Threads : Alive(t) /\ Running = fn[t]
      BY <2>7 DEF Steer, BusyIsWorker, Running
    <3>2. /\ how'[m] = fn[t] /\ fn[t] \in {"turn", "plan", "compact"}
          /\ \A k \in Msgs \ {m} : how'[k] = how[k]
      BY <2>3, <2>7, <3>1 DEF Steer, TypeOK, Work
    <3>3. ToSet(steer') \subseteq ToSet(steer) \cup {m}
      BY <2>7 DEF Steer, ToSet, TypeOK
    <3>4. UNCHANGED <<pc, fn>>
      BY <2>7 DEF Steer, worker
    <3>5. QED
      BY <2>3, <3>1, <3>2, <3>3, <3>4 DEF QueueInv, Alive
  <2>8. CASE Compact
    BY <2>4, <2>8 DEF Compact, Typed, Starters, NoStarterAtQuestion, ghosts
  <2>9. CASE RunPlan
    BY <2>4, <2>9 DEF RunPlan, Typed, Starters, NoStarterAtQuestion, ghosts
  <2>10. CASE NewConversation
    BY <2>1, <2>10 DEF NewConversation, worker, ghosts
  <2>11. CASE AskAboutFiles
    BY <2>1, <2>11 DEF AskAboutFiles, worker, ghosts
  <2>12. CASE RetryAsked
    BY <2>4, <2>12 DEF RetryAsked, ghosts
  <2>13. CASE Confirm
    BY <2>1, <2>4, <2>13 DEF Confirm, worker, ghosts
  <2>14. CASE Esc
    BY <2>1, <2>14 DEF Esc, worker, ghosts
  <2>15. CASE EscLands
    BY <2>1, <2>15 DEF EscLands, worker
  <2>16. ASSUME NEW t \in Threads, WorkerStep(t) PROVE QueueInv'
    <3>1. ASSUME NEW where, pc[t] # "off", where # "off", Goto(t, where),
                 UNCHANGED <<steer, fn, how>>
          PROVE  QueueInv'
      BY <2>3, <3>1, QueueUntouched DEF Goto, Alive
    <3>2. steer' = <<>> => QueueInv'
      BY DEF QueueInv, ToSet
    <3>3. CASE Begin(t)
      <4>1. PICK where \in {"prepare", "round", "request"} : Goto(t, where)
        BY <3>3 DEF Begin, TypeOK, Work
      <4>2. QED
        BY <3>1, <3>3, <4>1 DEF Begin, ghosts
    <3>4. CASE Prepare(t)
      BY <3>1, <3>4 DEF Prepare, ghosts
    <3>5. CASE Round(t)
      BY <3>1, <3>2, <3>5 DEF Round, ghosts
    <3>6. CASE Reply(t)
      BY <3>1, <3>6 DEF Reply, ghosts
    <3>7. CASE NextCall(t)
      BY <3>1, <3>7 DEF NextCall, shared, ghosts
    <3>8. CASE EndBatch(t)
      BY <3>1, <3>8 DEF EndBatch, ghosts
    <3>9. CASE RunCall(t)
      BY <3>1, <3>9 DEF RunCall, shared, ghosts
    <3>10. CASE Ask(t)
      BY <3>1, <3>10 DEF Ask, ghosts
    <3>11. CASE Answered(t)
      BY <3>1, <3>11 DEF Answered, ghosts
    <3>12. CASE Leave(t)
      BY <3>1, <3>2, <3>12 DEF Leave, ghosts
    <3>13. CASE Finish(t)
      <4>1. CASE fn[t] = "turn" /\ steer # <<>>
        BY <3>2, <3>13, <4>1 DEF Finish
      <4>2. CASE fn[t] # "turn"
        <5>1. \A m \in ToSet(steer) : how[m] \in {"plan", "compact"}
          BY <3>13, <4>2 DEF Finish, QueueInv, OneWorker, Alive
        <5>2. QED
          BY <3>13, <4>2, <5>1 DEF Finish, QueueInv, ghosts
      <4>3. CASE steer = <<>>
        BY <3>2, <3>13, <4>3 DEF Finish
      <4>4. QED
        BY <4>1, <4>2, <4>3
    <3>14. QED
      BY <2>16, <3>3, <3>4, <3>5, <3>6, <3>7, <3>8, <3>9, <3>10, <3>11, <3>12, <3>13
         DEF WorkerStep
  <2>17. CASE UNCHANGED vars
    BY <2>1, <2>17 DEF vars, shared, worker, ghosts
  <2>18. QED
    BY <2>5, <2>6, <2>7, <2>8, <2>9, <2>10, <2>11, <2>12, <2>13, <2>14, <2>15, <2>16, <2>17
       DEF Next, UserStep
<1>3. BusyIsWorker /\ QueueInv => StrandedOnlyByHelpers
  BY DEF BusyIsWorker, QueueInv, StrandedOnlyByHelpers
<1>4. QED
  BY <1>1, <1>2, <1>3, Typing, WorkerSafety, PTL DEF Spec

-----------------------------------------------------------------------------
(* The turn structure of the conversation.                                    *)

\* A reply's tool calls stay in the conversation while their worker runs them:
\* provided neither a command that starts work nor one that replaces the
\* conversation is typed at a question.
THEOREM TurnStructure ==
  ASSUME NoStarterAtQuestion, "new" \notin WaitingCommands
  PROVE  Spec => []CallsAnswered
<1> DEFINE I == TypeOK /\ BusyIsWorker
           Amid == {"tools", "call", "asking"}
<1>1. Init => CallsAnswered
  BY DEF Init, CallsAnswered
<1>2. I /\ CallsAnswered /\ [Next]_vars => CallsAnswered'
  <2> SUFFICES ASSUME I, CallsAnswered, [Next]_vars PROVE CallsAnswered'
    OBVIOUS
  <2>1. pc \in [Threads -> PCs] /\ calls \subseteq Threads
    BY DEF TypeOK
  <2>2. UNCHANGED <<pc, calls>> => CallsAnswered'
    BY DEF CallsAnswered
  <2>3. ~busy => calls = {} /\ \A t \in Threads : pc[t] = "off"
    BY <2>1 DEF BusyIsWorker, CallsAnswered, Alive
  <2>4. ASSUME ~busy, NEW work, NEW msgs, RunBg(work, msgs), calls' = {}
        PROVE  CallsAnswered'
    <3>1. PICK t \in Threads : pc' = [pc EXCEPT ![t] = "start"]
      BY <2>4 DEF RunBg
    <3>2. \A u \in Threads : pc'[u] \in {"off", "start"}
      BY <2>1, <2>3, <2>4, <3>1
    <3>3. QED
      BY <2>4, <3>2 DEF CallsAnswered
  <2>5. ASSUME NEW m \in Msgs, StartTurn(m) PROVE CallsAnswered'
    BY <2>3, <2>4, <2>5 DEF StartTurn
  <2>6. ASSUME NEW m \in Msgs, Answer(m) \/ Steer(m) PROVE CallsAnswered'
    BY <2>2, <2>6 DEF Answer, Steer, worker
  <2>7. CASE Compact \/ RunPlan
    BY <2>3, <2>4, <2>7 DEF Compact, RunPlan, Typed, Starters, NoStarterAtQuestion
  <2>8. CASE NewConversation
    <3>1. ~busy /\ UNCHANGED pc /\ calls' = {}
      BY <2>8 DEF NewConversation, Typed, worker
    <3>2. QED
      BY <2>2, <2>3, <3>1
  <2>9. ASSUME ~busy, Resend PROVE CallsAnswered'
    BY <2>4, <2>9 DEF Resend
  <2>10. CASE AskAboutFiles \/ Esc \/ EscLands
    BY <2>2, <2>10 DEF AskAboutFiles, Esc, EscLands, worker
  <2>11. CASE RetryAsked \/ Confirm
    BY <2>2, <2>9, <2>11 DEF RetryAsked, Confirm, worker
  <2>12. ASSUME NEW t \in Threads, WorkerStep(t) PROVE CallsAnswered'
    <3>1. ASSUME NEW where, Goto(t, where), UNCHANGED calls,
                 pc[t] \in Amid <=> where \in Amid
          PROVE  CallsAnswered'
      BY <2>1, <3>1 DEF CallsAnswered, Goto
    <3>2. CASE Begin(t)
      <4>1. PICK where \in {"prepare", "round", "request"} : Goto(t, where)
        BY <3>2 DEF Begin, TypeOK, Work
      <4>2. QED
        BY <3>1, <3>2, <4>1 DEF Begin
    <3>3. CASE Prepare(t)
      BY <3>1, <3>3 DEF Prepare
    <3>4. CASE Round(t)
      BY <3>1, <3>4 DEF Round
    <3>5. CASE Reply(t)
      <4>1. CASE Goto(t, "tools") /\ calls' = calls \cup {t}
        BY <2>1, <4>1 DEF CallsAnswered, Goto
      <4>2. CASE ~(Goto(t, "tools") /\ calls' = calls \cup {t})
        BY <3>1, <3>5, <4>2 DEF Reply
      <4>3. QED
        BY <4>1, <4>2
    <3>6. CASE NextCall(t)
      BY <3>1, <3>6 DEF NextCall, shared
    <3>7. CASE EndBatch(t)
      BY <2>1, <3>7 DEF EndBatch, Goto, CallsAnswered
    <3>8. CASE RunCall(t)
      BY <3>1, <3>8 DEF RunCall, shared
    <3>9. CASE Ask(t) \/ Answered(t)
      BY <3>1, <3>9 DEF Ask, Answered
    <3>10. CASE Leave(t)
      BY <3>1, <3>10 DEF Leave
    <3>11. CASE Finish(t)
      BY <3>1, <3>11 DEF Finish
    <3>12. QED
      BY <2>12, <3>2, <3>3, <3>4, <3>5, <3>6, <3>7, <3>8, <3>9, <3>10, <3>11
         DEF WorkerStep
  <2>13. CASE UNCHANGED vars
    BY <2>2, <2>13 DEF vars, shared, worker
  <2>14. QED
    BY <2>5, <2>6, <2>7, <2>8, <2>10, <2>11, <2>12, <2>13 DEF Next, UserStep
<1>3. QED
  BY <1>1, <1>2, Typing, WorkerSafety, PTL DEF Spec

-----------------------------------------------------------------------------
(* A y/N question about files.                                                *)

\* While "/undo?" or "/keep?" is open no worker runs, or the one that runs is
\* blocked on a question of its own: no chat line can answer that one before.
ConfirmInv == pending = "files" => ~busy \/ awaiting

\* A "y" acts on the files while no tool of a running turn can write them:
\* provided no work is started at a question, and Retry and Edit, which do not
\* look at the open question, are not pressed.
THEOREM ConfirmsWhileIdle ==
  ASSUME NoStarterAtQuestion, Buttons = FALSE
  PROVE  Spec => ConfirmedWhileIdle
<1> DEFINE I == TypeOK /\ AnswerReachesAsker
<1>1. Init => ConfirmInv
  BY DEF Init, ConfirmInv
<1>2. I /\ ConfirmInv /\ [Next]_vars => ConfirmInv'
  <2> SUFFICES ASSUME I, ConfirmInv, [Next]_vars PROVE ConfirmInv'
    OBVIOUS
  <2>1. UNCHANGED <<busy, pending, awaiting>> => ConfirmInv'
    BY DEF ConfirmInv
  <2>2. pending' # "files" => ConfirmInv'
    BY DEF ConfirmInv
  <2>3. ASSUME NEW m \in Msgs, StartTurn(m) \/ Answer(m) \/ Steer(m) PROVE ConfirmInv'
    BY <2>2, <2>3 DEF StartTurn, Answer, Steer, Typable
  <2>4. CASE Compact \/ RunPlan
    BY <2>2, <2>4 DEF Compact, RunPlan, Typed
  <2>5. CASE NewConversation \/ Esc \/ EscLands
    BY <2>1, <2>5 DEF NewConversation, Esc, EscLands
  <2>6. CASE AskAboutFiles
    BY <2>6 DEF AskAboutFiles, Typed, Waiting, ConfirmInv
  <2>7. CASE RetryAsked \/ Confirm
    BY <2>2, <2>7 DEF RetryAsked, Confirm, Typed
  <2>8. ASSUME NEW t \in Threads, WorkerStep(t) PROVE ConfirmInv'
    <3>1. CASE Begin(t) \/ Prepare(t) \/ Round(t) \/ Reply(t) \/ EndBatch(t) \/ Leave(t)
      BY <2>1, <3>1 DEF Begin, Prepare, Round, Reply, EndBatch, Leave
    <3>2. CASE NextCall(t) \/ RunCall(t)
      BY <2>1, <3>2 DEF NextCall, RunCall, shared
    <3>3. CASE Ask(t)
      BY <3>3 DEF Ask, ConfirmInv
    <3>4. CASE Answered(t)
      <4>1. ~awaiting
        BY <3>4 DEF Answered, AnswerReachesAsker
      <4>2. QED
        BY <3>4, <4>1 DEF Answered, ConfirmInv
    <3>5. CASE Finish(t)
      BY <3>5 DEF Finish, ConfirmInv
    <3>6. QED
      BY <2>8, <3>1, <3>2, <3>3, <3>4, <3>5 DEF WorkerStep
  <2>9. CASE UNCHANGED vars
    BY <2>1, <2>9 DEF vars, shared
  <2>10. QED
    BY <2>3, <2>4, <2>5, <2>6, <2>7, <2>8, <2>9 DEF Next, UserStep
<1>3. ConfirmInv => [pending = "files" /\ pending' = "none" => ~busy \/ awaiting]_vars
  BY DEF ConfirmInv
<1>4. QED
  BY <1>1, <1>2, <1>3, Typing, AnswersGoToAskers, PTL DEF Spec, ConfirmedWhileIdle

-----------------------------------------------------------------------------
(* Without /compact and /plan run every worker runs a turn.                   *)

\* Neither of the two commands that strand messages is typed at all.
NoHelpers == Commands \cap Starters = {}

LEMMA NoHelperAtQuestion ==
  ASSUME NoHelpers
  PROVE  NoStarterAtQuestion
BY ControllerAssumption DEF NoHelpers, NoStarterAtQuestion

TurnsOnly ==
  /\ \A t \in Threads : fn[t] = "turn"
  /\ \A m \in Msgs : how[m] \notin {"plan", "compact"}

LEMMA OnlyTurnsRun ==
  ASSUME NoHelpers
  PROVE  Spec => []TurnsOnly
<1>1. Init => TurnsOnly
  BY DEF Init, TurnsOnly
<1>2. TypeOK /\ TurnsOnly /\ [Next]_vars => TurnsOnly'
  <2> SUFFICES ASSUME TypeOK, TurnsOnly, [Next]_vars PROVE TurnsOnly'
    OBVIOUS
  <2>1. fn \in [Threads -> Work] /\ how \in [Msgs -> How]
    BY DEF TypeOK
  <2>2. UNCHANGED <<fn, how>> => TurnsOnly'
    BY DEF TurnsOnly
  <2>3. ASSUME NEW msgs, RunBg("turn", msgs) PROVE \A t \in Threads : fn'[t] = "turn"
    BY <2>1, <2>3 DEF RunBg, TurnsOnly
  <2>4. ASSUME NEW m \in Msgs, StartTurn(m) PROVE TurnsOnly'
    BY <2>1, <2>3, <2>4 DEF StartTurn, TurnsOnly
  <2>5. ASSUME NEW m \in Msgs, Answer(m) PROVE TurnsOnly'
    BY <2>1, <2>5 DEF Answer, TurnsOnly, worker
  <2>6. ASSUME NEW m \in Msgs, Steer(m) PROVE TurnsOnly'
    <3>1. Running = "turn"
      BY DEF TurnsOnly, Running
    <3>2. QED
      BY <2>1, <2>6, <3>1 DEF Steer, TurnsOnly, worker
  <2>7. CASE Compact \/ RunPlan
    BY <2>7 DEF Compact, RunPlan, Typed, NoHelpers, Starters
  <2>8. ASSUME Resend, UNCHANGED how PROVE TurnsOnly'
    BY <2>3, <2>8 DEF Resend, TurnsOnly
  <2>9. CASE RetryAsked \/ Confirm
    BY <2>2, <2>8, <2>9 DEF RetryAsked, Confirm, worker, ghosts
  <2>10. CASE NewConversation \/ AskAboutFiles \/ Esc \/ EscLands
    BY <2>2, <2>10 DEF NewConversation, AskAboutFiles, Esc, EscLands, worker, ghosts
  <2>11. ASSUME NEW t \in Threads, WorkerStep(t) PROVE TurnsOnly'
    BY <2>2, <2>11 DEF WorkerStep, Begin, Prepare, Round, Reply, NextCall, EndBatch, RunCall,
       Ask, Answered, Leave, Finish, ghosts
  <2>12. CASE UNCHANGED vars
    BY <2>2, <2>12 DEF vars, worker, ghosts
  <2>13. QED
    BY <2>4, <2>5, <2>6, <2>7, <2>9, <2>10, <2>11, <2>12 DEF Next, UserStep
<1>3. QED
  BY <1>1, <1>2, Typing, PTL DEF Spec

\* _finish_bg: with turns only, no message is queued with nobody left to send it.
THEOREM NothingIsLeft ==
  ASSUME NoHelpers
  PROVE  Spec => []NothingStranded
<1>1. TypeOK /\ TurnsOnly /\ StrandedOnlyByHelpers => NothingStranded
  <2> SUFFICES ASSUME TypeOK, TurnsOnly, StrandedOnlyByHelpers, ~busy, steer # <<>>
               PROVE  FALSE
    BY DEF NothingStranded
  <2>1. steer \in Seq(Msgs)
    BY DEF TypeOK
  <2>2. steer[1] \in ToSet(steer) /\ steer[1] \in Msgs
    <3>1. 1 \in DOMAIN steer
      BY <2>1, EmptySeq
    <3>2. QED
      BY <2>1, <3>1, ElementOfSeq DEF ToSet
  <2>3. QED
    BY <2>2 DEF TurnsOnly, StrandedOnlyByHelpers
<1>2. QED
  BY <1>1, Typing, OnlyTurnsRun, NoTurnStrands, NoHelperAtQuestion, PTL

-----------------------------------------------------------------------------
(* The order of the messages.                                                 *)

Precedes(s, r) == \A i \in 1..Len(s), j \in 1..Len(r) : s[i] < r[j]

\* What the user typed: every message of s was.
Told(s) == \A i \in 1..Len(s) : how[s[i]] # "new"

\* Two lists put together are in order when each is and one comes before the other.
LEMMA IncreasingConcat ==
  ASSUME NEW s \in Seq(Msgs), NEW r \in Seq(Msgs)
  PROVE  Increasing(s \o r) <=> Increasing(s) /\ Increasing(r) /\ Precedes(s, r)
<1> DEFINE c == s \o r
<1>1. /\ Len(s) \in Nat /\ Len(r) \in Nat
      /\ \A i \in 1..Len(s) : s[i] \in Nat
      /\ \A i \in 1..Len(r) : r[i] \in Nat
  BY ControllerAssumption, LenProperties, ElementOfSeq DEF Msgs
<1>2. /\ Len(c) = Len(s) + Len(r)
      /\ \A i \in 1..Len(c) : c[i] = IF i <= Len(s) THEN s[i] ELSE r[i - Len(s)]
  BY ConcatProperties
<1>3. \A i \in 1..Len(s) : i \in 1..Len(c) /\ c[i] = s[i]
  BY <1>1, <1>2
<1>4. \A j \in 1..Len(r) : Len(s) + j \in 1..Len(c) /\ c[Len(s) + j] = r[j]
  BY <1>1, <1>2
<1> HIDE DEF c
<1>5. ASSUME Increasing(c) PROVE Increasing(s) /\ Increasing(r) /\ Precedes(s, r)
  <2>1. Increasing(s)
    BY <1>1, <1>3, <1>5 DEF Increasing
  <2>2. Increasing(r)
    <3> SUFFICES ASSUME NEW i \in 1..Len(r), NEW j \in 1..Len(r), i < j PROVE r[i] < r[j]
      BY DEF Increasing
    <3>1. Len(s) + i < Len(s) + j
      BY <1>1
    <3>2. QED
      BY <1>4, <1>5, <3>1 DEF Increasing
  <2>3. Precedes(s, r)
    <3> SUFFICES ASSUME NEW i \in 1..Len(s), NEW j \in 1..Len(r) PROVE s[i] < r[j]
      BY DEF Precedes
    <3>1. i < Len(s) + j
      BY <1>1
    <3>2. QED
      BY <1>3, <1>4, <1>5, <3>1 DEF Increasing
  <2>4. QED
    BY <2>1, <2>2, <2>3
<1>6. ASSUME Increasing(s), Increasing(r), Precedes(s, r) PROVE Increasing(c)
  <2> SUFFICES ASSUME NEW i \in 1..Len(c), NEW j \in 1..Len(c), i < j PROVE c[i] < c[j]
    BY DEF Increasing
  <2>1. CASE j <= Len(s)
    <3>1. i \in 1..Len(s) /\ j \in 1..Len(s)
      BY <1>1, <1>2, <2>1
    <3>2. QED
      BY <1>3, <1>6, <3>1 DEF Increasing
  <2>2. CASE i <= Len(s) /\ ~(j <= Len(s))
    <3>1. i \in 1..Len(s) /\ j - Len(s) \in 1..Len(r) /\ c[j] = r[j - Len(s)]
      BY <1>1, <1>2, <2>2
    <3>2. QED
      BY <1>3, <1>6, <3>1 DEF Precedes
  <2>3. CASE ~(i <= Len(s))
    <3>1. /\ i - Len(s) \in 1..Len(r) /\ c[i] = r[i - Len(s)]
          /\ j - Len(s) \in 1..Len(r) /\ c[j] = r[j - Len(s)]
          /\ i - Len(s) < j - Len(s)
      BY <1>1, <1>2, <2>3
    <3>2. QED
      BY <1>6, <3>1 DEF Increasing
  <2>4. QED
    BY <1>1, <2>1, <2>2, <2>3
<1>7. QED
  BY <1>5, <1>6 DEF c

LEMMA PrecedesConcat ==
  ASSUME NEW s \in Seq(Msgs), NEW r \in Seq(Msgs), NEW q
  PROVE  Precedes(s \o r, q) <=> Precedes(s, q) /\ Precedes(r, q)
<1> DEFINE c == s \o r
<1>1. Len(s) \in Nat /\ Len(r) \in Nat
  BY LenProperties
<1>2. /\ Len(c) = Len(s) + Len(r)
      /\ \A i \in 1..Len(c) : c[i] = IF i <= Len(s) THEN s[i] ELSE r[i - Len(s)]
  BY ConcatProperties
<1>3. \A i \in 1..Len(s) : i \in 1..Len(c) /\ c[i] = s[i]
  BY <1>1, <1>2
<1>4. \A j \in 1..Len(r) : Len(s) + j \in 1..Len(c) /\ c[Len(s) + j] = r[j]
  BY <1>1, <1>2
<1>5. \A k \in 1..Len(c) : \/ k \in 1..Len(s) /\ c[k] = s[k]
                           \/ k - Len(s) \in 1..Len(r) /\ c[k] = r[k - Len(s)]
  BY <1>1, <1>2
<1> HIDE DEF c
<1>6. ASSUME Precedes(c, q) PROVE Precedes(s, q) /\ Precedes(r, q)
  BY <1>3, <1>4, <1>6, Zenon DEF Precedes
<1>7. ASSUME Precedes(s, q), Precedes(r, q) PROVE Precedes(c, q)
  BY <1>5, <1>7, Zenon DEF Precedes
<1>8. QED
  BY <1>6, <1>7 DEF c

\* Three lists put together are in order when each is and they follow one another.
Aligned(h, x, q) ==
  /\ Increasing(h) /\ Increasing(x) /\ Increasing(q)
  /\ Precedes(h, x) /\ Precedes(h, q) /\ Precedes(x, q)

LEMMA AlignedIs ==
  ASSUME NEW h \in Seq(Msgs), NEW x \in Seq(Msgs), NEW q \in Seq(Msgs)
  PROVE  Increasing(h \o x \o q) <=> Aligned(h, x, q)
<1>1. h \o x \in Seq(Msgs)
  BY ConcatProperties
<1>2. QED
  BY <1>1, IncreasingConcat, PrecedesConcat DEF Aligned

LEMMA EmptyOrder ==
  /\ Increasing(<<>>) /\ Told(<<>>)
  /\ \A s : Precedes(s, <<>>) /\ Precedes(<<>>, s)
BY DEF Increasing, Told, Precedes

LEMMA ToldConcat ==
  ASSUME NEW s \in Seq(Msgs), NEW r \in Seq(Msgs)
  PROVE  Told(s \o r) <=> Told(s) /\ Told(r)
<1> DEFINE c == s \o r
<1>1. Len(s) \in Nat /\ Len(r) \in Nat
  BY LenProperties
<1>2. /\ Len(c) = Len(s) + Len(r)
      /\ \A i \in 1..Len(c) : c[i] = IF i <= Len(s) THEN s[i] ELSE r[i - Len(s)]
  BY ConcatProperties
<1>3. \A i \in 1..Len(s) : i \in 1..Len(c) /\ c[i] = s[i]
  BY <1>1, <1>2
<1>4. \A j \in 1..Len(r) : Len(s) + j \in 1..Len(c) /\ c[Len(s) + j] = r[j]
  BY <1>1, <1>2
<1>5. \A k \in 1..Len(c) : \/ k \in 1..Len(s) /\ c[k] = s[k]
                           \/ k - Len(s) \in 1..Len(r) /\ c[k] = r[k - Len(s)]
  BY <1>1, <1>2
<1> HIDE DEF c
<1>6. ASSUME Told(c) PROVE Told(s) /\ Told(r)
  BY <1>3, <1>4, <1>6, Zenon DEF Told
<1>7. ASSUME Told(s), Told(r) PROVE Told(c)
  BY <1>5, <1>7, Zenon DEF Told
<1>8. QED
  BY <1>6, <1>7 DEF c

LEMMA PrecedesAppend ==
  ASSUME NEW s, NEW r \in Seq(Msgs), NEW m \in Msgs
  PROVE  Precedes(s, Append(r, m)) <=> Precedes(s, r) /\ Precedes(s, <<m>>)
<1> DEFINE c == Append(r, m)
<1>1. Len(r) \in Nat
  BY LenProperties
<1>2. /\ Len(c) = Len(r) + 1
      /\ \A i \in 1..Len(r) : c[i] = r[i]
      /\ c[Len(r) + 1] = m
  BY AppendProperties
<1>3. \A i \in 1..Len(r) : i \in 1..Len(c) /\ c[i] = r[i]
  BY <1>1, <1>2
<1>4. Len(r) + 1 \in 1..Len(c) /\ \A k \in 1..Len(c) : k \in 1..Len(r) \/ k = Len(r) + 1
  BY <1>1, <1>2
<1>5. /\ 1 \in 1..Len(<<m>>) /\ <<m>>[1] = m
      /\ \A k \in 1..Len(<<m>>) : k = 1
  OBVIOUS
<1>6. c[Len(r) + 1] = m
  BY <1>2
<1> HIDE DEF c
<1>7. ASSUME Precedes(s, c) PROVE Precedes(s, r) /\ Precedes(s, <<m>>)
  <2>1. Precedes(s, r)
    BY <1>3, <1>7, Zenon DEF Precedes
  <2>2. \A i \in 1..Len(s) : s[i] < m
    BY <1>4, <1>6, <1>7, Zenon DEF Precedes
  <2>3. Precedes(s, <<m>>)
    BY <1>5, <2>2, Zenon DEF Precedes
  <2>4. QED
    BY <2>1, <2>3
<1>8. ASSUME Precedes(s, r), Precedes(s, <<m>>) PROVE Precedes(s, c)
  <2>1. \A i \in 1..Len(s) : s[i] < m
    BY <1>5, <1>8, Zenon DEF Precedes
  <2>2. QED
    BY <1>3, <1>4, <1>6, <1>8, <2>1, Zenon DEF Precedes
<1>9. QED
  BY <1>7, <1>8 DEF c

\* A message put behind all others keeps them in order.
LEMMA AlignedAppend ==
  ASSUME NEW h \in Seq(Msgs), NEW x \in Seq(Msgs), NEW q \in Seq(Msgs), NEW m \in Msgs,
         Aligned(h, x, q), Precedes(h, <<m>>), Precedes(x, <<m>>), Precedes(q, <<m>>)
  PROVE  Aligned(h, x, Append(q, m))
<1>1. Increasing(<<m>>)
  BY DEF Increasing
<1>2. Append(q, m) = q \o <<m>> /\ <<m>> \in Seq(Msgs)
  BY AppendIsConcat
<1>3. Increasing(Append(q, m))
  <2>1. Increasing(q)
    BY DEF Aligned
  <2>2. Increasing(q \o <<m>>) <=> Increasing(q) /\ Increasing(<<m>>) /\ Precedes(q, <<m>>)
    BY <1>2, IncreasingConcat, Zenon
  <2>3. QED
    BY <1>1, <1>2, <2>1, <2>2, Zenon
<1>4. Precedes(h, Append(q, m)) /\ Precedes(x, Append(q, m))
  <2>1. Precedes(h, q) /\ Precedes(x, q)
    BY DEF Aligned
  <2>2. QED
    BY <2>1, PrecedesAppend, Zenon
<1>5. QED
  BY <1>3, <1>4 DEF Aligned

\* Lines are typed in the order of their numbers.
Downward == \A m, k \in Msgs : m < k /\ how[m] = "new" => how[k] = "new"

\* A new line comes after everything typed before.
LEMMA TypedLast ==
  ASSUME TypeOK, Downward, NEW m \in Msgs, how[m] = "new", NEW s \in Seq(Msgs), Told(s)
  PROVE  Precedes(s, <<m>>)
<1>1. /\ \A j \in 1..Len(<<m>>) : <<m>>[j] = m
  OBVIOUS
<1>2. ASSUME NEW i \in 1..Len(s) PROVE s[i] < m
  <2>1. s[i] \in Msgs /\ how[s[i]] # "new"
    BY ElementOfSeq, LenProperties DEF Told
  <2>2. s[i] # m /\ ~(m < s[i])
    BY <2>1 DEF Downward
  <2>3. QED
    BY <2>1, <2>2, ControllerAssumption DEF Msgs
<1>3. QED
  BY <1>1, <1>2, Zenon DEF Precedes

\* Only the message in hand stops being new.
TypesNow(m) == \E x \in How \ {"new"} : how' = [how EXCEPT ![m] = x]

LEMMA StaysDownward ==
  ASSUME TypeOK, Downward, NEW m \in Msgs, Typable(m), TypesNow(m)
  PROVE  Downward'
<1>1. PICK x \in How \ {"new"} : how' = [how EXCEPT ![m] = x]
  BY DEF TypesNow
<1>2. how \in [Msgs -> How]
  BY DEF TypeOK
<1>3. \A k \in Msgs : k < m => how[k] # "new"
  BY ControllerAssumption DEF Typable, Msgs
<1>4. \A k \in Msgs : how'[k] = IF k = m THEN x ELSE how[k]
  BY <1>1, <1>2
<1>5. SUFFICES ASSUME NEW k \in Msgs, NEW l \in Msgs, k < l, how'[k] = "new"
               PROVE  how'[l] = "new"
  BY DEF Downward
<1>6. k # m /\ how[k] = "new"
  BY <1>1, <1>4, <1>5
<1>7. l # m /\ how[l] = "new"
  BY <1>3, <1>5, <1>6 DEF Downward
<1>8. QED
  BY <1>4, <1>7

\* What was typed stays typed.
LEMMA StaysTold ==
  ASSUME TypeOK, NEW m \in Msgs, TypesNow(m), NEW s \in Seq(Msgs), Told(s)
  PROVE  \A i \in 1..Len(s) : how'[s[i]] # "new"
<1>1. PICK x \in How \ {"new"} : how' = [how EXCEPT ![m] = x]
  BY DEF TypesNow
<1>2. how \in [Msgs -> How]
  BY DEF TypeOK
<1>3. \A i \in 1..Len(s) : s[i] \in Msgs /\ how[s[i]] # "new"
  BY ElementOfSeq, LenProperties DEF Told
<1>4. QED
  BY <1>1, <1>2, <1>3

LEMMA NowTold ==
  ASSUME TypeOK, NEW m \in Msgs, TypesNow(m)
  PROVE  how'[m] # "new"
BY DEF TypesNow, TypeOK

\* The conversation, the message a worker carries and the queue follow one another
\* in the order of typing; a message is carried only up to the turn's start; only
\* typed messages are in the three, and lines are typed in order.
AllAligned == \A t \in Threads : Aligned(history, text[t], steer)
Carried == \A t \in Threads : text[t] # <<>> => pc[t] \in {"start", "prepare"}
AllTold == Told(history) /\ Told(steer) /\ \A t \in Threads : Told(text[t])
OrderInv == AllAligned /\ Carried /\ AllTold /\ Downward

\* With one worker, a worker past its start carries nothing and nobody else does.
LEMMA NobodyCarries ==
  ASSUME OneWorker, Carried, NEW t \in Threads,
         pc[t] \notin {"off", "start", "prepare"}
  PROVE  \A u \in Threads : text[u] = <<>>
BY DEF OneWorker, Alive, Carried

LEMMA OthersCarryNothing ==
  ASSUME OneWorker, Carried, NEW t \in Threads, pc[t] # "off"
  PROVE  \A u \in Threads \ {t} : text[u] = <<>>
BY DEF OneWorker, Alive, Carried

LEMMA IdleCarriesNothing ==
  ASSUME BusyIsWorker, Carried, ~busy
  PROVE  \A u \in Threads : text[u] = <<>> /\ pc[u] = "off"
BY DEF BusyIsWorker, Alive, Carried

\* A new turn is started with messages that come after the conversation.
LEMMA StartsInOrder ==
  ASSUME TypeOK, Carried, BusyIsWorker, ~busy, steer = <<>>,
         NEW work, NEW msgs \in Seq(Msgs), RunBg(work, msgs),
         history' \in Seq(Msgs), UNCHANGED steer,
         Increasing(history'), Increasing(msgs), Precedes(history', msgs)
  PROVE  /\ AllAligned' /\ Carried'
         /\ \A t \in Threads : text'[t] \in {<<>>, msgs}
<1>1. \A u \in Threads : text[u] = <<>> /\ pc[u] = "off"
  BY IdleCarriesNothing
<1>2. PICK t \in Threads : /\ pc' = [pc EXCEPT ![t] = "start"]
                          /\ text' = [text EXCEPT ![t] = msgs]
  BY DEF RunBg
<1>3. text \in [Threads -> Seq(Msgs)] /\ pc \in [Threads -> PCs]
  BY DEF TypeOK
<1>4. \A u \in Threads : /\ text'[u] = IF u = t THEN msgs ELSE <<>>
                         /\ pc'[u] = IF u = t THEN "start" ELSE "off"
  BY <1>1, <1>2, <1>3
<1>5. steer' = <<>>
  OBVIOUS
<1>6. \A u \in Threads : text'[u] \in {<<>>, msgs}
  BY <1>4
<1>7. Aligned(history', msgs, <<>>) /\ Aligned(history', <<>>, <<>>)
  BY EmptyOrder DEF Aligned
<1>8. AllAligned'
  <2>1. \A u \in Threads : Aligned(history', text'[u], steer')
    BY <1>5, <1>6, <1>7
  <2>2. QED
    BY <2>1 DEF AllAligned
<1>9. Carried'
  BY <1>4 DEF Carried
<1>10. QED
  BY <1>6, <1>8, <1>9

\* The typed messages reach the model in the order in which they were typed, in
\* the turn that runs and in the extra turn _finish_bg starts for the queue:
\* provided only turns run.
LEMMA OrderHolds ==
  ASSUME NoHelpers
  PROVE  Spec => []OrderInv
<1> DEFINE I == TypeOK /\ OneWorker /\ BusyIsWorker /\ NothingStranded /\ TurnsOnly
<1>1. Init => OrderInv
  <2> SUFFICES ASSUME Init PROVE OrderInv
    OBVIOUS
  <2>1. Downward
    BY DEF Init, Downward
  <2>2. AllTold
    BY DEF Init, AllTold, Told
  <2>3. AllAligned
    BY EmptyOrder DEF Init, AllAligned, Aligned
  <2>4. Carried
    BY DEF Init, Carried
  <2>5. QED
    BY <2>1, <2>2, <2>3, <2>4 DEF OrderInv
<1>2. I /\ OrderInv /\ [Next]_vars => OrderInv'
  <2> SUFFICES ASSUME I, OrderInv, [Next]_vars PROVE OrderInv'
    OBVIOUS
  <2>1. /\ history \in Seq(Msgs) /\ steer \in Seq(Msgs)
        /\ text \in [Threads -> Seq(Msgs)] /\ pc \in [Threads -> PCs]
        /\ how \in [Msgs -> How]
    BY DEF TypeOK
  <2>2. UNCHANGED <<history, steer, text, how, pc>> => OrderInv'
    BY DEF OrderInv, AllAligned, Carried, AllTold, Downward, Told
  <2>3. ASSUME NEW m \in Msgs, StartTurn(m) PROVE OrderInv'
    <3>1. /\ ~busy /\ Typable(m) /\ RunBg("turn", <<m>>)
          /\ how' = [how EXCEPT ![m] = "sent"]
          /\ UNCHANGED <<history, steer>>
      BY <2>3 DEF StartTurn
    <3>2. steer = <<>>
      BY <3>1 DEF NothingStranded
    <3>3. TypesNow(m)
      BY <3>1 DEF TypesNow, How
    <3>4. Downward' /\ how'[m] # "new"
      BY <3>1, <3>3, StaysDownward, NowTold DEF OrderInv
    <3>5. <<m>> \in Seq(Msgs) /\ Increasing(<<m>>)
      BY DEF Increasing
    <3>6. Precedes(history, <<m>>)
      BY <2>1, <3>1, TypedLast DEF OrderInv, AllTold, Typable
    <3>7. Increasing(history)
      BY <3>1 DEF OrderInv, AllAligned, Aligned, RunBg
    <3>8. AllAligned' /\ Carried' /\ \A t \in Threads : text'[t] \in {<<>>, <<m>>}
      BY <2>1, <3>1, <3>2, <3>5, <3>6, <3>7, StartsInOrder DEF OrderInv
    <3>9. \A i \in 1..Len(history) : how'[history[i]] # "new"
      BY <2>1, <3>3, StaysTold DEF OrderInv, AllTold
    <3>10. \A i \in 1..Len(<<m>>) : how'[<<m>>[i]] # "new"
      BY <3>4
    <3>11. AllTold'
      BY <3>1, <3>2, <3>8, <3>9, <3>10 DEF AllTold, Told
    <3>12. QED
      BY <3>4, <3>8, <3>11 DEF OrderInv
  <2>4. ASSUME NEW m \in Msgs, TypesNow(m), Typable(m), UNCHANGED <<history, text, pc>>,
               steer' = steer \/ steer' = Append(steer, m)
        PROVE  OrderInv'
    <3>1. Downward' /\ how'[m] # "new"
      BY <2>4, StaysDownward, NowTold DEF OrderInv
    <3>2. \A s \in Seq(Msgs) : Told(s) => \A i \in 1..Len(s) : how'[s[i]] # "new"
      BY <2>4, StaysTold
    <3>3. \A s \in Seq(Msgs) : Told(s) => Precedes(s, <<m>>)
      BY <2>4, TypedLast DEF OrderInv, Typable
    <3>4. \A i \in 1..Len(steer') : how'[steer'[i]] # "new"
      <4>1. CASE steer' = steer
        BY <2>1, <3>2, <4>1 DEF OrderInv, AllTold
      <4>2. CASE steer' = Append(steer, m)
        <5>1. /\ Len(steer') = Len(steer) + 1
              /\ \A i \in 1..Len(steer) : steer'[i] = steer[i]
              /\ steer'[Len(steer) + 1] = m
          BY <2>1, <4>2, AppendProperties
        <5>2. \A i \in 1..Len(steer) : how'[steer[i]] # "new"
          BY <2>1, <3>2 DEF OrderInv, AllTold
        <5>3. Len(steer) \in Nat
          BY <2>1, LenProperties
        <5>4. QED
          BY <3>1, <5>1, <5>2, <5>3
      <4>3. QED
        BY <2>4, <4>1, <4>2
    <3>5. AllTold'
      <4>1. \A i \in 1..Len(history) : how'[history[i]] # "new"
        BY <2>1, <3>2 DEF OrderInv, AllTold
      <4>2. ASSUME NEW t \in Threads PROVE \A i \in 1..Len(text[t]) : how'[text[t][i]] # "new"
        BY <2>1, <3>2 DEF OrderInv, AllTold
      <4>3. QED
        BY <2>4, <3>4, <4>1, <4>2 DEF AllTold, Told
    <3>6. ASSUME NEW t \in Threads PROVE Aligned(history, text[t], steer')
      <4>1. text[t] \in Seq(Msgs) /\ Aligned(history, text[t], steer)
        BY <2>1 DEF OrderInv, AllAligned
      <4>2. Precedes(history, <<m>>) /\ Precedes(text[t], <<m>>) /\ Precedes(steer, <<m>>)
        BY <2>1, <3>3, <4>1 DEF OrderInv, AllTold
      <4>3. Aligned(history, text[t], Append(steer, m))
        BY <2>1, <4>1, <4>2, AlignedAppend
      <4>4. QED
        BY <2>4, <4>1, <4>3
    <3>7. AllAligned' /\ Carried'
      BY <2>4, <3>6 DEF AllAligned, OrderInv, Carried
    <3>8. QED
      BY <3>1, <3>5, <3>7 DEF OrderInv
  <2>5. ASSUME NEW m \in Msgs, Answer(m) PROVE OrderInv'
    <3>1. TypesNow(m)
      BY <2>5 DEF Answer, TypesNow, How
    <3>2. QED
      BY <2>4, <2>5, <3>1 DEF Answer, worker
  <2>6. ASSUME NEW m \in Msgs, Steer(m) PROVE OrderInv'
    <3>1. Running \in Work
      BY DEF TypeOK, Running, Work
    <3>2. TypesNow(m)
      BY <2>6, <3>1 DEF Steer, TypesNow, How, Work
    <3>3. QED
      BY <2>4, <2>6, <3>2 DEF Steer, worker
  <2>7. CASE Compact \/ RunPlan
    BY <2>7 DEF Compact, RunPlan, Typed, NoHelpers, Starters
  <2>8. CASE NewConversation
    <3>1. history' = <<>> /\ UNCHANGED <<steer, text, pc, how>>
      BY <2>8 DEF NewConversation, worker, ghosts
    <3>2. \A t \in Threads : Aligned(<<>>, text[t], steer)
      BY EmptyOrder DEF OrderInv, AllAligned, Aligned
    <3>3. AllAligned'
      BY <3>1, <3>2 DEF AllAligned
    <3>4. QED
      BY <3>1, <3>3 DEF OrderInv, Carried, AllTold, Downward, Told
  <2>9. ASSUME ~busy, Resend, UNCHANGED <<steer, how>> PROVE OrderInv'
    <3>1. steer = <<>>
      BY <2>9 DEF NothingStranded
    <3>2. PICK k \in 1..Len(history) :
             /\ history' = SubSeq(history, 1, k - 1)
             /\ RunBg("turn", SubSeq(history, k, Len(history)))
      BY <2>9 DEF Resend
    <3> DEFINE front == SubSeq(history, 1, k - 1)
               back == SubSeq(history, k, Len(history))
    <3>3. Len(history) \in Nat /\ k \in Nat
      BY <2>1, LenProperties
    <3>4. front \in Seq(Msgs) /\ back \in Seq(Msgs)
      BY <2>1, <3>3
    <3>5. front \o back = history
      <4>1. front \o back = SubSeq(history, 1, Len(history))
        <5>1. /\ 1 \in 1..Len(history) + 1 /\ k - 1 \in 1 - 1..Len(history)
              /\ Len(history) \in k - 1..Len(history) /\ (k - 1) + 1 = k
          BY <3>3
        <5>2. QED
          BY <2>1, <5>1, ConcatAdjacentSubSeq
      <4>2. SubSeq(history, 1, Len(history)) = history
        BY <2>1
      <4>3. QED
        BY <4>1, <4>2
    <3>6. Increasing(history) /\ Told(history)
      BY <3>2 DEF OrderInv, AllAligned, Aligned, AllTold, RunBg
    <3> HIDE DEF front, back
    <3>7. Increasing(front) /\ Increasing(back) /\ Precedes(front, back)
      BY <3>4, <3>5, <3>6, IncreasingConcat
    <3>8. Told(front) /\ Told(back)
      BY <3>4, <3>5, <3>6, ToldConcat
    <3>9. history' = front /\ RunBg("turn", back)
      BY <3>2 DEF front, back
    <3>10. AllAligned' /\ Carried' /\ \A t \in Threads : text'[t] \in {<<>>, back}
      BY <2>9, <3>1, <3>4, <3>7, <3>9, StartsInOrder DEF OrderInv
    <3>11. AllTold'
      BY <2>9, <3>1, <3>8, <3>9, <3>10, EmptyOrder DEF AllTold, Told
    <3>12. QED
      BY <2>9, <3>10, <3>11 DEF OrderInv, Downward
  <2>10. CASE RetryAsked \/ Confirm
    BY <2>2, <2>9, <2>10 DEF RetryAsked, Confirm, worker, ghosts
  <2>11. CASE AskAboutFiles \/ Esc \/ EscLands
    BY <2>2, <2>11 DEF AskAboutFiles, Esc, EscLands, worker, ghosts
  <2>12. ASSUME NEW t \in Threads, WorkerStep(t) PROVE OrderInv'
    <3>1. ASSUME NEW where, Goto(t, where), UNCHANGED <<history, steer, text, how>>,
                 pc[t] \in {"start", "prepare"} => where \in {"start", "prepare"} \/ text[t] = <<>>
          PROVE  OrderInv'
      <4>1. Carried'
        BY <2>1, <3>1 DEF OrderInv, Carried, Goto
      <4>2. AllAligned' /\ AllTold' /\ Downward'
        BY <3>1 DEF OrderInv, AllAligned, AllTold, Downward, Told
      <4>3. QED
        BY <4>1, <4>2 DEF OrderInv
    <3>2. CASE Begin(t)
      <4>1. Goto(t, "prepare")
        BY <3>2 DEF Begin, TurnsOnly
      <4>2. QED
        BY <3>1, <3>2, <4>1 DEF Begin, ghosts
    <3>3. CASE Prepare(t)
      <4>1. /\ pc[t] = "prepare"
            /\ history' = history \o text[t]
            /\ text' = [text EXCEPT ![t] = <<>>]
            /\ UNCHANGED <<steer, how>>
        BY <3>3 DEF Prepare, ghosts
      <4>2. \A u \in Threads : text'[u] = <<>>
        BY <2>1, <4>1, OthersCarryNothing DEF OrderInv
      <4>3. text[t] \in Seq(Msgs) /\ Aligned(history, text[t], steer) /\ Told(text[t])
        BY <2>1 DEF OrderInv, AllAligned, AllTold
      <4>4. Aligned(history', <<>>, steer')
        BY <2>1, <4>1, <4>3, IncreasingConcat, PrecedesConcat, EmptyOrder DEF Aligned
      <4>5. Told(history \o text[t])
        BY <2>1, <4>3, ToldConcat DEF OrderInv, AllTold
      <4>6. AllAligned' /\ Carried'
        BY <4>2, <4>4 DEF AllAligned, Carried
      <4>7. AllTold' /\ Downward'
        BY <4>1, <4>2, <4>5 DEF OrderInv, AllTold, Told, Downward
      <4>8. QED
        BY <4>6, <4>7 DEF OrderInv
    <3>4. CASE Round(t)
      <4>1. CASE UNCHANGED <<steer, history>>
        BY <3>1, <3>4, <4>1 DEF Round, ghosts
      <4>2. CASE history' = history \o steer /\ steer' = <<>>
        <5>1. pc[t] = "round" /\ UNCHANGED <<text, how>>
          BY <3>4 DEF Round, ghosts
        <5>2. \A u \in Threads : text'[u] = <<>>
          BY <5>1, NobodyCarries DEF OrderInv
        <5>3. Aligned(history, text[t], steer)
          BY DEF OrderInv, AllAligned
        <5>4. Aligned(history', <<>>, steer')
          BY <2>1, <4>2, <5>3, IncreasingConcat, EmptyOrder DEF Aligned
        <5>5. Told(history \o steer)
          BY <2>1, ToldConcat DEF OrderInv, AllTold
        <5>6. AllAligned' /\ Carried'
          BY <5>2, <5>4 DEF AllAligned, Carried
        <5>7. AllTold' /\ Downward'
          BY <4>2, <5>1, <5>2, <5>5 DEF OrderInv, AllTold, Told, Downward
        <5>8. QED
          BY <5>6, <5>7 DEF OrderInv
      <4>3. QED
        BY <3>4, <4>1, <4>2 DEF Round
    <3>5. CASE Reply(t)
      BY <3>1, <3>5 DEF Reply, ghosts
    <3>6. CASE NextCall(t) \/ RunCall(t)
      BY <3>1, <3>6 DEF NextCall, RunCall, shared, ghosts
    <3>7. CASE EndBatch(t)
      BY <3>1, <3>7 DEF EndBatch, ghosts
    <3>8. CASE Ask(t) \/ Answered(t)
      BY <3>1, <3>8 DEF Ask, Answered, ghosts
    <3>9. CASE Leave(t)
      <4>1. CASE steer' = steer
        BY <3>1, <3>9, <4>1 DEF Leave, ghosts
      <4>2. CASE steer' = <<>>
        <5>1. pc[t] = "leave" /\ UNCHANGED <<history, text, how>>
          BY <3>9 DEF Leave, ghosts
        <5>2. \A u \in Threads : text'[u] = <<>>
          BY <5>1, NobodyCarries DEF OrderInv
        <5>3. Aligned(history', <<>>, steer')
          <6>1. Increasing(history)
            BY DEF OrderInv, AllAligned, Aligned
          <6>2. QED
            BY <4>2, <5>1, <6>1, EmptyOrder DEF Aligned
        <5>4. AllAligned' /\ Carried'
          BY <5>2, <5>3 DEF AllAligned, Carried
        <5>5. AllTold' /\ Downward'
          BY <4>2, <5>1 DEF OrderInv, AllTold, Told, Downward
        <5>6. QED
          BY <5>4, <5>5 DEF OrderInv
      <4>3. QED
        BY <3>9, <4>1, <4>2 DEF Leave
    <3>10. CASE Finish(t)
      <4>1. /\ pc[t] = "ended" /\ UNCHANGED <<history, how>>
            /\ \A u \in Threads : text[u] = <<>>
        BY <3>10, NobodyCarries DEF OrderInv, Finish, ghosts
      <4>2. CASE fn[t] = "turn" /\ steer # <<>>
        <5>1. /\ text' = [text EXCEPT ![t] = steer]
              /\ steer' = <<>>
              /\ pc' = [pc EXCEPT ![t] = "start"]
          BY <3>10, <4>2 DEF Finish, Goto
        <5>2. \A u \in Threads : text'[u] = IF u = t THEN steer ELSE <<>>
          BY <2>1, <4>1, <5>1
        <5>3. pc'[t] = "start"
          BY <2>1, <5>1
        <5>4. Aligned(history, <<>>, steer)
          BY <4>1 DEF OrderInv, AllAligned
        <5>5. Aligned(history, steer, <<>>) /\ Aligned(history, <<>>, <<>>)
          BY <5>4, EmptyOrder DEF Aligned
        <5>6. AllAligned'
          <6>1. \A u \in Threads : Aligned(history', text'[u], steer')
            BY <4>1, <5>1, <5>2, <5>5
          <6>2. QED
            BY <6>1 DEF AllAligned
        <5>7. Carried'
          BY <5>2, <5>3 DEF Carried
        <5>8. AllTold'
          <6>1. \A u \in Threads : text'[u] \in {steer, <<>>}
            BY <5>2
          <6>2. QED
            BY <4>1, <5>1, <6>1, EmptyOrder DEF OrderInv, AllTold, Told
        <5>9. QED
          BY <4>1, <5>6, <5>7, <5>8 DEF OrderInv, Downward
      <4>3. CASE ~(fn[t] = "turn" /\ steer # <<>>)
        BY <3>1, <3>10, <4>1, <4>3 DEF Finish, ghosts
      <4>4. QED
        BY <4>2, <4>3
    <3>11. QED
      BY <2>12, <3>2, <3>3, <3>4, <3>5, <3>6, <3>7, <3>8, <3>9, <3>10 DEF WorkerStep
  <2>13. CASE UNCHANGED vars
    BY <2>2, <2>13 DEF vars, shared, worker, ghosts
  <2>14. QED
    BY <2>3, <2>5, <2>6, <2>7, <2>8, <2>10, <2>11, <2>12, <2>13 DEF Next, UserStep
<1>3. QED
  BY <1>1, <1>2, Typing, WorkerSafety, NothingIsLeft, OnlyTurnsRun, NoHelperAtQuestion, PTL DEF Spec

THEOREM MessagesInOrder ==
  ASSUME NoHelpers
  PROVE  Spec => []TypedOrder
<1>1. TypeOK /\ AllAligned => TypedOrder
  <2> SUFFICES ASSUME TypeOK, AllAligned, NEW t \in Threads
               PROVE  Increasing(history \o text[t] \o steer)
    BY DEF TypedOrder
  <2>1. history \in Seq(Msgs) /\ text[t] \in Seq(Msgs) /\ steer \in Seq(Msgs)
    BY DEF TypeOK
  <2>2. QED
    BY <2>1, AlignedIs DEF AllAligned
<1>2. OrderInv => AllAligned
  BY DEF OrderInv
<1>3. QED
  BY <1>1, <1>2, Typing, OrderHolds, PTL

-----------------------------------------------------------------------------
(* Esc drops what is queued.                                                  *)

LEMMA ToSetConcat ==
  ASSUME NEW s \in Seq(Msgs), NEW r \in Seq(Msgs), NEW m
  PROVE  m \in ToSet(s \o r) <=> m \in ToSet(s) \/ m \in ToSet(r)
<1> DEFINE c == s \o r
<1>1. /\ Len(s) \in Nat /\ Len(r) \in Nat
      /\ DOMAIN s = 1..Len(s) /\ DOMAIN r = 1..Len(r)
  BY LenProperties
<1>2. /\ Len(c) = Len(s) + Len(r) /\ DOMAIN c = 1..Len(c)
      /\ \A i \in 1..Len(c) : c[i] = IF i <= Len(s) THEN s[i] ELSE r[i - Len(s)]
  BY ConcatProperties, LenProperties
<1>3. \A i \in DOMAIN s : i \in DOMAIN c /\ c[i] = s[i]
  BY <1>1, <1>2
<1>4. \A j \in DOMAIN r : Len(s) + j \in DOMAIN c /\ c[Len(s) + j] = r[j]
  BY <1>1, <1>2
<1>5. \A k \in DOMAIN c : \/ k \in DOMAIN s /\ c[k] = s[k]
                          \/ k - Len(s) \in DOMAIN r /\ c[k] = r[k - Len(s)]
  BY <1>1, <1>2
<1> HIDE DEF c
<1>6. m \in ToSet(c) => m \in ToSet(s) \/ m \in ToSet(r)
  BY <1>5, Zenon DEF ToSet
<1>7. m \in ToSet(s) \/ m \in ToSet(r) => m \in ToSet(c)
  BY <1>3, <1>4, Zenon DEF ToSet
<1>8. QED
  BY <1>6, <1>7 DEF c

LEMMA ToSetAppend ==
  ASSUME NEW s \in Seq(Msgs), NEW k \in Msgs, NEW m
  PROVE  m \in ToSet(Append(s, k)) <=> m \in ToSet(s) \/ m = k
<1>1. Append(s, k) = s \o <<k>> /\ <<k>> \in Seq(Msgs)
  BY AppendIsConcat
<1>2. m \in ToSet(<<k>>) <=> m = k
  BY DEF ToSet
<1>3. QED
  BY <1>1, <1>2, ToSetConcat

LEMMA ToSetEmpty == ToSet(<<>>) = {}
BY DEF ToSet

LEMMA PrecedesDisjoint ==
  ASSUME NEW s \in Seq(Msgs), NEW r \in Seq(Msgs), Precedes(s, r), NEW m \in ToSet(r)
  PROVE  m \notin ToSet(s)
<1>1. /\ DOMAIN s = 1..Len(s) /\ DOMAIN r = 1..Len(r)
      /\ \A i \in 1..Len(s) : s[i] \in Nat
  BY ControllerAssumption, LenProperties, ElementOfSeq DEF Msgs
<1>2. PICK j \in 1..Len(r) : r[j] = m
  BY <1>1, Zenon DEF ToSet
<1>3. SUFFICES ASSUME NEW i \in 1..Len(s), s[i] = m PROVE FALSE
  BY <1>1, Zenon DEF ToSet
<1>4. s[i] < r[j] /\ s[i] \in Nat
  BY <1>1 DEF Precedes
<1>5. QED
  BY <1>2, <1>3, <1>4

\* Not yet with the model, nor on its way to it in a worker's hands.
Withheld(m) == m \notin ToSet(history) /\ \A t \in Threads : m \notin ToSet(text[t])

\* A message that Esc caught amid the work has not gone to the model, and if it is
\* still queued the flag is up and the work that will drop it goes on.
Caught(m) ==
  /\ how[m] # "new"
  /\ Withheld(m)
  /\ m \in ToSet(steer) => cancel /\ \E t \in Threads : AtWork(t)
EscInv == \A e \in escaped : e[2] = "amid" => Caught(e[1])

\* "Esc drops queued messages": a message queued when the flag is set amid a turn
\* never reaches the conversation, in that turn, in the extra turn _finish_bg
\* starts or in any later one: provided only turns run.
THEOREM EscKeepsItsWord ==
  ASSUME NoHelpers
  PROVE  Spec => []EscDropsAmid
<1> DEFINE I == TypeOK /\ OneWorker /\ BusyIsWorker /\ OrderInv /\ TurnsOnly
<1>1. Init => EscInv
  BY DEF Init, EscInv
<1>2. I /\ EscInv /\ [Next]_vars => EscInv'
  <2> SUFFICES ASSUME I, EscInv, [Next]_vars PROVE EscInv'
    OBVIOUS
  <2>1. /\ history \in Seq(Msgs) /\ steer \in Seq(Msgs)
        /\ text \in [Threads -> Seq(Msgs)] /\ pc \in [Threads -> PCs]
        /\ how \in [Msgs -> How] /\ escaped \subseteq Msgs \X {"amid", "edge"}
    BY DEF TypeOK
  \* It is enough to look at one caught message, unless Esc catches more.
  <2>2. ASSUME UNCHANGED escaped,
               \A m \in Msgs : Caught(m) => Caught(m)'
        PROVE  EscInv'
    <3>1. \A e \in escaped : e[1] \in Msgs
      BY <2>1
    <3>2. QED
      BY <2>2, <3>1 DEF EscInv
  <2>3. UNCHANGED <<history, steer, text, how, pc, cancel, escaped>> => EscInv'
    BY DEF EscInv, Caught, Withheld, AtWork
  \* Started while idle: nothing caught is queued.
  <2>4. ASSUME ~busy, NEW work, NEW msgs, RunBg(work, msgs), UNCHANGED <<steer, escaped>>,
               \A m \in Msgs : Caught(m) => /\ how'[m] # "new" /\ m \notin ToSet(history')
                                             /\ m \notin ToSet(msgs)
        PROVE  EscInv'
    <3>1. \A m \in Msgs : Caught(m) => m \notin ToSet(steer)
      BY <2>4 DEF Caught, AtWork, BusyIsWorker, Alive
    <3>2. \A u \in Threads : text'[u] = text[u] \/ text'[u] = msgs
      BY <2>1, <2>4 DEF RunBg
    <3>3. \A m \in Msgs : Caught(m) => Caught(m)'
      BY <2>4, <3>1, <3>2 DEF Caught, Withheld
    <3>4. QED
      BY <2>2, <2>4, <3>3
  \* The message typed now is none of the caught ones.
  <2>5. ASSUME NEW k \in Msgs, Typable(k), NEW x \in How \ {"new"}, how' = [how EXCEPT ![k] = x],
               NEW m \in Msgs, Caught(m)
        PROVE  m # k /\ how'[m] # "new"
    BY <2>1, <2>5 DEF Typable, Caught
  <2>6. ASSUME NEW k \in Msgs, StartTurn(k) PROVE EscInv'
    <3>1. \A m : m \in ToSet(<<k>>) <=> m = k
      BY DEF ToSet
    <3>2. "sent" \in How \ {"new"}
      BY DEF How
    <3>3. /\ ~busy /\ Typable(k) /\ RunBg("turn", <<k>>) /\ how' = [how EXCEPT ![k] = "sent"]
          /\ UNCHANGED <<steer, history, escaped>>
      BY <2>6 DEF StartTurn
    <3>4. \A m \in Msgs : Caught(m) => /\ how'[m] # "new" /\ m \notin ToSet(history')
                                        /\ m \notin ToSet(<<k>>)
      BY <2>5, <3>1, <3>2, <3>3 DEF Caught, Withheld
    <3>5. QED
      BY <2>4, <3>3, <3>4
  <2>7. ASSUME NEW k \in Msgs, Answer(k) PROVE EscInv'
    <3>1. /\ Typable(k) /\ how' = [how EXCEPT ![k] = "answer"] /\ "answer" \in How \ {"new"}
          /\ UNCHANGED <<history, steer, text, pc, cancel, escaped>>
      BY <2>7 DEF Answer, worker, How
    <3>2. \A m \in Msgs : Caught(m) => Caught(m)'
      BY <2>5, <3>1 DEF Caught, Withheld, AtWork
    <3>3. QED
      BY <2>2, <3>1, <3>2
  <2>8. ASSUME NEW k \in Msgs, Steer(k) PROVE EscInv'
    <3>1. /\ Typable(k) /\ how' = [how EXCEPT ![k] = Running] /\ Running \in How \ {"new"}
          /\ steer' = Append(steer, k)
          /\ UNCHANGED <<history, text, pc, cancel, escaped>>
      BY <2>8 DEF Steer, worker, How, Running, TypeOK, Work
    <3>2. \A m \in Msgs : Caught(m) => (m \in ToSet(steer') => m \in ToSet(steer))
      <4>1. \A m : m \in ToSet(steer') <=> m \in ToSet(steer) \/ m = k
        BY <2>1, <3>1, ToSetAppend
      <4>2. \A m \in Msgs : Caught(m) => m # k
        BY <2>5, <3>1
      <4>3. QED
        BY <4>1, <4>2
    <3>3. \A m \in Msgs : Caught(m) => Caught(m)'
      BY <2>5, <3>1, <3>2 DEF Caught, Withheld, AtWork
    <3>4. QED
      BY <2>2, <3>1, <3>3
  <2>9. CASE Compact \/ RunPlan
    BY <2>9 DEF Compact, RunPlan, Typed, NoHelpers, Starters
  <2>10. CASE NewConversation
    <3>1. history' = <<>> /\ UNCHANGED <<steer, text, pc, how, cancel, escaped>>
      BY <2>10 DEF NewConversation, worker, ghosts
    <3>2. \A m \in Msgs : Caught(m) => Caught(m)'
      BY <3>1, ToSetEmpty DEF Caught, Withheld, AtWork
    <3>3. QED
      BY <2>2, <3>1, <3>2
  <2>11. ASSUME ~busy, Resend, UNCHANGED <<steer, how, escaped>> PROVE EscInv'
    <3>1. PICK k \in 1..Len(history) :
             /\ history' = SubSeq(history, 1, k - 1)
             /\ RunBg("turn", SubSeq(history, k, Len(history)))
      BY <2>11 DEF Resend
    <3> DEFINE front == SubSeq(history, 1, k - 1)
               back == SubSeq(history, k, Len(history))
    <3>2. Len(history) \in Nat /\ k \in Nat
      BY <2>1, LenProperties
    <3>3. front \in Seq(Msgs) /\ back \in Seq(Msgs)
      BY <2>1, <3>2
    <3>4. front \o back = history
      <4>1. front \o back = SubSeq(history, 1, Len(history))
        <5>1. /\ 1 \in 1..Len(history) + 1 /\ k - 1 \in 1 - 1..Len(history)
              /\ Len(history) \in k - 1..Len(history) /\ (k - 1) + 1 = k
          BY <3>2
        <5>2. QED
          BY <2>1, <5>1, ConcatAdjacentSubSeq
      <4>2. SubSeq(history, 1, Len(history)) = history
        BY <2>1
      <4>3. QED
        BY <4>1, <4>2
    <3>5. history' = front /\ RunBg("turn", back)
      BY <3>1
    <3> HIDE DEF front, back
    <3>6. \A m \in Msgs : Caught(m) => m \notin ToSet(front) /\ m \notin ToSet(back)
      BY <3>3, <3>4, ToSetConcat DEF Caught, Withheld
    <3>7. QED
      BY <2>4, <2>11, <3>5, <3>6 DEF Caught
  <2>12. CASE RetryAsked \/ Confirm
    BY <2>3, <2>11, <2>12 DEF RetryAsked, Confirm, worker, ghosts
  <2>13. CASE AskAboutFiles \/ Esc
    BY <2>3, <2>13 DEF AskAboutFiles, Esc, worker, ghosts
  <2>14. CASE EscLands
    <3>1. /\ cancel' = TRUE
          /\ escaped' = escaped \cup (ToSet(steer) \X
                           {IF \E t \in Threads : AtWork(t) THEN "amid" ELSE "edge"})
          /\ UNCHANGED <<steer, history, how, pc, text>>
      BY <2>14 DEF EscLands, worker
    <3>2. \A m \in Msgs : Caught(m) => Caught(m)'
      BY <3>1 DEF Caught, Withheld, AtWork
    <3>3. ASSUME NEW m \in ToSet(steer), NEW t \in Threads, AtWork(t) PROVE Caught(m)'
      <4>1. how[m] # "new"
        <5>1. PICK i \in 1..Len(steer) : steer[i] = m
          BY <2>1, <3>3, LenProperties, Zenon DEF ToSet
        <5>2. QED
          BY <5>1 DEF OrderInv, AllTold, Told
      <4>2. m \notin ToSet(history)
        BY <2>1, <3>3, PrecedesDisjoint DEF OrderInv, AllAligned, Aligned
      <4>3. ASSUME NEW u \in Threads PROVE m \notin ToSet(text[u])
        BY <2>1, <3>3, PrecedesDisjoint DEF OrderInv, AllAligned, Aligned
      <4>4. QED
        BY <3>1, <3>3, <4>1, <4>2, <4>3 DEF Caught, Withheld, AtWork
    <3>4. ASSUME NEW e \in escaped', e[2] = "amid" PROVE Caught(e[1])'
      <4>1. CASE e \in escaped
        BY <2>1, <3>2, <3>4, <4>1 DEF EscInv
      <4>2. CASE e \notin escaped
        <5>1. e[1] \in ToSet(steer) /\ \E t \in Threads : AtWork(t)
          BY <3>1, <3>4, <4>2
        <5>2. QED
          BY <3>3, <5>1
      <4>3. QED
        BY <4>1, <4>2
    <3>5. QED
      BY <3>4 DEF EscInv
  <2>15. ASSUME NEW t \in Threads, WorkerStep(t) PROVE EscInv'
    \* The only worker, away from its work, leaves no caught message queued.
    <3>1. ASSUME pc[t] \in {"start", "ended"}, NEW m, Caught(m) PROVE m \notin ToSet(steer)
      BY <3>1 DEF Caught, AtWork, OneWorker, Alive
    <3>2. ASSUME UNCHANGED <<history, steer, text, how, cancel, escaped>>,
                 NEW where, Goto(t, where), where \notin {"off", "start", "ended"}
          PROVE  EscInv'
      <4>1. \A u \in Threads : AtWork(u) => AtWork(u)'
        BY <2>1, <3>2 DEF AtWork, Goto
      <4>2. \A m \in Msgs : Caught(m) => Caught(m)'
        BY <3>2, <4>1 DEF Caught, Withheld
      <4>3. QED
        BY <2>2, <3>2, <4>2
    <3>3. CASE Begin(t)
      <4>1. pc[t] = "start" /\ UNCHANGED <<history, steer, text, how, escaped>>
        BY <3>3 DEF Begin, ghosts
      <4>2. \A m \in Msgs : Caught(m) => Caught(m)'
        BY <3>1, <4>1 DEF Caught, Withheld
      <4>3. QED
        BY <2>2, <4>1, <4>2
    <3>4. CASE Prepare(t)
      <4>1. /\ pc[t] = "prepare" /\ pc' = [pc EXCEPT ![t] = "round"]
            /\ history' = history \o text[t]
            /\ text' = [text EXCEPT ![t] = <<>>]
            /\ UNCHANGED <<steer, how, cancel, escaped>>
        BY <3>4 DEF Prepare, Goto, ghosts
      <4>2. \A u \in Threads : /\ text'[u] = text[u] \/ text'[u] = <<>>
                               /\ AtWork(u) => AtWork(u)'
        BY <2>1, <4>1 DEF AtWork
      <4>3. text[t] \in Seq(Msgs)
        BY <2>1
      <4>4. \A m \in Msgs : Caught(m) => m \notin ToSet(history')
        BY <2>1, <4>1, <4>3, ToSetConcat DEF Caught, Withheld
      <4>5. \A m \in Msgs : Caught(m) => Caught(m)'
        BY <4>1, <4>2, <4>4, ToSetEmpty DEF Caught, Withheld
      <4>6. QED
        BY <2>2, <4>1, <4>5
    <3>5. CASE Round(t)
      <4>1. CASE UNCHANGED <<steer, history>>
        <5>1. PICK where \in {"leave", "request"} : Goto(t, where)
          BY <3>5 DEF Round
        <5>2. QED
          BY <3>2, <3>5, <4>1, <5>1 DEF Round, ghosts
      <4>2. CASE ~cancel /\ history' = history \o steer /\ steer' = <<>>
        <5>1. \A m \in Msgs : Caught(m) => m \notin ToSet(steer)
          BY <4>2 DEF Caught
        <5>2. \A m \in Msgs : Caught(m) => m \notin ToSet(history')
          BY <2>1, <4>2, <5>1, ToSetConcat DEF Caught, Withheld
        <5>3. UNCHANGED <<text, how, escaped>>
          BY <3>5 DEF Round, ghosts
        <5>4. \A m \in Msgs : Caught(m) => Caught(m)'
          BY <4>2, <5>2, <5>3, ToSetEmpty DEF Caught, Withheld
        <5>5. QED
          BY <2>2, <5>3, <5>4
      <4>3. QED
        BY <3>5, <4>1, <4>2 DEF Round
    <3>6. CASE Reply(t)
      <4>1. PICK where \in {"tools", "round", "leave"} : Goto(t, where)
        BY <3>6 DEF Reply
      <4>2. QED
        BY <3>2, <3>6, <4>1 DEF Reply, ghosts
    <3>7. CASE NextCall(t) \/ RunCall(t)
      BY <3>2, <3>7 DEF NextCall, RunCall, shared, ghosts
    <3>8. CASE EndBatch(t)
      BY <3>2, <3>8 DEF EndBatch, ghosts
    <3>9. CASE Ask(t) \/ Answered(t)
      BY <3>2, <3>9 DEF Ask, Answered, ghosts
    <3>10. CASE Leave(t)
      <4>1. /\ steer' = IF cancel THEN <<>> ELSE steer
            /\ UNCHANGED <<history, text, how, cancel, escaped>>
        BY <3>10 DEF Leave, TurnsOnly, ghosts
      <4>2. \A m \in Msgs : Caught(m) => m \notin ToSet(steer')
        BY <4>1, ToSetEmpty DEF Caught
      <4>3. \A m \in Msgs : Caught(m) => Caught(m)'
        BY <4>1, <4>2 DEF Caught, Withheld
      <4>4. QED
        BY <2>2, <4>1, <4>3
    <3>11. CASE Finish(t)
      <4>1. pc[t] = "ended" /\ UNCHANGED <<history, how, escaped>>
        BY <3>11 DEF Finish, ghosts
      <4>2. \A m \in Msgs : Caught(m) => m \notin ToSet(steer)
        BY <3>1, <4>1
      <4>3. \/ steer' = steer /\ text' = text
            \/ steer' = <<>> /\ text' = [text EXCEPT ![t] = steer]
        BY <3>11, Zenon DEF Finish
      <4>4. \A u \in Threads : text'[u] = text[u] \/ text'[u] = steer
        BY <2>1, <4>3
      <4>5. \A m \in Msgs : Caught(m) => m \notin ToSet(steer')
        BY <4>2, <4>3, ToSetEmpty
      <4>6. \A m \in Msgs : Caught(m) => Caught(m)'
        BY <4>1, <4>2, <4>4, <4>5 DEF Caught, Withheld
      <4>7. QED
        BY <2>2, <4>1, <4>6
    <3>12. QED
      BY <2>15, <3>3, <3>4, <3>5, <3>6, <3>7, <3>8, <3>9, <3>10, <3>11 DEF WorkerStep
  <2>16. CASE UNCHANGED vars
    BY <2>3, <2>16 DEF vars, shared, worker, ghosts
  <2>17. QED
    BY <2>6, <2>7, <2>8, <2>9, <2>10, <2>12, <2>13, <2>14, <2>15, <2>16 DEF Next, UserStep
<1>3. EscInv => EscDropsAmid
  BY DEF EscInv, EscDropsAmid, Caught, Withheld
<1>4. QED
  BY <1>1, <1>2, <1>3, Typing, WorkerSafety, OrderHolds, OnlyTurnsRun, NoHelperAtQuestion,
     PTL DEF Spec

=============================================================================
