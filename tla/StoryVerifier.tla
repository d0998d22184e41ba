----------------------------- MODULE StoryVerifier -----------------------------
(***************************************************************************)
(* The independent verifier of a story and of the phase gate: its passes   *)
(* over the expectations, the acceptance tests it writes and saves, and    *)
(* what becomes of an expectation it does not get to (story_runner.py).    *)
(*                                                                         *)
(* One story with its expectations, and the gate that verifies what the    *)
(* story deferred.  A test file holds the test of one expectation; it      *)
(* passes when the product meets that expectation.                         *)
(***************************************************************************)
EXTENDS Naturals, Sequences, FiniteSets, FiniteSetsExt, SequencesExt

CONSTANTS
  Criteria,     \* the expectations, 1..n; all have examples
  GATE_BATCH,   \* expectations per pass at a gate
  MaxRefusals,  \* STORY_MAX_REFUSALS
  MaxGates,     \* bound: the phase gates run
  Shared        \* an expectation's test may go to any file, not only to one of its own two

VARIABLES
  stage,     \* "build", "verify" or "accepted" (the story), "gate", "fix", "closed" (the phase), "failed"
  met,       \* the expectations the product meets
  disk,      \* what each file tests; 0 when it is not there
  test,      \* Criterion.test: the file
  verdict,   \* Criterion.verdict
  criteria,  \* _verify_story's criteria
  todo,      \* this pass's expectations
  alone,     \* this pass is a second one, over one expectation
  later,     \* the expectations that get a second pass
  batches,   \* the batches to come
  left,      \* what a second pass did not get to either
  saved,     \* this pass's saved runs
  wrote,     \* the files this pass wrote
  found,     \* the expectations that failed, and the other ones the gate reports
  refusals, gates

verifierVars == <<stage, met, disk, test, verdict, criteria, todo, alone, later, batches, left,
                  saved, wrote, found, refusals, gates>>

Paths == Criteria \X {1, 2}
NoFile == <<0, 0>>
Own(c) == IF Shared THEN Paths ELSE {c} \X {1, 2}

Runs(p) == disk[p] \in met
Proven(c) == verdict[c] = "pass"
Verifying == stage \in {"verify", "gate"}

Init ==
  /\ stage = "build" /\ met = {} /\ disk = [p \in Paths |-> 0] /\ test = [c \in Criteria |-> NoFile]
  /\ verdict = [c \in Criteria |-> "none"] /\ criteria = {} /\ todo = {} /\ alone = FALSE
  /\ later = {} /\ batches = <<>> /\ left = {} /\ saved = [c \in Criteria |-> "none"] /\ wrote = {}
  /\ found = [fail |-> {}, open |-> {}] /\ refusals = 0 /\ gates = 0

\* GATE_BATCH expectations a pass at the gate, all of them for a story.
Batches(cs) ==
  LET s == SetToSortSeq(cs, LAMBDA a, b : a < b)
      size == IF stage \in {"accepted", "fix"} THEN GATE_BATCH ELSE Cardinality(cs)
      count == (Len(s) + size - 1) \div size
  IN [b \in 1..count |-> {s[i] : i \in ((b - 1) * size + 1)..Min({b * size, Len(s)})}]

\* The gate's rest: every saved test is run once more.
GateClosed == \A c \in Criteria : (Proven(c) /\ test[c] # NoFile) => Runs(test[c])

\* Saved tests that still pass are not verified again.
Again(c) == ~(Proven(c) /\ test[c] # NoFile /\ Runs(test[c]))

Accept == stage' = "accepted"

\* _verify_story begins: over the story's expectations, or at the gate over the deferred.
Verify(now, cs) ==
  LET again == {c \in cs : Again(c)}
      bs == Batches(again)
  IN /\ criteria' = cs /\ found' = [fail |-> {}, open |-> {}] /\ left' = {} /\ later' = {}
     /\ alone' = FALSE /\ saved' = [c \in Criteria |-> "none"] /\ wrote' = {}
     /\ IF again = {}
        THEN /\ todo' = {} /\ batches' = <<>> /\ UNCHANGED verdict
             /\ stage' = IF now = "verify" THEN "accepted" ELSE IF GateClosed THEN "closed" ELSE "fix"
        ELSE \/ /\ stage' = now /\ todo' = bs[1] /\ batches' = Tail(bs) /\ UNCHANGED verdict
             \/ \* The interfaces are not there yet: everything waits for the gate.
                /\ now = "verify" /\ Accept /\ todo' = {} /\ batches' = <<>>
                /\ verdict' = [c \in Criteria |-> IF c \in again THEN "deferred" ELSE verdict[c]]

\* complete_story, or a text reply that ends the story.
Complete ==
  /\ stage = "build" /\ Verify("verify", Criteria)
  /\ UNCHANGED <<met, disk, test, refusals, gates>>

\* The phase gate takes the deferred expectations of the done story.
Gate ==
  /\ stage \in {"accepted", "fix"} /\ gates < MaxGates /\ gates' = gates + 1
  /\ Verify("gate", {c \in Criteria : verdict[c] = "deferred"})
  /\ UNCHANGED <<met, disk, test, refusals>>

\* The implementer's work, or a fix story's.
Implement ==
  /\ stage \in {"build", "fix"} /\ met' \in SUBSET Criteria /\ met' # met
  /\ UNCHANGED <<stage, disk, test, verdict, criteria, todo, alone, later, batches, left, saved,
                 wrote, found, refusals, gates>>

-----------------------------------------------------------------------------
(* One verifier pass *)

\* It writes a test; _verifier_guard keeps it inside the acceptance folder.
WriteTest(c, p) ==
  /\ Verifying /\ c \in todo /\ p \in Own(c) /\ disk[p] # c
  /\ disk' = [disk EXCEPT ![p] = c] /\ wrote' = wrote \cup {p}
  /\ UNCHANGED <<stage, met, test, verdict, criteria, todo, alone, later, batches, left, saved,
                 found, refusals, gates>>

\* save_acceptance_test: only a test that checks the expected values; it is run, and an
\* earlier test of the expectation is removed.
SaveTest(c, p) ==
  /\ Verifying /\ c \in todo /\ disk[p] = c
  /\ saved' = [saved EXCEPT ![c] = IF Runs(p) THEN "ok" ELSE "bad"]
  /\ test' = [test EXCEPT ![c] = p]
  /\ disk' = IF test[c] \notin {NoFile, p} THEN [disk EXCEPT ![test[c]] = 0] ELSE disk
  /\ UNCHANGED <<stage, met, verdict, criteria, todo, alone, later, batches, left, wrote, found,
                 refusals, gates>>

\* finish_verification: a pass needs a saved test that passes, a fail one that fails.
Backed(c, v) == (v = "pass" => saved[c] = "ok") /\ (v = "fail" => saved[c] = "bad")

\* Without a verdict the saved test's run decides.
Decided(c, results) ==
  IF results[c] # "none" THEN (IF stage = "gate" /\ results[c] = "not_yet" THEN "unclear" ELSE results[c])
  ELSE IF saved[c] = "ok" THEN "pass" ELSE IF saved[c] = "bad" THEN "fail" ELSE "left"

\* The pass is over, and with the last one the verification: what is left is deferred.
EndPass(results) ==
  LET on(v) == {c \in todo : Decided(c, results) = v}
      late == left \cup IF alone THEN on("left") ELSE {}
      again == (later \cup IF alone THEN {} ELSE on("left")) \ IF alone THEN todo ELSE {}
      fail == found.fail \cup on("fail")
      open == found.open \cup on("unclear")
      over == again = {} /\ batches = <<>>
      verdictNow == [c \in Criteria |->
                       IF c \in todo
                       THEN IF c \in on("pass") THEN "pass" ELSE IF c \in on("fail") THEN "fail"
                            ELSE IF c \in on("left") THEN verdict[c] ELSE "deferred"
                       ELSE verdict[c]]
      tests == {test[c] : c \in criteria}
  IN /\ UNCHANGED <<met, test, criteria, gates>>
     /\ disk' = [p \in Paths |-> IF p \in wrote \ tests THEN 0 ELSE disk[p]]
     /\ saved' = [c \in Criteria |-> "none"] /\ wrote' = {}
     /\ verdict' = [c \in Criteria |-> IF over /\ c \in late THEN "deferred" ELSE verdictNow[c]]
     /\ found' = [fail |-> fail, open |-> open] /\ left' = late
     /\ IF again # {} THEN /\ todo' = {Min(again)} /\ alone' = TRUE /\ later' = again
                           /\ UNCHANGED <<batches, stage, refusals>>
        ELSE IF batches # <<>> THEN /\ todo' = Head(batches) /\ batches' = Tail(batches)
                                    /\ alone' = FALSE /\ later' = {} /\ UNCHANGED <<stage, refusals>>
        ELSE /\ todo' = {} /\ alone' = FALSE /\ later' = {} /\ UNCHANGED batches
             /\ IF stage = "verify"
                THEN IF fail = {} THEN Accept /\ UNCHANGED refusals
                     ELSE /\ refusals' = refusals + 1
                          /\ stage' = IF refusals + 1 >= MaxRefusals THEN "failed" ELSE "build"
                ELSE /\ UNCHANGED refusals
                     /\ stage' = IF fail \cup open \cup late = {} /\ GateClosed'
                                 THEN "closed" ELSE "fix"

\* finish_verification goes through: a verdict for every expectation.
FinishVerification ==
  /\ Verifying
  /\ \E results \in [todo -> {"pass", "fail", "unclear", "not_yet"}] :
       (\A c \in todo : Backed(c, results[c])) /\ EndPass(results)

\* Its turns run out, it ends with text or the user interrupts it.
RunsOut == Verifying /\ EndPass([c \in todo |-> "none"])

Next ==
  \/ Complete \/ Gate \/ Implement \/ FinishVerification \/ RunsOut
  \/ \E c \in Criteria, p \in Paths : WriteTest(c, p) \/ SaveTest(c, p)

Spec == Init /\ [][Next]_verifierVars

-----------------------------------------------------------------------------
(* Properties *)

TypeOK ==
  /\ stage \in {"build", "verify", "accepted", "gate", "fix", "closed", "failed"}
  /\ test \in [Criteria -> Paths \cup {NoFile}] /\ disk \in [Paths -> Criteria \cup {0}]
  /\ verdict \in [Criteria -> {"none", "pass", "fail", "deferred"}]
  /\ (Verifying <=> todo # {}) /\ todo \subseteq criteria /\ left \cap todo = {}

\* A phase closes only on expectations its own saved tests show to be met, and an accepted
\* story has no expectation that failed or was passed over: each is proven or waits for the
\* gate, "a verifier that ran out of turns says nothing about the expectation"
\* (story_runner.py:856).
ShownByTests ==
  /\ stage = "accepted" => \A c \in Criteria : \/ verdict[c] = "deferred"
                                               \/ Proven(c) /\ disk[test[c]] = c /\ c \in met
  /\ stage = "closed" => \A c \in Criteria : Proven(c) => disk[test[c]] = c /\ c \in met

\* Between passes the acceptance folder "holds the acceptance tests and nothing else"
\* (story_runner.py:994), and each saved test is there.
FolderIsTests ==
  /\ ~Verifying => {p \in Paths : disk[p] # 0} = {test[c] : c \in {d \in Criteria : test[d] # NoFile}}
  /\ \A c \in Criteria : test[c] # NoFile => disk[test[c]] = c

\* No expectation is given up before a pass of its own (story_runner.py:855).
AloneFirstStep == \A c \in left' \ left : alone /\ todo = {c}
AloneFirst == [][AloneFirstStep]_verifierVars
=============================================================================
