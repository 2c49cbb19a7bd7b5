--------------------------- MODULE TestFramework ---------------------------
(***************************************************************************)
(* The test framework of the hosted builds (test-framework/src/test.c),    *)
(* the mock of the interrupt table (idt/mock/src/idt.c) and the macros     *)
(* with which the tests of the memory manager join them.  A topic, a test  *)
(* and a failure are the bodies of for loops that run once; a fault is a   *)
(* longjmp to the last setjmp, and `break` leaves the innermost loop       *)
(* without the step that ends it.  So the program's own place in its       *)
(* nested loops (`loops`) and the framework's array of open topics         *)
(* (`topics`) are two things.                                              *)
(***************************************************************************)
EXTENDS Integers, Sequences, FiniteSets, SequencesExt

CONSTANTS
  Faults,
  MAX_TEST_TOPICS,
  MaxTopics, MaxTests     \* bounds: topics and tests of the suite

ROOT == 0

VARIABLES
  pc,         \* "start", "between" tests, "test", "finished"
  loops,      \* the topics whose loops the program is in, innermost last
  topics,     \* testTopics[0 .. nextTestTopic - 1]: id, successes, failures
  started,    \* topics started so far
  jumper,     \* the setjmp a fault returns to: its macro and what it expects
  triggered,  \* triggeredFaults
  tests,      \* history: the loops each test began in, the setjmp at its end, its fault, its verdicts
  scores,     \* what testTopicFinish printed, with the topic whose loop ended
  exit        \* what testSuiteFinish returned

vars == <<pc, loops, topics, started, jumper, triggered, tests, scores, exit>>

Init ==
  /\ pc = "start"
  /\ loops = << >> /\ topics = << >> /\ started = 0
  /\ jumper = [at |-> "none", fault |-> {}] /\ triggered = {}
  /\ tests = << >> /\ scores = {} /\ exit = 0

-----------------------------------------------------------------------------
(* Topics.                                                                 *)

\* Variant with a defect: the counters of the entry are those of the topic before.
addTopicKeeps(id) ==
  /\ Len(topics) < MAX_TEST_TOPICS
  /\ topics' = Append(topics, IF topics = << >> THEN [id |-> id, successes |-> 0, failures |-> 0]
                              ELSE [Last(topics) EXCEPT !.id = id])

addTopic(id) ==
  /\ Len(topics) < MAX_TEST_TOPICS
  /\ topics' = Append(topics, [id |-> id, successes |-> 0, failures |-> 0])

\* Variant with a defect: the suite begins without its root topic.
testSuiteStartNoRoot ==
  /\ pc = "start" /\ pc' = "between"
  /\ UNCHANGED <<loops, topics, started, jumper, triggered, tests, scores, exit>>

testSuiteStart ==
  /\ pc = "start" /\ pc' = "between"
  /\ addTopic(ROOT)
  /\ UNCHANGED <<loops, started, jumper, triggered, tests, scores, exit>>

testTopicStart ==
  /\ pc = "between" /\ started < MaxTopics
  /\ addTopic(started + 1)
  /\ loops' = Append(loops, started + 1) /\ started' = started + 1
  /\ UNCHANGED <<pc, jumper, triggered, tests, scores, exit>>

\* The end of a topic's loop prints the score of the last topic of the array.
testTopicFinish ==
  /\ pc = "between" /\ loops # << >>
  /\ scores' = scores \cup
       {[id |-> Last(loops), successes |-> Last(topics).successes,
         failures |-> Last(topics).failures]}
  /\ topics' = Front(topics) /\ loops' = Front(loops)
  /\ UNCHANGED <<pc, started, jumper, triggered, tests, exit>>

testSuiteFinish ==
  /\ pc = "between" /\ loops = << >>
  /\ pc' = "finished"
  /\ exit' = IF topics[1].failures > 0 THEN 1 ELSE 0
  /\ UNCHANGED <<loops, topics, started, jumper, triggered, tests, scores>>

-----------------------------------------------------------------------------
(* Verdicts.  A verdict counts in every open topic.                        *)

Verdict(field, ok, raised) ==
  /\ topics' = [i \in DOMAIN topics |-> [topics[i] EXCEPT ![field] = @ + 1]]
  /\ tests' = [tests EXCEPT ![Len(tests)].verdicts = Append(@, ok),
                            ![Len(tests)].raised = @ \cup raised]

\* Variant with a defect: a failure counts in the innermost topic only.
testFailureInner(raised) ==
  /\ topics' = [topics EXCEPT ![Len(topics)].failures = @ + 1]
  /\ tests' = [tests EXCEPT ![Len(tests)].verdicts = Append(@, FALSE),
                            ![Len(tests)].raised = @ \cup raised]

testSuccess(raised) == Verdict("successes", TRUE, raised)
testFailure(raised) == Verdict("failures", FALSE, raised)

-----------------------------------------------------------------------------
(* Tests.                                                                  *)

\* Variant with a defect: the faults of the test before are kept.
startTestKeepsFaults ==
  /\ pc = "between" /\ loops # << >> /\ Len(tests) < MaxTests
  /\ jumper' = [at |-> "init", fault |-> {}]
  /\ tests' = Append(tests, [loops |-> ToSet(loops), jumper |-> jumper', raised |-> {},
                             verdicts |-> << >>])
  /\ pc' = "test"
  /\ UNCHANGED <<loops, topics, started, triggered, scores, exit>>

\* WITH_INIT_TEST, in the loop of a topic.
startTest ==
  /\ pc = "between" /\ loops # << >> /\ Len(tests) < MaxTests
  /\ triggered' = {}
  /\ jumper' = [at |-> "init", fault |-> {}]
  /\ tests' = Append(tests, [loops |-> ToSet(loops), jumper |-> jumper', raised |-> {},
                             verdicts |-> << >>])
  /\ pc' = "test"
  /\ UNCHANGED <<loops, topics, started, scores, exit>>

\* EXPECT_NO_FAILURE, then EXPECT_SINGLE_FAULT.
expect ==
  /\ pc = "test"
  /\ \/ jumper.at = "init" /\ jumper' = [at |-> "none", fault |-> {}]
     \/ \E f \in Faults : jumper.at # "single" /\ jumper' = [at |-> "single", fault |-> {f}]
  /\ tests' = [tests EXCEPT ![Len(tests)].jumper = jumper']
  /\ UNCHANGED <<pc, loops, topics, started, triggered, scores, exit>>

compareInterrupts(expectedFaults) == expectedFaults = triggered'

\* Variant with a defect: the test goes on behind the failure.
\* (EXPECT_NO_FAILURE without its break)
expectNoFailureGoesOn(f) ==
  jumper.at = "none" /\ testFailure({f}) /\ UNCHANGED <<pc, loops>>

\* `break` leaves the loop of the test.
expectNoFailure(f) ==
  jumper.at = "none" /\ testFailure({f}) /\ pc' = "between" /\ UNCHANGED loops

\* triggerFault and the longjmp into the macro that last called setjmp.  Before
\* an expectation, `break` leaves the loop of the topic.
triggerFault(f) ==
  /\ pc = "test" /\ triggered' = triggered \cup {f}
  /\ \/ jumper.at = "init" /\ testFailure({f}) /\ pc' = "between" /\ loops' = Front(loops)
     \/ expectNoFailure(f)
     \/ /\ jumper.at = "single" /\ compareInterrupts(jumper.fault) /\ testSuccess({f})
        /\ pc' = "between" /\ UNCHANGED loops
     \/ /\ jumper.at = "single" /\ ~compareInterrupts(jumper.fault) /\ testFailure({f})
        /\ pc' = "between" /\ UNCHANGED loops
  /\ UNCHANGED <<started, jumper, scores, exit>>

\* The end of the body, behind the call that should have raised the fault.
endTest ==
  /\ pc = "test" /\ jumper.at = "single"
  /\ UNCHANGED triggered /\ testFailure({})
  /\ pc' = "between"
  /\ UNCHANGED <<loops, started, jumper, scores, exit>>

Next ==
  \/ testSuiteStart \/ testTopicStart \/ testTopicFinish \/ testSuiteFinish
  \/ startTest \/ expect \/ (\E f \in Faults : triggerFault(f)) \/ endTest

Spec == Init /\ [][Next]_vars

-----------------------------------------------------------------------------
\* The types, and the root topic stays open.
TypeOK ==
  /\ pc \in {"start", "between", "test", "finished"}
  /\ \A i \in DOMAIN topics :
       topics[i] \in [id : 0 .. MaxTopics, successes : 0 .. MaxTests, failures : 0 .. MaxTests]
  /\ pc # "start" => topics # << >> /\ topics[1].id = ROOT
  /\ loops \in Seq(1 .. MaxTopics)
  /\ triggered \subseteq Faults /\ exit \in {0, 1}

\* A test has ended: the program is between tests, or in a later one.
Ended == {i \in DOMAIN tests : pc # "test" \/ i < Len(tests)}

\* Every test that ended has one verdict, whichever way it was left: by its
\* end, or by a longjmp back into it.
OneVerdict == \A i \in Ended : Len(tests[i].verdicts) = 1

\* A test that ended is a success exactly when the fault it expects at that
\* time is the one it raised: faults of earlier tests play no part.
TrueVerdicts ==
  \A i \in Ended : tests[i].verdicts[1] <=>
    tests[i].jumper.at = "single" /\ tests[i].raised = tests[i].jumper.fault

\* The suite's exit code says whether a test failed, however deep its topic
\* and whatever way out of it was taken.
ExitCode ==
  pc = "finished" => (exit = 1 <=> \E i \in DOMAIN tests : FALSE \in ToSet(tests[i].verdicts))

\* A fault came before a test had said what it expects.
Broken == \E i \in Ended : tests[i].jumper.at = "init"

\* As long as every test says what it expects before a fault comes, the score
\* printed at the end of a topic counts the tests in that topic's loop.
ScoresTrue ==
  ~Broken => \A score \in scores :
    LET Count(ok) == Cardinality({i \in Ended : score.id \in tests[i].loops
                                                /\ tests[i].verdicts[1] = ok})
    IN score.successes = Count(TRUE) /\ score.failures = Count(FALSE)
=============================================================================
