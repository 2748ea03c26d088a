----------------------------- MODULE TestSummary -----------------------------
(* test-summary.go reads the events of go test -json and turns them into a   *)
(* summary and an exit code, on which the make targets of the acceptance     *)
(* tests rely.  go test runs packages, and tests within a package, side by   *)
(* side: their events come interleaved.                                      *)
EXTENDS Sequences, Naturals, FiniteSets

CONSTANTS Packages,
          Tests,        \* names of tests, used by every package
          Overall,      \* the empty Test of an event for a whole package
          MaxReported,  \* failures the summary lists (10 in the code)
          MaxLines      \* bound: lines of output per test and per package

ASSUME SummaryAssumption ==
    /\ Overall \notin Tests
    /\ MaxReported \in Nat /\ MaxLines \in Nat

VARIABLES state,        \* go test: how far each test and each package is
          said,         \* go test: how many lines of output each has printed
          counts,       \* events by action
          failedTests,  \* in the order they failed
          testOutputs,  \* the output collected, by testpath
          printed,      \* what was printed for each failed testpath
          exit,         \* "reading", then the exit code
          report        \* the failures listed, and whether "..." follows

goTest == <<state, said>>
summary == <<counts, failedTests, testOutputs, printed>>
vars == <<goTest, summary, exit, report>>

Units == Packages \X (Tests \cup {Overall})
Verdicts == {"pass", "fail", "skip"}

Init ==
    /\ state = [u \in Units |-> IF u[2] = Overall THEN "run" ELSE "none"]
    /\ said = [u \in Units |-> 0]
    /\ counts = [v \in Verdicts |-> 0]
    /\ failedTests = <<>>
    /\ testOutputs = [u \in Units |-> <<>>]
    /\ printed = [u \in Units |-> <<>>]
    /\ exit = "reading"
    /\ report = [tests |-> <<>>, more |-> FALSE]

Done(u) == state[u] \in Verdicts

------------------------------------------------------------------------------
(* One line of the scanner: an event of go test, and what run makes of it.   *)

Testpath_TestOnly(u) == <<CHOOSE p \in Packages : TRUE, u[2]>>   \* mutant: the package is left out

Testpath(u) == <<u[1], u[2]>>

\* Passes and fails of whole packages are not counted, their skips are.
Counted_NoSkips(u, action) == u[2] # Overall                     \* mutant: no || skip

Counted_Packages(u, action) == u[2] = Overall \/ action = "skip" \* mutant: == for !=

Counted(u, action) == u[2] # Overall \/ action = "skip"

\* A unit prints a line, which is collected.
Output(u) ==
    /\ exit = "reading" /\ state[u] = "run" /\ said[u] < MaxLines
    /\ said' = [said EXCEPT ![u] = @ + 1]
    /\ testOutputs' = [testOutputs EXCEPT ![Testpath(u)] = Append(@, <<u, said'[u]>>)]
    /\ UNCHANGED <<state, counts, failedTests, printed, exit, report>>

\* A unit ends.  A failing one has its output so far printed.
Verdict(u, action) ==
    /\ exit = "reading"
    /\ state' = [state EXCEPT ![u] = action]
    /\ counts' = [counts EXCEPT ![action] = IF Counted(u, action) THEN @ + 1 ELSE @]
    /\ failedTests' = IF action = "fail" /\ u[2] # Overall THEN Append(failedTests, Testpath(u))
                                                           ELSE failedTests
    /\ printed' = IF action = "fail" THEN [printed EXCEPT ![u] = testOutputs[Testpath(u)]]
                                     ELSE printed
    /\ UNCHANGED <<said, testOutputs, exit, report>>

\* A line FAIL (a package does not build) or one that is no event ends it all.
NoEvent ==
    /\ exit = "reading"
    /\ exit' = "error"
    /\ UNCHANGED <<goTest, summary, report>>

\* The end of the input.
Finish_OffByOne ==    \* mutant: >= len for > 10
    /\ exit = "reading" /\ \A p \in Packages : Done(<<p, Overall>>)
    /\ exit' = IF counts["fail"] > 0 THEN "1" ELSE "0"
    /\ report' = [tests |-> SubSeq(failedTests, 1, IF Len(failedTests) < MaxReported
                                                     THEN Len(failedTests) ELSE MaxReported),
                  more |-> Len(failedTests) > MaxReported + 1]
    /\ UNCHANGED <<goTest, summary>>

Finish ==
    /\ exit = "reading" /\ \A p \in Packages : Done(<<p, Overall>>)
    /\ exit' = IF counts["fail"] > 0 THEN "1" ELSE "0"
    /\ report' = [tests |-> SubSeq(failedTests, 1, IF Len(failedTests) < MaxReported
                                                     THEN Len(failedTests) ELSE MaxReported),
                  more |-> Len(failedTests) > MaxReported]
    /\ UNCHANGED <<goTest, summary>>

------------------------------------------------------------------------------
(* The order go test keeps: tests run within their package, and a package    *)
(* ends after its tests, unless its process dies with tests still running.   *)

Running(p) == state[<<p, Overall>>] = "run"
Of(p) == {<<p, t>> : t \in Tests}

StartTest(u) ==
    /\ exit = "reading" /\ u[2] # Overall /\ Running(u[1]) /\ state[u] = "none"
    /\ state' = [state EXCEPT ![u] = "run"]
    /\ UNCHANGED <<said, summary, exit, report>>

EndTest(u) ==
    /\ u[2] # Overall /\ Running(u[1]) /\ state[u] = "run"
    /\ \E v \in Verdicts : Verdict(u, v)

EndPackage(p) ==
    /\ Running(p)
    /\ \/ /\ \A u \in Of(p) : state[u] \in {"none", "pass", "skip"}
          /\ Verdict(<<p, Overall>>, "pass")
       \/ Verdict(<<p, Overall>>, "fail")
       \/ /\ \A u \in Of(p) : state[u] = "none"
          /\ Verdict(<<p, Overall>>, "skip")

Next ==
    \/ \E u \in Units : Output(u) \/ StartTest(u) \/ EndTest(u)
    \/ \E p \in Packages : EndPackage(p)
    \/ NoEvent
    \/ Finish

Spec == Init /\ [][Next]_vars

------------------------------------------------------------------------------
(* Properties.                                                               *)

Ended(v) == {u \in Units : state[u] = v}
TestUnits == Packages \X Tests

\* The exit code says whether a test failed, in whichever package and between
\* whichever events of others (run, "f > 0").  A package that fails although no
\* test of it did, because its process died, does not show in it.
ExitTellsOfFailedTests ==
    exit \in {"0", "1"} => (exit = "1" <=> Ended("fail") \cap TestUnits # {})

\* "skips of an entire package are not duplicated with individual test skips":
\* each test that ended, and each package skipped, is counted exactly once.
CountsAreExact ==
    \A v \in Verdicts :
       counts[v] = Cardinality(IF v = "skip" THEN Ended(v) ELSE Ended(v) \cap TestUnits)

\* "For failed tests, print all the output we collected for them before the
\* "fail" event": all the lines of that test, in order, and none of another.
FailuresShowTheirOutput ==
    \A u \in Ended("fail") : printed[u] = [k \in 1 .. said[u] |-> <<u, k>>]

\* "Failures (reporting up to 10)": a test that failed is listed, once, or the
\* summary says that there are more and lists as many as it may.
FailuresAreReported ==
    exit = "1" =>
       LET listed == {report.tests[i] : i \in DOMAIN report.tests}
           failed == Ended("fail") \cap TestUnits IN
       /\ listed \subseteq failed
       /\ Cardinality(listed) = Len(report.tests)
       /\ IF report.more THEN Len(report.tests) = MaxReported /\ listed # failed
                         ELSE listed = failed

------------------------------------------------------------------------------
(* What makes the properties inductive.                                      *)

\* The variables have their types; only tests are listed as failed.
TypeOK ==
    /\ state \in [Units -> {"none", "run"} \cup Verdicts]
    /\ said \in [Units -> Nat]
    /\ counts \in [Verdicts -> Nat]
    /\ failedTests \in Seq(TestUnits)
    /\ testOutputs \in [Units -> Seq(Units \X Nat)]
    /\ printed \in [Units -> Seq(Units \X Nat)]
    /\ exit \in {"reading", "error", "0", "1"}

\* What is collected of a unit is all it has said, running or not.
Transcript(u) == [k \in 1 .. said[u] |-> <<u, k>>]
CollectsEverything == \A u \in Units : testOutputs[u] = Transcript(u)

\* The list of failures has every test that failed, and has it once.
FailuresAreListed ==
    /\ {failedTests[i] : i \in 1 .. Len(failedTests)} = Ended("fail") \cap TestUnits
    /\ \A i, j \in 1 .. Len(failedTests) : failedTests[i] = failedTests[j] => i = j

\* The inductive invariant: what holds line by line, and what the last line
\* makes of it.
SummaryInv ==
    /\ TypeOK
    /\ CollectsEverything
    /\ FailuresShowTheirOutput
    /\ \A v \in Verdicts : IsFiniteSet(Ended(v))
    /\ CountsAreExact
    /\ FailuresAreListed
    /\ ExitTellsOfFailedTests
    /\ FailuresAreReported

==============================================================================
