-------------------------- MODULE TestSummaryProofs --------------------------
(* Theorems about TestSummary, for all packages and tests, all orders of     *)
(* their events, and all limits on the failures listed.                      *)
EXTENDS TestSummary, FiniteSetTheorems, TLAPS

\* Units are told apart from whole packages by their test.
LEMMA UnitKinds ==
    ASSUME NEW u \in Units
    PROVE  /\ u[2] # Overall <=> u \in TestUnits
           /\ Testpath(u) = u
BY SummaryAssumption DEF Units, TestUnits, Testpath

LEMMA TestsAreUnits == TestUnits \subseteq Units
BY DEF TestUnits, Units

------------------------------------------------------------------------------
(* The verdict of a running unit is new.                                     *)

LEMMA VerdictEnds ==
    ASSUME TypeOK, NEW u \in Units, state[u] = "run", NEW action \in Verdicts, Verdict(u, action)
    PROVE  /\ u \notin Ended(action)
           /\ Ended(action)' = Ended(action) \cup {u}
           /\ \A v \in Verdicts \ {action} : Ended(v)' = Ended(v)
BY DEF Verdict, Ended, TypeOK, Verdicts

LEMMA VerdictTypes ==
    ASSUME TypeOK, NEW u \in Units, NEW action \in Verdicts, Verdict(u, action)
    PROVE  TypeOK'
<1>1. failedTests' \in Seq(TestUnits)
  BY UnitKinds DEF TypeOK, Verdict
<1>2. printed' \in [Units -> Seq(Units \X Nat)]
  BY UnitKinds DEF TypeOK, Verdict
<1>3. state' \in [Units -> {"none", "run"} \cup Verdicts]
  BY DEF TypeOK, Verdict
<1>4. counts' \in [Verdicts -> Nat]
  <2>1. counts \in [Verdicts -> Nat] /\ counts[action] \in Nat
    BY DEF TypeOK
  <2>2. counts' = [counts EXCEPT ![action] = counts[action]] \/ counts' = [counts EXCEPT ![action] = counts[action] + 1]
    BY DEF Verdict
  <2> QED
    BY <2>1, <2>2
<1> QED
  BY <1>1, <1>2, <1>3, <1>4 DEF TypeOK, Verdict

\* A verdict adds the unit to the ones that are counted, if it is of a test, or
\* a skip, and to no other.
LEMMA VerdictCounts ==
    ASSUME TypeOK, NEW u \in Units, state[u] = "run", NEW action \in Verdicts, Verdict(u, action),
           \A v \in Verdicts : IsFiniteSet(Ended(v)),
           CountsAreExact
    PROVE  (\A v \in Verdicts : IsFiniteSet(Ended(v)))' /\ CountsAreExact'
<1> DEFINE Counts(v) == IF v = "skip" THEN Ended(v) ELSE Ended(v) \cap TestUnits
<1>1. ASSUME NEW v \in Verdicts
      PROVE  IsFiniteSet(Ended(v)')
  BY VerdictEnds, FS_AddElement
<1>2. ASSUME NEW v \in Verdicts
      PROVE  IsFiniteSet(Counts(v))
  BY FS_Intersection
<1>3. ASSUME NEW v \in Verdicts
      PROVE  /\ Counts(v)' = IF v = action /\ Counted(u, action) THEN Counts(v) \cup {u} ELSE Counts(v)
             /\ v = action => u \notin Counts(v)
  <2>1. /\ u \notin Ended(action)
        /\ Ended(v)' = IF v = action THEN Ended(v) \cup {u} ELSE Ended(v)
    BY VerdictEnds
  <2>2. Counted(u, action) <=> u \in TestUnits \/ action = "skip"
    BY UnitKinds DEF Counted
  <2> QED
    BY <2>1, <2>2
<1>4. ASSUME NEW v \in Verdicts
      PROVE  counts'[v] = IF v = action /\ Counted(u, action) THEN counts[v] + 1 ELSE counts[v]
  BY DEF Verdict, TypeOK
<1>5. \A v \in Verdicts : counts[v] = Cardinality(Counts(v))
  BY DEF CountsAreExact
<1> HIDE DEF Counts
<1>6. ASSUME NEW v \in Verdicts
      PROVE  counts'[v] = Cardinality(Counts(v)')
  BY <1>2, <1>3, <1>4, <1>5, FS_AddElement
<1> QED
  BY <1>1, <1>6 DEF CountsAreExact, Counts

LEMMA VerdictLists ==
    ASSUME TypeOK, NEW u \in Units, state[u] = "run", NEW action \in Verdicts, Verdict(u, action),
           FailuresAreListed
    PROVE  FailuresAreListed'
<1> DEFINE Listed == {failedTests[i] : i \in 1 .. Len(failedTests)}
<1>1. CASE action = "fail" /\ u \in TestUnits
  <2>1. failedTests' = Append(failedTests, u) /\ failedTests \in Seq(TestUnits)
    BY <1>1, UnitKinds DEF Verdict, TypeOK
  <2>2. /\ Len(failedTests') = Len(failedTests) + 1
        /\ \A i \in 1 .. Len(failedTests) : failedTests'[i] = failedTests[i]
        /\ failedTests'[Len(failedTests) + 1] = u
    BY <2>1
  <2>3. u \notin Ended("fail") /\ Ended("fail")' = Ended("fail") \cup {u}
    BY <1>1, VerdictEnds
  <2>4. u \notin Listed
    BY <2>3 DEF FailuresAreListed
  <2>5. Len(failedTests) \in Nat
    BY <2>1
  <2>6. Listed' = Listed \cup {u}
    BY <2>2, <2>5
  <2>7. ASSUME NEW i \in 1 .. Len(failedTests'), NEW j \in 1 .. Len(failedTests'),
               failedTests'[i] = failedTests'[j]
        PROVE  i = j
    BY <2>2, <2>4, <2>5, <2>7 DEF FailuresAreListed
  <2>8. Listed' = Ended("fail")' \cap TestUnits
    BY <1>1, <2>3, <2>6 DEF FailuresAreListed
  <2> QED
    BY <2>7, <2>8 DEF FailuresAreListed
<1>2. CASE ~(action = "fail" /\ u \in TestUnits)
  <2>1. failedTests' = failedTests
    BY <1>2, UnitKinds DEF Verdict
  <2>2. Ended("fail")' \cap TestUnits = Ended("fail") \cap TestUnits
    BY <1>2, VerdictEnds DEF Verdicts
  <2> QED
    BY <2>1, <2>2 DEF FailuresAreListed
<1> QED
  BY <1>1, <1>2

\* A failure is printed with all that is collected of it.
LEMMA VerdictShows ==
    ASSUME TypeOK, NEW u \in Units, state[u] = "run", NEW action \in Verdicts, Verdict(u, action),
           CollectsEverything, FailuresShowTheirOutput
    PROVE  CollectsEverything' /\ FailuresShowTheirOutput'
<1>1. said' = said /\ testOutputs' = testOutputs
  BY DEF Verdict
<1>2. CollectsEverything'
  BY <1>1 DEF CollectsEverything, Transcript
<1>3. ASSUME NEW x \in Ended("fail")'
      PROVE  printed'[x] = [k \in 1 .. said'[x] |-> <<x, k>>]
  <2>1. x \in Units
    BY DEF Ended
  <2>2. CASE x = u /\ action = "fail"
    BY <1>1, <2>2, UnitKinds DEF Verdict, TypeOK, CollectsEverything, Transcript
  <2>3. CASE x \in Ended("fail") /\ ~(x = u /\ action = "fail")
    BY <1>1, <2>1, <2>3 DEF Verdict, TypeOK, FailuresShowTheirOutput
  <2> QED
    BY <2>2, <2>3, VerdictEnds DEF Verdicts
<1> QED
  BY <1>2, <1>3 DEF FailuresShowTheirOutput

LEMMA VerdictSummary ==
    ASSUME SummaryInv, NEW u \in Units, state[u] = "run", NEW action \in Verdicts, Verdict(u, action)
    PROVE  SummaryInv'
<1>1. exit' = "reading"
  BY DEF Verdict
<1>2. ExitTellsOfFailedTests' /\ FailuresAreReported'
  BY <1>1 DEF ExitTellsOfFailedTests, FailuresAreReported
<1> QED
  BY <1>2, VerdictTypes, VerdictCounts, VerdictLists, VerdictShows DEF SummaryInv

------------------------------------------------------------------------------
(* The other lines, and the end of the input.                                *)

\* A line of output is collected under its own test.
LEMMA OutputSummary ==
    ASSUME SummaryInv, NEW u \in Units, Output(u)
    PROVE  SummaryInv'
<1>t. /\ TypeOK
      /\ said \in [Units -> Nat]
      /\ testOutputs \in [Units -> Seq(Units \X Nat)]
      /\ testOutputs[u] = Transcript(u)
  BY DEF SummaryInv, TypeOK, CollectsEverything
<1>1. /\ said' = [said EXCEPT ![u] = @ + 1]
      /\ testOutputs' = [testOutputs EXCEPT ![u] = Append(@, <<u, said[u] + 1>>)]
      /\ exit' = "reading"
      /\ UNCHANGED <<state, counts, failedTests, printed, report>>
  BY <1>t, UnitKinds DEF Output
<1>2. TypeOK'
  BY <1>t, <1>1 DEF TypeOK, TestUnits
<1>3. CollectsEverything'
  <2>1. ASSUME NEW v \in Units
        PROVE  testOutputs'[v] = Transcript(v)'
    <3>1. CASE v # u
      BY <1>t, <1>1, <3>1 DEF SummaryInv, CollectsEverything, Transcript
    <3>2. CASE v = u
      <4>1. /\ said[u] \in Nat /\ said'[u] = said[u] + 1
            /\ testOutputs'[u] = Append(Transcript(u), <<u, said[u] + 1>>)
        BY <1>t, <1>1
      <4>2. Append(Transcript(u), <<u, said[u] + 1>>) = [k \in 1 .. said[u] + 1 |-> <<u, k>>]
        BY <4>1 DEF Transcript
      <4> QED
        BY <3>2, <4>1, <4>2 DEF Transcript
    <3> QED
      BY <3>1, <3>2
  <2> QED
    BY <2>1 DEF CollectsEverything
<1>4. FailuresShowTheirOutput'
  <2>1. u \notin Ended("fail")
    BY DEF Output, Ended
  <2>2. Ended("fail")' = Ended("fail") /\ Ended("fail") \subseteq Units
    BY <1>1 DEF Ended
  <2> QED
    BY <1>t, <1>1, <2>1, <2>2 DEF SummaryInv, FailuresShowTheirOutput
<1>5. \A v : Ended(v)' = Ended(v)
  BY <1>1 DEF Ended
<1>6. (\A v \in Verdicts : IsFiniteSet(Ended(v)))' /\ CountsAreExact' /\ FailuresAreListed'
  BY <1>1, <1>5 DEF SummaryInv, CountsAreExact, FailuresAreListed
<1>7. ExitTellsOfFailedTests' /\ FailuresAreReported'
  BY <1>1 DEF ExitTellsOfFailedTests, FailuresAreReported
<1> QED
  BY <1>2, <1>3, <1>4, <1>6, <1>7 DEF SummaryInv

LEMMA StartTestSummary ==
    ASSUME SummaryInv, NEW u \in Units, StartTest(u)
    PROVE  SummaryInv'
<1>1. /\ state' = [state EXCEPT ![u] = "run"] /\ state[u] = "none"
      /\ exit' = "reading"
      /\ UNCHANGED <<said, counts, failedTests, testOutputs, printed, report>>
  BY DEF StartTest, summary
<1>2. TypeOK'
  BY <1>1 DEF SummaryInv, TypeOK
<1>3. \A v \in Verdicts : Ended(v)' = Ended(v)
  BY <1>1 DEF SummaryInv, TypeOK, Ended, Verdicts
<1>4. (\A v \in Verdicts : IsFiniteSet(Ended(v)))' /\ CountsAreExact'
  BY <1>1, <1>3 DEF SummaryInv, CountsAreExact
<1>5. FailuresShowTheirOutput' /\ FailuresAreListed'
  BY <1>1, <1>3 DEF SummaryInv, FailuresShowTheirOutput, FailuresAreListed, Verdicts
<1>6. CollectsEverything'
  BY <1>1 DEF SummaryInv, CollectsEverything, Transcript
<1>7. ExitTellsOfFailedTests' /\ FailuresAreReported'
  BY <1>1 DEF ExitTellsOfFailedTests, FailuresAreReported
<1> QED
  BY <1>2, <1>4, <1>5, <1>6, <1>7 DEF SummaryInv

\* What the summary has when the exit code is computed.
LEMMA StopKeeps ==
    ASSUME SummaryInv, UNCHANGED <<goTest, summary>>, exit' \in {"error", "0", "1"}
    PROVE  /\ TypeOK' /\ CollectsEverything' /\ FailuresShowTheirOutput'
           /\ (\A v \in Verdicts : IsFiniteSet(Ended(v)))' /\ CountsAreExact' /\ FailuresAreListed'
           /\ \A v : Ended(v)' = Ended(v)
<1> USE DEF SummaryInv, goTest, summary
<1>1. TypeOK'
  BY DEF TypeOK
<1>2. \A v : Ended(v)' = Ended(v)
  BY DEF Ended
<1>3. CollectsEverything' /\ FailuresShowTheirOutput'
  BY <1>2 DEF CollectsEverything, Transcript, FailuresShowTheirOutput
<1>4. (\A v \in Verdicts : IsFiniteSet(Ended(v)))' /\ CountsAreExact' /\ FailuresAreListed'
  BY <1>2 DEF CountsAreExact, FailuresAreListed
<1> QED
  BY <1>1, <1>2, <1>3, <1>4

LEMMA NoEventSummary ==
    ASSUME SummaryInv, NoEvent
    PROVE  SummaryInv'
<1>1. exit' = "error" /\ UNCHANGED <<goTest, summary>>
  BY DEF NoEvent
<1>2. ExitTellsOfFailedTests' /\ FailuresAreReported'
  BY <1>1 DEF ExitTellsOfFailedTests, FailuresAreReported
<1> QED
  BY <1>1, <1>2, StopKeeps DEF SummaryInv

\* The first m failures are m different ones.
LEMMA FirstFailures ==
    ASSUME SummaryInv, NEW m \in Nat, m <= Len(failedTests)
    PROVE  Cardinality({failedTests[i] : i \in 1 .. m}) = m
<1> DEFINE first == {failedTests[i] : i \in 1 .. m}
           f     == [i \in 1 .. m |-> failedTests[i]]
<1>1. Len(failedTests) \in Nat
  BY DEF SummaryInv, TypeOK
<1>2. \A i, j \in 1 .. m : failedTests[i] = failedTests[j] => i = j
  BY <1>1 DEF SummaryInv, FailuresAreListed
<1>3. f \in Bijection(1 .. m, first)
  <2>1. f \in [1 .. m -> first] /\ \A x \in 1 .. m : f[x] = failedTests[x]
    OBVIOUS
  <2>2. \A y \in first : \E x \in 1 .. m : f[x] = y
    OBVIOUS
  <2> HIDE DEF f, first
  <2>3. f \in Injection(1 .. m, first)
    BY <1>2, <2>1 DEF Injection, IsInjective
  <2> QED
    BY <2>1, <2>2, <2>3 DEF Bijection, Surjection
<1>4. ExistsBijection(1 .. m, first)
  BY <1>3 DEF ExistsBijection
<1> QED
  BY <1>4, FS_CountingElements

LEMMA FinishSummary ==
    ASSUME SummaryInv, Finish
    PROVE  SummaryInv'
<1> DEFINE n      == Len(failedTests)
           m      == IF n < MaxReported THEN n ELSE MaxReported
           failed == Ended("fail") \cap TestUnits
           listed == {failedTests[i] : i \in 1 .. m}
<1>t. failedTests \in Seq(TestUnits) /\ n \in Nat /\ MaxReported \in Nat /\ m \in Nat /\ m <= n
  BY SummaryAssumption DEF SummaryInv, TypeOK
<1>1. /\ exit' = IF counts["fail"] > 0 THEN "1" ELSE "0"
      /\ report' = [tests |-> SubSeq(failedTests, 1, m), more |-> n > MaxReported]
      /\ UNCHANGED <<goTest, summary>>
  BY DEF Finish
<1>2. exit' \in {"0", "1"}
  BY <1>1
<1>3. failed' = failed
  BY <1>1, <1>2, StopKeeps
<1>4. ExitTellsOfFailedTests'
  <2>1. counts["fail"] = Cardinality(failed) /\ IsFiniteSet(failed)
    BY FS_Intersection DEF SummaryInv, CountsAreExact, Verdicts
  <2>2. counts["fail"] \in Nat /\ (counts["fail"] = 0 <=> failed = {})
    BY <2>1, FS_EmptySet DEF SummaryInv, TypeOK, Verdicts
  <2> QED
    BY <1>1, <1>3, <2>2 DEF ExitTellsOfFailedTests
<1>5. FailuresAreReported'
  <2>1. /\ Len(report'.tests) = m
        /\ DOMAIN report'.tests = 1 .. m
        /\ \A i \in 1 .. m : report'.tests[i] = failedTests[i]
        /\ report'.more <=> n > MaxReported
    <3>1. /\ report'.tests = SubSeq(failedTests, 1, m)
          /\ report'.more = (n > MaxReported)
      BY <1>1
    <3> DEFINE tests == SubSeq(failedTests, 1, m)
    <3>2. /\ Len(tests) = m
          /\ DOMAIN tests = 1 .. m
          /\ \A i \in 1 .. m : tests[i] = failedTests[i]
      BY <1>t
    <3> QED
      BY <3>1, <3>2
  <2>2. {report'.tests[i] : i \in DOMAIN report'.tests} = listed
    BY <2>1
  <2>3. failed = {failedTests[i] : i \in 1 .. n}
        /\ \A i, j \in 1 .. n : failedTests[i] = failedTests[j] => i = j
    BY DEF SummaryInv, FailuresAreListed
  <2>4. listed \subseteq failed
    BY <1>t, <2>3
  <2>5. Cardinality(listed) = m
    BY <1>t, FirstFailures
  <2>6. IF n > MaxReported THEN m = MaxReported /\ listed # failed ELSE listed = failed
    <3>1. ASSUME n > MaxReported
          PROVE  failedTests[n] \in failed /\ failedTests[n] \notin listed
      BY <1>t, <2>3, <3>1
    <3> QED
      BY <1>t, <2>3, <3>1
  <2> HIDE DEF listed, failed, m, n
  <2> QED
    BY <1>3, <2>1, <2>2, <2>4, <2>5, <2>6 DEF FailuresAreReported, failed
<1> QED
  BY <1>1, <1>2, <1>4, <1>5, StopKeeps DEF SummaryInv

------------------------------------------------------------------------------
(* The invariant, and what follows from it.                                  *)

LEMMA InitSummary == Init => SummaryInv
<1> SUFFICES ASSUME Init PROVE SummaryInv
  OBVIOUS
<1>1. TypeOK
  BY DEF Init, TypeOK, Verdicts
<1>2. \A v \in Verdicts : Ended(v) = {}
  BY DEF Init, Ended, Verdicts
<1>3. CountsAreExact /\ \A v \in Verdicts : IsFiniteSet(Ended(v))
  BY <1>2, FS_EmptySet DEF Init, CountsAreExact
<1>4. FailuresShowTheirOutput /\ FailuresAreListed
  BY <1>2 DEF Init, FailuresShowTheirOutput, FailuresAreListed, Verdicts
<1>5. CollectsEverything
  BY DEF Init, CollectsEverything, Transcript
<1>6. ExitTellsOfFailedTests /\ FailuresAreReported
  BY DEF Init, ExitTellsOfFailedTests, FailuresAreReported
<1> QED
  BY <1>1, <1>3, <1>4, <1>5, <1>6 DEF SummaryInv

LEMMA StutterSummary == SummaryInv /\ UNCHANGED vars => SummaryInv'
<1> SUFFICES ASSUME SummaryInv, UNCHANGED vars
             PROVE  SummaryInv'
  OBVIOUS
<1> USE DEF SummaryInv, vars, goTest, summary
<1>1. \A v : Ended(v)' = Ended(v)
  BY DEF Ended
<1>2. TypeOK'
  BY DEF TypeOK
<1>3. CollectsEverything' /\ FailuresShowTheirOutput'
  BY <1>1 DEF CollectsEverything, Transcript, FailuresShowTheirOutput
<1>4. (\A v \in Verdicts : IsFiniteSet(Ended(v)))' /\ CountsAreExact' /\ FailuresAreListed'
  BY <1>1 DEF CountsAreExact, FailuresAreListed
<1>5. ExitTellsOfFailedTests' /\ FailuresAreReported'
  BY <1>1 DEF ExitTellsOfFailedTests, FailuresAreReported
<1> QED
  BY <1>2, <1>3, <1>4, <1>5

LEMMA NextSummary == SummaryInv /\ [Next]_vars => SummaryInv'
<1> SUFFICES ASSUME SummaryInv, Next
             PROVE  SummaryInv'
  BY StutterSummary
<1>1. ASSUME NEW u \in Units, EndTest(u)
      PROVE  SummaryInv'
  BY <1>1, VerdictSummary DEF EndTest
<1>2. ASSUME NEW p \in Packages, EndPackage(p)
      PROVE  SummaryInv'
  <2>1. /\ <<p, Overall>> \in Units /\ state[<<p, Overall>>] = "run"
        /\ \E v \in Verdicts : Verdict(<<p, Overall>>, v)
    BY <1>2 DEF EndPackage, Running, Units, Verdicts
  <2> QED
    BY <2>1, VerdictSummary
<1> QED
  BY <1>1, <1>2, OutputSummary, StartTestSummary, NoEventSummary, FinishSummary DEF Next

\* The inductive invariant holds in every reachable state.
THEOREM SummaryInvariant == Spec => []SummaryInv
BY InitSummary, NextSummary, PTL DEF Spec

\* The exit code says whether a test failed.
THEOREM ExitCodeIsTrue == Spec => []ExitTellsOfFailedTests
<1>1. SummaryInv => ExitTellsOfFailedTests
  BY DEF SummaryInv
<1> QED
  BY <1>1, SummaryInvariant, PTL

\* Each test that ended and each package skipped is counted once: "skips of an
\* entire package are not duplicated with individual test skips".
THEOREM EveryTestCountsOnce == Spec => []CountsAreExact
<1>1. SummaryInv => CountsAreExact
  BY DEF SummaryInv
<1> QED
  BY <1>1, SummaryInvariant, PTL

\* A failure is printed with all of its output, and with no other's.
THEOREM FailuresAreShown == Spec => []FailuresShowTheirOutput
<1>1. SummaryInv => FailuresShowTheirOutput
  BY DEF SummaryInv
<1> QED
  BY <1>1, SummaryInvariant, PTL

\* Up to MaxReported failures are listed, each once, and the summary says so
\* when there are more.
THEOREM NoFailureIsHidden == Spec => []FailuresAreReported
<1>1. SummaryInv => FailuresAreReported
  BY DEF SummaryInv
<1> QED
  BY <1>1, SummaryInvariant, PTL

==============================================================================
