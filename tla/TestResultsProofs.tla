-------------------------- MODULE TestResultsProofs --------------------------
(***************************************************************************)
(* Proof that GetResults agrees with the reference of MC_TestResults on    *)
(* every aggregate: any set of suites and conclusions and any MainSuites   *)
(* length, not only the two-suite slices TLC enumerates.                   *)
(***************************************************************************)
EXTENDS MC_TestResults, EvaluatorProofs

\* The reference's precedence picks the first reason that holds: whenever
\* reason k holds and no earlier one does, it is the reported one.
LEMMA FirstReasonIs ==
    ASSUME NEW e, NEW k \in 1..5,
           Reasons(e)[k][2],
           \A j \in 1..(k - 1) : ~Reasons(e)[j][2]
    PROVE  FirstReason(e) = Reasons(e)[k][1] /\ ~Ready(e)
<1>. DEFINE R == Reasons(e)
            IsFirst(x) == R[x][2] /\ \A j \in 1..(x - 1) : ~R[j][2]
<1>1. DOMAIN R = 1..5
  BY DEF Reasons
<1>2. \A x \in DOMAIN R : IsFirst(x) => x = k
  <2>. SUFFICES ASSUME NEW x \in DOMAIN R, IsFirst(x) PROVE x = k
    OBVIOUS
  <2>1. ~(x < k)
    BY <1>1
  <2>2. ~(k < x)
    BY <1>1
  <2>. QED
    BY <1>1, <2>1, <2>2
<1>3. (CHOOSE x \in DOMAIN R : IsFirst(x)) = k
  BY <1>1, <1>2
<1>4. ~Ready(e)
  BY <1>1 DEF Ready
<1>. QED
  BY <1>3, <1>4 DEF FirstReason

\* Every aggregate, whatever the number of its main suites, gets from
\* GetResults what the reference prescribes.
LEMMA EvaluatorCorrect ==
    ev \in Events => EvaluatorMatchesReference
<1>. SUFFICES ASSUME ev \in Events PROVE EvaluatorMatchesReference
  OBVIOUS
<1>. DEFINE s == ev.mainSuites
            r == GetResults(ev)
            R == Reasons(ev)
            Unfinished == \E i \in 1..Len(s) : s[i].fin = NoEvent
<1>1. s \in Seq(TestSuite) /\ DOMAIN s = 1..Len(s) /\ (s = << >> <=> Len(s) = 0)
  BY DEF Events
<1>2. /\ R[1][1] = "noTERCC" /\ R[1][2] = ~ev.tercc
      /\ R[2][1] = "noTriggered" /\ R[2][2] = ~(ev.activity /\ ev.triggered)
      /\ R[3][1] = "canceled" /\ R[3][2] = ev.canceled
      /\ R[4][1] = "noMainSuites" /\ R[4][2] = (Len(s) = 0)
      /\ R[5][1] = "notFinished" /\ R[5][2] = Unfinished
  BY <1>1 DEF Reasons
<1>3. /\ 1..0 = {} /\ 1..1 = {1} /\ 1..2 = {1, 2} /\ 1..3 = {1, 2, 3}
      /\ 1..4 = {1, 2, 3, 4} /\ 1..5 = {1, 2, 3, 4, 5}
  OBVIOUS
\* Each error case: the reason that holds first, and the error GetResults
\* returns for it.
<1>4. ASSUME NEW k \in 1..5, R[k][2], \A j \in 1..(k - 1) : ~R[j][2],
             r.err = R[k][1], ~r.success
      PROVE  EvaluatorMatchesReference
  <2>1. FirstReason(ev) = R[k][1] /\ ~Ready(ev)
    BY <1>4, FirstReasonIs
  <2>. QED
    BY <1>4, <2>1, Zenon DEF EvaluatorMatchesReference
<1>5. CASE ~ev.tercc
  <2>1. r = Error("noTERCC", NoMessage)
    BY <1>5 DEF GetResults
  <2>2. R[1][2] /\ \A j \in 1..0 : ~R[j][2]
    BY <1>2, <1>3, <1>5, Zenon
  <2>. QED
    BY <1>2, <1>4, <2>1, <2>2 DEF Error
<1>6. CASE ev.tercc /\ ~(ev.activity /\ ev.triggered)
  <2>1. r = Error("noTriggered", NoMessage)
    BY <1>6 DEF GetResults
  <2>2. R[2][2] /\ \A j \in 1..1 : ~R[j][2]
    BY <1>2, <1>3, <1>6, Zenon
  <2>. QED
    BY <1>2, <1>4, <2>1, <2>2 DEF Error
<1>7. CASE ev.tercc /\ ev.activity /\ ev.triggered /\ ev.canceled
  <2>1. r = Error("canceled", NoMessage)
    BY <1>7 DEF GetResults
  <2>2. R[3][2] /\ \A j \in 1..2 : ~R[j][2]
    BY <1>2, <1>3, <1>7, Zenon
  <2>. QED
    BY <1>2, <1>4, <2>1, <2>2 DEF Error
<1>8. CASE ev.tercc /\ ev.activity /\ ev.triggered /\ ~ev.canceled /\ Len(s) = 0
  <2>1. r = Error("noMainSuites", NoMessage)
    BY <1>8 DEF GetResults
  <2>2. R[4][2] /\ \A j \in 1..3 : ~R[j][2]
    BY <1>2, <1>3, <1>8, Zenon
  <2>. QED
    BY <1>2, <1>4, <2>1, <2>2 DEF Error
<1>9. CASE ev.tercc /\ ev.activity /\ ev.triggered /\ ~ev.canceled /\ Len(s) # 0
           /\ Unfinished
  <2>1. r = Error("notFinished", FirstUnfinished(ev))
    BY <1>9 DEF GetResults
  <2>2. R[5][2] /\ \A j \in 1..4 : ~R[j][2]
    BY <1>2, <1>3, <1>9, Zenon
  <2>. QED
    BY <1>2, <1>4, <2>1, <2>2 DEF Error
<1>10. CASE ev.tercc /\ ev.activity /\ ev.triggered /\ ~ev.canceled /\ Len(s) # 0
            /\ ~Unfinished
  <2>1. Ready(ev)
    <3>1. \A k \in 1..5 : ~R[k][2]
      BY <1>2, <1>3, <1>10, Zenon
    <3>2. DOMAIN R = 1..5
      BY DEF Reasons
    <3>. QED
      BY <3>1, <3>2 DEF Ready
  <2>2. FailedAt(ev) = FailedPositions(ev)
    BY <1>1, <1>10 DEF FailedAt, FailedPositions, IsFailed
  <2>3. hasFailed(ev) <=> FailedPositions(ev) # {}
    BY DEF hasFailed, FailedPositions
  <2>4. CASE FailedPositions(ev) = {}
    <3>1. r = Verdict(TRUE, SuccessMessage)
      BY <1>10, <2>3, <2>4 DEF GetResults
    <3>2. r.err = "none" /\ r.success = TRUE /\ r.msg = SuccessMessage
      BY <3>1 DEF Verdict
    <3>. QED
      BY <2>1, <2>2, <2>4, <3>2, Zenon DEF EvaluatorMatchesReference
  <2>5. CASE FailedPositions(ev) # {}
    <3>. DEFINE F == FailedPositions(ev)
                top == CHOOSE i \in F : \A j \in F : j <= i
    <3>1. PICK top0 \in F : /\ \A j \in F : j <= top0
                            /\ r = Verdict(FALSE, s[top0].id)
      BY <1>10, <2>3, <2>5, FailureVerdict
    <3>2. top \in F /\ \A j \in F : j <= top
      BY <3>1
    <3>3. F \subseteq Nat
      BY <1>1 DEF FailedPositions
    <3>4. top = top0
      BY <3>1, <3>2, <3>3
    <3>5. r.err = "none" /\ r.success = FALSE /\ r.msg = s[top].id
      <4>1. r.err = "none" /\ r.success = FALSE
        BY <3>1 DEF Verdict
      <4>2. r.msg = s[top0].id
        BY <3>1 DEF Verdict
      <4>. QED
        BY <3>4, <4>1, <4>2
    <3>. QED
      BY <2>1, <2>2, <2>5, <3>5, Zenon DEF EvaluatorMatchesReference
  <2>. QED
    BY <2>4, <2>5
<1>. QED
  BY <1>5, <1>6, <1>7, <1>8, <1>9, <1>10

\* The aggregates the run enumerates are aggregates.
LEMMA AllEventsType == AllEvents \subseteq Events
<1>1. Slices \subseteq Seq(TestSuite)
  <2>1. << >> \in Seq(TestSuite)
    OBVIOUS
  <2>2. \A t \in TestSuite : <<t>> \in Seq(TestSuite)
    OBVIOUS
  <2>3. \A a, c \in TestSuite : <<a, c>> \in Seq(TestSuite)
    OBVIOUS
  <2>4. \A p \in TestSuite \X TestSuite : p = <<p[1], p[2]>>
    OBVIOUS
  <2>5. \A p \in TestSuite \X TestSuite : p[1] \in TestSuite /\ p[2] \in TestSuite
    OBVIOUS
  <2>. QED
    BY <2>1, <2>2, <2>3, <2>4, <2>5 DEF Slices
<1>. QED
  BY <1>1 DEF AllEvents, Events

\* The evaluator_reference run's invariant, for every set of suites and
\* conclusions: GetResults on every aggregate the run enumerates returns
\* the reference's error or verdict (test_results.go GetResults).
THEOREM EvaluatorMatchesReferenceHolds == Spec => []EvaluatorMatchesReference
<1>1. Init => ev \in Events
  BY AllEventsType DEF Init
<1>2. ev \in Events /\ [Next]_ev => (ev \in Events)'
  BY DEF Next
<1>3. ev \in Events => EvaluatorMatchesReference
  BY EvaluatorCorrect
<1>. QED
  BY <1>1, <1>2, <1>3, PTL DEF Spec
=============================================================================
