--------------------------- MODULE EvaluatorProofs ---------------------------
(***************************************************************************)
(* Lemmas about the operators of the result evaluator (TestResults):      *)
(* which position the failure message and the "not finished" error are    *)
(* taken from, and that GetResults always returns a well-typed result.    *)
(* They are used by the proof that GetResults matches the reference        *)
(* (TestResultsProofs) and by the client's type proof (ClientProofs).      *)
(***************************************************************************)
EXTENDS TestResults, FiniteSetTheorems, WellFoundedInduction, TLAPS

\* A non-empty set of naturals has a least element (the less-than relation on
\* Nat is well founded).
LEMMA NatSetMin ==
    ASSUME NEW T \in SUBSET Nat, T # {}
    PROVE  \E x \in T : \A y \in T : x <= y
<1>1. PICK x \in T : \A y \in T : ~(<<y, x>> \in OpToRel(<, Nat))
  BY NatLessThanWellFounded, WFMin
<1>2. ASSUME NEW y \in T PROVE x <= y
  <2>1. y < x => <<y, x>> \in OpToRel(<, Nat)
    BY DEF OpToRel
  <2>2. ~(<<y, x>> \in OpToRel(<, Nat))
    BY <1>1
  <2>3. x \in Nat /\ y \in Nat
    OBVIOUS
  <2>4. ~(y < x)
    BY <2>1, <2>2, Zenon
  <2>. QED
    BY <2>3, <2>4
<1>. QED
  BY <1>2

\* A non-empty set of MainSuites positions has a greatest element: the least
\* upper bound of the set belongs to it.
LEMMA PositionMax ==
    ASSUME NEW n \in Nat, NEW T \in SUBSET (1..n), T # {}
    PROVE  \E x \in T : \A y \in T : y <= x
<1>. DEFINE U == {k \in Nat : \A y \in T : y <= k}
<1>1. n \in U
  OBVIOUS
<1>2. PICK m \in U : \A k \in U : m <= k
  BY <1>1, NatSetMin
<1>3. m \in T
  <2>. SUFFICES ASSUME m \notin T PROVE FALSE
    OBVIOUS
  <2>1. PICK y0 \in T : TRUE
    OBVIOUS
  <2>2. m - 1 \in U
    BY <2>1
  <2>. QED
    BY <1>2, <2>2
<1>. QED
  BY <1>2, <1>3

\* The last message failMessages returns is that of the failed suite at the
\* greatest failed position (the loop appends in MainSuites order), and
\* there is one message per failed suite.
LEMMA LastFailMessage ==
    ASSUME NEW ev \in Events, FailedPositions(ev) # {}
    PROVE  /\ Len(failMessages(ev)) = Cardinality(FailedPositions(ev))
           /\ Len(failMessages(ev)) \in Nat /\ Len(failMessages(ev)) >= 1
           /\ \E m \in FailedPositions(ev) :
                 /\ \A j \in FailedPositions(ev) : j <= m
                 /\ failMessages(ev)[Len(failMessages(ev))] = ev.mainSuites[m].id
<1>. DEFINE s == ev.mainSuites
            F == FailedPositions(ev)
            Rank(i) == Cardinality({j \in F : j <= i})
            N == Cardinality(F)
            c == CHOOSE i \in F : Rank(i) = N
<1>1. /\ s \in Seq(TestSuite) /\ Len(s) \in Nat
      /\ F \in SUBSET (1..Len(s))
  BY DEF Events, FailedPositions
<1>2. IsFiniteSet(F) /\ N \in Nat /\ N >= 1
  <2>1. IsFiniteSet(1..Len(s))
    BY <1>1, FS_Interval
  <2>2. IsFiniteSet(F)
    BY <1>1, <2>1, FS_Subset
  <2>3. N \in Nat /\ N # 0
    BY <2>2, FS_CardinalityType, FS_EmptySet
  <2>. QED
    BY <2>2, <2>3
<1>3. /\ failMessages(ev) = [k \in 1..N |-> s[CHOOSE i \in F : Rank(i) = k].id]
      /\ failMessages(ev)[N] = s[c].id
  <2>1. failMessages(ev) = [k \in 1..N |-> s[CHOOSE i \in F : Rank(i) = k].id]
    BY DEF failMessages
  <2>. QED
    BY <1>2, <2>1
<1>4. Len(failMessages(ev)) = N
  BY <1>2, <1>3
<1>5. PICK m \in F : \A y \in F : y <= m
  BY <1>1, PositionMax
<1>6. Rank(m) = N
  <2>1. {j \in F : j <= m} = F
    BY <1>5
  <2>. QED
    BY <2>1
<1>7. c \in F /\ Rank(c) = N
  BY <1>6
<1>8. \A j \in F : j <= c
  <2>1. {j \in F : j <= c} = F
    BY <1>2, <1>7, FS_Subset
  <2>. QED
    BY <2>1
<1>9. c = m
  <2>1. c <= m /\ m <= c
    BY <1>5, <1>7, <1>8
  <2>2. c \in Nat /\ m \in Nat
    BY <1>1, <1>7
  <2>. QED
    BY <2>1, <2>2
<1>. QED
  BY <1>2, <1>3, <1>4, <1>5, <1>9

\* The "not finished" error names a suite of MainSuites: a first suite with
\* no Finished event exists whenever some suite has none.
LEMMA FirstUnfinishedSuite ==
    ASSUME NEW ev \in Events,
           \E i \in 1..Len(ev.mainSuites) : ev.mainSuites[i].fin = NoEvent
    PROVE  FirstUnfinished(ev) \in Suites
<1>. DEFINE s == ev.mainSuites
            T == {i \in 1..Len(s) : s[i].fin = NoEvent}
<1>1. s \in Seq(TestSuite) /\ Len(s) \in Nat
  BY DEF Events
<1>2. PICK x \in T : \A y \in T : x <= y
  <2>1. T \in SUBSET Nat /\ T # {}
    BY <1>1
  <2>. QED
    BY <2>1, NatSetMin
<1>3. \A j \in 1..(x - 1) : s[j].fin # NoEvent
  <2>. SUFFICES ASSUME NEW j \in 1..(x - 1), s[j].fin = NoEvent PROVE FALSE
    OBVIOUS
  <2>1. j \in T
    OBVIOUS
  <2>. QED
    BY <1>2, <2>1
<1>4. x \in 1..Len(s) /\ s[x].fin = NoEvent
  OBVIOUS
<1>. DEFINE first == CHOOSE i \in 1..Len(s) :
                         /\ s[i].fin = NoEvent
                         /\ \A j \in 1..(i - 1) : s[j].fin # NoEvent
<1>5. first \in 1..Len(s)
  BY <1>3, <1>4
<1>6. s[first] \in TestSuite
  <2>1. \A i \in 1..Len(s) : s[i] \in TestSuite
    BY <1>1
  <2>. QED
    BY <1>5, <2>1
<1>7. FirstUnfinished(ev) = s[first].id
  BY DEF FirstUnfinished
<1>. QED
  BY <1>6, <1>7 DEF TestSuite

\* Once every main suite finished and one failed, GetResults reports the
\* message of the failed suite at the greatest position (the last message
\* failMessages returns, whether there is one or several).
LEMMA FailureVerdict ==
    ASSUME NEW ev \in Events,
           ev.tercc, ev.activity, ev.triggered, ~ev.canceled,
           Len(ev.mainSuites) # 0,
           ~\E i \in 1..Len(ev.mainSuites) : ev.mainSuites[i].fin = NoEvent,
           hasFailed(ev)
    PROVE  \E m \in FailedPositions(ev) :
              /\ \A j \in FailedPositions(ev) : j <= m
              /\ GetResults(ev) = Verdict(FALSE, ev.mainSuites[m].id)
<1>. DEFINE messages == failMessages(ev)
<1>1. FailedPositions(ev) # {}
  BY DEF hasFailed, FailedPositions
<1>2. PICK m \in FailedPositions(ev) :
         /\ \A j \in FailedPositions(ev) : j <= m
         /\ messages[Len(messages)] = ev.mainSuites[m].id
  BY <1>1, LastFailMessage
<1>3. Len(messages) \in Nat /\ Len(messages) >= 1
  BY <1>1, LastFailMessage
<1>4. GetResults(ev) = IF Len(messages) = 1 THEN Verdict(FALSE, messages[1])
                       ELSE IF Len(messages) > 0
                            THEN Verdict(FALSE, messages[Len(messages)])
                            ELSE Verdict(FALSE, GenericFailureMessage)
  BY Zenon DEF GetResults
<1>5. Len(messages) = 1 => messages[1] = messages[Len(messages)]
  OBVIOUS
<1>6. Len(messages) # 1 => Len(messages) > 0
  BY <1>3
<1>7. GetResults(ev) = Verdict(FALSE, messages[Len(messages)])
  BY <1>4, <1>5, <1>6, Zenon
<1>. QED
  BY <1>2, <1>7

\* GetResults always returns a result of the declared type: every message
\* it reports is one of its literals or the id of a suite of MainSuites.
LEMMA GetResultsType ==
    ASSUME NEW ev \in Events
    PROVE  GetResults(ev) \in Result
<1>. DEFINE s == ev.mainSuites
            messages == failMessages(ev)
            NotReady == ~ev.tercc \/ ~ev.activity \/ ~ev.triggered \/ ev.canceled
                          \/ Len(s) = 0
            Unfinished == \E i \in 1..Len(s) : s[i].fin = NoEvent
<1>1. s \in Seq(TestSuite)
  BY DEF Events
<1>2. \A k \in ErrorKinds : Error(k, NoMessage) \in Result
  BY DEF Error, Result
<1>3. CASE NotReady
  <2>1. \E k \in ErrorKinds : GetResults(ev) = Error(k, NoMessage)
    BY <1>3 DEF GetResults, ErrorKinds
  <2>. QED
    BY <1>2, <2>1
<1>4. CASE ~NotReady /\ Unfinished
  <2>1. FirstUnfinished(ev) \in Suites
    BY <1>4, FirstUnfinishedSuite
  <2>2. GetResults(ev) = Error("notFinished", FirstUnfinished(ev))
    BY <1>4 DEF GetResults
  <2>. QED
    BY <2>1, <2>2 DEF Error, Result, ErrorKinds
<1>5. CASE ~NotReady /\ ~Unfinished /\ ~hasFailed(ev)
  <2>1. GetResults(ev) = Verdict(TRUE, SuccessMessage)
    BY <1>5 DEF GetResults
  <2>. QED
    BY <2>1 DEF Verdict, Result
<1>6. CASE ~NotReady /\ ~Unfinished /\ hasFailed(ev)
  <2>1. PICK m \in FailedPositions(ev) :
           GetResults(ev) = Verdict(FALSE, s[m].id)
    BY <1>6, FailureVerdict
  <2>2. m \in 1..Len(s)
    BY DEF FailedPositions
  <2>3. s[m] \in TestSuite
    BY <1>1, <2>2
  <2>. QED
    BY <2>1, <2>3 DEF Verdict, Result, TestSuite
<1>. QED
  BY <1>3, <1>4, <1>5, <1>6
=============================================================================
