--------------------------- MODULE ValidationProofs ---------------------------
(***************************************************************************)
(* Proof that ValidateEvents localizes the failing event for every         *)
(* aggregate, every set of suites and every set of invalid events, not     *)
(* only the two-suite instances TLC enumerates.                            *)
(***************************************************************************)
EXTENDS MC_Validation, EvaluatorProofs

\* The loop over MainSuites stops at a first failing suite when some suite
\* fails: the CHOOSE of ValidateSuites has a witness.
LEMMA FirstRejected ==
    ASSUME NEW e \in Events, NEW b,
           \E i \in 1..Len(e.mainSuites) : SuiteRejected(e, b, i)
    PROVE  \E i \in 1..Len(e.mainSuites) :
              /\ SuiteRejected(e, b, i)
              /\ \A j \in 1..(i - 1) : ~SuiteRejected(e, b, j)
<1>. DEFINE T == {i \in 1..Len(e.mainSuites) : SuiteRejected(e, b, i)}
<1>1. T \in SUBSET Nat /\ T # {}
  OBVIOUS
<1>2. PICK x \in T : \A y \in T : x <= y
  BY <1>1, NatSetMin
<1>. QED
  BY <1>2
\* ValidationLocalizes, of any aggregate e and set b of invalid events.
Localized(e, b) ==
    LET r == ValidateEvents(e, b) IN
    /\ (r.err = "none") = (PresentSlots(e) \cap b = {})
    /\ r.err # "none" => \E sl \in PresentSlots(e) \cap b : Names(e, r, sl)

\* An error that names a present invalid event localizes it.
LEMMA NamedError ==
    ASSUME NEW e \in Events, NEW b, NEW sl \in PresentSlots(e) \cap b,
           ValidateEvents(e, b).err # "none",
           Names(e, ValidateEvents(e, b), sl)
    PROVE  Localized(e, b)
BY DEF Localized

\* The run-level checks: a present invalid TERCC, Triggered, Canceled or
\* Finished is reported under its own kind.
LEMMA RunLevelError ==
    ASSUME NEW e \in Events, NEW b,
           NEW k \in {"tercc", "triggered", "canceled", "finished"},
           ValidateEvents(e, b) = VErr(k, 0),
           [kind |-> k, suite |-> NoEvent] \in PresentSlots(e) \cap b
    PROVE  Localized(e, b)
<1>1. Names(e, ValidateEvents(e, b), [kind |-> k, suite |-> NoEvent])
  BY DEF Names, VErr
<1>. QED
  BY <1>1, NamedError DEF VErr

\* The started event of every suite of MainSuites is present, and so is its
\* finished event when Finished is set.
LEMMA SuiteSlotsPresent ==
    ASSUME NEW e \in Events, NEW i \in 1..Len(e.mainSuites)
    PROVE  /\ [kind |-> "started", suite |-> e.mainSuites[i].id] \in PresentSlots(e)
           /\ e.mainSuites[i].fin # NoEvent =>
                 [kind |-> "suiteFinished", suite |-> e.mainSuites[i].id]
                    \in PresentSlots(e)
<1>. DEFINE ms == e.mainSuites
<1>1. ms \in Seq(TestSuite)
  BY DEF Events
<1>2. ms[i] \in TestSuite /\ i \in DOMAIN ms
  BY <1>1
<1>3. ms[i].id \in Suites
  BY <1>2 DEF TestSuite
<1>4. [kind |-> "started", suite |-> ms[i].id] \in Slot
      /\ [kind |-> "suiteFinished", suite |-> ms[i].id] \in Slot
  BY <1>3 DEF Slot
<1>. QED
  BY <1>2, <1>4 DEF PresentSlots

LEMMA LocalizesAll ==
    ASSUME NEW e \in Events, NEW b
    PROVE  Localized(e, b)
<1>. DEFINE ms == e.mainSuites
            r == ValidateEvents(e, b)
            RunSlot(k) == [kind |-> k, suite |-> NoEvent]
<1>0. /\ ms \in Seq(TestSuite) /\ DOMAIN ms = 1..Len(ms)
      /\ \A i \in 1..Len(ms) : ms[i] \in TestSuite /\ ms[i].id \in Suites
  <2>1. ms \in Seq(TestSuite)
    BY DEF Events
  <2>2. \A i \in 1..Len(ms) : ms[i] \in TestSuite
    BY <2>1
  <2>. QED
    BY <2>1, <2>2 DEF TestSuite
<1>a. \A k \in {"tercc", "triggered", "canceled", "finished"} : RunSlot(k) \in Slot
  BY DEF Slot
<1>1. CASE e.tercc /\ Rejected(b, "tercc", NoEvent)
  <2>1. r = VErr("tercc", 0)
    BY <1>1 DEF ValidateEvents
  <2>2. RunSlot("tercc") \in PresentSlots(e) \cap b
    BY <1>1, <1>a DEF PresentSlots, Rejected
  <2>. QED
    BY <2>1, <2>2, RunLevelError
<1>2. CASE ~(e.tercc /\ Rejected(b, "tercc", NoEvent))
           /\ e.activity /\ e.triggered /\ Rejected(b, "triggered", NoEvent)
  <2>1. r = VErr("triggered", 0)
    BY <1>2 DEF ValidateEvents
  <2>2. RunSlot("triggered") \in PresentSlots(e) \cap b
    BY <1>2, <1>a DEF PresentSlots, Rejected
  <2>. QED
    BY <2>1, <2>2, RunLevelError
<1>3. CASE ~(e.tercc /\ Rejected(b, "tercc", NoEvent))
           /\ ~(e.activity /\ e.triggered /\ Rejected(b, "triggered", NoEvent))
           /\ e.activity /\ e.canceled /\ Rejected(b, "canceled", NoEvent)
  <2>1. r = VErr("canceled", 0)
    BY <1>3 DEF ValidateEvents
  <2>2. RunSlot("canceled") \in PresentSlots(e) \cap b
    BY <1>3, <1>a DEF PresentSlots, Rejected
  <2>. QED
    BY <2>1, <2>2, RunLevelError
<1>4. CASE ~(e.tercc /\ Rejected(b, "tercc", NoEvent))
           /\ ~(e.activity /\ e.triggered /\ Rejected(b, "triggered", NoEvent))
           /\ ~(e.activity /\ e.canceled /\ Rejected(b, "canceled", NoEvent))
           /\ e.activity /\ e.finished /\ Rejected(b, "finished", NoEvent)
  <2>1. r = VErr("finished", 0)
    BY <1>4 DEF ValidateEvents
  <2>2. RunSlot("finished") \in PresentSlots(e) \cap b
    BY <1>4, <1>a DEF PresentSlots, Rejected
  <2>. QED
    BY <2>1, <2>2, RunLevelError
<1>. DEFINE RunOK ==
            /\ ~(e.tercc /\ Rejected(b, "tercc", NoEvent))
            /\ ~(e.activity /\ e.triggered /\ Rejected(b, "triggered", NoEvent))
            /\ ~(e.activity /\ e.canceled /\ Rejected(b, "canceled", NoEvent))
            /\ ~(e.activity /\ e.finished /\ Rejected(b, "finished", NoEvent))
<1>5. CASE RunOK /\ \E i \in 1..Len(ms) : SuiteRejected(e, b, i)
  <2>. DEFINE i0 == CHOOSE i \in 1..Len(ms) :
                       SuiteRejected(e, b, i)
                       /\ \A j \in 1..(i - 1) : ~SuiteRejected(e, b, j)
  <2>1. i0 \in 1..Len(ms) /\ SuiteRejected(e, b, i0)
    BY <1>5, FirstRejected
  <2>2. r = IF Rejected(b, "started", ms[i0].id) THEN VErr("started", i0 - 1)
            ELSE VErr("suiteFinished", i0 - 1)
    BY <1>5 DEF ValidateEvents, ValidateSuites
  <2>3. CASE Rejected(b, "started", ms[i0].id)
    <3>. DEFINE sl == [kind |-> "started", suite |-> ms[i0].id]
    <3>1. sl \in PresentSlots(e) \cap b
      BY <2>1, <2>3, SuiteSlotsPresent DEF Rejected
    <3>a. r = VErr("started", i0 - 1)
      BY <2>2, <2>3
    <3>b. r.err = "started" /\ r.index + 1 = i0 /\ i0 \in DOMAIN ms
      BY <1>0, <2>1, <3>a DEF VErr
    <3>2. Names(e, r, sl)
      BY <3>b DEF Names
    <3>. QED
      BY <3>b, <3>1, <3>2, NamedError
  <2>4. CASE ~Rejected(b, "started", ms[i0].id)
    <3>. DEFINE sl == [kind |-> "suiteFinished", suite |-> ms[i0].id]
    <3>0. ms[i0].fin # NoEvent /\ Rejected(b, "suiteFinished", ms[i0].id)
      BY <2>1, <2>4 DEF SuiteRejected
    <3>1. sl \in PresentSlots(e) \cap b
      BY <2>1, <3>0, SuiteSlotsPresent DEF Rejected
    <3>a. r = VErr("suiteFinished", i0 - 1)
      BY <2>2, <2>4
    <3>b. r.err = "suiteFinished" /\ r.index + 1 = i0 /\ i0 \in DOMAIN ms
      BY <1>0, <2>1, <3>a DEF VErr
    <3>2. Names(e, r, sl)
      BY <3>b DEF Names
    <3>. QED
      BY <3>b, <3>1, <3>2, NamedError
  <2>. QED
    BY <2>3, <2>4
<1>6. CASE RunOK /\ ~\E i \in 1..Len(ms) : SuiteRejected(e, b, i)
  <2>1. r = ValidationOK
    BY <1>6 DEF ValidateEvents
  <2>2. ASSUME NEW sl \in PresentSlots(e) \cap b PROVE FALSE
    <3>1. sl \in Slot
      BY DEF PresentSlots
    <3>2. CASE sl.kind \in {"tercc", "triggered", "canceled", "finished"}
      BY <1>6, <3>1, <3>2 DEF PresentSlots, Slot, Rejected
    <3>3. CASE sl.kind = "started"
      <4>1. PICK i \in DOMAIN ms : ms[i].id = sl.suite
        BY <3>1, <3>3 DEF PresentSlots
      <4>2. sl = [kind |-> "started", suite |-> ms[i].id]
        BY <3>1, <3>3, <4>1 DEF Slot
      <4>. QED
        BY <1>0, <1>6, <4>1, <4>2 DEF SuiteRejected, Rejected
    <3>4. CASE sl.kind = "suiteFinished"
      <4>1. PICK i \in DOMAIN ms : ms[i].id = sl.suite /\ ms[i].fin # NoEvent
        BY <3>1, <3>4 DEF PresentSlots
      <4>2. sl = [kind |-> "suiteFinished", suite |-> ms[i].id]
        BY <3>1, <3>4, <4>1 DEF Slot
      <4>. QED
        BY <1>0, <1>6, <4>1, <4>2 DEF SuiteRejected, Rejected
    <3>. QED
      BY <3>1, <3>2, <3>3, <3>4 DEF Slot
  <2>. QED
    BY <2>1, <2>2 DEF Localized, ValidationOK
<1>. QED
  BY <1>1, <1>2, <1>3, <1>4, <1>5, <1>6

\* The aggregates of the run are aggregates.
LEMMA AllEventsType == AllEvents \subseteq Events
<1>1. Slices \subseteq Seq(TestSuite)
  <2>1. << >> \in Seq(TestSuite)
    OBVIOUS
  <2>2. \A t \in TestSuite : <<t>> \in Seq(TestSuite)
    OBVIOUS
  <2>3. \A a, c \in TestSuite : <<a, c>> \in Seq(TestSuite)
    OBVIOUS
  <2>4. \A p \in TestSuite \X TestSuite : p = <<p[1], p[2]>>
    OBVIOUS
  <2>5. \A p \in TestSuite \X TestSuite : p[1] \in TestSuite /\ p[2] \in TestSuite
    OBVIOUS
  <2>. QED
    BY <2>1, <2>2, <2>3, <2>4, <2>5 DEF Slices
<1>. QED
  BY <1>1 DEF AllEvents, Events

\* ValidateEvents returns nil exactly when every event the aggregate holds
\* is valid, and otherwise names an invalid event it holds by kind and by
\* the MainSuites position of its suite (validator.go:24-66), for every
\* aggregate and every set of suites.
THEOREM ValidationLocalizesHolds == Spec => []ValidationLocalizes
<1>1. Init => ev \in Events
  BY AllEventsType DEF Init
<1>2. ev \in Events /\ [Next]_<<ev, bad>> => (ev \in Events)'
  BY DEF Next
<1>3. ev \in Events => ValidationLocalizes
  BY LocalizesAll DEF ValidationLocalizes, Localized
<1>. QED
  BY <1>1, <1>2, <1>3, PTL DEF Spec

====
