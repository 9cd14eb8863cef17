---------------------------- MODULE TestResults ----------------------------
(***************************************************************************)
(* The result evaluator of the v0 client (test_results/test_results.go):  *)
(* a pure function from an Events aggregate to (success, message) or an    *)
(* error.  The aggregate itself (events/types.go) is defined here too,     *)
(* because the evaluator is the component that reads every field of it.   *)
(*                                                                         *)
(* An Eiffel event is abstracted to its presence; a TestSuiteFinished      *)
(* event to its outcome conclusion.  A failure message                     *)
(* "<suite name>: <outcome description>" is abstracted to the id of the    *)
(* suite it is built from: name and description are fixed per suite.      *)
(***************************************************************************)
EXTENDS Naturals, Sequences, FiniteSets

CONSTANTS
    Suites,        \* identifiers of main test suites (TestSuiteStarted meta.id)
    Conclusions,   \* outcome conclusions a TestSuiteFinished event can carry
    NoEvent        \* nil *eiffelevents.Any: the event is not (yet) known

\* The literal the evaluator compares conclusions with (test_results.go:29, 44).
Successful == "SUCCESSFUL"

ASSUME ConstantsAssumption ==
    /\ IsFiniteSet(Suites)
    /\ Successful \in Conclusions
    /\ NoEvent \notin Conclusions
    /\ NoEvent \notin Suites

\* What a TestSuite's Finished field can hold: nil, or an event with a conclusion.
FinishedValue == Conclusions \cup {NoEvent}

\* One *TestSuite of Events.MainSuites: its Started event, identified by the
\* suite id it carries, and its Finished field.
TestSuite == [id : Suites, fin : FinishedValue]

(***************************************************************************)
(* The Events aggregate.  `activity` is the Activity pointer being non-nil.*)
(***************************************************************************)
Events == [tercc : BOOLEAN, activity : BOOLEAN, triggered : BOOLEAN,
           canceled : BOOLEAN, finished : BOOLEAN, mainSuites : Seq(TestSuite)]

EmptyEvents == [tercc |-> FALSE, activity |-> FALSE, triggered |-> FALSE,
                canceled |-> FALSE, finished |-> FALSE, mainSuites |-> << >>]

(***************************************************************************)
(* Outcomes of GetResults.  `err` is "none" when a verdict is returned.    *)
(***************************************************************************)
SuccessMessage == "Test suite finished successfully."
GenericFailureMessage == "Test case failures during test suite execution"
NoMessage == ""

ErrorKinds == {"noTERCC", "noTriggered", "canceled", "noMainSuites", "notFinished"}

Result == [err : ErrorKinds \cup {"none"}, success : BOOLEAN,
           msg : Suites \cup {SuccessMessage, GenericFailureMessage, NoMessage}]

Error(kind, m) == [err |-> kind, success |-> FALSE, msg |-> m]
Verdict(ok, m) == [err |-> "none", success |-> ok, msg |-> m]

\* A suite whose finished outcome is not the success literal.
IsFailed(suite) == suite.fin # NoEvent /\ suite.fin # Successful

\* hasFailed: some finished main suite has a conclusion other than SUCCESSFUL.
hasFailed(ev) == \E i \in 1..Len(ev.mainSuites) : IsFailed(ev.mainSuites[i])

\* The MainSuites positions the failMessages loop appends a message for.
FailedPositions(ev) == {i \in 1..Len(ev.mainSuites) : IsFailed(ev.mainSuites[i])}

\* failMessages: the loop appends one message per failed suite, in MainSuites
\* order, so its k-th message is that of the failed suite with exactly k
\* failed suites at or before it.
failMessages(ev) ==
    LET F == FailedPositions(ev)
        Rank(i) == Cardinality({j \in F : j <= i})
    IN  [k \in 1..Cardinality(F) |-> ev.mainSuites[CHOOSE i \in F : Rank(i) = k].id]

\* Mutation variant: the "not finished" error formats the suite's Finished
\* field (nil) instead of its TestSuiteStarted id.
FirstUnfinished_Fin(ev) ==
    LET s == ev.mainSuites
    IN  s[CHOOSE i \in 1..Len(s) : /\ s[i].fin = NoEvent
                                   /\ \A j \in 1..(i - 1) : s[j].fin # NoEvent].fin

\* The first suite of MainSuites that has no Finished event.
FirstUnfinished(ev) ==
    LET s == ev.mainSuites
    IN  s[CHOOSE i \in 1..Len(s) : /\ s[i].fin = NoEvent
                                   /\ \A j \in 1..(i - 1) : s[j].fin # NoEvent].id

\* Mutation variant: the cancellation tested after the suites instead of
\* before them (two early returns swapped).
GetResults_CanceledLate(ev) ==
    IF ~ev.tercc THEN Error("noTERCC", NoMessage)
    ELSE IF ~ev.activity \/ ~ev.triggered THEN Error("noTriggered", NoMessage)
    ELSE IF Len(ev.mainSuites) = 0 THEN Error("noMainSuites", NoMessage)
    ELSE IF \E i \in 1..Len(ev.mainSuites) : ev.mainSuites[i].fin = NoEvent
         THEN Error("notFinished", FirstUnfinished(ev))
    ELSE IF ev.canceled THEN Error("canceled", NoMessage)
    ELSE IF ~hasFailed(ev) THEN Verdict(TRUE, SuccessMessage)
    ELSE Verdict(FALSE, failMessages(ev)[Len(failMessages(ev))])

\* GetResults: the early returns in the order the code makes them.
GetResults(ev) ==
    IF ~ev.tercc THEN Error("noTERCC", NoMessage)
    ELSE IF ~ev.activity \/ ~ev.triggered THEN Error("noTriggered", NoMessage)
    ELSE IF ev.canceled THEN Error("canceled", NoMessage)
    ELSE IF Len(ev.mainSuites) = 0 THEN Error("noMainSuites", NoMessage)
    ELSE IF \E i \in 1..Len(ev.mainSuites) : ev.mainSuites[i].fin = NoEvent
         THEN Error("notFinished", FirstUnfinished(ev))
    ELSE IF ~hasFailed(ev) THEN Verdict(TRUE, SuccessMessage)
    ELSE LET messages == failMessages(ev) IN
         IF Len(messages) = 1 THEN Verdict(FALSE, messages[1])
         ELSE IF Len(messages) > 0 THEN Verdict(FALSE, messages[Len(messages)])
         ELSE Verdict(FALSE, GenericFailureMessage)
=============================================================================
