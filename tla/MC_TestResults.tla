-------------------------- MODULE MC_TestResults --------------------------
(***************************************************************************)
(* GetResults checked against a reference written from the specification *)
(* of the evaluator (precedence of the "not ready" errors, then verdict),  *)
(* on every aggregate over two suites: every combination of present       *)
(* events and every MainSuites slice of distinct suites.                   *)
(***************************************************************************)
EXTENDS TestResults, TLC

CONSTANTS s1, s2

MCSuites == {s1, s2}

MCConclusions == {"SUCCESSFUL", "FAILED"}

VARIABLE ev

\* MainSuites slices of at most two distinct suites.
Slices ==
    {<< >>} \cup {<<t>> : t \in TestSuite}
            \cup {p \in TestSuite \X TestSuite : p[1].id # p[2].id}

AllEvents ==
    [tercc : BOOLEAN, activity : BOOLEAN, triggered : BOOLEAN,
     canceled : BOOLEAN, finished : BOOLEAN, mainSuites : Slices]

Init == ev \in AllEvents

Next == UNCHANGED ev

Spec == Init /\ [][Next]_ev

(***************************************************************************)
(* The reference: the reasons for giving no verdict, in the order of the   *)
(* specification; the verdict is success iff every suite concluded         *)
(* SUCCESSFUL, and a failure reports the failed suite iterated last.       *)
(***************************************************************************)
Reasons(e) ==
    << <<"noTERCC", ~e.tercc>>,
       <<"noTriggered", ~(e.activity /\ e.triggered)>>,
       <<"canceled", e.canceled>>,
       <<"noMainSuites", e.mainSuites = << >>>>,
       <<"notFinished", \E i \in DOMAIN e.mainSuites : e.mainSuites[i].fin = NoEvent>> >>

FirstReason(e) ==
    LET k == CHOOSE k \in DOMAIN Reasons(e) :
                Reasons(e)[k][2] /\ \A j \in 1..(k - 1) : ~Reasons(e)[j][2]
    IN  Reasons(e)[k][1]

Ready(e) == \A k \in DOMAIN Reasons(e) : ~Reasons(e)[k][2]

FailedAt(e) == {i \in DOMAIN e.mainSuites : e.mainSuites[i].fin # Successful}

\* For every aggregate the evaluator returns the error the specification's
\* precedence picks, or, once every suite finished, success exactly when all
\* concluded SUCCESSFUL and otherwise the last failed suite's message
\* (test_results.go GetResults, hasFailed, failMessages).
EvaluatorMatchesReference ==
    LET r == GetResults(ev) IN
    IF Ready(ev)
    THEN /\ r.err = "none"
         /\ r.success = (FailedAt(ev) = {})
         /\ r.msg = IF FailedAt(ev) = {} THEN SuccessMessage
                    ELSE ev.mainSuites[CHOOSE i \in FailedAt(ev) :
                                         \A j \in FailedAt(ev) : j <= i].id
    ELSE /\ r.err = FirstReason(ev)
         /\ ~r.success
=============================================================================
