----------------------------- MODULE Validation -----------------------------
(***************************************************************************)
(* The schema validation of a collected aggregate (events/validator.go).   *)
(* The SDK's validator.DefaultSet().Validate is abstracted to whether the  *)
(* event in a slot fails its schema: `bad` is the set of slots whose event *)
(* is invalid.  Events are immutable, so a slot's validity is a fact about *)
(* the repository, the same in every aggregate that holds the event.       *)
(***************************************************************************)
EXTENDS TestResults

\* A place in the aggregate an event can occupy.
Slot ==
    [kind : {"tercc", "triggered", "canceled", "finished"}, suite : {NoEvent}]
    \cup [kind : {"started", "suiteFinished"}, suite : Suites]

\* What ValidateEvents returns: nil, or which check failed, with the index
\* %d of the suite in MainSuites for the suite checks (0-based, as in Go).
ValidationResult == [err : {"none", "tercc", "triggered", "canceled",
                            "finished", "started", "suiteFinished"},
                     index : Nat]

ValidationOK == [err |-> "none", index |-> 0]

VErr(kind, i) == [err |-> kind, index |-> i]

\* ValidateEvent on the event in slot (kind, s) returns an error.
Rejected(bad, kind, s) == [kind |-> kind, suite |-> s] \in bad

\* The suite at position i fails one of its two checks (a nil Finished is
\* skipped; the collected Started is never nil).
SuiteRejected(ev, bad, i) ==
    \/ Rejected(bad, "started", ev.mainSuites[i].id)
    \/ /\ ev.mainSuites[i].fin # NoEvent
       /\ Rejected(bad, "suiteFinished", ev.mainSuites[i].id)

\* Mutation variant: the index reported 1-based, off by one from the slice.
ValidateSuites_OneBased(ev, bad) ==
    LET ms == ev.mainSuites
        i  == CHOOSE i \in 1..Len(ms) :
                 SuiteRejected(ev, bad, i)
                 /\ \A j \in 1..(i - 1) : ~SuiteRejected(ev, bad, j)
    IN  IF Rejected(bad, "started", ms[i].id) THEN VErr("started", i)
        ELSE VErr("suiteFinished", i)

\* The loop over MainSuites: the first suite that fails, its Started event
\* checked before its Finished event.
ValidateSuites(ev, bad) ==
    LET ms == ev.mainSuites
        i  == CHOOSE i \in 1..Len(ms) :
                 SuiteRejected(ev, bad, i)
                 /\ \A j \in 1..(i - 1) : ~SuiteRejected(ev, bad, j)
    IN  IF Rejected(bad, "started", ms[i].id) THEN VErr("started", i - 1)
        ELSE VErr("suiteFinished", i - 1)

\* ValidateEvents: every present event in the order of the code, returning
\* at the first that fails; an absent field is skipped.
ValidateEvents(ev, bad) ==
    IF ev.tercc /\ Rejected(bad, "tercc", NoEvent) THEN VErr("tercc", 0)
    ELSE IF ev.activity /\ ev.triggered /\ Rejected(bad, "triggered", NoEvent)
         THEN VErr("triggered", 0)
    ELSE IF ev.activity /\ ev.canceled /\ Rejected(bad, "canceled", NoEvent)
         THEN VErr("canceled", 0)
    ELSE IF ev.activity /\ ev.finished /\ Rejected(bad, "finished", NoEvent)
         THEN VErr("finished", 0)
    ELSE IF \E i \in 1..Len(ev.mainSuites) : SuiteRejected(ev, bad, i)
         THEN ValidateSuites(ev, bad)
    ELSE ValidationOK
=============================================================================
