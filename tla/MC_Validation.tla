-------------------------- MODULE MC_Validation ---------------------------
(***************************************************************************)
(* ValidateEvents on every aggregate over two suites and every choice of   *)
(* invalid events, checked against the specification of the integrity      *)
(* layer: present events are checked, absent ones skipped, and a failure   *)
(* identifies which event failed.                                          *)
(***************************************************************************)
EXTENDS Validation, TLC

CONSTANTS s1, s2

MCSuites == {s1, s2}

MCConclusions == {"SUCCESSFUL", "FAILED"}

VARIABLES ev, bad

\* MainSuites slices of at most two distinct suites.
Slices ==
    {<< >>} \cup {<<t>> : t \in TestSuite}
            \cup {p \in TestSuite \X TestSuite : p[1].id # p[2].id}

\* Aggregates the Collector can build: the Activity under the TERCC, its
\* events and the suites under Triggered.
AllEvents ==
    {e \in [tercc : BOOLEAN, activity : BOOLEAN, triggered : BOOLEAN,
            canceled : BOOLEAN, finished : BOOLEAN, mainSuites : Slices] :
        /\ e.activity => e.tercc
        /\ e.triggered => e.activity
        /\ e.canceled \/ e.finished \/ e.mainSuites # << >> => e.triggered}

Init == ev \in AllEvents /\ bad \in SUBSET Slot

Next == UNCHANGED <<ev, bad>>

Spec == Init /\ [][Next]_<<ev, bad>>

(***************************************************************************)
(* The reference, from the specification.                                  *)
(***************************************************************************)
\* The slots of the events an aggregate holds.
PresentSlots(e) ==
    {sl \in Slot :
        CASE sl.kind = "tercc"         -> e.tercc
          [] sl.kind = "triggered"     -> e.activity /\ e.triggered
          [] sl.kind = "canceled"      -> e.activity /\ e.canceled
          [] sl.kind = "finished"      -> e.activity /\ e.finished
          [] sl.kind = "started"       ->
                \E i \in DOMAIN e.mainSuites : e.mainSuites[i].id = sl.suite
          [] sl.kind = "suiteFinished" ->
                \E i \in DOMAIN e.mainSuites : /\ e.mainSuites[i].id = sl.suite
                                               /\ e.mainSuites[i].fin # NoEvent}

\* The slot a result names: its kind and, for a suite, the suite at the
\* reported position of MainSuites.
Names(e, r, sl) ==
    /\ sl.kind = r.err
    /\ sl.kind \in {"started", "suiteFinished"} =>
          /\ r.index + 1 \in DOMAIN e.mainSuites
          /\ sl.suite = e.mainSuites[r.index + 1].id

\* ValidateEvents fails exactly when an event the aggregate holds is invalid
\* (an absent event is never an error), and its error names an invalid event
\* the aggregate holds, by kind and MainSuites position (validator.go).
ValidationLocalizes ==
    LET r == ValidateEvents(ev, bad) IN
    /\ (r.err = "none") = (PresentSlots(ev) \cap bad = {})
    /\ r.err # "none" => \E sl \in PresentSlots(ev) \cap bad : Names(ev, r, sl)
=============================================================================
