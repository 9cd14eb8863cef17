--------------------------- MODULE EventAggregate ---------------------------
(***************************************************************************)
(* What the Collector promises its caller, with queries, calls, errors and *)
(* the layout of the aggregate abstracted away (spec sections 3, 4.1, 8):  *)
(* the events of a run form a causally ordered store that only grows, and  *)
(* the aggregate is a causally closed part of it that only grows: a known  *)
(* event is never lost or changed, and nothing is known that the store     *)
(* does not hold.                                                          *)
(***************************************************************************)
EXTENDS TestResults

VARIABLES
    store,   \* the events the repository holds, as facts
    known    \* the events the aggregate holds, as facts

\* An event, by its place in the graph: the four run-level events, a main
\* suite's started event, and a main suite's finished event with its
\* conclusion.
Fact ==
    [kind : {"tercc", "triggered", "canceled", "finished", "started"},
     suite : Suites \cup {NoEvent}, fin : {NoEvent}]
    \cup [kind : {"suiteFinished"}, suite : Suites, fin : Conclusions]

F(kind) == [kind |-> kind, suite |-> NoEvent, fin |-> NoEvent]

Started(s) == [kind |-> "started", suite |-> s, fin |-> NoEvent]

SuiteFinished(s, c) == [kind |-> "suiteFinished", suite |-> s, fin |-> c]

\* Every event of a set comes with the event it is linked to.
Closed(S) ==
    /\ F("triggered") \in S => F("tercc") \in S
    /\ \A k \in {"canceled", "finished"} : F(k) \in S => F("triggered") \in S
    /\ \A s \in Suites :
          /\ Started(s) \in S => F("triggered") \in S
          /\ \A c \in Conclusions : SuiteFinished(s, c) \in S => Started(s) \in S

\* A suite finishes once: events are immutable.
FinishedOnce(S) ==
    \A s \in Suites, c, d \in Conclusions :
        SuiteFinished(s, c) \in S /\ SuiteFinished(s, d) \in S => c = d

Init == store = {} /\ known = {}

\* The repository gains events, in causal order.
Publish ==
    /\ store \subseteq store'
    /\ store' \subseteq Fact
    /\ Closed(store') /\ FinishedOnce(store')
    /\ UNCHANGED known

\* The aggregate learns events the repository holds, keeping what it knew.
Learn ==
    /\ known \subseteq known'
    /\ known' \subseteq store
    /\ Closed(known')
    /\ UNCHANGED store

Next == Publish \/ Learn

Spec == Init /\ [][Next]_<<store, known>>
=============================================================================
