----------------------------- MODULE Collector -----------------------------
(***************************************************************************)
(* The event Collector of the v0 client (events/collector.go), one         *)
(* Collector instance called repeatedly by a polling caller, against an   *)
(* event repository whose contents grow while it is being queried.        *)
(*                                                                         *)
(* Every repository query is a step of its own: the repository may publish *)
(* between two queries of one call, and any query may fail with a         *)
(* transport error, which aborts the call and keeps what was merged so far.*)
(* `pc` is the query a call is about to make; `suites` and `pending` are   *)
(* the locals of Collect (the merged map and the suites its finished-event *)
(* loop has still to visit).                                               *)
(***************************************************************************)
EXTENDS TestResults

CONSTANTS
    MaxFailures    \* bound on the transport errors the repository returns

ASSUME MaxFailuresAssumption == MaxFailures \in Nat

VARIABLES
    repo,      \* what the event repository holds for the run
    events,    \* c.events, the aggregate the Collector owns
    pc,        \* next step of the call in progress, "idle" between calls
    caller,    \* whether CollectActivity runs on its own or inside Collect
    suites,    \* Collect's local map suite id -> *TestSuite (Absent: no key)
    pending,   \* keys of `suites` the finished-event loop has yet to visit
    failures   \* transport errors returned so far

vars == <<repo, events, pc, caller, suites, pending, failures>>

\* A key that is not in Collect's map.
Absent == "absent"

ASSUME AbsentAssumption == Absent \notin FinishedValue

Repository == [tercc : BOOLEAN, triggered : BOOLEAN, canceled : BOOLEAN,
               finished : BOOLEAN, started : SUBSET Suites,
               suiteFin : [Suites -> FinishedValue]]

Pcs == {"idle", "tercc", "triggered", "canceled", "actFinished",
        "started", "suiteFinished"}

TypeOK ==
    /\ repo \in Repository
    /\ events \in Events
    /\ pc \in Pcs
    /\ caller \in {"CollectActivity", "Collect"}
    /\ suites \in [Suites -> FinishedValue \cup {Absent}]
    /\ pending \subseteq Suites
    /\ failures \in 0..MaxFailures

EmptyMap == [s \in Suites |-> Absent]

Init ==
    /\ repo = [tercc |-> FALSE, triggered |-> FALSE, canceled |-> FALSE,
               finished |-> FALSE, started |-> {},
               suiteFin |-> [s \in Suites |-> NoEvent]]
    /\ events = EmptyEvents
    /\ pc = "idle"
    /\ caller = "Collect"
    /\ suites = EmptyMap
    /\ pending = {}
    /\ failures = 0

-----------------------------------------------------------------------------
(***************************************************************************)
(* The event repository.  Events are immutable and appear in causal order: *)
(* an activity belongs to a TERCC, cancel/finish and main suites to the    *)
(* activity, a suite's finished event to its started event.  The activity  *)
(* finishes only after every main suite it started has finished.           *)
(***************************************************************************)
PublishTERCC ==
    /\ ~repo.tercc
    /\ repo' = [repo EXCEPT !.tercc = TRUE]
    /\ UNCHANGED <<events, pc, caller, suites, pending, failures>>

PublishActivityTriggered ==
    /\ repo.tercc /\ ~repo.triggered
    /\ repo' = [repo EXCEPT !.triggered = TRUE]
    /\ UNCHANGED <<events, pc, caller, suites, pending, failures>>

PublishActivityCanceled ==
    /\ repo.triggered /\ ~repo.canceled
    /\ repo' = [repo EXCEPT !.canceled = TRUE]
    /\ UNCHANGED <<events, pc, caller, suites, pending, failures>>

PublishActivityFinished ==
    /\ repo.triggered /\ ~repo.finished
    /\ \A s \in repo.started : repo.suiteFin[s] # NoEvent
    /\ repo' = [repo EXCEPT !.finished = TRUE]
    /\ UNCHANGED <<events, pc, caller, suites, pending, failures>>

PublishTestSuiteStarted(s) ==
    /\ repo.triggered /\ ~repo.finished /\ s \notin repo.started
    /\ repo' = [repo EXCEPT !.started = @ \cup {s}]
    /\ UNCHANGED <<events, pc, caller, suites, pending, failures>>

PublishTestSuiteFinished(s, c) ==
    /\ s \in repo.started /\ repo.suiteFin[s] = NoEvent
    /\ repo' = [repo EXCEPT !.suiteFin[s] = c]
    /\ UNCHANGED <<events, pc, caller, suites, pending, failures>>

-----------------------------------------------------------------------------
(***************************************************************************)
(* Helpers of Collect.                                                     *)
(***************************************************************************)

\* A repository query returns an error: the call returns it, keeping every
\* field assigned before the failing query.
RequestFails ==
    /\ failures < MaxFailures
    /\ failures' = failures + 1
    /\ pc' = "idle"
    /\ suites' = EmptyMap
    /\ pending' = {}
    /\ UNCHANGED <<repo, events, caller>>

\* Return from the call without error.
Return ==
    /\ pc' = "idle"
    /\ suites' = EmptyMap
    /\ pending' = {}

\* Ids of the suites of a MainSuites slice.
SuiteIds(ms) == {ms[i].id : i \in 1..Len(ms)}

\* The Finished field of the suite with id s in MainSuites.
KnownFin(ms, s) == ms[CHOOSE i \in 1..Len(ms) : ms[i].id = s].fin

\* The orders in which a range over the keys D of a Go map can visit them.
Orders(D) == {p \in [1..Cardinality(D) -> D] :
                 \A i, j \in 1..Cardinality(D) : i # j => p[i] # p[j]}

\* Mutation variant: the slice built over every suite id instead of the keys
\* of the map, so that ids never merged enter MainSuites.
SlicesOf_AllKeys(m) ==
    {[i \in 1..Cardinality(Suites) |-> [id |-> p[i], fin |-> m[p[i]]]] :
        p \in Orders(Suites)}

\* The slices "convert suites map to slice" can build from map m.
SlicesOf(m) ==
    LET D == {s \in Suites : m[s] # Absent}
    IN  {[i \in 1..Cardinality(D) |-> [id |-> p[i], fin |-> m[p[i]]]] :
            p \in Orders(D)}

\* Mutation variant: the slice is appended to MainSuites instead of replacing
\* it (a missing reset of c.events.MainSuites).
ConvertSuites_Append(m) ==
    /\ \E ms \in SlicesOf(m) :
          events' = [events EXCEPT !.mainSuites = @ \o ms]
    /\ Return

\* The finished-event loop is over: MainSuites becomes the map in map order.
ConvertSuites(m) ==
    /\ \E ms \in SlicesOf(m) : events' = [events EXCEPT !.mainSuites = ms]
    /\ Return

-----------------------------------------------------------------------------
(***************************************************************************)
(* The caller's operations.                                                *)
(***************************************************************************)

\* Collect: CollectActivity runs first only while Triggered is unknown.
CallCollect ==
    /\ pc = "idle"
    /\ pc' = IF events.activity /\ events.triggered THEN "started" ELSE "tercc"
    /\ caller' = "Collect"
    /\ UNCHANGED <<repo, events, suites, pending, failures>>

CallCollectActivity ==
    /\ pc = "idle"
    /\ pc' = "tercc"
    /\ caller' = "CollectActivity"
    /\ UNCHANGED <<repo, events, suites, pending, failures>>

(***************************************************************************)
(* The steps of CollectActivity, one per repository query.                 *)
(***************************************************************************)

\* Mutation variant: the Activity is allocated afresh on every call (the nil
\* check on c.events.Activity dropped), losing the activity events known.
CollectTERCC_ResetActivity ==
    /\ pc = "tercc"
    /\ \/ /\ LET tercc == events.tercc \/ repo.tercc
             IN  /\ events' = [events EXCEPT !.tercc = tercc, !.activity = tercc,
                                 !.triggered = FALSE, !.canceled = FALSE,
                                 !.finished = FALSE]
                 /\ IF tercc THEN pc' = "triggered" /\ UNCHANGED <<suites, pending>>
                             ELSE Return
          /\ UNCHANGED <<repo, caller, failures>>
       \/ ~events.tercc /\ RequestFails

\* Get TERCC event; return if it does not exist yet; allocate the Activity.
CollectTERCC ==
    /\ pc = "tercc"
    /\ \/ /\ LET tercc == events.tercc \/ repo.tercc
             IN  /\ events' = [events EXCEPT !.tercc = tercc,
                                             !.activity = @ \/ tercc]
                 /\ IF tercc THEN pc' = "triggered" /\ UNCHANGED <<suites, pending>>
                             ELSE Return
          /\ UNCHANGED <<repo, caller, failures>>
       \/ ~events.tercc /\ RequestFails

\* Mutation variant: no early return when Triggered is still unknown.
CollectTriggered_NoEarlyReturn ==
    /\ pc = "triggered"
    /\ \/ /\ events' = [events EXCEPT !.triggered = @ \/ repo.triggered]
          /\ pc' = "canceled"
          /\ UNCHANGED <<repo, caller, suites, pending, failures>>
       \/ ~events.triggered /\ RequestFails

\* Get the activity triggered event; return if it does not exist yet.
CollectTriggered ==
    /\ pc = "triggered"
    /\ \/ /\ LET triggered == events.triggered \/ repo.triggered
             IN  /\ events' = [events EXCEPT !.triggered = triggered]
                 /\ IF triggered THEN pc' = "canceled" /\ UNCHANGED <<suites, pending>>
                                 ELSE Return
          /\ UNCHANGED <<repo, caller, failures>>
       \/ ~events.triggered /\ RequestFails

\* Get the activity canceled event.
CollectCanceled ==
    /\ pc = "canceled"
    /\ \/ /\ events' = [events EXCEPT !.canceled = @ \/ repo.canceled]
          /\ pc' = "actFinished"
          /\ UNCHANGED <<repo, caller, suites, pending, failures>>
       \/ ~events.canceled /\ RequestFails

\* Get the activity finished event; CollectActivity returns, and inside
\* Collect the main suites are queried next (Triggered is known here).
CollectActivityFinished ==
    /\ pc = "actFinished"
    /\ \/ /\ events' = [events EXCEPT !.finished = @ \/ repo.finished]
          /\ IF caller = "Collect" THEN pc' = "started" /\ UNCHANGED <<suites, pending>>
                                   ELSE Return
          /\ UNCHANGED <<repo, caller, failures>>
       \/ ~events.finished /\ RequestFails

(***************************************************************************)
(* The steps of Collect after the activity: query the main suites started, *)
(* merge them with the known ones (existing entries win), then one query   *)
(* per suite without a Finished event, in map order.                       *)
(***************************************************************************)
\* Mutation variant: the "not exists" test of the merge inverted, so that no
\* new suite is ever added to the map.
MergedSuites_KnownOnly ==
    [s \in Suites |->
        IF s \in SuiteIds(events.mainSuites) THEN KnownFin(events.mainSuites, s)
        ELSE Absent]

\* The map of collector.go:111-125: the known suites (their *TestSuite, so
\* their Finished too) and a fresh entry for each suite started in the
\* repository that is not known yet.
MergedSuites ==
    [s \in Suites |->
        IF s \in SuiteIds(events.mainSuites) THEN KnownFin(events.mainSuites, s)
        ELSE IF s \in repo.started THEN NoEvent
        ELSE Absent]

\* The keys of map m whose suite has no Finished event.
Unvisited(m) == {s \in Suites : m[s] = NoEvent}

CollectMainSuitesStarted ==
    /\ pc = "started"
    /\ \/ /\ IF Unvisited(MergedSuites) = {}
             THEN ConvertSuites(MergedSuites)
             ELSE /\ pc' = "suiteFinished"
                  /\ suites' = MergedSuites
                  /\ pending' = Unvisited(MergedSuites)
                  /\ UNCHANGED events
          /\ UNCHANGED <<repo, caller, failures>>
       \/ RequestFails

\* Finished set on the *TestSuite of suite s, seen through MainSuites.
AttachFinished(ms, s, fin) ==
    [i \in 1..Len(ms) |-> IF ms[i].id = s THEN [ms[i] EXCEPT !.fin = fin]
                                          ELSE ms[i]]

\* The finished event of one suite of the map.  The map's entries for known
\* suites are the *TestSuite pointers of MainSuites, so setting Finished on
\* one of them changes MainSuites at once, whatever happens next.
CollectTestSuiteFinished ==
    /\ pc = "suiteFinished"
    /\ \E s \in pending :
         \/ /\ LET m == [suites EXCEPT ![s] = repo.suiteFin[s]]
               IN  IF pending = {s}
                   THEN ConvertSuites(m)
                   ELSE /\ events' = [events EXCEPT !.mainSuites =
                                         AttachFinished(@, s, repo.suiteFin[s])]
                        /\ suites' = m
                        /\ pending' = pending \ {s}
                        /\ UNCHANGED pc
            /\ UNCHANGED <<repo, caller, failures>>
         \* the suites visited before s keep their Finished in MainSuites
         \/ RequestFails

-----------------------------------------------------------------------------
Repository_Next ==
    \/ PublishTERCC
    \/ PublishActivityTriggered
    \/ PublishActivityCanceled
    \/ PublishActivityFinished
    \/ \E s \in Suites : PublishTestSuiteStarted(s)
    \/ \E s \in Suites, c \in Conclusions : PublishTestSuiteFinished(s, c)

CollectorStep ==
    \/ CollectTERCC
    \/ CollectTriggered
    \/ CollectCanceled
    \/ CollectActivityFinished
    \/ CollectMainSuitesStarted
    \/ CollectTestSuiteFinished

Next ==
    \/ Repository_Next
    \/ CallCollect
    \/ CallCollectActivity
    \/ CollectorStep

\* A call in progress runs to its end (its queries answer or fail), and the
\* caller keeps polling with Collect: whatever else it calls in between, a
\* Collect call starts again each time it is possible infinitely often.
Fairness == WF_vars(CollectorStep) /\ SF_vars(CallCollect)

Spec == Init /\ [][Next]_vars /\ Fairness

-----------------------------------------------------------------------------
(***************************************************************************)
(* Properties.                                                             *)
(***************************************************************************)

\* The aggregate is causally closed whatever the repository published between
\* the queries of a call: the Activity exists only under a TERCC, Canceled and
\* Finished only under Triggered (they are queried by its meta.id), and main
\* suites only under Triggered (collector.go:60-69, 94-105).
CausallyClosed ==
    /\ events.activity => events.tercc
    /\ events.triggered => events.activity
    /\ events.canceled \/ events.finished => events.triggered
    /\ Len(events.mainSuites) > 0 => events.triggered

\* MainSuites never holds two entries for one suite id, across any number of
\* Collect calls, failed ones included (the merge at collector.go:111-142).
NoDuplicateSuites ==
    \A i, j \in 1..Len(events.mainSuites) :
        i # j => events.mainSuites[i].id # events.mainSuites[j].id

\* The suite of MainSuites with id s, once known, is still there after every
\* step, and a Finished event once attached stays attached and unchanged.
SuiteKept(ms, ms2, s) ==
    s \in SuiteIds(ms) =>
        /\ s \in SuiteIds(ms2)
        /\ KnownFin(ms, s) # NoEvent => KnownFin(ms2, s) = KnownFin(ms, s)

\* Monotonicity: no step of a Collect or CollectActivity call, successful or
\* failed, clears a field of the aggregate or loses or changes a suite.
GraphGrows ==
    [][ /\ \A f \in {"tercc", "activity", "triggered", "canceled", "finished"} :
              events[f] => events'[f]
        /\ \A s \in Suites : SuiteKept(events.mainSuites, events'.mainSuites, s)
      ]_events

\* A main suite's finished event in the repository.
SuiteCollected(s) ==
    \E i \in 1..Len(events.mainSuites) :
        events.mainSuites[i].id = s /\ events.mainSuites[i].fin # NoEvent

\* A caller that keeps calling Collect eventually holds the finished event of
\* every main suite the repository has, despite transport errors.
SuitesEventuallyCollected ==
    \A s \in Suites : (repo.suiteFin[s] # NoEvent) ~> SuiteCollected(s)

\* A caller that keeps calling Collect eventually sees a cancellation the
\* repository holds (spec: Collect first ensures the activity-level data;
\* the evaluator reports "activity was canceled" above all else).
CanceledEventuallyCollected ==
    repo.canceled ~> events.canceled

\* The query a call is about to make matches the aggregate: the activity
\* queries run only under a TERCC, and the canceled, finished and suite
\* queries only once Triggered is known.  Together with the properties above
\* it makes the inductive invariant CollectorInv.
PcConsistent ==
    /\ pc \in {"triggered", "canceled", "actFinished"} => events.activity
    /\ pc \in {"canceled", "actFinished", "started", "suiteFinished"} => events.triggered

CollectorInv == TypeOK /\ CausallyClosed /\ NoDuplicateSuites /\ PcConsistent

\* The suites of a MainSuites slice, as a set.
SuiteSet(ms) == {ms[i] : i \in 1..Len(ms)}

\* Idempotence (spec section 8): a Collect that brings no new suite or
\* finished event leaves MainSuites identical, order included; the order is
\* what decides which failure message GetResults reports.
Idempotence ==
    [][ SuiteSet(events'.mainSuites) = SuiteSet(events.mainSuites)
          => events'.mainSuites = events.mainSuites ]_events

-----------------------------------------------------------------------------
(***************************************************************************)
(* Refinement: the Collector implements EventAggregate.  The mapping reads *)
(* the repository and the aggregate as the sets of events they hold; the   *)
(* order of MainSuites, the pointer of the Activity, the call in progress  *)
(* and its locals have no image.                                           *)
(***************************************************************************)
RunFact(k) == [kind |-> k, suite |-> NoEvent, fin |-> NoEvent]

\* The events repository r holds.
HeldFacts(r) ==
    {RunFact(k) : k \in {k \in {"tercc", "triggered", "canceled", "finished"} : r[k]}}
    \cup {[kind |-> "started", suite |-> s, fin |-> NoEvent] : s \in r.started}
    \cup {[kind |-> "suiteFinished", suite |-> s, fin |-> r.suiteFin[s]] :
             s \in {s \in Suites : r.suiteFin[s] # NoEvent}}

\* The events aggregate ev holds; Canceled, Triggered and Finished are
\* fields of the Activity.
KnownFacts(ev) ==
    {RunFact(k) : k \in {k \in {"tercc"} : ev.tercc}
                   \cup {k \in {"triggered", "canceled", "finished"} :
                            ev.activity /\ ev[k]}}
    \cup {[kind |-> "started", suite |-> ev.mainSuites[i].id, fin |-> NoEvent] :
             i \in 1..Len(ev.mainSuites)}
    \cup {[kind |-> "suiteFinished", suite |-> ev.mainSuites[i].id,
           fin |-> ev.mainSuites[i].fin] :
             i \in {i \in 1..Len(ev.mainSuites) : ev.mainSuites[i].fin # NoEvent}}

Agg == INSTANCE EventAggregate WITH store <- HeldFacts(repo),
                                    known <- KnownFacts(events)

\* Every behaviour of a Collector polled by any caller, with transport
\* errors and a repository publishing between its queries, is a behaviour
\* of EventAggregate: the aggregate only grows, within what the repository
\* holds, and stays causally closed (spec sections 4.1 and 8).
AggregateRefinement == Agg!Spec


(***************************************************************************)
(* The invariant the refinement rests on, beside CollectorInv.             *)
(***************************************************************************)
\* The repository is causally ordered (its publish actions).
RepoClosed ==
    /\ repo.triggered => repo.tercc
    /\ repo.canceled \/ repo.finished \/ repo.started # {} => repo.triggered
    /\ \A s \in Suites : repo.suiteFin[s] # NoEvent => s \in repo.started

\* The aggregate holds only events the repository holds.
EventsHeld ==
    /\ events.tercc => repo.tercc
    /\ events.activity /\ events.triggered => repo.triggered
    /\ events.activity /\ events.canceled => repo.canceled
    /\ events.activity /\ events.finished => repo.finished
    /\ \A i \in 1..Len(events.mainSuites) :
          LET t == events.mainSuites[i] IN
          /\ t.id \in repo.started
          /\ t.fin # NoEvent => t.fin = repo.suiteFin[t.id]

\* So does Collect's map.
MapHeld ==
    \A s \in Suites :
        /\ suites[s] # Absent => s \in repo.started
        /\ suites[s] \notin {Absent, NoEvent} => suites[s] = repo.suiteFin[s]

\* While the finished-event loop runs, the map holds the *TestSuite of every
\* known suite, and a suite the loop has yet to visit has no Finished.
MapAgrees ==
    /\ pc = "suiteFinished" =>
          \A i \in 1..Len(events.mainSuites) :
              suites[events.mainSuites[i].id] = events.mainSuites[i].fin
    /\ \A s \in pending : suites[s] = NoEvent

RefinementInv == CollectorInv /\ RepoClosed /\ EventsHeld /\ MapHeld /\ MapAgrees

=============================================================================
