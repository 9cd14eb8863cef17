--------------------- MODULE CollectorRefinementProofs ----------------------
(***************************************************************************)
(* Proof that the Collector implements EventAggregate under the mapping    *)
(* HeldFacts(repo), KnownFacts(events), for every set of suites and        *)
(* conclusions and every bound on transport errors.                        *)
(***************************************************************************)
EXTENDS CollectorProofs

(***************************************************************************)
(* Facts about the mapping.                                                *)
(***************************************************************************)

\* ev2 holds every event ev holds.
Covers(ev, ev2) ==
    /\ ev.tercc => ev2.tercc
    /\ ev.activity => ev2.activity
    /\ \A k \in {"triggered", "canceled", "finished"} :
          ev.activity /\ ev[k] => ev2.activity /\ ev2[k]
    /\ \A i \in 1..Len(ev.mainSuites) :
          \E j \in 1..Len(ev2.mainSuites) :
             /\ ev2.mainSuites[j].id = ev.mainSuites[i].id
             /\ ev.mainSuites[i].fin # NoEvent =>
                   ev2.mainSuites[j].fin = ev.mainSuites[i].fin

\* EventsHeld, CausallyClosed and RepoClosed of an aggregate ev and a
\* repository r, so that the lemmas apply to the primed state too.
Within(ev, r) ==
    /\ ev.tercc => r.tercc
    /\ \A k \in {"triggered", "canceled", "finished"} : ev.activity /\ ev[k] => r[k]
    /\ \A i \in 1..Len(ev.mainSuites) :
          /\ ev.mainSuites[i].id \in r.started
          /\ ev.mainSuites[i].fin # NoEvent =>
                ev.mainSuites[i].fin = r.suiteFin[ev.mainSuites[i].id]

ClosedEv(ev) ==
    /\ ev.activity => ev.tercc
    /\ ev.triggered => ev.activity
    /\ ev.canceled \/ ev.finished => ev.triggered
    /\ Len(ev.mainSuites) > 0 => ev.triggered

ClosedRepo(r) ==
    /\ r.triggered => r.tercc
    /\ r.canceled \/ r.finished \/ r.started # {} => r.triggered
    /\ \A s \in Suites : r.suiteFin[s] # NoEvent => s \in r.started

LEMMA StateForms ==
    /\ EventsHeld <=> Within(events, repo)
    /\ CausallyClosed => ClosedEv(events)
    /\ RepoClosed <=> ClosedRepo(repo)
BY DEF EventsHeld, Within, CausallyClosed, ClosedEv, RepoClosed, ClosedRepo

\* An aggregate that covers another knows at least its events.
LEMMA KnownFactsMono ==
    ASSUME NEW ev \in Events, NEW ev2 \in Events, Covers(ev, ev2)
    PROVE  KnownFacts(ev) \subseteq KnownFacts(ev2)
<1> SUFFICES ASSUME NEW x \in KnownFacts(ev) PROVE x \in KnownFacts(ev2)
  OBVIOUS
<1>1. CASE x \in {RunFact(k) : k \in {k \in {"tercc"} : ev.tercc}
                   \cup {k \in {"triggered", "canceled", "finished"} :
                            ev.activity /\ ev[k]}}
  BY <1>1 DEF Covers, KnownFacts, RunFact
<1>2. CASE \E i \in 1..Len(ev.mainSuites) :
              x = [kind |-> "started", suite |-> ev.mainSuites[i].id, fin |-> NoEvent]
  BY <1>2 DEF Covers, KnownFacts
<1>3. CASE \E i \in 1..Len(ev.mainSuites) :
              /\ ev.mainSuites[i].fin # NoEvent
              /\ x = [kind |-> "suiteFinished", suite |-> ev.mainSuites[i].id,
                      fin |-> ev.mainSuites[i].fin]
  <2>1. PICK i \in 1..Len(ev.mainSuites) :
              /\ ev.mainSuites[i].fin # NoEvent
              /\ x = [kind |-> "suiteFinished", suite |-> ev.mainSuites[i].id,
                      fin |-> ev.mainSuites[i].fin]
    BY <1>3
  <2>2. PICK j \in 1..Len(ev2.mainSuites) :
             /\ ev2.mainSuites[j].id = ev.mainSuites[i].id
             /\ ev2.mainSuites[j].fin = ev.mainSuites[i].fin
    BY <2>1 DEF Covers
  <2>. QED
    BY <2>1, <2>2 DEF KnownFacts
<1>. QED
  BY <1>1, <1>2, <1>3 DEF KnownFacts

\* What the aggregate knows, the repository holds.
LEMMA KnownHeld ==
    ASSUME NEW ev \in Events, NEW r \in Repository, Within(ev, r)
    PROVE  KnownFacts(ev) \subseteq HeldFacts(r)
<1> SUFFICES ASSUME NEW x \in KnownFacts(ev) PROVE x \in HeldFacts(r)
  OBVIOUS
<1>. DEFINE ms == ev.mainSuites
<1>1. ms \in Seq(TestSuite)
  BY DEF Events
<1>2. CASE x \in {RunFact(k) : k \in {k \in {"tercc"} : ev.tercc}
                   \cup {k \in {"triggered", "canceled", "finished"} :
                            ev.activity /\ ev[k]}}
  BY <1>2 DEF Within, HeldFacts
<1>3. CASE \E i \in 1..Len(ms) :
              x = [kind |-> "started", suite |-> ms[i].id, fin |-> NoEvent]
  <2>1. PICK i \in 1..Len(ms) :
              x = [kind |-> "started", suite |-> ms[i].id, fin |-> NoEvent]
    BY <1>3
  <2>2. ms[i].id \in r.started
    BY <1>1, <2>1 DEF Within
  <2>. QED
    BY <2>1, <2>2 DEF HeldFacts
<1>4. CASE \E i \in 1..Len(ms) :
              /\ ms[i].fin # NoEvent
              /\ x = [kind |-> "suiteFinished", suite |-> ms[i].id, fin |-> ms[i].fin]
  <2>1. PICK i \in 1..Len(ms) :
              /\ ms[i].fin # NoEvent
              /\ x = [kind |-> "suiteFinished", suite |-> ms[i].id, fin |-> ms[i].fin]
    BY <1>4
  <2>2. ms[i] \in TestSuite
    BY <1>1
  <2>3. ms[i].fin = r.suiteFin[ms[i].id]
    BY <2>1 DEF Within
  <2>4. ms[i].id \in Suites
    BY <2>2 DEF TestSuite
  <2>. QED
    BY <2>1, <2>3, <2>4 DEF HeldFacts
<1>. QED
  BY <1>2, <1>3, <1>4 DEF KnownFacts

\* The aggregate's events are causally closed.
LEMMA KnownClosed ==
    ASSUME NEW ev \in Events, ClosedEv(ev)
    PROVE  Agg!Closed(KnownFacts(ev))
<1>. DEFINE K == KnownFacts(ev)
            ms == ev.mainSuites
<1>1. ms \in Seq(TestSuite)
  BY DEF Events
<1>2. Agg!F("triggered") \in K => Agg!F("tercc") \in K
  BY DEF Agg!F, KnownFacts, RunFact, ClosedEv
<1>3. ASSUME NEW k \in {"canceled", "finished"}, Agg!F(k) \in K
      PROVE  Agg!F("triggered") \in K
  <2>1. ev.activity /\ ev[k]
    BY <1>3 DEF Agg!F, KnownFacts, RunFact
  <2>. QED
    BY <2>1, <1>3 DEF Agg!F, KnownFacts, RunFact, ClosedEv
<1>4. ASSUME NEW s \in Suites, Agg!Started(s) \in K
      PROVE  Agg!F("triggered") \in K
  <2>1. Agg!Started(s) \notin
          {RunFact(k) : k \in {k \in {"tercc"} : ev.tercc}
                         \cup {k \in {"triggered", "canceled", "finished"} :
                                  ev.activity /\ ev[k]}}
    BY DEF Agg!Started, RunFact
  <2>2. Agg!Started(s) \notin
          {[kind |-> "suiteFinished", suite |-> ms[i].id, fin |-> ms[i].fin] :
             i \in {i \in 1..Len(ms) : ms[i].fin # NoEvent}}
    BY DEF Agg!Started
  <2>3. \E i \in 1..Len(ms) : TRUE
    BY <1>4, <2>1, <2>2 DEF KnownFacts
  <2>4. Len(ms) > 0
    BY <1>1, <2>3
  <2>. QED
    BY <2>4 DEF Agg!F, KnownFacts, RunFact, ClosedEv
<1>5. ASSUME NEW s \in Suites, NEW c \in Conclusions,
             Agg!SuiteFinished(s, c) \in K
      PROVE  Agg!Started(s) \in K
  BY <1>5 DEF Agg!Started, Agg!SuiteFinished, KnownFacts, RunFact
<1>. QED
  BY <1>2, <1>3, <1>4, <1>5 DEF Agg!Closed

\* The repository's events are causally closed, finish once, and are facts.
LEMMA HeldWellFormed ==
    ASSUME NEW r \in Repository, ClosedRepo(r)
    PROVE  /\ HeldFacts(r) \subseteq Agg!Fact
           /\ Agg!Closed(HeldFacts(r))
           /\ Agg!FinishedOnce(HeldFacts(r))
<1>. DEFINE H == HeldFacts(r)
<1>1. r \in Repository
  OBVIOUS
<1>2. H \subseteq Agg!Fact
  BY <1>1, ConstantsAssumption DEF HeldFacts, RunFact, Agg!Fact, Repository,
     FinishedValue
<1>3. Agg!Closed(H)
  <2>1. Agg!F("triggered") \in H => Agg!F("tercc") \in H
    BY DEF Agg!F, HeldFacts, RunFact, ClosedRepo
  <2>2. ASSUME NEW k \in {"canceled", "finished"}, Agg!F(k) \in H
        PROVE  Agg!F("triggered") \in H
    <3>1. r[k]
      BY <2>2 DEF Agg!F, HeldFacts, RunFact
    <3>. QED
      BY <3>1 DEF Agg!F, HeldFacts, RunFact, ClosedRepo
  <2>3. ASSUME NEW s \in Suites, Agg!Started(s) \in H
        PROVE  Agg!F("triggered") \in H
    <3>1. s \in r.started
      BY <2>3 DEF Agg!Started, HeldFacts, RunFact
    <3>. QED
      BY <3>1 DEF Agg!F, HeldFacts, RunFact, ClosedRepo
  <2>4. ASSUME NEW s \in Suites, NEW c \in Conclusions,
               Agg!SuiteFinished(s, c) \in H
        PROVE  Agg!Started(s) \in H
    <3>1. r.suiteFin[s] = c
      BY <2>4 DEF Agg!SuiteFinished, HeldFacts, RunFact
    <3>2. s \in r.started
      BY <3>1, ConstantsAssumption DEF ClosedRepo
    <3>. QED
      BY <3>2 DEF Agg!Started, HeldFacts
  <2>. QED
    BY <2>1, <2>2, <2>3, <2>4 DEF Agg!Closed
<1>4. Agg!FinishedOnce(H)
  BY DEF Agg!FinishedOnce, Agg!SuiteFinished, HeldFacts, RunFact
<1>. QED
  BY <1>2, <1>3, <1>4

\* Publishing loses no event of the repository.
LEMMA HeldGrows ==
    ASSUME TypeOK, Repository_Next
    PROVE  HeldFacts(repo) \subseteq HeldFacts(repo')
<1>1. repo \in Repository
  BY DEF TypeOK
<1>2. CASE PublishTERCC \/ PublishActivityTriggered
           \/ PublishActivityCanceled \/ PublishActivityFinished
  BY <1>1, <1>2 DEF PublishTERCC, PublishActivityTriggered,
     PublishActivityCanceled, PublishActivityFinished, HeldFacts, Repository
<1>3. ASSUME NEW s \in Suites, PublishTestSuiteStarted(s)
      PROVE  HeldFacts(repo) \subseteq HeldFacts(repo')
  BY <1>1, <1>3 DEF PublishTestSuiteStarted, HeldFacts, Repository
<1>4. ASSUME NEW s \in Suites, NEW c \in Conclusions,
             PublishTestSuiteFinished(s, c)
      PROVE  HeldFacts(repo) \subseteq HeldFacts(repo')
  BY <1>1, <1>4 DEF PublishTestSuiteFinished, HeldFacts, Repository
<1>. QED
  BY <1>2, <1>3, <1>4 DEF Repository_Next

\* A slice built from Collect's map has exactly the map's keys, each with
\* its map entry: an injective enumeration of a finite set is onto it.
LEMMA SliceEntries ==
    ASSUME NEW m \in [Suites -> FinishedValue \cup {Absent}],
           NEW ns \in SlicesOf(m)
    PROVE  /\ \A i \in 1..Len(ns) : /\ ns[i].id \in Suites
                                    /\ m[ns[i].id] # Absent
                                    /\ ns[i].fin = m[ns[i].id]
           /\ \A s \in Suites : m[s] # Absent =>
                 \E i \in 1..Len(ns) : ns[i].id = s
<1> DEFINE D == {s \in Suites : m[s] # Absent}
           n == Cardinality(D)
<1>1. IsFiniteSet(D) /\ n \in Nat
  BY ConstantsAssumption, FS_Subset, FS_CardinalityType
<1>2. PICK p \in Orders(D) :
        ns = [i \in 1..n |-> [id |-> p[i], fin |-> m[p[i]]]]
  BY DEF SlicesOf
<1>3. Len(ns) = n
  BY <1>1, <1>2
<1>4. p \in Injection(1..n, D)
  BY <1>2 DEF Orders, Injection, IsInjective
<1>5. Cardinality(1..n) = n
  BY <1>1, FS_Interval
<1>6. p \in Surjection(1..n, D)
  BY <1>1, <1>4, <1>5, FS_Injection
<1>7. \A i \in 1..Len(ns) : /\ ns[i].id \in Suites
                            /\ m[ns[i].id] # Absent
                            /\ ns[i].fin = m[ns[i].id]
  BY <1>2, <1>3 DEF Orders
<1>8. \A s \in Suites : m[s] # Absent => \E i \in 1..Len(ns) : ns[i].id = s
  BY <1>2, <1>3, <1>6 DEF Surjection
<1>. QED
  BY <1>7, <1>8


(***************************************************************************)
(* The invariant RefinementInv is inductive.                               *)
(***************************************************************************)
\* Map m holds only events the repository holds.
MHeld(m) ==
    \A s \in Suites :
        /\ m[s] # Absent => s \in repo.started
        /\ m[s] \notin {Absent, NoEvent} => m[s] = repo.suiteFin[s]

\* Map m has every suite of ms, with its Finished event if it has one.
Agrees(ms, m) ==
    \A i \in 1..Len(ms) :
        /\ m[ms[i].id] # Absent
        /\ ms[i].fin # NoEvent => m[ms[i].id] = ms[i].fin

\* The end of Collect, from a map that holds only repository events and has
\* every known suite, keeps the invariant and loses no known event.
LEMMA ConvertStep ==
    ASSUME RefinementInv, events.triggered,
           NEW m \in [Suites -> FinishedValue \cup {Absent}],
           MHeld(m), Agrees(events.mainSuites, m),
           ConvertSuites(m), UNCHANGED <<repo, caller, failures>>
    PROVE  RefinementInv' /\ Covers(events, events')
<1>. DEFINE ms == events.mainSuites
<1>1. CollectorInv'
  BY ConvertSuitesInv DEF RefinementInv
<1>2. PICK ns \in SlicesOf(m) : events' = [events EXCEPT !.mainSuites = ns]
  BY DEF ConvertSuites
<1>3. /\ \A i \in 1..Len(ns) : /\ ns[i].id \in Suites
                               /\ m[ns[i].id] # Absent
                               /\ ns[i].fin = m[ns[i].id]
      /\ \A s \in Suites : m[s] # Absent => \E i \in 1..Len(ns) : ns[i].id = s
  BY SliceEntries
<1>4. ms \in Seq(TestSuite) /\ events \in Events
  BY DEF RefinementInv, CollectorInv, TypeOK, Events
<1>5. EventsHeld'
  <2>1. /\ events'.tercc = events.tercc /\ events'.activity = events.activity
        /\ events'.triggered = events.triggered
        /\ events'.canceled = events.canceled
        /\ events'.finished = events.finished
        /\ events'.mainSuites = ns
    BY <1>2, <1>4 DEF Events
  <2>2. ASSUME NEW i \in 1..Len(ns)
        PROVE  /\ ns[i].id \in repo.started
               /\ ns[i].fin # NoEvent => ns[i].fin = repo.suiteFin[ns[i].id]
    <3>1. ns[i].id \in Suites /\ m[ns[i].id] # Absent /\ ns[i].fin = m[ns[i].id]
      BY <1>3
    <3>. QED
      BY <3>1 DEF MHeld
  <2>3. /\ events.tercc => repo.tercc
        /\ events.activity /\ events.triggered => repo.triggered
        /\ events.activity /\ events.canceled => repo.canceled
        /\ events.activity /\ events.finished => repo.finished
    BY DEF RefinementInv, EventsHeld
  <2>. QED
    BY <2>1, <2>2, <2>3 DEF EventsHeld
<1>6. RepoClosed' /\ MapHeld' /\ MapAgrees'
  BY AbsentAssumption, ConstantsAssumption
  DEF ConvertSuites, Return, RefinementInv, RepoClosed, MapHeld, MapAgrees,
      EmptyMap, FinishedValue
<1>7. Covers(events, events')
  <2>1. ASSUME NEW i \in 1..Len(ms)
        PROVE  \E j \in 1..Len(ns) :
                  /\ ns[j].id = ms[i].id
                  /\ ms[i].fin # NoEvent => ns[j].fin = ms[i].fin
    <3>0. ms[i] \in TestSuite
      BY <1>4
    <3>1. ms[i].id \in Suites /\ m[ms[i].id] # Absent
      BY <3>0 DEF Agrees, TestSuite
    <3>2. PICK j \in 1..Len(ns) : ns[j].id = ms[i].id
      BY <1>3, <3>1
    <3>. QED
      BY <1>3, <3>2 DEF Agrees
  <2>. QED
    BY <1>2, <1>5, <2>1 DEF Covers
<1>. QED
  BY <1>1, <1>5, <1>6, <1>7 DEF RefinementInv

\* Without duplicates, the known Finished of a suite is that of its entry.
LEMMA KnownFinAt ==
    ASSUME NEW ms \in Seq(TestSuite), NEW i \in 1..Len(ms),
           \A a, b \in 1..Len(ms) : a # b => ms[a].id # ms[b].id
    PROVE  KnownFin(ms, ms[i].id) = ms[i].fin
BY DEF KnownFin

\* The merged map holds only repository events and has every known suite
\* with its Finished event.
LEMMA MergedProps ==
    ASSUME RefinementInv
    PROVE  /\ MergedSuites \in [Suites -> FinishedValue \cup {Absent}]
           /\ MHeld(MergedSuites)
           /\ \A i \in 1..Len(events.mainSuites) :
                 MergedSuites[events.mainSuites[i].id] = events.mainSuites[i].fin
           /\ Agrees(events.mainSuites, MergedSuites)
<1>. DEFINE ms == events.mainSuites
<1>1. ms \in Seq(TestSuite)
  BY DEF RefinementInv, CollectorInv, TypeOK, Events
<1>2. MergedSuites \in [Suites -> FinishedValue \cup {Absent}]
  BY KnownFinType DEF MergedSuites, RefinementInv, CollectorInv, TypeOK, Events,
     FinishedValue
<1>3. \A i \in 1..Len(ms) : MergedSuites[ms[i].id] = ms[i].fin
  <2> SUFFICES ASSUME NEW i \in 1..Len(ms) PROVE MergedSuites[ms[i].id] = ms[i].fin
    OBVIOUS
  <2>0. ms[i] \in TestSuite
    BY <1>1
  <2>1. ms[i].id \in SuiteIds(ms) /\ ms[i].id \in Suites
    BY <2>0 DEF SuiteIds, TestSuite
  <2>2. KnownFin(ms, ms[i].id) = ms[i].fin
    BY <1>1, KnownFinAt DEF RefinementInv, CollectorInv, NoDuplicateSuites
  <2>. QED
    BY <2>1, <2>2 DEF MergedSuites
<1>4. MHeld(MergedSuites)
  <2> SUFFICES ASSUME NEW s \in Suites
               PROVE  /\ MergedSuites[s] # Absent => s \in repo.started
                      /\ MergedSuites[s] \notin {Absent, NoEvent} =>
                            MergedSuites[s] = repo.suiteFin[s]
    BY DEF MHeld
  <2>1. CASE s \in SuiteIds(ms)
    <3>1. PICK i \in 1..Len(ms) : ms[i].id = s
      BY <2>1 DEF SuiteIds
    <3>2. MergedSuites[s] = ms[i].fin
      BY <1>3, <3>1
    <3>. QED
      BY <3>1, <3>2 DEF RefinementInv, EventsHeld
  <2>2. CASE s \notin SuiteIds(ms)
    BY <2>2, AbsentAssumption DEF MergedSuites, FinishedValue
  <2>. QED
    BY <2>1, <2>2
<1>5. Agrees(ms, MergedSuites)
  <2> SUFFICES ASSUME NEW i \in 1..Len(ms)
               PROVE  /\ MergedSuites[ms[i].id] # Absent
                      /\ ms[i].fin # NoEvent => MergedSuites[ms[i].id] = ms[i].fin
    BY DEF Agrees
  <2>1. ms[i] \in TestSuite
    BY <1>1
  <2>2. ms[i].fin \in FinishedValue
    BY <2>1 DEF TestSuite
  <2>. QED
    BY <1>3, <2>2, AbsentAssumption
<1>. QED
  BY <1>2, <1>3, <1>4, <1>5


\* An aggregate covers itself.
LEMMA CoversRefl ==
    ASSUME NEW ev \in Events
    PROVE  Covers(ev, ev)
BY DEF Covers

\* A failing query keeps the invariant and the aggregate.
LEMMA RequestFailsRef ==
    ASSUME RefinementInv, RequestFails
    PROVE  RefinementInv' /\ Covers(events, events')
<1>1. CollectorInv'
  BY RequestFailsInv DEF RefinementInv
<1>2. events \in Events
  BY DEF RefinementInv, CollectorInv, TypeOK
<1>3. (RepoClosed /\ EventsHeld /\ MapHeld /\ MapAgrees)'
  BY AbsentAssumption, ConstantsAssumption
  DEF RequestFails, RefinementInv, RepoClosed, EventsHeld, MapHeld, MapAgrees,
      EmptyMap, FinishedValue
<1>. QED
  BY <1>1, <1>2, <1>3, CoversRefl DEF RequestFails, RefinementInv

\* The invariant's clauses other than CollectorInv.
RefRest == RepoClosed /\ EventsHeld /\ MapHeld /\ MapAgrees

\* An update of the run-level fields alone that clears none of them.
LEMMA ScalarCovers ==
    ASSUME NEW ev \in Events, NEW ev2 \in Events, ev2.mainSuites = ev.mainSuites,
           ev.tercc => ev2.tercc, ev.activity => ev2.activity,
           ev.triggered => ev2.triggered, ev.canceled => ev2.canceled,
           ev.finished => ev2.finished
    PROVE  Covers(ev, ev2)
<1>1. \A k \in {"triggered", "canceled", "finished"} :
         ev.activity /\ ev[k] => ev2.activity /\ ev2[k]
  OBVIOUS
<1>2. \A i \in 1..Len(ev.mainSuites) :
         \E j \in 1..Len(ev2.mainSuites) :
            /\ ev2.mainSuites[j].id = ev.mainSuites[i].id
            /\ ev.mainSuites[i].fin # NoEvent =>
                  ev2.mainSuites[j].fin = ev.mainSuites[i].fin
  OBVIOUS
<1>. QED
  BY <1>1, <1>2 DEF Covers

\* An aggregate whose run-level events the repository holds, with the suites
\* of one within it, is within it.
LEMMA ScalarWithin ==
    ASSUME NEW ev \in Events, NEW ev0 \in Events, NEW r \in Repository,
           Within(ev0, r), ev.mainSuites = ev0.mainSuites,
           ev.tercc => r.tercc, ev.activity /\ ev.triggered => r.triggered,
           ev.activity /\ ev.canceled => r.canceled,
           ev.activity /\ ev.finished => r.finished
    PROVE  Within(ev, r)
<1>1. \A k \in {"triggered", "canceled", "finished"} : ev.activity /\ ev[k] => r[k]
  OBVIOUS
<1>. QED
  BY <1>1 DEF Within

\* A query of the activity keeps the invariant when the aggregate it leaves
\* stays within the repository: the map and the suites to visit are kept,
\* or reset by a return.
LEMMA QueryStep ==
    ASSUME RefinementInv, CollectorInv', repo' = repo, Within(events', repo),
           pc' # "suiteFinished",
           \/ suites' = suites /\ pending' = pending
           \/ suites' = EmptyMap /\ pending' = {}
    PROVE  RefinementInv'
<1>1. RepoClosed'
  BY DEF RefinementInv, RepoClosed
<1>2. EventsHeld'
  BY DEF Within, EventsHeld
<1>3. MapHeld'
  BY AbsentAssumption DEF RefinementInv, MapHeld, EmptyMap
<1>4. MapAgrees'
  BY DEF RefinementInv, MapAgrees
<1>. QED
  BY <1>1, <1>2, <1>3, <1>4 DEF RefinementInv

LEMMA RefStep ==
    ASSUME RefinementInv, [Next]_vars
    PROVE  RefinementInv' /\ Covers(events, events')
<1>0. CollectorInv'
  BY InvStep DEF RefinementInv
<1>a. events \in Events /\ repo \in Repository
  BY DEF RefinementInv, CollectorInv, TypeOK
<1>1. CASE Repository_Next
  <2>1. UNCHANGED <<events, pc, caller, suites, pending, failures>>
    BY <1>1 DEF Repository_Next, PublishTERCC, PublishActivityTriggered,
       PublishActivityCanceled, PublishActivityFinished,
       PublishTestSuiteStarted, PublishTestSuiteFinished
  <2>2. ASSUME PublishTERCC \/ PublishActivityTriggered
               \/ PublishActivityCanceled \/ PublishActivityFinished
        PROVE  RefRest'
    <3>1. repo'.started = repo.started /\ repo'.suiteFin = repo.suiteFin
          /\ (repo.tercc => repo'.tercc) /\ (repo.triggered => repo'.triggered)
          /\ (repo.canceled => repo'.canceled) /\ (repo.finished => repo'.finished)
      BY <1>a, <2>2 DEF PublishTERCC, PublishActivityTriggered,
         PublishActivityCanceled, PublishActivityFinished, Repository
    <3>2. RepoClosed'
      BY <1>a, <2>2 DEF PublishTERCC, PublishActivityTriggered,
         PublishActivityCanceled, PublishActivityFinished, Repository,
         RefinementInv, RepoClosed
    <3>3. EventsHeld'
      BY <2>1, <3>1 DEF RefinementInv, EventsHeld
    <3>4. MapHeld'
      BY <2>1, <3>1 DEF RefinementInv, MapHeld
    <3>5. MapAgrees'
      BY <2>1 DEF RefinementInv, MapAgrees
    <3>. QED
      BY <3>2, <3>3, <3>4, <3>5 DEF RefRest
  <2>3. ASSUME NEW s \in Suites, PublishTestSuiteStarted(s)
        PROVE  RefRest'
    <3>1. repo' = [repo EXCEPT !.started = @ \cup {s}] /\ repo.triggered
      BY <2>3 DEF PublishTestSuiteStarted
    <3>2. RepoClosed'
      BY <1>a, <3>1 DEF Repository, RefinementInv, RepoClosed
    <3>3. EventsHeld'
      BY <1>a, <2>1, <3>1 DEF Repository, RefinementInv, EventsHeld
    <3>4. MapHeld'
      BY <1>a, <2>1, <3>1 DEF Repository, RefinementInv, MapHeld
    <3>5. MapAgrees'
      BY <2>1 DEF RefinementInv, MapAgrees
    <3>. QED
      BY <3>2, <3>3, <3>4, <3>5 DEF RefRest
  <2>4. ASSUME NEW s \in Suites, NEW c \in Conclusions,
               PublishTestSuiteFinished(s, c)
        PROVE  RefRest'
    <3>1. repo' = [repo EXCEPT !.suiteFin[s] = c] /\ repo.suiteFin[s] = NoEvent
          /\ s \in repo.started
      BY <2>4 DEF PublishTestSuiteFinished
    <3>2. RepoClosed'
      BY <1>a, <3>1 DEF RefinementInv, RepoClosed, Repository
    <3>3. EventsHeld'
      BY <1>a, <2>1, <3>1 DEF RefinementInv, EventsHeld, Repository
    <3>4. MapHeld'
      BY <1>a, <2>1, <3>1 DEF RefinementInv, MapHeld, Repository
    <3>5. MapAgrees'
      BY <2>1 DEF RefinementInv, MapAgrees
    <3>. QED
      BY <3>2, <3>3, <3>4, <3>5 DEF RefRest
  <2>5. RefRest'
    BY <1>1, <2>2, <2>3, <2>4 DEF Repository_Next
  <2>. QED
    BY <1>0, <1>a, <2>1, <2>5, CoversRefl DEF RefRest, RefinementInv
<1>2. CASE CallCollect \/ CallCollectActivity
  <2>1. UNCHANGED <<repo, events, suites, pending, failures>> /\ pc = "idle"
        /\ pc' # "suiteFinished"
    BY <1>2 DEF CallCollect, CallCollectActivity
  <2>. QED
    BY <1>0, <1>a, <2>1, CoversRefl
    DEF RefinementInv, RepoClosed, EventsHeld, MapHeld, MapAgrees
<1>3. CASE CollectTERCC
  <2>1. CASE ~events.tercc /\ RequestFails
    BY <2>1, RequestFailsRef
  <2>2. CASE ~(~events.tercc /\ RequestFails)
    <3> DEFINE t == events.tercc \/ repo.tercc
    <3>1. /\ events' = [events EXCEPT !.tercc = t, !.activity = @ \/ t]
          /\ repo' = repo /\ pc' # "suiteFinished"
          /\ \/ suites' = suites /\ pending' = pending
             \/ suites' = EmptyMap /\ pending' = {}
      BY <1>3, <2>2 DEF CollectTERCC, Return
    <3>a. events' \in Events
      BY <1>0 DEF CollectorInv, TypeOK
    <3>b. /\ events'.tercc = t /\ events'.activity = (events.activity \/ t)
          /\ events'.triggered = events.triggered /\ events'.canceled = events.canceled
          /\ events'.finished = events.finished
          /\ events'.mainSuites = events.mainSuites
      BY <1>a, <3>1 DEF Events
    <3>c. /\ events.triggered => events.activity
          /\ events.canceled \/ events.finished => events.triggered
      BY DEF RefinementInv, CollectorInv, CausallyClosed
    <3>2. Within(events', repo)
      BY <1>a, <3>a, <3>b, <3>c, ScalarWithin, StateForms DEF RefinementInv, EventsHeld
    <3>3. Covers(events, events')
      BY <1>a, <3>a, <3>b, ScalarCovers
    <3>. QED
      BY <1>0, <3>1, <3>2, <3>3, QueryStep
  <2>. QED
    BY <2>1, <2>2
<1>4. CASE CollectTriggered
  <2>1. CASE ~events.triggered /\ RequestFails
    BY <2>1, RequestFailsRef
  <2>2. CASE ~(~events.triggered /\ RequestFails)
    <3>1. /\ events' = [events EXCEPT !.triggered = events.triggered \/ repo.triggered]
          /\ repo' = repo /\ pc' # "suiteFinished"
          /\ \/ suites' = suites /\ pending' = pending
             \/ suites' = EmptyMap /\ pending' = {}
      BY <1>4, <2>2 DEF CollectTriggered, Return
    <3>2. events.activity
      BY <1>4 DEF CollectTriggered, RefinementInv, CollectorInv, PcConsistent
    <3>a. events' \in Events
      BY <1>0 DEF CollectorInv, TypeOK
    <3>b. /\ events'.triggered = (events.triggered \/ repo.triggered)
          /\ events'.tercc = events.tercc /\ events'.activity = events.activity /\ events'.canceled = events.canceled /\ events'.finished = events.finished
          /\ events'.mainSuites = events.mainSuites
      BY <1>a, <3>1 DEF Events
    <3>3. Within(events', repo)
      BY <1>a, <3>a, <3>b, <3>2, ScalarWithin, StateForms DEF RefinementInv, EventsHeld
    <3>4. Covers(events, events')
      BY <1>a, <3>a, <3>b, ScalarCovers
    <3>. QED
      BY <1>0, <3>1, <3>3, <3>4, QueryStep
  <2>. QED
    BY <2>1, <2>2
<1>5. CASE CollectCanceled
  <2>1. CASE ~events.canceled /\ RequestFails
    BY <2>1, RequestFailsRef
  <2>2. CASE ~(~events.canceled /\ RequestFails)
    <3>1. /\ events' = [events EXCEPT !.canceled = events.canceled \/ repo.canceled]
          /\ repo' = repo /\ pc' # "suiteFinished"
          /\ suites' = suites /\ pending' = pending
      BY <1>5, <2>2 DEF CollectCanceled
    <3>2. events.activity
      BY <1>5 DEF CollectCanceled, RefinementInv, CollectorInv, PcConsistent
    <3>a. events' \in Events
      BY <1>0 DEF CollectorInv, TypeOK
    <3>b. /\ events'.canceled = (events.canceled \/ repo.canceled)
          /\ events'.tercc = events.tercc /\ events'.activity = events.activity /\ events'.triggered = events.triggered /\ events'.finished = events.finished
          /\ events'.mainSuites = events.mainSuites
      BY <1>a, <3>1 DEF Events
    <3>3. Within(events', repo)
      BY <1>a, <3>a, <3>b, <3>2, ScalarWithin, StateForms DEF RefinementInv, EventsHeld
    <3>4. Covers(events, events')
      BY <1>a, <3>a, <3>b, ScalarCovers
    <3>. QED
      BY <1>0, <3>1, <3>3, <3>4, QueryStep
  <2>. QED
    BY <2>1, <2>2
<1>6. CASE CollectActivityFinished
  <2>1. CASE ~events.finished /\ RequestFails
    BY <2>1, RequestFailsRef
  <2>2. CASE ~(~events.finished /\ RequestFails)
    <3>1. /\ events' = [events EXCEPT !.finished = events.finished \/ repo.finished]
          /\ repo' = repo /\ pc' # "suiteFinished"
          /\ \/ suites' = suites /\ pending' = pending
             \/ suites' = EmptyMap /\ pending' = {}
      BY <1>6, <2>2 DEF CollectActivityFinished, Return
    <3>2. events.activity
      BY <1>6 DEF CollectActivityFinished, RefinementInv, CollectorInv, PcConsistent
    <3>a. events' \in Events
      BY <1>0 DEF CollectorInv, TypeOK
    <3>b. /\ events'.finished = (events.finished \/ repo.finished)
          /\ events'.tercc = events.tercc /\ events'.activity = events.activity /\ events'.triggered = events.triggered /\ events'.canceled = events.canceled
          /\ events'.mainSuites = events.mainSuites
      BY <1>a, <3>1 DEF Events
    <3>3. Within(events', repo)
      BY <1>a, <3>a, <3>b, <3>2, ScalarWithin, StateForms DEF RefinementInv, EventsHeld
    <3>4. Covers(events, events')
      BY <1>a, <3>a, <3>b, ScalarCovers
    <3>. QED
      BY <1>0, <3>1, <3>3, <3>4, QueryStep
  <2>. QED
    BY <2>1, <2>2
<1>7. CASE CollectMainSuitesStarted
  <2>1. CASE RequestFails
    BY <2>1, RequestFailsRef
  <2>2. CASE ~RequestFails
    <3>1. /\ pc = "started" /\ events.triggered
          /\ UNCHANGED <<repo, caller, failures>>
      BY <1>7, <2>2 DEF CollectMainSuitesStarted, RefinementInv, CollectorInv,
         PcConsistent
    <3>2. CASE Unvisited(MergedSuites) = {}
      <4>1. ConvertSuites(MergedSuites)
        BY <1>7, <2>2, <3>2 DEF CollectMainSuitesStarted
      <4>. QED
        BY <3>1, <4>1, MergedProps, ConvertStep
    <3>3. CASE Unvisited(MergedSuites) # {}
      <4>1. /\ pc' = "suiteFinished" /\ suites' = MergedSuites
            /\ pending' = Unvisited(MergedSuites) /\ UNCHANGED events
        BY <1>7, <2>2, <3>3 DEF CollectMainSuitesStarted
      <4>2. (RepoClosed /\ EventsHeld)'
        BY <3>1, <4>1 DEF RefinementInv, RepoClosed, EventsHeld
      <4>3. MapHeld'
        BY <3>1, <4>1, MergedProps DEF MapHeld, MHeld
      <4>4. MapAgrees'
        <5>1. \A i \in 1..Len(events.mainSuites) :
                 MergedSuites[events.mainSuites[i].id] = events.mainSuites[i].fin
          BY MergedProps
        <5>. QED
          BY <4>1, <5>1 DEF MapAgrees, Unvisited
      <4>5. RefRest'
        BY <4>2, <4>3, <4>4 DEF RefRest
      <4>. QED
        BY <1>0, <1>a, <4>1, <4>5, CoversRefl DEF RefRest, RefinementInv
    <3>. QED
      BY <3>2, <3>3
  <2>. QED
    BY <2>1, <2>2
<1>8. CASE CollectTestSuiteFinished
  <2>. DEFINE ms == events.mainSuites
  <2>1. PICK s \in pending :
          \/ /\ LET m == [suites EXCEPT ![s] = repo.suiteFin[s]]
                IN  IF pending = {s}
                    THEN ConvertSuites(m)
                    ELSE /\ events' = [events EXCEPT !.mainSuites =
                                          AttachFinished(@, s, repo.suiteFin[s])]
                         /\ suites' = m
                         /\ pending' = pending \ {s}
                         /\ UNCHANGED pc
             /\ UNCHANGED <<repo, caller, failures>>
          \/ RequestFails
    BY <1>8 DEF CollectTestSuiteFinished
  <2>2. CASE RequestFails
    BY <2>2, RequestFailsRef
  <2>. DEFINE m == [suites EXCEPT ![s] = repo.suiteFin[s]]
              f == repo.suiteFin[s]
  <2>3. /\ pc = "suiteFinished" /\ events.triggered /\ s \in Suites
        /\ suites \in [Suites -> FinishedValue \cup {Absent}]
        /\ ms \in Seq(TestSuite)
        /\ suites[s] = NoEvent /\ f \in FinishedValue
    BY <1>8, <1>a DEF CollectTestSuiteFinished, RefinementInv, CollectorInv,
       PcConsistent, TypeOK, MapAgrees, Repository, Events
  <2>4. s \in repo.started
    BY <2>3, AbsentAssumption, ConstantsAssumption
    DEF RefinementInv, MapHeld, FinishedValue
  <2>5. m \in [Suites -> FinishedValue \cup {Absent}]
    BY <2>3
  <2>6. MHeld(m)
    BY <2>3, <2>4, AbsentAssumption DEF RefinementInv, MapHeld, MHeld
  <2>7. \A i \in 1..Len(ms) : /\ ms[i] \in TestSuite
                              /\ suites[ms[i].id] = ms[i].fin
    BY <2>3 DEF RefinementInv, MapAgrees
  <2>8. \A i \in 1..Len(ms) : ms[i].fin # NoEvent => ms[i].id # s
    BY <2>3, <2>7
  <2>9. Agrees(ms, m)
    BY <2>3, <2>7, <2>8, AbsentAssumption DEF Agrees, TestSuite
  <2>10. CASE ~RequestFails /\ pending = {s}
    <3>1. ConvertSuites(m) /\ UNCHANGED <<repo, caller, failures>>
      BY <2>1, <2>10
    <3>. QED
      BY <2>3, <2>5, <2>6, <2>9, <3>1, ConvertStep
  <2>11. CASE ~RequestFails /\ pending # {s}
    <3> DEFINE ms2 == AttachFinished(ms, s, f)
    <3>1. /\ events' = [events EXCEPT !.mainSuites = ms2]
          /\ suites' = m /\ pending' = pending \ {s} /\ UNCHANGED pc
          /\ UNCHANGED <<repo, caller, failures>>
      BY <2>1, <2>11
    <3>2. /\ ms2 \in Seq(TestSuite) /\ Len(ms2) = Len(ms)
          /\ \A i \in 1..Len(ms) : ms2[i].id = ms[i].id
      BY <2>3, AttachFinishedProps
    <3>3. \A i \in 1..Len(ms) : ms2[i].fin = IF ms[i].id = s THEN f ELSE ms[i].fin
      BY <2>7 DEF AttachFinished
    <3>4. /\ events'.mainSuites = ms2
          /\ \A k \in {"tercc", "activity", "triggered", "canceled", "finished"} :
                events'[k] = events[k]
      BY <1>a, <3>1 DEF Events
    <3>5. EventsHeld'
      <4>1. \A i \in 1..Len(ms2) :
               /\ ms2[i].id \in repo.started
               /\ ms2[i].fin # NoEvent => ms2[i].fin = repo.suiteFin[ms2[i].id]
        BY <2>4, <3>2, <3>3 DEF RefinementInv, EventsHeld
      <4>. QED
        BY <3>1, <3>4, <4>1 DEF RefinementInv, EventsHeld
    <3>6. MapAgrees'
      <4>1. \A i \in 1..Len(ms2) : m[ms2[i].id] = ms2[i].fin
        <5>1. \A i \in 1..Len(ms) : ms[i].id \in Suites
          BY <2>7 DEF TestSuite
        <5>. QED
          BY <2>3, <2>7, <3>2, <3>3, <5>1
      <4>2. \A x \in pending \ {s} : m[x] = suites[x]
        OBVIOUS
      <4>. QED
        BY <3>1, <3>4, <4>1, <4>2 DEF RefinementInv, MapAgrees
    <3>7. RefRest'
      BY <2>6, <3>1, <3>5, <3>6 DEF RefRest, RefinementInv, RepoClosed, MapHeld, MHeld
    <3>8. Covers(events, events')
      <4>1. \A i \in 1..Len(ms) :
               /\ ms2[i].id = ms[i].id
               /\ ms[i].fin # NoEvent => ms2[i].fin = ms[i].fin
        BY <2>8, <3>2, <3>3
      <4>. QED
        BY <3>2, <3>4, <4>1 DEF Covers
    <3>. QED
      BY <1>0, <1>a, <3>7, <3>8 DEF RefRest, RefinementInv
  <2>. QED
    BY <2>1, <2>2, <2>10, <2>11
<1>9. CASE UNCHANGED vars
  BY <1>9, <1>a, CoversRefl
  DEF vars, RefinementInv, CollectorInv, TypeOK, CausallyClosed, NoDuplicateSuites,
      PcConsistent, RepoClosed, EventsHeld, MapHeld, MapAgrees
<1>. QED
  BY <1>1, <1>2, <1>3, <1>4, <1>5, <1>6, <1>7, <1>8, <1>9 DEF Next, CollectorStep

(***************************************************************************)
(* The refinement.                                                         *)
(***************************************************************************)
\* Only a publish step changes the repository.
LEMMA RepoOnlyPublished ==
    ASSUME [Next]_vars, ~Repository_Next
    PROVE  repo' = repo
BY DEF Next, vars, CallCollect, CallCollectActivity, CollectorStep, CollectTERCC,
   CollectTriggered, CollectCanceled, CollectActivityFinished,
   CollectMainSuitesStarted, CollectTestSuiteFinished, RequestFails

\* A new Collector on an empty repository satisfies the invariant.
LEMMA RefInit == Init => RefinementInv
BY MaxFailuresAssumption
DEF Init, RefinementInv, CollectorInv, TypeOK, Repository, EmptyEvents, Events,
    EmptyMap, Pcs, FinishedValue, CausallyClosed, NoDuplicateSuites,
    PcConsistent, RepoClosed, EventsHeld, MapHeld, MapAgrees

\* The invariant of the refinement holds in every reachable state.
LEMMA RefinementInvHolds == Spec => []RefinementInv
BY RefInit, RefStep, PTL DEF Spec

\* Every behaviour of the Collector, whatever the repository publishes
\* between its queries and whichever queries fail, is a behaviour of
\* EventAggregate: the events the aggregate holds only grow, stay within
\* the repository's and stay causally closed (collector.go:29-145).
THEOREM AggregateRefinementHolds == Spec => AggregateRefinement
<1>1. Init => RefinementInv
  BY RefInit
<1>2. RefinementInv /\ [Next]_vars => RefinementInv'
  BY RefStep
<1>3. Init => Agg!Init
  BY DEF Init, Agg!Init, HeldFacts, KnownFacts, EmptyEvents
<1>4. ASSUME RefinementInv, RefinementInv', [Next]_vars
      PROVE  [Agg!Next]_<<HeldFacts(repo), KnownFacts(events)>>
  <2>1. repo \in Repository /\ events \in Events
        /\ repo' \in Repository /\ events' \in Events
    BY <1>4 DEF RefinementInv, CollectorInv, TypeOK
  <2>2. CASE Repository_Next
    <3>1. events' = events
      BY <2>2 DEF Repository_Next, PublishTERCC, PublishActivityTriggered,
         PublishActivityCanceled, PublishActivityFinished,
         PublishTestSuiteStarted, PublishTestSuiteFinished
    <3>2. HeldFacts(repo) \subseteq HeldFacts(repo')
      BY <1>4, <2>2, HeldGrows DEF RefinementInv, CollectorInv
    <3>3. ClosedRepo(repo')
      BY <1>4 DEF RefinementInv, RepoClosed, ClosedRepo
    <3>4. /\ HeldFacts(repo') \subseteq Agg!Fact
          /\ Agg!Closed(HeldFacts(repo'))
          /\ Agg!FinishedOnce(HeldFacts(repo'))
      BY <2>1, <3>3, HeldWellFormed
    <3>. QED
      BY <3>1, <3>2, <3>4 DEF Agg!Next, Agg!Publish
  <2>3. CASE ~Repository_Next
    <3>1. repo' = repo
      BY <1>4, <2>3, RepoOnlyPublished
    <3>2. Covers(events, events')
      BY <1>4, RefStep
    <3>3. KnownFacts(events) \subseteq KnownFacts(events')
      BY <2>1, <3>2, KnownFactsMono
    <3>4. Within(events', repo')
      BY <1>4 DEF RefinementInv, EventsHeld, Within
    <3>5. KnownFacts(events') \subseteq HeldFacts(repo)
      BY <2>1, <3>1, <3>4, KnownHeld
    <3>6. ClosedEv(events')
      BY <1>4 DEF RefinementInv, CollectorInv, CausallyClosed, ClosedEv
    <3>7. Agg!Closed(KnownFacts(events'))
      BY <2>1, <3>6, KnownClosed
    <3>. QED
      BY <3>1, <3>3, <3>5, <3>7 DEF Agg!Next, Agg!Learn
  <2>. QED
    BY <2>2, <2>3
<1>. QED
  BY <1>1, <1>2, <1>3, <1>4, PTL DEF Spec, AggregateRefinement, Agg!Spec


(***************************************************************************)
(* Monotonicity of the aggregate.                                          *)
(***************************************************************************)
\* The step GraphGrows allows.
GrowStep ==
    /\ \A f \in {"tercc", "activity", "triggered", "canceled", "finished"} :
          events[f] => events'[f]
    /\ \A s \in Suites : SuiteKept(events.mainSuites, events'.mainSuites, s)

\* No step of a Collect or CollectActivity call, a failed one included, and
\* no publish clears a field of the aggregate or loses or changes a main
\* suite (collector.go:43-143; Finished set through the shared *TestSuite).
THEOREM GraphGrowsHolds == Spec => GraphGrows
<1>1. ASSUME RefinementInv, RefinementInv', [Next]_vars
      PROVE  GrowStep
  <2>. DEFINE ms == events.mainSuites
              ms2 == events'.mainSuites
  <2>1. Covers(events, events')
    BY <1>1, RefStep
  <2>2. /\ ms \in Seq(TestSuite) /\ ms2 \in Seq(TestSuite)
        /\ \A a, b \in 1..Len(ms) : a # b => ms[a].id # ms[b].id
        /\ \A a, b \in 1..Len(ms2) : a # b => ms2[a].id # ms2[b].id
    BY <1>1 DEF RefinementInv, CollectorInv, TypeOK, Events, NoDuplicateSuites
  <2>3. \A f \in {"tercc", "activity", "triggered", "canceled", "finished"} :
           events[f] => events'[f]
    <3>1. events.triggered \/ events.canceled \/ events.finished => events.activity
      BY <1>1 DEF RefinementInv, CollectorInv, CausallyClosed
    <3>. QED
      BY <2>1, <3>1 DEF Covers
  <2>4. ASSUME NEW s \in Suites
        PROVE  SuiteKept(ms, ms2, s)
    <3>. SUFFICES ASSUME s \in SuiteIds(ms)
                  PROVE  /\ s \in SuiteIds(ms2)
                         /\ KnownFin(ms, s) # NoEvent => KnownFin(ms2, s) = KnownFin(ms, s)
      BY DEF SuiteKept
    <3>1. PICK i \in 1..Len(ms) : ms[i].id = s
      BY DEF SuiteIds
    <3>2. PICK j \in 1..Len(ms2) :
             /\ ms2[j].id = s
             /\ ms[i].fin # NoEvent => ms2[j].fin = ms[i].fin
      BY <2>1, <3>1 DEF Covers
    <3>3. KnownFin(ms, s) = ms[i].fin
      BY <2>2, <3>1, KnownFinAt
    <3>4. KnownFin(ms2, s) = ms2[j].fin
      BY <2>2, <3>2, KnownFinAt
    <3>. QED
      BY <3>2, <3>3, <3>4 DEF SuiteIds
  <2>. QED
    BY <2>3, <2>4 DEF GrowStep
<1>. QED
  BY <1>1, RefinementInvHolds, PTL DEF Spec, GraphGrows, GrowStep

=============================================================================
