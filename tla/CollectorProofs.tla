-------------------------- MODULE CollectorProofs --------------------------
(***************************************************************************)
(* Proofs about the Collector, for every set of suites and conclusions and *)
(* every bound on transport errors.                                        *)
(***************************************************************************)
EXTENDS Collector, FiniteSetTheorems, TLAPS

(***************************************************************************)
(* A slice built from a Collect map is a MainSuites slice with one entry   *)
(* per key of the map.                                                     *)
(***************************************************************************)
LEMMA SlicesOfType ==
    ASSUME NEW m \in [Suites -> FinishedValue \cup {Absent}],
           NEW ms \in SlicesOf(m)
    PROVE  /\ ms \in Seq(TestSuite)
           /\ \A i, j \in 1..Len(ms) : i # j => ms[i].id # ms[j].id
<1> DEFINE D == {s \in Suites : m[s] # Absent}
<1>1. Cardinality(D) \in Nat
  BY ConstantsAssumption, FS_Subset, FS_CardinalityType
<1>2. PICK p \in Orders(D) :
        ms = [i \in 1..Cardinality(D) |-> [id |-> p[i], fin |-> m[p[i]]]]
  BY DEF SlicesOf
<1>3. \A i \in 1..Cardinality(D) : m[p[i]] \in FinishedValue
  BY <1>2 DEF Orders, D
<1>4. ms \in Seq(TestSuite)
  <2>1. \A i \in 1..Cardinality(D) : [id |-> p[i], fin |-> m[p[i]]] \in TestSuite
    BY <1>2, <1>3 DEF Orders, D, TestSuite
  <2>. QED
    BY <1>1, <1>2, <2>1
<1>5. Len(ms) = Cardinality(D)
  BY <1>1, <1>2
<1>6. \A i, j \in 1..Len(ms) : i # j => ms[i].id # ms[j].id
  BY <1>1, <1>2, <1>5 DEF Orders
<1>. QED
  BY <1>4, <1>6

\* The Finished field of a known suite is a Finished value.
LEMMA KnownFinType ==
    ASSUME NEW ms \in Seq(TestSuite), NEW s \in SuiteIds(ms)
    PROVE  KnownFin(ms, s) \in FinishedValue
<1>1. \E i \in 1..Len(ms) : ms[i].id = s
  BY DEF SuiteIds
<1>2. (CHOOSE i \in 1..Len(ms) : ms[i].id = s) \in 1..Len(ms)
  BY <1>1
<1>3. ms[CHOOSE i \in 1..Len(ms) : ms[i].id = s] \in TestSuite
  BY <1>2
<1>. QED
  BY <1>3 DEF KnownFin, TestSuite

\* A failing query keeps the types.
LEMMA RequestFailsType ==
    ASSUME TypeOK, RequestFails
    PROVE  TypeOK'
BY MaxFailuresAssumption DEF TypeOK, RequestFails, EmptyMap, Pcs

\* The end of Collect keeps the types when the map it converts has them.
LEMMA ConvertSuitesType ==
    ASSUME TypeOK, NEW m \in [Suites -> FinishedValue \cup {Absent}],
           ConvertSuites(m), UNCHANGED <<repo, caller, failures>>
    PROVE  TypeOK'
<1>1. PICK ms \in SlicesOf(m) : events' = [events EXCEPT !.mainSuites = ms]
  BY DEF ConvertSuites
<1>2. ms \in Seq(TestSuite)
  BY SlicesOfType
<1>. QED
  BY <1>1, <1>2 DEF ConvertSuites, Return, TypeOK, Events, EmptyMap, Pcs

(***************************************************************************)
(* Type correctness.                                                       *)
(***************************************************************************)
\* Attaching a finished event to a suite of MainSuites keeps the ids in place.
LEMMA AttachFinishedProps ==
    ASSUME NEW ms \in Seq(TestSuite), NEW s \in Suites, NEW fin \in FinishedValue
    PROVE  /\ AttachFinished(ms, s, fin) \in Seq(TestSuite)
           /\ Len(AttachFinished(ms, s, fin)) = Len(ms)
           /\ \A i \in 1..Len(ms) : AttachFinished(ms, s, fin)[i].id = ms[i].id
<1>1. ASSUME NEW i \in 1..Len(ms)
      PROVE  /\ [ms[i] EXCEPT !.fin = fin] \in TestSuite
             /\ [ms[i] EXCEPT !.fin = fin].id = ms[i].id
  <2>1. ms[i] \in TestSuite
    OBVIOUS
  <2>. QED
    BY <2>1 DEF TestSuite
<1>. QED
  BY <1>1 DEF AttachFinished

(***************************************************************************)
(* Type correctness: TypeOK is inductive.                                  *)
(***************************************************************************)
LEMMA TypeStep == TypeOK /\ [Next]_vars => TypeOK'
<1> SUFFICES ASSUME TypeOK, [Next]_vars PROVE TypeOK'
  OBVIOUS
<1>1. CASE Repository_Next
  <2>1. CASE PublishTERCC \/ PublishActivityTriggered
             \/ PublishActivityCanceled \/ PublishActivityFinished
    BY <2>1 DEF PublishTERCC, PublishActivityTriggered,
       PublishActivityCanceled, PublishActivityFinished, TypeOK, Repository
  <2>2. ASSUME NEW s \in Suites, PublishTestSuiteStarted(s)
        PROVE  TypeOK'
    BY <2>2 DEF PublishTestSuiteStarted, TypeOK, Repository
  <2>3. ASSUME NEW s \in Suites, NEW c \in Conclusions,
               PublishTestSuiteFinished(s, c)
        PROVE  TypeOK'
    BY <2>3 DEF PublishTestSuiteFinished, TypeOK, Repository, FinishedValue
  <2>. QED
    BY <1>1, <2>1, <2>2, <2>3 DEF Repository_Next
<1>2. CASE CallCollect \/ CallCollectActivity
  BY <1>2 DEF CallCollect, CallCollectActivity, TypeOK, Pcs
<1>3. CASE CollectTERCC
  BY <1>3, RequestFailsType DEF CollectTERCC, Return, TypeOK, Events, Pcs, EmptyMap
<1>4. CASE CollectTriggered
  BY <1>4, RequestFailsType DEF CollectTriggered, Return, TypeOK, Events, Pcs, EmptyMap
<1>5. CASE CollectCanceled
  BY <1>5, RequestFailsType DEF CollectCanceled, TypeOK, Events, Pcs
<1>6. CASE CollectActivityFinished
  BY <1>6, RequestFailsType DEF CollectActivityFinished, Return, TypeOK,
     Events, Pcs, EmptyMap
<1>7. CASE CollectMainSuitesStarted
  <2>1. MergedSuites \in [Suites -> FinishedValue \cup {Absent}]
    BY KnownFinType DEF MergedSuites, TypeOK, Events, FinishedValue
  <2>2. CASE RequestFails
    BY <2>2, RequestFailsType
  <2>3. CASE Unvisited(MergedSuites) = {} /\ ConvertSuites(MergedSuites)
             /\ UNCHANGED <<repo, caller, failures>>
    BY <2>1, <2>3, ConvertSuitesType
  <2>4. CASE /\ pc' = "suiteFinished"
             /\ suites' = MergedSuites
             /\ pending' = Unvisited(MergedSuites)
             /\ UNCHANGED <<events, repo, caller, failures>>
    BY <2>1, <2>4 DEF TypeOK, Pcs, Unvisited
  <2>. QED
    BY <1>7, <2>2, <2>3, <2>4 DEF CollectMainSuitesStarted
<1>8. CASE CollectTestSuiteFinished
  <2>1. PICK s \in pending :
          \/ /\ LET m == [suites EXCEPT ![s] = repo.suiteFin[s]]
                IN  IF pending = {s}
                    THEN ConvertSuites(m)
                    ELSE /\ events' = [events EXCEPT !.mainSuites =
                                          AttachFinished(@, s, repo.suiteFin[s])]
                         /\ suites' = m
                         /\ pending' = pending \ {s}
                         /\ UNCHANGED pc
             /\ UNCHANGED <<repo, caller, failures>>
          \/ RequestFails
    BY <1>8 DEF CollectTestSuiteFinished
  <2>. DEFINE fin == repo.suiteFin[s]
              m   == [suites EXCEPT ![s] = fin]
  <2>2. fin \in FinishedValue /\ s \in Suites
    BY DEF TypeOK, Repository
  <2>3. m \in [Suites -> FinishedValue \cup {Absent}]
    BY <2>2 DEF TypeOK
  <2>4. CASE RequestFails
    BY <2>4, RequestFailsType
  <2>5. CASE pending = {s} /\ ConvertSuites(m) /\ UNCHANGED <<repo, caller, failures>>
    BY <2>3, <2>5, ConvertSuitesType
  <2>6. CASE /\ pending # {s}
             /\ events' = [events EXCEPT !.mainSuites =
                              AttachFinished(@, s, fin)]
             /\ suites' = m
             /\ pending' = pending \ {s}
             /\ UNCHANGED <<pc, repo, caller, failures>>
    <3>1. AttachFinished(events.mainSuites, s, fin) \in Seq(TestSuite)
      BY <2>2, AttachFinishedProps DEF TypeOK, Events
    <3>. QED
      BY <2>3, <2>6, <3>1 DEF TypeOK, Events
  <2>. QED
    BY <2>1, <2>4, <2>5, <2>6
<1>9. CASE UNCHANGED vars
  BY <1>9 DEF vars, TypeOK
<1>. QED
  BY <1>1, <1>2, <1>3, <1>4, <1>5, <1>6, <1>7, <1>8, <1>9
  DEF Next, CollectorStep

\* The Collector's variables always have their types.
THEOREM TypeCorrect == Spec => []TypeOK
<1>1. Init => TypeOK
  BY MaxFailuresAssumption
  DEF Init, TypeOK, Repository, EmptyEvents, Events, EmptyMap, Pcs, FinishedValue
<1>. QED
  BY <1>1, TypeStep, PTL DEF Spec
(***************************************************************************)
(* Causal closure and deduplication.  Neither is inductive alone: a step   *)
(* sets Triggered, Canceled or MainSuites according to the query it makes, *)
(* so the invariant must say which queries run under which known events    *)
(* (PcConsistent).                                                          *)
(***************************************************************************)

\* A failing query leaves the aggregate alone and ends the call.
LEMMA RequestFailsInv ==
    ASSUME CollectorInv, RequestFails
    PROVE  CollectorInv'
BY RequestFailsType
DEF CollectorInv, RequestFails, CausallyClosed, NoDuplicateSuites, PcConsistent

\* The end of Collect, under a known Triggered, keeps the invariant.
LEMMA ConvertSuitesInv ==
    ASSUME CollectorInv, events.triggered,
           NEW m \in [Suites -> FinishedValue \cup {Absent}],
           ConvertSuites(m), UNCHANGED <<repo, caller, failures>>
    PROVE  CollectorInv'
<1>1. PICK ms \in SlicesOf(m) : events' = [events EXCEPT !.mainSuites = ms]
  BY DEF ConvertSuites
<1>2. \A i, j \in 1..Len(ms) : i # j => ms[i].id # ms[j].id
  BY SlicesOfType
<1>3. TypeOK'
  BY ConvertSuitesType DEF CollectorInv
<1>. QED
  BY <1>1, <1>2, <1>3
  DEF CollectorInv, ConvertSuites, Return, CausallyClosed, NoDuplicateSuites,
      PcConsistent, TypeOK, Events

LEMMA InvStep == CollectorInv /\ [Next]_vars => CollectorInv'
<1> SUFFICES ASSUME CollectorInv, [Next]_vars PROVE CollectorInv'
  OBVIOUS
<1>0. TypeOK'
  BY TypeStep DEF CollectorInv
<1>. DEFINE Rest == CausallyClosed /\ NoDuplicateSuites /\ PcConsistent
<1>a. SUFFICES Rest'
  BY <1>0 DEF CollectorInv
<1>1. CASE Repository_Next
  BY <1>1 DEF Repository_Next, PublishTERCC, PublishActivityTriggered,
     PublishActivityCanceled, PublishActivityFinished,
     PublishTestSuiteStarted, PublishTestSuiteFinished,
     CollectorInv, CausallyClosed, NoDuplicateSuites, PcConsistent
<1>2. CASE CallCollect \/ CallCollectActivity
  BY <1>2 DEF CallCollect, CallCollectActivity,
     CollectorInv, CausallyClosed, NoDuplicateSuites, PcConsistent
<1>3. CASE CollectTERCC
  <2>1. CASE RequestFails
    BY <2>1, RequestFailsInv DEF CollectorInv
  <2>2. CASE ~RequestFails
    BY <1>3, <2>2 DEF CollectTERCC, Return,
       CollectorInv, CausallyClosed, NoDuplicateSuites, PcConsistent, TypeOK, Events
  <2>. QED
    BY <2>1, <2>2
<1>4. CASE CollectTriggered
  <2>1. CASE RequestFails
    BY <2>1, RequestFailsInv DEF CollectorInv
  <2>2. CASE ~RequestFails
    BY <1>4, <2>2 DEF CollectTriggered, Return,
       CollectorInv, CausallyClosed, NoDuplicateSuites, PcConsistent, TypeOK, Events
  <2>. QED
    BY <2>1, <2>2
<1>5. CASE CollectCanceled
  <2>1. CASE RequestFails
    BY <2>1, RequestFailsInv DEF CollectorInv
  <2>2. CASE ~RequestFails
    BY <1>5, <2>2 DEF CollectCanceled,
       CollectorInv, CausallyClosed, NoDuplicateSuites, PcConsistent, TypeOK, Events
  <2>. QED
    BY <2>1, <2>2
<1>6. CASE CollectActivityFinished
  <2>1. CASE RequestFails
    BY <2>1, RequestFailsInv DEF CollectorInv
  <2>2. CASE ~RequestFails
    BY <1>6, <2>2 DEF CollectActivityFinished, Return,
       CollectorInv, CausallyClosed, NoDuplicateSuites, PcConsistent, TypeOK, Events
  <2>. QED
    BY <2>1, <2>2
<1>7. CASE CollectMainSuitesStarted
  <2>0. events.triggered
    BY <1>7 DEF CollectMainSuitesStarted, CollectorInv, PcConsistent
  <2>1. MergedSuites \in [Suites -> FinishedValue \cup {Absent}]
    BY KnownFinType DEF MergedSuites, CollectorInv, TypeOK, Events, FinishedValue
  <2>2. CASE RequestFails
    BY <2>2, RequestFailsInv DEF CollectorInv
  <2>3. CASE Unvisited(MergedSuites) = {} /\ ConvertSuites(MergedSuites)
             /\ UNCHANGED <<repo, caller, failures>>
    BY <2>0, <2>1, <2>3, ConvertSuitesInv DEF CollectorInv
  <2>4. CASE /\ pc' = "suiteFinished"
             /\ UNCHANGED <<events, repo, caller, failures>>
    BY <2>0, <2>4 DEF CollectorInv, CausallyClosed, NoDuplicateSuites, PcConsistent
  <2>. QED
    BY <1>7, <2>2, <2>3, <2>4 DEF CollectMainSuitesStarted
<1>8. CASE CollectTestSuiteFinished
  <2>0. events.triggered
    BY <1>8 DEF CollectTestSuiteFinished, CollectorInv, PcConsistent
  <2>1. PICK s \in pending :
          \/ /\ LET m == [suites EXCEPT ![s] = repo.suiteFin[s]]
                IN  IF pending = {s}
                    THEN ConvertSuites(m)
                    ELSE /\ events' = [events EXCEPT !.mainSuites =
                                          AttachFinished(@, s, repo.suiteFin[s])]
                         /\ suites' = m
                         /\ pending' = pending \ {s}
                         /\ UNCHANGED pc
             /\ UNCHANGED <<repo, caller, failures>>
          \/ RequestFails
    BY <1>8 DEF CollectTestSuiteFinished
  <2>. DEFINE fin == repo.suiteFin[s]
              m   == [suites EXCEPT ![s] = fin]
              ms  == events.mainSuites
  <2>2. fin \in FinishedValue /\ s \in Suites /\ ms \in Seq(TestSuite)
    BY DEF CollectorInv, TypeOK, Repository, Events
  <2>3. m \in [Suites -> FinishedValue \cup {Absent}]
    BY <2>2 DEF CollectorInv, TypeOK
  <2>4. CASE RequestFails
    BY <2>4, RequestFailsInv DEF CollectorInv
  <2>5. CASE pending = {s} /\ ConvertSuites(m) /\ UNCHANGED <<repo, caller, failures>>
    BY <2>0, <2>3, <2>5, ConvertSuitesInv DEF CollectorInv
  <2>6. CASE /\ pending # {s}
             /\ events' = [events EXCEPT !.mainSuites = AttachFinished(@, s, fin)]
             /\ UNCHANGED <<pc, repo, caller, failures>>
    <3>1. /\ Len(AttachFinished(ms, s, fin)) = Len(ms)
          /\ \A i \in 1..Len(ms) : AttachFinished(ms, s, fin)[i].id = ms[i].id
      BY <2>2, AttachFinishedProps
    <3>2. NoDuplicateSuites'
      BY <2>6, <3>1 DEF CollectorInv, NoDuplicateSuites, TypeOK, Events
    <3>3. CausallyClosed' /\ PcConsistent'
      BY <2>0, <2>6 DEF CollectorInv, CausallyClosed, PcConsistent, TypeOK, Events
    <3>. QED
      BY <3>2, <3>3
  <2>. QED
    BY <2>1, <2>4, <2>5, <2>6
<1>9. CASE UNCHANGED vars
  BY <1>9 DEF vars, CollectorInv, CausallyClosed, NoDuplicateSuites, PcConsistent
<1>. QED
  BY <1>1, <1>2, <1>3, <1>4, <1>5, <1>6, <1>7, <1>8, <1>9
  DEF Next, CollectorStep

\* Whatever the repository publishes between the queries of a call, and
\* whichever queries fail, the aggregate stays causally closed and MainSuites
\* holds each suite once.
THEOREM InvariantHolds == Spec => []CollectorInv
<1>1. Init => CollectorInv
  BY MaxFailuresAssumption
  DEF Init, CollectorInv, TypeOK, Repository, EmptyEvents, Events, EmptyMap,
      Pcs, FinishedValue, CausallyClosed, NoDuplicateSuites, PcConsistent
<1>. QED
  BY <1>1, InvStep, PTL DEF Spec

\* The aggregate is causally closed in every reachable state (collector.go:43-105).
THEOREM CausallyClosedHolds == Spec => []CausallyClosed
BY InvariantHolds, PTL DEF CollectorInv

\* MainSuites never holds a suite twice (collector.go:111-142).
THEOREM NoDuplicateSuitesHolds == Spec => []NoDuplicateSuites
BY InvariantHolds, PTL DEF CollectorInv
=============================================================================
