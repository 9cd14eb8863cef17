---------------------------- MODULE ClientProofs ----------------------------
(***************************************************************************)
(* Proof that the results command of etosctl evaluates a fresh aggregate:  *)
(* ResultsFresh of module Client, for every set of suites and conclusions  *)
(* and every bound on transport errors; and that every state of Client is *)
(* well typed (ClientTypeOK), what etosctl prints included.               *)
(*                                                                         *)
(* The module extends the Collector's proofs as well as Client, which      *)
(* composes the Collector by extending it: each step of Client is a step   *)
(* of the Collector or leaves the Collector's variables alone (but for     *)
(* the transport-error counter the REST calls share with it).              *)
(***************************************************************************)
EXTENDS Client, CollectorRefinementProofs, EvaluatorProofs

(***************************************************************************)
(* The inductive invariant.  While the results command collects, the       *)
(* answered queries of its Collect call have brought every event of the   *)
(* snapshot, the repository as it was when GetTestResults called Collect.  *)
(***************************************************************************)
\* Repository r2 holds every event of r, a finished suite with its outcome.
Below(r, r2) ==
    /\ \A k \in {"tercc", "triggered", "canceled", "finished"} : r[k] => r2[k]
    /\ r.started \subseteq r2.started
    /\ \A s \in Suites : r.suiteFin[s] # NoEvent => r2.suiteFin[s] = r.suiteFin[s]

\* For each run-level event, the steps of Collect at which its query has
\* been answered (or the call has returned early).
Answered ==
    [tercc     |-> {"triggered", "canceled", "actFinished", "started",
                    "suiteFinished", "idle"},
     triggered |-> {"canceled", "actFinished", "started", "suiteFinished", "idle"},
     canceled  |-> {"actFinished", "started", "suiteFinished", "idle"},
     finished  |-> {"started", "suiteFinished", "idle"}]

\* Every suite of repository r is in MainSuites of ev, with its outcome.
SuitesHeld(r, ev) ==
    \A s \in r.started :
        /\ s \in SuiteIds(ev.mainSuites)
        /\ r.suiteFin[s] # NoEvent => KnownFin(ev.mainSuites, s) = r.suiteFin[s]

\* Every suite of r is a key of Collect's map m, and one the finished-event
\* loop has visited (not in todo) has a Finished if r has one.
MapCovers(r, m, todo) ==
    \A s \in r.started :
        /\ m[s] # Absent
        /\ s \notin todo /\ r.suiteFin[s] # NoEvent => m[s] # NoEvent

\* The invariant proper: what the running results command has collected of
\* the snapshot so far, by the step its Collect call is at.
CollectProgress ==
    step \in {"collect", "evaluate"} =>
        /\ snapshot \in Repository
        /\ ClosedRepo(snapshot)
        /\ Below(snapshot, repo)
        /\ caller = "Collect"
        /\ step = "evaluate" <=> pc = "idle"
        /\ \A k \in DOMAIN Answered : pc \in Answered[k] => (snapshot[k] => events[k])
        /\ pc = "suiteFinished" => MapCovers(snapshot, suites, pending)
        /\ pc = "idle" => SuitesHeld(snapshot, events)

ClientInv == RefinementInv /\ CollectProgress

\* Repository steps only add events: a finished suite keeps its outcome.
LEMMA RepoGrows ==
    ASSUME TypeOK, Repository_Next
    PROVE  Below(repo, repo') /\ repo' \in Repository
<1>1. Below(repo, repo')
  BY DEF Repository_Next, PublishTERCC, PublishActivityTriggered,
         PublishActivityCanceled, PublishActivityFinished,
         PublishTestSuiteStarted, PublishTestSuiteFinished, Below, TypeOK,
         Repository
<1>2. repo' \in Repository
  BY TypeStep DEF Next, TypeOK
<1>. QED
  BY <1>1, <1>2

\* Holding every event of another repository is transitive.
LEMMA BelowTrans ==
    ASSUME NEW r1 \in Repository, NEW r2 \in Repository, NEW r3 \in Repository,
           Below(r1, r2), Below(r2, r3)
    PROVE  Below(r1, r3)
BY DEF Below, Repository

\* A step of the command layer that leaves the Collector alone, but for a
\* transport error of its own REST call, and is not in the results
\* command's Collect or evaluation, keeps the invariant.
LEMMA CliOnlyStep ==
    ASSUME ClientInv, UNCHANGED <<repo, events, pc, caller, suites, pending>>,
           failures' \in 0..MaxFailures, step' \notin {"collect", "evaluate"}
    PROVE  ClientInv'
BY DEF ClientInv, CollectProgress, RefinementInv, CollectorInv, TypeOK,
       CausallyClosed, NoDuplicateSuites, PcConsistent, RepoClosed, EventsHeld,
       MapHeld, MapAgrees

\* A REST call keeps the transport-error counter within its bound.
LEMMA DoRequestBound ==
    ASSUME failures \in 0..MaxFailures, DoRequest
    PROVE  failures' \in 0..MaxFailures
BY MaxFailuresAssumption DEF DoRequest

\* GetTestResults: a new Collector's Collect starts on the repository as it
\* is now.
LEMMA GetTestResultsStep ==
    ASSUME ClientInv, GetTestResults
    PROVE  ClientInv'
<1>1. events' = EmptyEvents /\ pc' = "tercc" /\ caller' = "Collect"
      /\ step' = "collect" /\ snapshot' = repo
      /\ UNCHANGED <<repo, suites, pending, failures>>
  BY DEF GetTestResults
<1>2. RefinementInv'
  BY <1>1 DEF ClientInv, RefinementInv, CollectorInv, TypeOK, EmptyEvents,
     Events, Pcs, CausallyClosed, NoDuplicateSuites, PcConsistent, RepoClosed,
     EventsHeld, MapHeld, MapAgrees
<1>3. /\ repo \in Repository /\ ClosedRepo(repo) /\ Below(repo, repo)
  BY DEF ClientInv, RefinementInv, CollectorInv, TypeOK, RepoClosed, ClosedRepo,
     Below
<1>4. CollectProgress'
  BY <1>1, <1>3 DEF CollectProgress, Answered
<1>. QED
  BY <1>2, <1>4 DEF ClientInv

(***************************************************************************)
(* Lemmas for the steps of the results command's Collect call.            *)
(***************************************************************************)
\* A run-level event of r the aggregate holds is still held after a step
\* that covers it.
LEMMA KeptScalars ==
    ASSUME NEW r, NEW ev \in Events, NEW ev2 \in Events, ClosedEv(ev),
           Covers(ev, ev2), NEW k \in {"tercc", "triggered", "canceled", "finished"},
           r[k] => ev[k]
    PROVE  r[k] => ev2[k]
<1>1. CASE k = "tercc"
  BY <1>1 DEF Covers
<1>2. CASE k # "tercc"
  <2>1. ev[k] => ev.activity
    BY <1>2 DEF ClosedEv
  <2>2. ev.activity /\ ev[k] => ev2[k]
    BY <1>2 DEF Covers
  <2>. QED
    BY <2>1, <2>2
<1>. QED
  BY <1>1, <1>2

\* A repository without Triggered holds no later run-level event and no
\* suite: the early returns of CollectActivity lose nothing.
LEMMA EarlyReturn ==
    ASSUME NEW r \in Repository, ClosedRepo(r), ~r.triggered
    PROVE  /\ ~r.canceled /\ ~r.finished /\ r.started = {}
           /\ \A ev : SuitesHeld(r, ev)
BY DEF ClosedRepo, SuitesHeld

\* The slice built from a map that has every suite of r, with r's outcome,
\* holds every suite of r: the end of Collect.
LEMMA SliceHolds ==
    ASSUME NEW r \in Repository, NEW m \in [Suites -> FinishedValue \cup {Absent}],
           NEW ns \in SlicesOf(m), ns \in Seq(TestSuite),
           \A a, b \in 1..Len(ns) : a # b => ns[a].id # ns[b].id,
           \A t \in r.started :
              /\ m[t] # Absent
              /\ r.suiteFin[t] # NoEvent => m[t] = r.suiteFin[t]
    PROVE  \A t \in r.started :
              /\ t \in SuiteIds(ns)
              /\ r.suiteFin[t] # NoEvent => KnownFin(ns, t) = r.suiteFin[t]
<1> SUFFICES ASSUME NEW t \in r.started
             PROVE  /\ t \in SuiteIds(ns)
                    /\ r.suiteFin[t] # NoEvent => KnownFin(ns, t) = r.suiteFin[t]
  OBVIOUS
<1>1. t \in Suites
  BY DEF Repository
<1>2. PICK i \in 1..Len(ns) : ns[i].id = t
  BY <1>1, SliceEntries
<1>3. ns[i].fin = m[t]
  BY <1>2, SliceEntries
<1>4. KnownFin(ns, t) = ns[i].fin
  BY <1>2, KnownFinAt
<1>. QED
  BY <1>2, <1>3, <1>4 DEF SuiteIds

\* A map that holds only repository events and has every suite of r below
\* the repository, each visited one with a Finished, has r's outcomes.
LEMMA CoversToFin ==
    ASSUME NEW r \in Repository, Below(r, repo),
           NEW m \in [Suites -> FinishedValue \cup {Absent}], MHeld(m),
           MapCovers(r, m, {})
    PROVE  \A t \in r.started :
              /\ m[t] # Absent
              /\ r.suiteFin[t] # NoEvent => m[t] = r.suiteFin[t]
<1> SUFFICES ASSUME NEW t \in r.started
             PROVE  /\ m[t] # Absent
                    /\ r.suiteFin[t] # NoEvent => m[t] = r.suiteFin[t]
  OBVIOUS
<1>1. t \in Suites
  BY DEF Repository
<1>2. m[t] # Absent /\ (r.suiteFin[t] # NoEvent => m[t] # NoEvent)
  BY DEF MapCovers
<1>3. m[t] \notin {Absent, NoEvent} => m[t] = repo.suiteFin[t]
  BY <1>1 DEF MHeld
<1>4. r.suiteFin[t] # NoEvent => repo.suiteFin[t] = r.suiteFin[t]
  BY <1>1 DEF Below
<1>. QED
  BY <1>2, <1>3, <1>4

\* The merged map of Collect has a key for every suite the repository has
\* started.
LEMMA MergedKeys ==
    ASSUME RefinementInv, NEW t \in repo.started
    PROVE  MergedSuites[t] # Absent
<1>. DEFINE ms == events.mainSuites
<1>1. t \in Suites /\ ms \in Seq(TestSuite)
  BY DEF RefinementInv, CollectorInv, TypeOK, Repository, Events
<1>2. CASE t \in SuiteIds(ms)
  <2>1. PICK i \in 1..Len(ms) : ms[i].id = t
    BY <1>2 DEF SuiteIds
  <2>2. \A j \in 1..Len(ms) : MergedSuites[ms[j].id] = ms[j].fin
    BY MergedProps
  <2>3. MergedSuites[t] = ms[i].fin
    BY <2>1, <2>2
  <2>4. ms[i] \in TestSuite
    BY <1>1
  <2>5. ms[i].fin \in FinishedValue
    BY <2>4 DEF TestSuite
  <2>. QED
    BY <2>3, <2>5, AbsentAssumption
<1>3. CASE t \notin SuiteIds(ms)
  BY <1>1, <1>3, AbsentAssumption DEF MergedSuites, FinishedValue
<1>. QED
  BY <1>2, <1>3

\* A step of the results command's Collect call that did not fail: it keeps
\* the Collector's invariant and every event of the aggregate (RefStep),
\* leaves the repository, the caller and the snapshot alone, and the
\* command evaluates once the call has returned.
CollectCtx ==
    /\ ClientInv /\ step = "collect"
    /\ RefinementInv' /\ Covers(events, events')
    /\ snapshot' = snapshot /\ repo' = repo /\ caller' = caller
    /\ step' = IF pc' = "idle" THEN "evaluate" ELSE "collect"

\* What such a step starts from and keeps.
LEMMA CtxFacts ==
    ASSUME CollectCtx
    PROVE  /\ snapshot \in Repository /\ ClosedRepo(snapshot)
           /\ Below(snapshot, repo) /\ caller = "Collect" /\ pc # "idle"
           /\ events \in Events /\ events' \in Events /\ ClosedEv(events)
           /\ failures \in Nat /\ ~(RequestFails /\ failures' = failures)
           /\ \A k \in DOMAIN Answered :
                 pc \in Answered[k] => (snapshot[k] => events'[k])
<1>1. /\ snapshot \in Repository /\ ClosedRepo(snapshot)
      /\ Below(snapshot, repo) /\ caller = "Collect" /\ pc # "idle"
      /\ \A k \in DOMAIN Answered : pc \in Answered[k] => (snapshot[k] => events[k])
  BY DEF CollectCtx, ClientInv, CollectProgress
<1>2. events \in Events /\ events' \in Events /\ ClosedEv(events) /\ failures \in Nat
  BY StateForms DEF CollectCtx, ClientInv, RefinementInv, CollectorInv, TypeOK
<1>3. ~(RequestFails /\ failures' = failures)
  BY <1>2 DEF RequestFails
<1>4. \A k \in DOMAIN Answered : pc \in Answered[k] => (snapshot[k] => events'[k])
  <2> SUFFICES ASSUME NEW k \in DOMAIN Answered, pc \in Answered[k]
               PROVE  snapshot[k] => events'[k]
    OBVIOUS
  <2>1. k \in {"tercc", "triggered", "canceled", "finished"}
    BY DEF Answered
  <2>. QED
    BY <1>1, <1>2, <2>1, KeptScalars DEF CollectCtx
<1>. QED
  BY <1>1, <1>2, <1>3, <1>4

\* What each step of the call has to establish.
LEMMA CtxDone ==
    ASSUME CollectCtx,
           \A k \in DOMAIN Answered : pc' \in Answered[k] => (snapshot[k] => events'[k]),
           pc' = "suiteFinished" => MapCovers(snapshot, suites', pending'),
           pc' = "idle" => SuitesHeld(snapshot, events')
    PROVE  ClientInv'
<1>1. /\ snapshot \in Repository /\ ClosedRepo(snapshot)
      /\ Below(snapshot, repo) /\ caller = "Collect"
  BY CtxFacts
<1>. QED
  BY <1>1 DEF CollectCtx, ClientInv, CollectProgress

\* Get TERCC: a TERCC of the snapshot is now known, or there is none and
\* the snapshot is empty.
LEMMA TERCCStep ==
    ASSUME CollectCtx, CollectTERCC, failures' = failures
    PROVE  ClientInv'
<1>. DEFINE tercc == events.tercc \/ repo.tercc
<1>1. /\ events'.tercc = tercc
      /\ tercc => pc' = "triggered"
      /\ ~tercc => pc' = "idle"
  BY CtxFacts DEF CollectTERCC, Return, Events
<1>2. CASE tercc
  <2>1. \A k \in DOMAIN Answered : pc' \in Answered[k] => k = "tercc"
    BY <1>1, <1>2 DEF Answered
  <2>2. snapshot.tercc => events'.tercc
    BY <1>1, <1>2
  <2>. QED
    BY <1>1, <1>2, <2>1, <2>2, CtxDone
<1>3. CASE ~tercc
  <2>1. ~snapshot.tercc /\ ~snapshot.triggered
    BY <1>3, CtxFacts DEF Below, ClosedRepo
  <2>2. ~snapshot.canceled /\ ~snapshot.finished /\ SuitesHeld(snapshot, events')
    BY <2>1, CtxFacts, EarlyReturn
  <2>3. \A k \in DOMAIN Answered : ~snapshot[k]
    BY <2>1, <2>2 DEF Answered
  <2>. QED
    BY <1>1, <1>3, <2>2, <2>3, CtxDone
<1>. QED
  BY <1>2, <1>3

\* Get the activity triggered event: Triggered of the snapshot is now
\* known, or the snapshot has none and nothing after it.
LEMMA TriggeredStep ==
    ASSUME CollectCtx, CollectTriggered, failures' = failures
    PROVE  ClientInv'
<1>. DEFINE trig == events.triggered \/ repo.triggered
<1>1. /\ events'.triggered = trig
      /\ trig => pc' = "canceled"
      /\ ~trig => pc' = "idle"
  BY CtxFacts DEF CollectTriggered, Return, Events
<1>2. snapshot.tercc => events'.tercc
  BY CtxFacts DEF CollectTriggered, Answered
<1>3. CASE trig
  <2>1. \A k \in DOMAIN Answered : pc' \in Answered[k] => k \in {"tercc", "triggered"}
    BY <1>1, <1>3 DEF Answered
  <2>2. snapshot.triggered => events'.triggered
    BY <1>1, <1>3
  <2>. QED
    BY <1>1, <1>2, <1>3, <2>1, <2>2, CtxDone
<1>4. CASE ~trig
  <2>1. ~snapshot.triggered
    BY <1>4, CtxFacts DEF Below
  <2>2. ~snapshot.canceled /\ ~snapshot.finished /\ SuitesHeld(snapshot, events')
    BY <2>1, CtxFacts, EarlyReturn
  <2>3. \A k \in DOMAIN Answered : k \in {"tercc", "triggered", "canceled", "finished"}
    BY DEF Answered
  <2>. QED
    BY <1>1, <1>2, <1>4, <2>1, <2>2, <2>3, CtxDone
<1>. QED
  BY <1>3, <1>4

\* Get the activity canceled event.
LEMMA CanceledStep ==
    ASSUME CollectCtx, CollectCanceled, failures' = failures
    PROVE  ClientInv'
<1>1. events'.canceled = (events.canceled \/ repo.canceled) /\ pc' = "actFinished"
  BY CtxFacts DEF CollectCanceled, Events
<1>2. /\ snapshot.tercc => events'.tercc
      /\ snapshot.triggered => events'.triggered
  BY CtxFacts DEF CollectCanceled, Answered
<1>3. snapshot.canceled => events'.canceled
  BY <1>1, CtxFacts DEF Below
<1>4. \A k \in DOMAIN Answered :
         pc' \in Answered[k] => k \in {"tercc", "triggered", "canceled"}
  BY <1>1 DEF Answered
<1>. QED
  BY <1>1, <1>2, <1>3, <1>4, CtxDone

\* Get the activity finished event; inside Collect the main suites follow.
LEMMA ActivityFinishedStep ==
    ASSUME CollectCtx, CollectActivityFinished, failures' = failures
    PROVE  ClientInv'
<1>1. events'.finished = (events.finished \/ repo.finished) /\ pc' = "started"
  BY CtxFacts DEF CollectActivityFinished, Events
<1>2. /\ snapshot.tercc => events'.tercc
      /\ snapshot.triggered => events'.triggered
      /\ snapshot.canceled => events'.canceled
  BY CtxFacts DEF CollectActivityFinished, Answered
<1>3. snapshot.finished => events'.finished
  BY <1>1, CtxFacts DEF Below
<1>. QED
  BY <1>1, <1>2, <1>3, CtxDone DEF Answered

\* The run-level events of the snapshot are all known once the activity's
\* queries are answered.
LEMMA ScalarsAnswered ==
    ASSUME CollectCtx, pc \in {"started", "suiteFinished"}
    PROVE  \A k \in DOMAIN Answered : snapshot[k] => events'[k]
<1>1. /\ snapshot.tercc => events'.tercc
      /\ snapshot.triggered => events'.triggered
      /\ snapshot.canceled => events'.canceled
      /\ snapshot.finished => events'.finished
  BY CtxFacts DEF Answered
<1>. QED
  BY <1>1 DEF Answered

\* The end of Collect from a map that has every suite of the snapshot
\* with its outcome: the aggregate now holds every suite of the snapshot.
LEMMA ConvertHolds ==
    ASSUME CollectCtx, NEW m \in [Suites -> FinishedValue \cup {Absent}],
           MHeld(m), MapCovers(snapshot, m, {}), ConvertSuites(m)
    PROVE  pc' = "idle" /\ SuitesHeld(snapshot, events')
<1>1. PICK ns \in SlicesOf(m) : events' = [events EXCEPT !.mainSuites = ns]
  BY DEF ConvertSuites
<1>2. events'.mainSuites = ns
  BY <1>1, CtxFacts DEF Events
<1>3. ns \in Seq(TestSuite) /\ \A a, b \in 1..Len(ns) : a # b => ns[a].id # ns[b].id
  BY <1>2 DEF CollectCtx, RefinementInv, CollectorInv, TypeOK, Events,
     NoDuplicateSuites
<1>4. \A t \in snapshot.started :
         /\ m[t] # Absent
         /\ snapshot.suiteFin[t] # NoEvent => m[t] = snapshot.suiteFin[t]
  BY CtxFacts, CoversToFin
<1>5. \A t \in snapshot.started :
         /\ t \in SuiteIds(ns)
         /\ snapshot.suiteFin[t] # NoEvent => KnownFin(ns, t) = snapshot.suiteFin[t]
  BY <1>3, <1>4, CtxFacts, SliceHolds
<1>6. pc' = "idle"
  BY DEF ConvertSuites, Return
<1>. QED
  BY <1>2, <1>5, <1>6 DEF SuitesHeld

\* Get the main suites started and merge them with the known ones.
LEMMA MainSuitesStartedStep ==
    ASSUME CollectCtx, CollectMainSuitesStarted, failures' = failures
    PROVE  ClientInv'
<1>1. RefinementInv /\ pc = "started"
  BY DEF CollectCtx, ClientInv, CollectMainSuitesStarted
<1>2. \A t \in snapshot.started : t \in Suites /\ MergedSuites[t] # Absent
  BY <1>1, CtxFacts, MergedKeys DEF Below, Repository
<1>3. /\ MergedSuites \in [Suites -> FinishedValue \cup {Absent}]
      /\ MHeld(MergedSuites)
  BY <1>1, MergedProps
<1>4. \A k \in DOMAIN Answered : snapshot[k] => events'[k]
  BY <1>1, ScalarsAnswered
<1>5. CASE Unvisited(MergedSuites) = {}
  <2>1. ConvertSuites(MergedSuites)
    BY <1>5, CtxFacts DEF CollectMainSuitesStarted
  <2>2. MapCovers(snapshot, MergedSuites, {})
    BY <1>2, <1>5 DEF MapCovers, Unvisited
  <2>3. pc' = "idle" /\ SuitesHeld(snapshot, events')
    BY <1>3, <2>1, <2>2, ConvertHolds
  <2>. QED
    BY <1>4, <2>3, CtxDone
<1>6. CASE Unvisited(MergedSuites) # {}
  <2>1. pc' = "suiteFinished" /\ suites' = MergedSuites
        /\ pending' = Unvisited(MergedSuites)
    BY <1>6, CtxFacts DEF CollectMainSuitesStarted
  <2>2. MapCovers(snapshot, suites', pending')
    BY <1>2, <2>1 DEF MapCovers, Unvisited
  <2>. QED
    BY <1>4, <2>1, <2>2, CtxDone
<1>. QED
  BY <1>5, <1>6

\* The finished event of one suite of the map: the suites of the snapshot
\* stay keys of the map, and the visited ones have their Finished.
LEMMA TestSuiteFinishedStep ==
    ASSUME CollectCtx, CollectTestSuiteFinished, failures' = failures
    PROVE  ClientInv'
<1>1. /\ RefinementInv /\ pc = "suiteFinished"
      /\ MapCovers(snapshot, suites, pending)
  BY DEF CollectCtx, ClientInv, CollectProgress, CollectTestSuiteFinished
<1>2. PICK s \in pending :
        LET m == [suites EXCEPT ![s] = repo.suiteFin[s]]
        IN  IF pending = {s}
            THEN ConvertSuites(m)
            ELSE /\ events' = [events EXCEPT !.mainSuites =
                                  AttachFinished(@, s, repo.suiteFin[s])]
                 /\ suites' = m
                 /\ pending' = pending \ {s}
                 /\ UNCHANGED pc
  BY CtxFacts DEF CollectTestSuiteFinished
<1>. DEFINE m == [suites EXCEPT ![s] = repo.suiteFin[s]]
<1>3. /\ s \in Suites /\ repo.suiteFin[s] \in FinishedValue
      /\ suites \in [Suites -> FinishedValue \cup {Absent}]
      /\ m \in [Suites -> FinishedValue \cup {Absent}]
  BY <1>1 DEF RefinementInv, CollectorInv, TypeOK, Repository
<1>4. \A k \in DOMAIN Answered : snapshot[k] => events'[k]
  BY <1>1, ScalarsAnswered
<1>5. MapCovers(snapshot, m, pending \ {s})
  <2> SUFFICES ASSUME NEW t \in snapshot.started
               PROVE  /\ m[t] # Absent
                      /\ t \notin pending \ {s} /\ snapshot.suiteFin[t] # NoEvent
                           => m[t] # NoEvent
    BY DEF MapCovers
  <2>1. t \in Suites
    BY CtxFacts DEF Repository
  <2>2. CASE t = s
    <3>1. m[t] = repo.suiteFin[s]
      BY <1>3, <2>2
    <3>2. snapshot.suiteFin[s] # NoEvent => repo.suiteFin[s] = snapshot.suiteFin[s]
      BY <1>3, CtxFacts DEF Below
    <3>. QED
      BY <1>3, <2>2, <3>1, <3>2, AbsentAssumption
  <2>3. CASE t # s
    BY <1>1, <1>3, <2>1, <2>3 DEF MapCovers
  <2>. QED
    BY <2>2, <2>3
<1>6. CASE pending = {s}
  <2>1. ConvertSuites(m)
    BY <1>2, <1>6
  <2>2. MapCovers(snapshot, m, {})
    BY <1>5, <1>6
  <2>3. MHeld(m)
    <3>1. suites[s] = NoEvent
      BY <1>1 DEF RefinementInv, MapAgrees
    <3>2. s \in repo.started
      BY <1>1, <1>3, <3>1, AbsentAssumption DEF RefinementInv, MapHeld, FinishedValue
    <3>. QED
      BY <1>1, <1>3, <3>2 DEF RefinementInv, MapHeld, MHeld
  <2>4. pc' = "idle" /\ SuitesHeld(snapshot, events')
    BY <1>3, <2>1, <2>2, <2>3, ConvertHolds
  <2>. QED
    BY <1>4, <2>4, CtxDone
<1>7. CASE pending # {s}
  <2>1. suites' = m /\ pending' = pending \ {s} /\ pc' = "suiteFinished"
    BY <1>1, <1>2, <1>7
  <2>. QED
    BY <1>4, <1>5, <2>1, CtxDone
<1>. QED
  BY <1>6, <1>7

\* One query of the results command's Collect call: a transport error ends
\* the command, any other answer keeps the invariant.
LEMMA CollectForResultsStep ==
    ASSUME ClientInv, CollectForResults
    PROVE  ClientInv'
<1>1. CollectorStep /\ step = "collect"
  BY DEF CollectForResults
<1>2. RefinementInv' /\ Covers(events, events')
  BY <1>1, RefStep DEF ClientInv, Next
<1>3. CASE failures' > failures
  <2>1. step' = "idle"
    BY <1>3 DEF CollectForResults, Finish
  <2>. QED
    BY <1>2, <2>1 DEF ClientInv, CollectProgress
<1>4. CASE ~(failures' > failures)
  <2>1. step' = (IF pc' = "idle" THEN "evaluate" ELSE "collect") /\ snapshot' = snapshot
    BY <1>4 DEF CollectForResults
  <2>2. repo' = repo /\ caller' = caller
        /\ (failures' = failures \/ failures' = failures + 1)
    BY <1>1 DEF CollectorStep, CollectTERCC, CollectTriggered, CollectCanceled,
       CollectActivityFinished, CollectMainSuitesStarted,
       CollectTestSuiteFinished, ConvertSuites, RequestFails
  <2>3. failures \in Nat
    BY DEF ClientInv, RefinementInv, CollectorInv, TypeOK
  <2>4. failures' = failures
    BY <1>4, <2>2, <2>3
  <2>5. CollectCtx
    BY <1>1, <1>2, <2>1, <2>2 DEF CollectCtx
  <2>. QED
    BY <1>1, <2>4, <2>5, TERCCStep, TriggeredStep, CanceledStep,
       ActivityFinishedStep, MainSuitesStartedStep, TestSuiteFinishedStep
    DEF CollectorStep
<1>. QED
  BY <1>3, <1>4

\* Every step of Client keeps the invariant.
LEMMA ClientStep == ClientInv /\ [ClientNext]_clientVars => ClientInv'
<1> SUFFICES ASSUME ClientInv, [ClientNext]_clientVars PROVE ClientInv'
  OBVIOUS
<1>0. failures \in 0..MaxFailures
  BY DEF ClientInv, RefinementInv, CollectorInv, TypeOK
<1>1. CASE RepositoryStep
  <2>1. Repository_Next /\ UNCHANGED cliVars
    BY <1>1 DEF RepositoryStep, cliVars, cliVars
  <2>2. RefinementInv'
    BY <2>1, RefStep DEF ClientInv, Next
  <2>3. UNCHANGED <<events, pc, caller, suites, pending>>
    BY <2>1 DEF Repository_Next, PublishTERCC, PublishActivityTriggered,
       PublishActivityCanceled, PublishActivityFinished,
       PublishTestSuiteStarted, PublishTestSuiteFinished
  <2>4. step \in {"collect", "evaluate"} =>
          /\ Below(repo, repo') /\ repo' \in Repository
          /\ snapshot \in Repository /\ Below(snapshot, repo)
    BY <2>1, RepoGrows DEF ClientInv, RefinementInv, CollectorInv, CollectProgress
  <2>5. step \in {"collect", "evaluate"} => Below(snapshot, repo')
    BY <2>4, BelowTrans DEF ClientInv, RefinementInv, CollectorInv, TypeOK
  <2>. QED
    BY <2>1, <2>2, <2>3, <2>5 DEF ClientInv, CollectProgress, cliVars
<1>2. CASE \E c \in Commands : StartCommand(c)
  BY <1>0, <1>2, CliOnlyStep DEF StartCommand, collectorVars
<1>3. CASE LoadConfig \/ ParseDataset
  BY <1>0, <1>3, CliOnlyStep DEF LoadConfig, ParseDataset, Finish,
     collectorVars
<1>4. CASE \E c \in Commands, f \in SUBSET Responses : RunRequest(c, f)
  <2>1. PICK c \in Commands, f \in SUBSET Responses : RunRequest(c, f)
    BY <1>4
  <2>2. failures' \in 0..MaxFailures
    BY <1>0, <2>1, DoRequestBound DEF RunRequest
  <2>. QED
    BY <2>1, <2>2, CliOnlyStep DEF RunRequest, Finish
<1>5. CASE GetTestRunForResults
  <2>1. failures' \in 0..MaxFailures
    BY <1>0, <1>5, DoRequestBound DEF GetTestRunForResults
  <2>. QED
    BY <1>5, <2>1, CliOnlyStep DEF GetTestRunForResults, Finish
<1>6. CASE GetTestResults
  BY <1>6, GetTestResultsStep
<1>7. CASE CollectForResults
  BY <1>7, CollectForResultsStep
<1>8. CASE Evaluate
  BY <1>0, <1>8, CliOnlyStep DEF Evaluate, Finish, collectorVars
<1>9. CASE UNCHANGED clientVars
  <2>1. UNCHANGED vars /\ UNCHANGED cliVars
    BY <1>9 DEF clientVars, collectorVars, cliVars, vars, cliVars
  <2>2. RefinementInv'
    BY <2>1, RefStep DEF ClientInv
  <2>. QED
    BY <2>1, <2>2 DEF ClientInv, CollectProgress, Below, ClosedRepo,
       MapCovers, SuitesHeld, Answered, vars, cliVars
<1>10. ListRun \/ GetRun \/ StartRun \/ StopRun
         => \E c \in Commands, f \in SUBSET Responses : RunRequest(c, f)
  BY DEF ListRun, GetRun, StartRun, StopRun, Commands
<1>. QED
  BY <1>1, <1>2, <1>3, <1>5, <1>6, <1>7, <1>8, <1>9, <1>10, <1>4
  DEF ClientNext, CliStep

\* The initial states of Client satisfy the invariant: no command runs.
LEMMA InvInit == ClientInit => ClientInv
<1> SUFFICES ASSUME ClientInit PROVE ClientInv
  OBVIOUS
<1>1. Init /\ step = "idle"
  BY DEF ClientInit
<1>. QED
  BY <1>1, RefInit DEF ClientInv, CollectProgress

\* The invariant holds in every reachable state of Client.
LEMMA ClientInvHolds == ClientSpec => []ClientInv
BY InvInit, ClientStep, PTL DEF ClientSpec

\* The results command evaluates an aggregate that holds every event the
\* repository held when GetTestResults called Collect, each suite with its
\* outcome, and nothing the repository does not hold: the fresh Collector
\* of v0/client.go:149 and the query order of collector.go lose no event
\* published before the call, however the repository grows between the
\* queries.
THEOREM ResultsFreshHolds == ClientSpec => []ResultsFresh
<1>1. ClientInv => ResultsFresh
  <2> SUFFICES ASSUME ClientInv, step = "evaluate"
               PROVE  HeldIn(snapshot, events) /\ FoundIn(events, repo)
    BY DEF ResultsFresh
  <2>1. pc = "idle" /\ SuitesHeld(snapshot, events)
        /\ \A k \in DOMAIN Answered : snapshot[k] => events[k]
    BY DEF ClientInv, CollectProgress, Answered
  <2>2. /\ snapshot.tercc => events.tercc
        /\ snapshot.triggered => events.triggered
        /\ snapshot.canceled => events.canceled
        /\ snapshot.finished => events.finished
    BY <2>1 DEF Answered
  <2>3. HeldIn(snapshot, events)
    BY <2>1, <2>2 DEF HeldIn, SuitesHeld
  <2>4. /\ EventsHeld /\ CausallyClosed
    BY DEF ClientInv, RefinementInv, CollectorInv
  <2>5. FoundIn(events, repo)
    BY <2>4 DEF FoundIn, EventsHeld, CausallyClosed
  <2>. QED
    BY <2>3, <2>5
<1>. QED
  BY <1>1, ClientInvHolds, PTL

-----------------------------------------------------------------------------
(***************************************************************************)
(* Type correctness of the command layer.  The Collector's variables are   *)
(* typed by ClientInv; what the commands print is typed because GetResults *)
(* returns a well-typed result for every aggregate (EvaluatorProofs).     *)
(***************************************************************************)
\* The conjuncts of ClientTypeOK about the command layer's variables.
CliTypes ==
    /\ configOK \in BOOLEAN
    /\ cmd \in Commands \cup {"none"}
    /\ step \in Steps
    /\ response \in Responses
    /\ exit \in 0..1
    /\ output \in Output
    /\ snapshot \in Repository
    /\ verdict \subseteq Result

\* Every error the command layer prints, and the report of a REST command,
\* is a possible output; so is every result of GetResults.
LEMMA OutputForms ==
    /\ \A k \in CliErrors : Error(k, NoMessage) \in Output
    /\ Printed \in Output
    /\ Result \subseteq Output
    /\ EmptyRepo \in Repository
BY DEF Error, Output, Printed, Verdict, Result, CliErrors, EmptyRepo,
   Repository, FinishedValue

\* A step of a REST call: the answer is one of the responses and the command
\* goes on or exits with an error or its report.
LEMMA RequestTypes ==
    ASSUME CliTypes, DoRequest,
           \/ Finish(1, Error("request", NoMessage))
           \/ Finish(0, Printed)
           \/ step' = "getTestResults" /\ UNCHANGED <<exit, output>>,
           UNCHANGED <<configOK, cmd, snapshot, verdict>>
    PROVE  CliTypes'
BY OutputForms DEF CliTypes, DoRequest, Finish, Steps, CliErrors, Responses

\* No step of Client takes a variable of the command layer out of its type.
LEMMA CliTypesStep == TypeOK /\ CliTypes /\ [ClientNext]_clientVars => CliTypes'
<1> SUFFICES ASSUME TypeOK, CliTypes, [ClientNext]_clientVars PROVE CliTypes'
  OBVIOUS
<1>1. CASE RepositoryStep
  BY <1>1 DEF RepositoryStep, cliVars, CliTypes
<1>2. CASE \E c \in Commands : StartCommand(c)
  BY <1>2 DEF StartCommand, CliTypes, Steps, Responses
<1>3. CASE LoadConfig \/ ParseDataset
  BY <1>3, OutputForms DEF LoadConfig, ParseDataset, Finish, CliTypes, Steps,
     CliErrors
<1>4. CASE \E c \in Commands, f \in SUBSET Responses : RunRequest(c, f)
  <2>1. PICK c \in Commands, f \in SUBSET Responses : RunRequest(c, f)
    BY <1>4
  <2>. QED
    BY <2>1, RequestTypes DEF RunRequest
<1>5. CASE GetTestRunForResults
  BY <1>5, RequestTypes DEF GetTestRunForResults
<1>6. CASE GetTestResults
  BY <1>6 DEF GetTestResults, CliTypes, Steps, TypeOK
<1>7. CASE CollectForResults
  BY <1>7, OutputForms DEF CollectForResults, Finish, CliTypes, Steps,
     CliErrors
<1>8. CASE Evaluate
  <2>1. GetResults(events) \in Result
    BY GetResultsType DEF TypeOK
  <2>. QED
    BY <1>8, <2>1, OutputForms DEF Evaluate, Finish, CliTypes, Steps
<1>9. CASE UNCHANGED clientVars
  BY <1>9 DEF clientVars, cliVars, CliTypes
<1>10. ListRun \/ GetRun \/ StartRun \/ StopRun
         => \E c \in Commands, f \in SUBSET Responses : RunRequest(c, f)
  BY DEF ListRun, GetRun, StartRun, StopRun, Commands
<1>. QED
  BY <1>1, <1>2, <1>3, <1>4, <1>5, <1>6, <1>7, <1>8, <1>9, <1>10
  DEF ClientNext, CliStep

\* The client_results run's type invariant, for every set of suites and
\* conclusions and every error bound: every variable of Client keeps its
\* type, in particular each result etosctl prints is one of GetResults's
\* literals or the id of a main suite (test_results.go:52-89, testrun.go).
THEOREM ClientTypeCorrect == ClientSpec => []ClientTypeOK
<1>1. ClientInit => CliTypes
  BY OutputForms DEF ClientInit, CliTypes, Steps, Responses
<1>2. ClientInv => TypeOK
  BY DEF ClientInv, RefinementInv, CollectorInv
<1>3. TypeOK /\ CliTypes => ClientTypeOK
  BY DEF ClientTypeOK, CliTypes
<1>. QED
  BY <1>1, <1>2, <1>3, CliTypesStep, ClientInvHolds, PTL DEF ClientSpec

====
