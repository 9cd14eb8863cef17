------------------------------- MODULE Client -------------------------------
(***************************************************************************)
(* The etosctl "testrun v0" commands (cmd/testrun.go) on top of the v0     *)
(* client (pkg/client/v0/client.go), composed with the event Collector     *)
(* and the event repository of module Collector, whose variables it        *)
(* extends with those of the command layer.                                *)
(*                                                                         *)
(* A user runs one command at a time.  A command loads the configuration,  *)
(* makes its REST call to the ETOS server, prints and exits.  The results  *)
(* command also builds a fresh Collector, runs one Collect against the     *)
(* repository (which keeps publishing meanwhile), and prints the           *)
(* evaluation of what was collected.  The server's answer to a REST call   *)
(* is abstracted to a success status or an error status with the JSON      *)
(* error body {"error": ...} of response.go.                               *)
(***************************************************************************)
EXTENDS Collector

VARIABLES
    configOK,  \* etosctl.yaml loads (a malformed file stays malformed)
    cmd,       \* the command of the current or last invocation
    step,      \* where that invocation is, "idle" once it has exited
    response,  \* the answer to its last REST call
    exit,      \* its exit status
    output,    \* what it printed: a result, or an error of some kind
    snapshot,  \* the repository when the running results command called
               \* Collect (EmptyRepo when none is running)
    verdict    \* the verdicts the results command has printed so far

collectorVars == <<repo, events, pc, caller, suites, pending, failures>>
cliVars == <<configOK, cmd, step, response, exit, output, snapshot, verdict>>
clientVars == <<collectorVars, cliVars>>

\* The subcommands of "etosctl testrun v0".
Commands == {"list", "get", "start", "stop", "results"}

Steps == {"idle", "config", "dataset", "request", "getTestRun",
          "getTestResults", "collect", "evaluate"}

Responses == {"none", "ok", "errorStatus", "transportError"}

\* Errors the command layer reports besides those of GetResults.
CliErrors == {"config", "dataset", "request", "collect"}

Output == [err : ErrorKinds \cup CliErrors \cup {"none"},
           success : BOOLEAN,
           msg : Suites \cup {SuccessMessage, GenericFailureMessage,
                              NoMessage}]

\* A REST command's report after a call without error.
Printed == Verdict(TRUE, NoMessage)

\* The repository before anything is published.
EmptyRepo == [tercc |-> FALSE, triggered |-> FALSE, canceled |-> FALSE,
              finished |-> FALSE, started |-> {},
              suiteFin |-> [s \in Suites |-> NoEvent]]

ClientTypeOK ==
    /\ TypeOK
    /\ configOK \in BOOLEAN
    /\ cmd \in Commands \cup {"none"}
    /\ step \in Steps
    /\ response \in Responses
    /\ exit \in 0..1
    /\ output \in Output
    /\ snapshot \in Repository
    /\ verdict \subseteq Result

ClientInit ==
    /\ Init
    /\ configOK \in BOOLEAN
    /\ cmd = "none"
    /\ step = "idle"
    /\ response = "none"
    /\ exit = 0
    /\ output = Printed
    /\ snapshot = EmptyRepo
    /\ verdict = {}

-----------------------------------------------------------------------------
(***************************************************************************)
(* The REST layer.                                                         *)
(***************************************************************************)

\* DoRequest: the request fails in transport (bounded by MaxFailures), or
\* the server answers with a success or an error status.  It never looks at
\* the status.
DoRequest ==
    \/ /\ failures < MaxFailures
       /\ failures' = failures + 1
       /\ response' = "transportError"
    \/ /\ response' \in {"ok", "errorStatus"}
       /\ UNCHANGED failures

\* Whether a v0 client method returns an error for an answer.  None checks
\* resp.StatusCode.  Decoding the error body into a TestRun succeeds (the
\* unknown "error" field is ignored, the zero TestRun is returned); into a
\* []*TestRun it fails.  StopTestRun decodes nothing.
StartTestRunFails(r) == r = "transportError"
StopTestRunFails(r) == r = "transportError"
GetTestRunFails(r) == r = "transportError"
ListTestRunsFails(r) == r \in {"transportError", "errorStatus"}

-----------------------------------------------------------------------------
(***************************************************************************)
(* The command layer.                                                      *)
(***************************************************************************)

\* Print and os.Exit(code): the invocation is over.
Finish(code, out) ==
    /\ step' = "idle"
    /\ exit' = code
    /\ output' = out

\* The user runs "etosctl testrun v0 <c>".
StartCommand(c) ==
    /\ step = "idle"
    /\ cmd' = c
    /\ step' = "config"
    /\ response' = "none"
    /\ UNCHANGED <<collectorVars, configOK, exit, output, snapshot, verdict>>

\* config.NewConfig().Load(): a missing file is tolerated, a file that
\* cannot be read or parsed makes the command exit 1.
LoadConfig ==
    /\ step = "config"
    /\ IF configOK
       THEN /\ step' = CASE cmd = "start"   -> "dataset"
                         [] cmd = "results" -> "getTestRun"
                         [] OTHER           -> "request"
            /\ UNCHANGED <<exit, output>>
       ELSE Finish(1, Error("config", NoMessage))
    /\ UNCHANGED <<collectorVars, configOK, cmd, response, snapshot, verdict>>

\* The --dataset strings are parsed as JSON before any request is made.
ParseDataset ==
    /\ step = "dataset"
    /\ \/ step' = "request" /\ UNCHANGED <<exit, output>>
       \/ Finish(1, Error("dataset", NoMessage))
    /\ UNCHANGED <<collectorVars, configOK, cmd, response, snapshot, verdict>>

\* The REST call of a list, get, start or stop command (failing: the
\* answers its client method turns into an error): on an error the
\* command prints it and exits 1, otherwise it prints what it got and exits 0.
RunRequest(c, failing) ==
    /\ step = "request"
    /\ cmd = c
    /\ DoRequest
    /\ IF response' \in failing
       THEN Finish(1, Error("request", NoMessage))
       ELSE Finish(0, Printed)
    /\ UNCHANGED <<repo, events, pc, caller, suites, pending, configOK, cmd,
                   snapshot, verdict>>

ListRun == RunRequest("list", {r \in Responses : ListTestRunsFails(r)})
GetRun == RunRequest("get", {r \in Responses : GetTestRunFails(r)})
StartRun == RunRequest("start", {r \in Responses : StartTestRunFails(r)})
StopRun == RunRequest("stop", {r \in Responses : StopTestRunFails(r)})

(***************************************************************************)
(* The results command: GetTestRun (only its error is looked at), then     *)
(* GetTestResults with a new Collector, then the evaluation.               *)
(***************************************************************************)
GetTestRunForResults ==
    /\ step = "getTestRun"
    /\ DoRequest
    /\ IF GetTestRunFails(response')
       THEN Finish(1, Error("request", NoMessage))
       ELSE step' = "getTestResults" /\ UNCHANGED <<exit, output>>
    /\ UNCHANGED <<repo, events, pc, caller, suites, pending, configOK, cmd,
                   snapshot, verdict>>

\* Mutation variant: the Collector kept from the previous results call
\* instead of a new one (Collect on the old aggregate).
GetTestResults_ReuseCollector ==
    /\ step = "getTestResults"
    /\ CallCollect
    /\ step' = "collect"
    /\ snapshot' = repo
    /\ UNCHANGED <<configOK, cmd, response, exit, output, verdict>>

\* events.NewCollector: an empty aggregate; then Collect, which starts with
\* CollectActivity since Triggered is unknown.
GetTestResults ==
    /\ step = "getTestResults"
    /\ events' = EmptyEvents
    /\ pc' = "tercc"
    /\ caller' = "Collect"
    /\ step' = "collect"
    /\ snapshot' = repo
    /\ UNCHANGED <<repo, suites, pending, failures, configOK, cmd, response,
                   exit, output, verdict>>

\* One query of the Collect call; an error aborts the command with exit 1.
CollectForResults ==
    /\ step = "collect"
    /\ CollectorStep
    /\ IF failures' > failures
       THEN /\ Finish(1, Error("collect", NoMessage))
            /\ snapshot' = EmptyRepo
       ELSE /\ step' = IF pc' = "idle" THEN "evaluate" ELSE "collect"
            /\ UNCHANGED <<exit, output, snapshot>>
    /\ UNCHANGED <<configOK, cmd, response, verdict>>

\* Mutation variant: the evaluation tests the cancellation after the suites.
Evaluate_CanceledLate ==
    /\ step = "evaluate"
    /\ LET r == GetResults_CanceledLate(events)
       IN  /\ Finish(IF r.err = "none" THEN 0 ELSE 1, r)
           /\ verdict' = IF r.err = "none" THEN verdict \cup {r} ELSE verdict
    /\ snapshot' = EmptyRepo
    /\ UNCHANGED <<collectorVars, configOK, cmd, response>>

\* GetResults on the collected aggregate: an error exits 1, a verdict is
\* printed and the command exits 0.
Evaluate ==
    /\ step = "evaluate"
    /\ LET r == GetResults(events)
       IN  /\ Finish(IF r.err = "none" THEN 0 ELSE 1, r)
           /\ verdict' = IF r.err = "none" THEN verdict \cup {r} ELSE verdict
    /\ snapshot' = EmptyRepo
    /\ UNCHANGED <<collectorVars, configOK, cmd, response>>

-----------------------------------------------------------------------------
RepositoryStep == Repository_Next /\ UNCHANGED cliVars

CliStep ==
    \/ LoadConfig
    \/ ParseDataset
    \/ ListRun
    \/ GetRun
    \/ StartRun
    \/ StopRun
    \/ GetTestRunForResults
    \/ GetTestResults
    \/ CollectForResults
    \/ Evaluate

ClientNext ==
    \/ RepositoryStep
    \/ \E c \in Commands : StartCommand(c)
    \/ CliStep

\* A running command runs to its exit.  The user (or a CI job) keeps asking
\* for the results: whatever other commands it runs in between, a results
\* command starts again whenever none is running, infinitely often.
ClientFairness == WF_clientVars(CliStep) /\ SF_clientVars(StartCommand("results"))

ClientSpec == ClientInit /\ [][ClientNext]_clientVars /\ ClientFairness

-----------------------------------------------------------------------------
(***************************************************************************)
(* Properties.                                                             *)
(***************************************************************************)

\* Every event the repository held in r is in the aggregate ev, with the
\* same outcome for a finished suite.
HeldIn(r, ev) ==
    /\ r.tercc => ev.tercc
    /\ r.triggered => ev.triggered
    /\ r.canceled => ev.canceled
    /\ r.finished => ev.finished
    /\ \A s \in r.started :
          /\ s \in SuiteIds(ev.mainSuites)
          /\ r.suiteFin[s] # NoEvent =>
                KnownFin(ev.mainSuites, s) = r.suiteFin[s]

\* Every event of the aggregate ev is in the repository r.
FoundIn(ev, r) ==
    /\ ev.tercc => r.tercc
    /\ ev.triggered => r.triggered
    /\ ev.canceled => r.canceled
    /\ ev.finished => r.finished
    /\ \A i \in 1..Len(ev.mainSuites) :
          /\ ev.mainSuites[i].id \in r.started
          /\ ev.mainSuites[i].fin \in {NoEvent, r.suiteFin[ev.mainSuites[i].id]}

\* The results command evaluates an aggregate that holds everything the
\* repository held when GetTestResults called Collect and nothing the
\* repository does not hold, however the repository grew between the
\* queries (fresh Collector per call, v0/client.go:149).
ResultsFresh ==
    step = "evaluate" =>
        /\ HeldIn(snapshot, events)
        /\ FoundIn(events, repo)

\* The activity canceled in the repository, a user who keeps running the
\* results command is eventually told that the activity was canceled
\* (cancellation dominates every other outcome of GetResults).
CanceledEventuallyReported ==
    configOK /\ repo.canceled
        ~> (step = "idle" /\ cmd = "results" /\
            output = Error("canceled", NoMessage))

\* Spec, state machine: a verdict (all suites finished, success or failure)
\* is terminal: once the results command has printed one, every later
\* evaluation of the results command prints one of the same.
VerdictStable ==
    [][Evaluate /\ verdict # {} => output' \in verdict]_clientVars

\* Spec, error handling: a failed call is never silently swallowed and the
\* CLI exits non-zero on failure: a command that exits 0 got a success
\* status from the ETOS server.
FailureExitsNonZero ==
    step = "idle" /\ cmd # "none" /\ exit = 0 => response = "ok"
====
