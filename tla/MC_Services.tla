----------------------------- MODULE MC_Services -----------------------------
(***************************************************************************)
(* Model checking of the services inside a process: JobScheduler,          *)
(* CellWorker, MatrixManager and AlertManager; of what is kept in SQLite,  *)
(* test results and recipes; of the tables of plugins and instruments; and *)
(* of sequential algorithms over bounded inputs: selectNext of the         *)
(* scheduling policies, analyze of the resource dependencies and the       *)
(* response decoder.  They share no state, so an instance chooses one of   *)
(* them, `subject`, and takes its steps only.                              *)
(***************************************************************************)
EXTENDS JobScheduler, Services, AlertManager, SchedulingScan, DependencyAnalyzer,
        ResponseDecoder

CONSTANTS Subjects,  \* the services checked
          c1, c2,    \* clients of the matrix
          Lock, None

VARIABLE subject     \* the service this behaviour is about

serviceVars == <<jobVars, cellVars, matrixVars, alertVars>>
storedVars == <<resultVars, recipeVars>>
tableVars == <<hostVars, instrumentVars>>
algorithmVars == <<scanVars, analyzerVars, decoderVars>>
otherVars == <<storedVars, tableVars, algorithmVars>>
vars == <<subject, serviceVars, otherVars>>

Init ==
  /\ subject \in Subjects
  /\ JobInit
  /\ CellInit
  /\ MatrixInit
  /\ AlertInit
  /\ ResInit
  /\ RecipeInit
  /\ HostInit
  /\ InstrumentsInit
  /\ \/ subject = "scan"
     \/ subject # "scan" /\ tasks = <<>> /\ policy = "fifo"
  /\ ScanInit
  /\ \/ subject = "analyzer"
     \/ subject # "analyzer" /\ graph = [n \in 1..4 |-> <<>>] /\ request = <<1>>
  /\ AnalyzerInit
  /\ DecoderInit

InJobs == UNCHANGED <<subject, cellVars, matrixVars, alertVars, otherVars>>
InCell == UNCHANGED <<subject, jobVars, matrixVars, alertVars, otherVars>>
InMatrix == UNCHANGED <<subject, jobVars, cellVars, alertVars, otherVars>>
InAlerts == UNCHANGED <<subject, jobVars, cellVars, matrixVars, otherVars>>
InStore == UNCHANGED <<subject, serviceVars, tableVars, algorithmVars>>
InTables == UNCHANGED <<subject, serviceVars, storedVars, algorithmVars>>
InAlgorithm == UNCHANGED <<subject, serviceVars, storedVars, tableVars>>

Next ==
  \/ subject = "jobs" /\ JobNext /\ InJobs
  \/ subject = "cell" /\ CellNext /\ InCell
  \/ subject = "matrix" /\ MatrixNext /\ InMatrix
  \/ subject = "alerts" /\ AlertNext /\ InAlerts
  \/ subject = "results" /\ ResNext /\ InStore /\ UNCHANGED recipeVars
  \/ subject = "recipes" /\ RecipeNext /\ InStore /\ UNCHANGED resultVars
  \/ subject = "plugins" /\ LoadNext /\ InTables /\ UNCHANGED instrumentVars
  \/ subject = "registry" /\ RegistryNext /\ InTables /\ UNCHANGED instrumentVars
  \/ subject = "instruments" /\ InstrumentsNext /\ InTables /\ UNCHANGED hostVars
  \/ subject = "scan" /\ ScanNext /\ InAlgorithm /\ UNCHANGED <<analyzerVars, decoderVars>>
  \/ subject = "analyzer" /\ Analyze /\ InAlgorithm /\ UNCHANGED <<scanVars, decoderVars>>
  \/ subject = "decoder" /\ DecoderNext /\ InAlgorithm /\ UNCHANGED <<scanVars, analyzerVars>>

\* Threads that run are scheduled; timers fire and the clock goes on.
Fairness ==
  /\ WF_vars(subject = "jobs" /\ Dispatch /\ InJobs)
  /\ WF_vars(subject = "cell" /\ WorkerThread /\ InCell)
  /\ WF_vars(subject = "cell" /\ (CellStopped \/ CellRestarted) /\ InCell)
  /\ WF_vars(subject = "alerts" /\ Evaluate /\ InAlerts)
  /\ WF_vars(subject = "alerts" /\ ClockTick /\ InAlerts)

Spec == Init /\ [][Next]_vars /\ Fairness

\* Batches over the same two sources.
WholeBatches ==
  {<< <<"s1", "x">>, <<"s2", "x">> >>, << <<"s1", "y">>, <<"s2", "y">> >>}

\* A batch and a single route that replaces one of its routes.
MixedBatches ==
  {<< <<"s1", "x">>, <<"s2", "x">> >>, << <<"s1", "y">> >>}

ClientSet == {c1, c2}

\* Clients that only ask for batches: no disconnectAll, no lease dropped.
BatchSpec ==
  Init /\ [][(\E c \in Clients : Routing(c)) /\ InMatrix]_vars

-------------------------------------------------------------------------------

\* Task lists: every list of up to three tasks, from all combinations of two
\* priorities, two elapsed backoff times, three deadlines and two queue positions, and
\* one task of each kind the scan must skip.
MCNowMs == 1
MCHeldSets == {{Lock}}

Due ==
  [priority : {0, 1}, enqueueOrder : {1, 2}, nextRunAt : {0, 1},
   deadline : {0, 1, 2}, resourceLocks : {{}}, isPending : {TRUE}]

Urgent == [priority |-> 1, enqueueOrder |-> 1, nextRunAt |-> 0, deadline |-> 1,
           resourceLocks |-> {}, isPending |-> TRUE]

Skipped == {[Urgent EXCEPT !.isPending = FALSE],
            [Urgent EXCEPT !.nextRunAt = 2],
            [Urgent EXCEPT !.resourceLocks = {Lock}]}

MCTaskDescriptors == Due \cup Skipped

\* Every graph on three names with up to two dependencies each.
SmallGraphs ==
  [1..3 -> {None} \cup {s \in SetToAllKPermutations(1..3) : Len(s) <= 2}]

\* Every graph on four names that depend on later ones: shared dependencies.
AcyclicGraphs ==
  {g \in [1..4 -> SetToAllKPermutations(2..4)] :
     \A n \in 1..4 : IsInjective(g[n]) /\ \A k \in DOMAIN g[n] :
        g[n][k] > n /\ (k > 1 => g[n][k-1] < g[n][k])}

MCGraphs == SmallGraphs \cup AcyclicGraphs

MCRequests == {<<1>>, <<2, 1>>, <<3, 1, 2>>}

-------------------------------------------------------------------------------

\* Payloads of up to three bytes; the texts of up to four tokens, every sentence of up to
\* seven, and sentences that lack a token.
MCPayloads == UNION {[1..n -> {0, 2, 3}] : n \in 1..3}

MCTokens == {"1", "x", "+", "-", "*", "(", ")", "abs", "min", ","}

MCFormulas ==
  UNION {[1..n -> MCTokens] : n \in 1..4} \cup Texts
  \cup {RemoveAt(text, k) : text \in {t \in Texts : Len(t) \in 2..6}, k \in 1..2}

\* Directories of up to three files: plugins that share an id or a kind, a manifest that
\* declares another kind or id, or no version, and one that does not fit.
GoodFile(kind, id) ==
  [kind |-> kind, id |-> id, declaredKind |-> kind, declaredId |-> None,
   version |-> "1.0", compatible |-> TRUE]

OddFiles ==
  LET good == GoodFile("step", "a") IN
    {[good EXCEPT !.declaredKind = "reporter"], [good EXCEPT !.declaredId = "b"],
     [good EXCEPT !.version = None], [good EXCEPT !.compatible = FALSE]}

MCDirectories ==
  UNION {[1..n -> OddFiles \cup {GoodFile("step", "a"), [GoodFile("step", "b") EXCEPT !.declaredId = "b"],
                                 GoodFile("reporter", "a")}] : n \in 0..3}

\* Lists of up to three instruments with different names: two may share a port.
Serial(name, port) ==
  [name |-> name, driver |-> "power.supply", backend |-> "serial", port |-> port]

MCInstrumentLists ==
  LET Instruments ==
        {Serial("a", "COM1"), Serial("b", "COM1"), Serial("b", "COM2"), Serial("c", "COM2"),
         [Serial("c", "COM3") EXCEPT !.backend = "python"],
         [Serial("c", "COM3") EXCEPT !.driver = "other"]}
  IN {list \in UNION {[1..n -> Instruments] : n \in 0..3} :
        \A j, k \in DOMAIN list : list[j].name = list[k].name => j = k}

-------------------------------------------------------------------------------

\* The threads of the services leave nothing behind: a job is decided while there is
\* an agent (JobScheduler.cpp:189-198), a step is answered and stop returns
\* (CellWorker.cpp:49-62), and an alert follows its gauge (AlertManager.cpp:24-78).
ServicesLive == JobsDecided /\ CellLive /\ AlertFollowsGauge
===============================================================================
