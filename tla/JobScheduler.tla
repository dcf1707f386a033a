---------------------------- MODULE JobScheduler ----------------------------
(***************************************************************************)
(* JobScheduler of the runtime: clients submit and cancel jobs, agents     *)
(* register, and one dispatch thread picks the first pending job, sends it *)
(* to an agent and settles it with the answer.  The thread keeps a raw     *)
(* pointer to the job after it has unlocked jobsMutex_, from the selection *)
(* to the settlement: a submit in between may move the vector of jobs.     *)
(*                                                                         *)
(* One action per critical section.  Agents are abstracted to whether one  *)
(* has a heartbeat younger than 15 s, the answer of an agent to whether    *)
(* its status is "ok".                                                     *)
(***************************************************************************)
EXTENDS Integers, Sequences

CONSTANTS MaxJobs,      \* bound: how many jobs are submitted
          RetryLimits,  \* the values of maxRetries clients pass
          MaxStarts     \* bound: how often the scheduler is started

ASSUME JobBoundsAssumption == MaxJobs \in Nat /\ MaxStarts \in Nat
ASSUME RetryLimitsAssumption == RetryLimits \subseteq Nat

VARIABLES jobs,       \* jobs_, in submission order (a job's id is its index)
          serving,    \* running_
          dispatcher, \* where the dispatch thread is
          pointer,    \* pendingJob: the index it points to, 0 for nullptr
          agentUp,    \* some agent is online and has a fresh heartbeat
          starts,     \* times start() made a thread
          runs,       \* times each job was sent to an agent (history)
          dangling,   \* what pendingJob points to was moved away: freed memory
          raced,      \* jobs cancelled while pendingJob pointed to them (history)
          torn        \* jobs pendingJob pointed to when the vector moved (history)

jobVars == <<jobs, serving, dispatcher, pointer, agentUp, starts, runs, dangling, raced, torn>>

JobStatuses == {"Pending", "Running", "Succeeded", "Failed"}

Job == [status : JobStatuses, attempt : Nat, maxRetries : RetryLimits]

JobIds == DOMAIN jobs

\* The attempts a job may use: a job is sent once even with maxRetries = 0.
Allowed(j) == IF jobs[j].maxRetries = 0 THEN 1 ELSE jobs[j].maxRetries

JobInit ==
  /\ jobs = << >>
  /\ serving = FALSE
  /\ dispatcher = "none"
  /\ pointer = 0
  /\ agentUp = FALSE
  /\ starts = 0
  /\ runs = [j \in 1..MaxJobs |-> 0]
  /\ dangling = FALSE
  /\ raced = {}
  /\ torn = {}

-------------------------------------------------------------------------------
\* Clients.

\* submitJob: push_back moves the jobs whenever their capacity is used up, which
\* the implementation's growth policy decides.
SubmitJob ==
  /\ Len(jobs) < MaxJobs
  /\ \E r \in RetryLimits :
       jobs' = Append(jobs, [status |-> "Pending", attempt |-> 0, maxRetries |-> r])
  /\ \/ /\ pointer # 0
        /\ dangling' = TRUE
        /\ torn' = torn \cup {pointer}
     \/ UNCHANGED <<dangling, torn>>
  /\ UNCHANGED <<serving, dispatcher, pointer, agentUp, starts, runs, raced>>

\* A mutant: a job that runs can be cancelled too.
MutantCancelJob ==
  \E j \in JobIds :
    /\ jobs[j].status \in {"Pending", "Running"}
    /\ jobs' = [jobs EXCEPT ![j].status = "Failed"]
    /\ raced' = IF j = pointer /\ jobs[j].status = "Pending" THEN raced \cup {j} ELSE raced
    /\ UNCHANGED <<serving, dispatcher, pointer, agentUp, starts, runs, dangling, torn>>

\* cancelJob, when it returns true; in any other status it does nothing.
CancelJob ==
  \E j \in JobIds :
    /\ jobs[j].status = "Pending"
    /\ jobs' = [jobs EXCEPT ![j].status = "Failed"]
    /\ raced' = IF j = pointer THEN raced \cup {j} ELSE raced
    /\ UNCHANGED <<serving, dispatcher, pointer, agentUp, starts, runs, dangling, torn>>

\* registerAgent, which is also an agent's heartbeat.
RegisterAgent ==
  /\ ~agentUp
  /\ agentUp' = TRUE
  /\ UNCHANGED <<jobs, serving, dispatcher, pointer, starts, runs, dangling, raced, torn>>

\* 15 s pass without a heartbeat of any agent.
AgentsExpire ==
  /\ agentUp
  /\ agentUp' = FALSE
  /\ UNCHANGED <<jobs, serving, dispatcher, pointer, starts, runs, dangling, raced, torn>>

\* start; a second call while it runs returns at once.  start tests running_ alone, but
\* stop returns only after its join, so the owner, whose calls follow each other, finds no
\* dispatch thread left.  (Another thread's start within stop would replace a thread object
\* that is still joinable, which ends the program.)
StartScheduler ==
  /\ ~serving /\ dispatcher = "none"
  /\ starts < MaxStarts
  /\ serving' = TRUE
  /\ starts' = starts + 1
  /\ dispatcher' = "select"
  /\ UNCHANGED <<jobs, pointer, agentUp, runs, dangling, raced, torn>>

\* stop, up to the join: running_ = false.
StopScheduler ==
  /\ serving
  /\ serving' = FALSE
  /\ UNCHANGED <<jobs, dispatcher, pointer, agentUp, starts, runs, dangling, raced, torn>>

-------------------------------------------------------------------------------
\* The dispatch thread.

\* stop returns: the thread has left its loop and is joined.
JoinDispatcher ==
  /\ dispatcher = "select" /\ ~serving
  /\ dispatcher' = "none"
  /\ UNCHANGED <<jobs, serving, pointer, agentUp, starts, runs, dangling, raced, torn>>

FirstPending(j) ==
  /\ j \in JobIds /\ jobs[j].status = "Pending"
  /\ \A k \in JobIds : k < j => jobs[k].status # "Pending"

\* The selection under jobsMutex_; without a pending job the loop sleeps.
SelectJob ==
  /\ dispatcher = "select" /\ serving
  /\ \E j \in JobIds : FirstPending(j) /\ pointer' = j
  /\ dispatcher' = "assign"
  /\ UNCHANGED <<jobs, serving, agentUp, starts, runs, dangling, raced, torn>>

\* findIdleAgent finds none: the pointer is dropped and the loop sleeps.
NoAgent ==
  /\ dispatcher = "assign" /\ ~agentUp
  /\ pointer' = 0
  /\ dispatcher' = "select"
  /\ dangling' = FALSE
  /\ UNCHANGED <<jobs, serving, agentUp, starts, runs, raced, torn>>

Marked(j) == [jobs EXCEPT ![j].status = "Running", ![j].attempt = @ + 1]

\* The job is marked through the pointer, its status not looked at again, and
\* sent.  A dangling pointer writes to freed memory: the job is not marked.
SendJob ==
  /\ dispatcher = "assign" /\ agentUp
  /\ jobs' = IF dangling THEN jobs ELSE Marked(pointer)
  /\ runs' = [runs EXCEPT ![pointer] = @ + 1]
  /\ dispatcher' = "sent"
  /\ UNCHANGED <<serving, pointer, agentUp, starts, dangling, raced, torn>>

\* The thread is done with the job.
Release ==
  /\ pointer' = 0
  /\ dangling' = FALSE
  /\ dispatcher' = "select"
  /\ UNCHANGED <<serving, agentUp, starts, runs, raced, torn>>

\* completeJob or failJob, which find the job by its id again.
Settled(j, status) == [jobs EXCEPT ![j].status = status]

\* A mutant: retries are counted from zero, one more than the limit.
MutantRetries(j) == jobs[j].attempt <= jobs[j].maxRetries

Retries(j) == jobs[j].attempt < jobs[j].maxRetries

AgentSucceeds ==
  /\ dispatcher = "sent" /\ ~dangling
  /\ jobs' = Settled(pointer, "Succeeded")
  /\ Release

\* No "ok" from the agent, a failed connection or an exception of the callback.
AgentFails ==
  /\ dispatcher = "sent" /\ ~dangling
  /\ jobs' = Settled(pointer, IF Retries(pointer) THEN "Pending" ELSE "Failed")
  /\ Release

\* The pointer dangles: the id, attempt and maxRetries read through it are the old
\* values or rubbish.  A retry is written to freed memory, and an id that is
\* rubbish settles no job.
AgentAnswersDangling ==
  /\ dispatcher = "sent" /\ dangling
  /\ \/ jobs' = jobs
     \/ \E s \in {"Succeeded", "Failed"} : jobs' = Settled(pointer, s)
  /\ Release

Dispatch ==
  \/ SelectJob
  \/ NoAgent
  \/ SendJob
  \/ AgentSucceeds
  \/ AgentFails
  \/ AgentAnswersDangling
  \/ JoinDispatcher

JobClient ==
  \/ SubmitJob
  \/ CancelJob
  \/ RegisterAgent
  \/ AgentsExpire
  \/ StartScheduler
  \/ StopScheduler

JobNext == JobClient \/ Dispatch

JobSpec == JobInit /\ [][JobNext]_jobVars

-------------------------------------------------------------------------------

\* Types, and the pointer is set from the selection of a job until it is settled.
JobTypeOK ==
  /\ jobs \in Seq(Job) /\ Len(jobs) <= MaxJobs
  /\ serving \in BOOLEAN /\ agentUp \in BOOLEAN /\ dangling \in BOOLEAN
  /\ dispatcher \in {"none", "select", "assign", "sent"}
  /\ pointer \in 0..Len(jobs) /\ (pointer # 0 <=> dispatcher \in {"assign", "sent"})
  /\ starts \in 0..MaxStarts
  /\ runs \in [1..MaxJobs -> Nat]
  /\ raced \subseteq JobIds /\ torn \subseteq JobIds

\* A job is Running only while the dispatch thread waits for its answer, also
\* when the scheduler is stopped and started in between; so nothing is left
\* Running by stop (JobScheduler.cpp:127-134, 163-198).  The exception is a job
\* under whose pointer a submit moved the vector.
NoneLeftRunning ==
  \A j \in JobIds :
    jobs[j].status = "Running" => (dispatcher = "sent" /\ pointer = j) \/ j \in torn

\* A job is sent to agents at most maxRetries times, once if that is 0, however
\* cancellations, stops and restarts interleave with the retries
\* (JobScheduler.cpp:167, 189), but for the jobs whose count was written to
\* freed memory.
AttemptsWithinLimit ==
  \A j \in JobIds : runs[j] <= Allowed(j) \/ j \in torn

\* The jobs are sound in every interleaving of clients and the dispatch thread.
JobsSound == JobTypeOK /\ NoneLeftRunning /\ AttemptsWithinLimit

Decided(j) == j \in JobIds /\ jobs[j].status \in {"Succeeded", "Failed"}

\* A job that has succeeded, failed or been cancelled keeps that outcome.  The
\* exceptions are a cancellation between the selection and the marking
\* (JobScheduler.cpp:149-167), after which the job is run and settled again,
\* and an answer read through a dangling pointer.
OutcomesAreFinal ==
  [][\A j \in JobIds :
       Decided(j) /\ jobs'[j].status # jobs[j].status => j \in raced \cup torn]_jobVars

\* Once the scheduler stays on and some agent stays alive, every submitted job
\* is decided: retries end and no job keeps the first place for ever
\* (dispatchLoop), unless a submit has moved it under the dispatch thread.
JobsDecided ==
  <>[](serving /\ agentUp) =>
    \A j \in 1..MaxJobs : (Len(jobs) >= j) ~> (Decided(j) \/ j \in torn)
===============================================================================
