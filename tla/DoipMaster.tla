------------------------------ MODULE DoipMaster ------------------------------
(***************************************************************************)
(* The DoipMaster plugin: the steps of one workflow on a cell share a      *)
(* session, a DoIP connection with routing activated.  A second thread of  *)
(* the session keeps it alive with TesterPresent requests of its own; the  *)
(* two threads take turns under ioMutex.  A session closes when a step     *)
(* asks for it, fails, or finds it lost or idle for too long; closing it   *)
(* joins the second thread.                                                *)
(*                                                                         *)
(* A step is its options: whether it enables the second thread, sends a    *)
(* TesterPresent first, and closes the session.  The map of sessions is    *)
(* this one session: a session that is removed has been closed, and a new  *)
(* one starts as a closed one does.                                        *)
(***************************************************************************)
EXTENDS DoipLayer

CONSTANTS MaxDoipSteps,  \* bound: how many steps are executed
          MaxRequests    \* bound: after so many requests the second thread rests

ASSUME DoipBoundsAssumption == MaxDoipSteps \in Nat /\ MaxRequests \in Nat /\ MaxFlight \in Nat

NoThread == "none"

Options == [keepAlive : BOOLEAN, before : BOOLEAN, close : BOOLEAN]
NoOptions == [keepAlive |-> FALSE, before |-> FALSE, close |-> FALSE]

VARIABLES stepPlace,         \* where executeStep is
          options,    \* of its step
          steps,      \* how many steps were begun
          sessionOpen,       \* the session has a driver and a layer
          routing,    \* session.routingActive
          diagnosed,  \* hasDiagnostic
          keeper,     \* where the second thread is: "none" before it starts
          keeperStop,       \* keepAliveStop
          keeperEnabled,    \* keepAliveEnabled
          ioMutex,    \* who holds it
          late        \* history: a TesterPresent failed on this connection

sessionVars == <<sessionOpen, routing, diagnosed>>
keeperVars == <<keeper, keeperStop, keeperEnabled>>
doipStepVars == <<stepPlace, options, steps>>
doipVars == <<layerVars, sessionVars, keeperVars, doipStepVars, ioMutex, late>>

DoipInit ==
  /\ LayerInit
  /\ stepPlace = "idle" /\ options = NoOptions /\ steps = 0
  /\ sessionOpen = FALSE /\ routing = FALSE /\ diagnosed = FALSE
  /\ keeper = "none" /\ keeperStop = FALSE /\ keeperEnabled = FALSE
  /\ ioMutex = NoThread /\ late = FALSE

SessionGoes(place) ==
  /\ stepPlace' = place
  /\ options' = IF place = "idle" THEN NoOptions ELSE options
  /\ UNCHANGED steps

\* A step that fails closes the session before it returns.
Fails == SessionGoes("closing")

\* executeStep of a new step; a connection that was lost fails it.
BeginStep ==
  /\ stepPlace = "idle" /\ steps < MaxDoipSteps
  /\ steps' = steps + 1
  /\ options' \in Options
  /\ stepPlace' = IF ~sessionOpen THEN "connect" ELSE IF linked THEN "check" ELSE "closing"
  /\ UNCHANGED <<layerVars, sessionVars, keeperVars, ioMutex, late>>

\* The session was idle too long and is replaced, or it is used.
CheckIdle ==
  /\ stepPlace = "check"
  /\ SessionGoes("reconnect") \/ SessionGoes("route")
  /\ UNCHANGED <<layerVars, sessionVars, keeperVars, ioMutex, late>>

Connect ==
  /\ stepPlace = "connect"
  /\ \/ LinkUp /\ sessionOpen' = TRUE /\ late' = FALSE /\ SessionGoes("route")
     \/ Fails /\ UNCHANGED <<layerVars, sessionOpen, late>>
  /\ UNCHANGED <<routing, diagnosed, keeperVars, ioMutex>>

\* activateRouting, unless the session has routing: not under ioMutex.
Route ==
  /\ stepPlace = "route"
  /\ IF routing THEN SessionGoes("configure") /\ UNCHANGED layerVars
                ELSE Request("step", "routing") /\ SessionGoes("routing")
  /\ UNCHANGED <<sessionVars, keeperVars, ioMutex, late>>

Routed ==
  /\ stepPlace = "routing" /\ Consume("step")
  /\ IF answer["step"] # Nothing
     THEN routing' = TRUE /\ SessionGoes("configure")
     ELSE Fails /\ UNCHANGED routing
  /\ UNCHANGED <<sessionOpen, diagnosed, keeperVars, ioMutex, late>>

\* configureKeepAlive: the second thread starts once and stays until the close.
Configure ==
  /\ stepPlace = "configure"
  /\ keeperEnabled' = options.keepAlive
  /\ IF options.keepAlive /\ keeper = "none"
     THEN keeper' = "wait" /\ keeperStop' = FALSE
     ELSE UNCHANGED <<keeper, keeperStop>>
  /\ SessionGoes("lock")
  /\ UNCHANGED <<layerVars, sessionVars, ioMutex, late>>

LockIo ==
  /\ stepPlace = "lock" /\ ioMutex = NoThread
  /\ ioMutex' = "step"
  /\ SessionGoes(IF options.before /\ keeperEnabled /\ diagnosed THEN "before" ELSE "ask")
  /\ UNCHANGED <<layerVars, sessionVars, keeperVars, late>>

\* A TesterPresent first; what comes of it does not matter.
AskBefore ==
  /\ stepPlace = "before"
  /\ Request("step", "tester")
  /\ SessionGoes("besides")
  /\ UNCHANGED <<sessionVars, keeperVars, ioMutex, late>>

\* The request itself.
Ask ==
  /\ stepPlace = "ask" \/ (stepPlace = "besides" /\ exchange["step"] = Nothing)
  /\ Request("step", "business")
  /\ late' = (late \/ (stepPlace = "besides" /\ answer["step"] = Nothing))
  /\ SessionGoes("asking")
  /\ UNCHANGED <<sessionVars, keeperVars, ioMutex>>

\* A mutant: the session is closed under ioMutex.
MutantUnlockIo == ioMutex' = IF answer["step"] = Nothing THEN ioMutex ELSE NoThread

UnlockIo == ioMutex' = NoThread

\* The answer is decoded and compared with what the step expects.
Answered ==
  /\ stepPlace = "asking" /\ Consume("step")
  /\ UnlockIo
  /\ IF answer["step"] = Nothing
     THEN Fails /\ UNCHANGED diagnosed
     ELSE diagnosed' = TRUE /\ (Fails \/ SessionGoes(IF options.close THEN "closing" ELSE "idle"))
  /\ UNCHANGED <<sessionOpen, routing, keeperVars, late>>

\* The workflow is over (postWorkflow), or the plugin is unloaded.
EndWorkflow ==
  /\ stepPlace = "idle" /\ sessionOpen
  /\ SessionGoes("closing")
  /\ UNCHANGED <<layerVars, sessionVars, keeperVars, ioMutex, late>>

\* closeSession stops the second thread,
CloseBegins ==
  /\ stepPlace \in {"closing", "reconnect"}
  /\ keeperStop' = TRUE
  /\ SessionGoes(IF stepPlace = "closing" THEN "joining" ELSE "rejoining")
  /\ UNCHANGED <<layerVars, sessionVars, keeper, keeperEnabled, ioMutex, late>>

KeeperGone == keeper \in {"none", "ended"}

\* waits for it, and takes the connection down.
CloseEnds ==
  /\ stepPlace \in {"joining", "rejoining"} /\ KeeperGone
  /\ keeper' = IF keeper = "ended" THEN "none" ELSE keeper
  /\ LinkDown
  /\ sessionOpen' = FALSE /\ routing' = FALSE
  /\ SessionGoes(IF stepPlace = "joining" THEN "idle" ELSE "connect")
  /\ UNCHANGED <<diagnosed, keeperStop, keeperEnabled, ioMutex, late>>

StepThread ==
  \/ CheckIdle \/ Connect \/ Route \/ Routed \/ Configure \/ LockIo
  \/ AskBefore \/ Ask \/ Answered \/ CloseBegins \/ CloseEnds

-------------------------------------------------------------------------------
(***************************************************************************)
(* The second thread.                                                      *)
(***************************************************************************)

\* The interval is over, or the stop is noticed.
KeeperWakes ==
  /\ keeper = "wait"
  /\ keeper' = IF keeperStop THEN "ended" ELSE IF keeperEnabled /\ requests < MaxRequests THEN "lock" ELSE "wait"
  /\ UNCHANGED <<layerVars, sessionVars, keeperStop, keeperEnabled, doipStepVars, ioMutex, late>>

KeeperAsks ==
  /\ keeper = "lock" /\ ioMutex = NoThread
  /\ IF linked
     THEN Request("keeper", "tester") /\ keeper' = "asking" /\ ioMutex' = "keeper"
     ELSE keeper' = "wait" /\ UNCHANGED <<layerVars, ioMutex, late>>
  /\ UNCHANGED <<sessionVars, keeperStop, keeperEnabled, doipStepVars, late>>

KeeperAnswered ==
  /\ keeper = "asking" /\ Consume("keeper")
  /\ keeper' = "wait" /\ ioMutex' = NoThread
  /\ late' = (late \/ answer["keeper"] = Nothing)
  /\ UNCHANGED <<sessionVars, keeperStop, keeperEnabled, doipStepVars>>

Keeper == KeeperWakes \/ KeeperAsks \/ KeeperAnswered

DoipNext ==
  \/ BeginStep \/ EndWorkflow \/ StepThread \/ Keeper
  \/ LayerNext /\ UNCHANGED <<sessionVars, keeperVars, doipStepVars, ioMutex, late>>

DoipSpec == DoipInit /\ [][DoipNext]_doipVars

-------------------------------------------------------------------------------

\* Types, and what belongs to a session that is open.
DoipTypeOK ==
  /\ stepPlace \in {"idle", "check", "connect", "route", "routing", "configure", "lock", "before",
              "besides", "ask", "asking", "closing", "joining", "reconnect", "rejoining"}
  /\ options \in Options /\ steps \in 0..MaxDoipSteps
  /\ keeper \in {"none", "wait", "lock", "asking", "ended"}
  /\ {sessionOpen, routing, diagnosed, keeperStop, keeperEnabled, late, linked, ecuRouting} \subseteq BOOLEAN
  /\ ioMutex \in Threads \cup {NoThread}
  /\ (linked \/ routing \/ keeper # "none") => sessionOpen

\* The two threads never wait on the same connection at once, and the second one
\* never waits on a connection that a close has taken down (DoipMasterPlugin.cpp:
\* 382, 404-413): one would take the other's answer, or read a freed object.
OneExchange ==
  /\ exchange["keeper"] # Nothing => sessionOpen /\ exchange["step"] = Nothing
  /\ exchange["step"] # Nothing => sessionOpen

\* A step's answer (:244) is the vehicle's final answer to its own request, neither
\* an acknowledgement nor a "pending" (DoipProtocolLayer.cpp:334-335) nor the answer
\* to an earlier request, as long as every TesterPresent on the connection had its
\* answer in time.  Requests of steps need no such condition: a step that fails
\* closes the connection.
AnswersMatch ==
  stepPlace = "asking" /\ exchange["step"] = Nothing /\ answer["step"] # Nothing /\ ~late =>
    answer["step"].id = requests /\ answer["step"].kind = "final"

\* A session that says it has routing has it on the connection it uses now, so
\* that no step skips the activation of a new connection (:208).
RoutingHonest == routing /\ linked => ecuRouting

\* What the session remembers, its thread and its frames fit together at any time.
SessionsSound == DoipTypeOK /\ OneExchange /\ AnswersMatch /\ RoutingHonest /\ FramesWhole

\* A step and the end of a workflow return, however slow the vehicle is and
\* whatever the second thread does: the close that joins it never waits for a
\* thread that waits for ioMutex.
StepsEnd == stepPlace # "idle" ~> stepPlace = "idle"
===============================================================================
