-------------------------- MODULE RolloutController --------------------------
(***************************************************************************)
(* lerobot/rollout/controller.py: commands of any thread (serialized by a  *)
(* lock, but not against the threads that do not take it), the thread that *)
(* runs serve() and the segments of a strategy, and the engine's thread,   *)
(* which serves the queries of TextQueries.                                *)
(***************************************************************************)
EXTENDS TextQueries

CONSTANTS
    MaxCommands,    \* bounds the operator
    MaxFailures     \* bounds what fails or shuts down

ASSUME ControllerAssumption == {MaxCommands, MaxFailures} \subseteq Nat

VARIABLES
    startRequested, resetRequested, stopRequested, running, stopped,
    segmentStop,    \* the LinkedEvent's own flag
    globalShutdown, \* its parent
    engineFailed,
    strategyFailed, \* _strategy_failure_traceback
    active,         \* the engine's _policy_active
    obs,            \* whether the engine was given an observation to use
    op,             \* where the operator's thread is, "ready" without the lock
    last,           \* the last command that starts or ends movement
    commands, failures,
    serve           \* where the thread of serve() is

flagVars == <<startRequested, resetRequested, stopRequested, segmentStop>>
runVars == <<running, stopped, active, obs>>
failVars == <<globalShutdown, engineFailed, strategyFailed, failures>>
opVars == <<op, last, commands>>
vars == <<task, queryVars, resolved, dropped, serviceVars, flagVars, runVars,
          failVars, opVars, serve>>

TypeOK ==
    /\ QueryTypeOK
    /\ startRequested \in BOOLEAN /\ resetRequested \in BOOLEAN
    /\ stopRequested \in BOOLEAN /\ running \in BOOLEAN /\ stopped \in BOOLEAN
    /\ segmentStop \in BOOLEAN /\ globalShutdown \in BOOLEAN
    /\ engineFailed \in BOOLEAN /\ strategyFailed \in BOOLEAN
    /\ active \in BOOLEAN /\ obs \in BOOLEAN
    /\ op \in {"ready", "restore", "retask", "signal"}
    /\ last \in {"none", "start", "reset", "stop"}
    /\ commands \in 0 .. MaxCommands
    /\ failures \in 0 .. MaxFailures
    /\ serve \in {"check", "start", "clear", "flags", "prepare", "resume",
                  "tick", "poll", "deliver", "pause", "finish", "drop",
                  "clean", "report", "over"}

Init ==
    /\ QueryInit
    /\ startRequested = FALSE /\ resetRequested = FALSE
    /\ stopRequested = FALSE /\ segmentStop = FALSE
    /\ running = FALSE /\ stopped = FALSE /\ active = FALSE /\ obs = FALSE
    /\ globalShutdown = FALSE /\ engineFailed = FALSE
    /\ strategyFailed = FALSE /\ failures = 0
    /\ op = "ready" /\ last = "none" /\ commands = 0
    /\ serve = "check"

Failed == engineFailed \/ strategyFailed
StopIsSet == segmentStop \/ globalShutdown

-----------------------------------------------------------------------------
(* The control methods.                                                    *)

(* The end of a segment holds the lock over three calls of the engine.     *)
LockFree == serve \notin {"drop", "clean"}

Command ==
    /\ commands < MaxCommands
    /\ op = "ready" /\ LockFree
    /\ commands' = commands + 1

OpOnly == UNCHANGED <<resolved, dropped, serviceVars, runVars, failVars, serve>>

Start ==
    /\ Command
    /\ ~stopped /\ ~stopRequested /\ ~Failed /\ ~running
    /\ startRequested' = TRUE
    /\ last' = "start"
    /\ UNCHANGED <<task, queryVars, resetRequested, stopRequested, segmentStop,
                   op>>
    /\ OpOnly

Reset ==
    /\ Command
    /\ ~stopped /\ ~stopRequested
    /\ startRequested' = FALSE
    /\ StopAutosteer
    /\ op' = "restore"
    /\ last' = "reset"
    /\ UNCHANGED <<task, resetRequested, stopRequested, segmentStop>>
    /\ OpOnly

(* The launch task is restored, and the flag set before the event.         *)
RestoreTask ==
    /\ op = "restore"
    /\ task' = OperatorTask
    /\ resetRequested' = TRUE
    /\ op' = "signal"
    /\ UNCHANGED <<queryVars, startRequested, stopRequested, segmentStop, last,
                   commands>>
    /\ OpOnly

Stop ==
    /\ Command
    /\ ~stopped
    /\ startRequested' = FALSE
    /\ stopRequested' = TRUE
    /\ op' = "signal"
    /\ last' = "stop"
    /\ UNCHANGED <<task, queryVars, resetRequested, segmentStop>>
    /\ OpOnly

Signal ==
    /\ op = "signal"
    /\ segmentStop' = TRUE
    /\ op' = "ready"
    /\ UNCHANGED <<task, queryVars, startRequested, resetRequested,
                   stopRequested, last, commands>>
    /\ OpOnly

(* Mutant: the sequencer is stopped after the task is set.                 *)
StopsFirst == UNCHANGED queryVars

StopsSequencer == StopAutosteer

SetTask ==
    /\ Command
    /\ ~stopped /\ ~stopRequested
    /\ StopsSequencer
    /\ op' = "retask"
    /\ UNCHANGED <<task, flagVars, last>>
    /\ OpOnly

Retask ==
    /\ op = "retask"
    /\ task' = OperatorTask
    /\ op' = "ready"
    /\ UNCHANGED <<queryVars, flagVars, last, commands>>
    /\ OpOnly

(* ask, autosteer and stop_autosteer.                                      *)
QueryCommand ==
    /\ Command
    /\ (running /\ (Ask \/ StartAutosteer)) \/ StopAutosteer
    /\ UNCHANGED <<task, flagVars, op, last>>
    /\ OpOnly

Operator ==
    \/ Start \/ Reset \/ Stop \/ SetTask \/ QueryCommand

OperatorGoesOn == RestoreTask \/ Signal \/ Retask

-----------------------------------------------------------------------------
(* serve().                                                                *)

Goto(pc) == serve' = pc

ServeOnly == UNCHANGED <<dropped, serviceVars, failVars, opVars>>

(* The checks before a start is looked for.                                *)
ServeEnds ==
    /\ serve = "check"
    /\ globalShutdown \/ Failed \/ stopRequested
    /\ stopped' = TRUE
    /\ Goto("over")
    /\ UNCHANGED <<task, queryVars, resolved, flagVars, running, active, obs>>
    /\ ServeOnly

(* _reset_robot pauses the engine and moves the robot home.                *)
ResetRobot ==
    /\ serve = "check"
    /\ ~(globalShutdown \/ Failed \/ stopRequested)
    /\ resetRequested
    /\ resetRequested' = FALSE
    /\ active' = FALSE
    /\ UNCHANGED <<task, queryVars, resolved, startRequested, stopRequested,
                   segmentStop, running, stopped, obs, serve>>
    /\ ServeOnly

NothingFirst ==
    /\ serve = "check"
    /\ ~(globalShutdown \/ Failed \/ stopRequested \/ resetRequested)
    /\ Goto("start")
    /\ UNCHANGED <<task, queryVars, resolved, flagVars, runVars>>
    /\ ServeOnly

(* Mutant: the request stays for the next look.                            *)
StartKept == startRequested

StartConsumed == FALSE

(* The request is consumed and the segment marked running under the lock.  *)
ConsumeStart ==
    /\ serve = "start"
    /\ op = "ready"
    /\ startRequested
    /\ startRequested' = StartConsumed
    /\ running' = TRUE
    /\ Goto("clear")
    /\ UNCHANGED <<task, queryVars, resolved, resetRequested, stopRequested,
                   segmentStop, stopped, active, obs>>
    /\ ServeOnly

IdlePump ==
    /\ serve = "start"
    /\ ~startRequested
    /\ DeliverAnswers
    /\ Goto("check")
    /\ UNCHANGED <<task, flagVars, runVars>>
    /\ ServeOnly

ClearSegmentStop ==
    /\ serve = "clear"
    /\ segmentStop' = FALSE
    /\ Goto("flags")
    /\ UNCHANGED <<task, queryVars, resolved, startRequested, resetRequested,
                   stopRequested, runVars>>
    /\ ServeOnly

(* Mutants: the flags that are looked at after the event is cleared.       *)
IgnoresFailure == stopRequested \/ resetRequested \/ globalShutdown
IgnoresReset == stopRequested \/ globalShutdown \/ engineFailed

Overtaken == stopRequested \/ resetRequested \/ globalShutdown \/ engineFailed

CheckFlags ==
    /\ serve = "flags"
    /\ Goto(IF Overtaken THEN "finish" ELSE "prepare")
    /\ UNCHANGED <<task, queryVars, resolved, flagVars, runVars>>
    /\ ServeOnly

(* reset_control_state drops the observation; run() resumes the engine.    *)
Prepare ==
    /\ serve = "prepare"
    /\ obs' = FALSE
    /\ Goto("resume")
    /\ UNCHANGED <<task, queryVars, resolved, flagVars, running, stopped,
                   active>>
    /\ ServeOnly

ResumeEngine ==
    /\ serve = "resume"
    /\ active' = TRUE
    /\ Goto("tick")
    /\ UNCHANGED <<task, queryVars, resolved, flagVars, running, stopped, obs>>
    /\ ServeOnly

Tick ==
    /\ serve = "tick"
    /\ ~StopIsSet
    /\ obs' = TRUE
    /\ Goto("poll")
    /\ UNCHANGED <<task, queryVars, resolved, flagVars, running, stopped,
                   active>>
    /\ ServeOnly

(* pump_query at the end of the tick: a turn is due, or none is queued.    *)
PollDue ==
    /\ serve = "poll"
    /\ QueueTurn
    /\ Goto("deliver")
    /\ UNCHANGED <<task, resolved, flagVars, runVars>>
    /\ ServeOnly

Poll ==
    /\ serve = "poll"
    /\ UNCHANGED queryVars
    /\ Goto("deliver")
    /\ UNCHANGED <<task, resolved, flagVars, runVars>>
    /\ ServeOnly

Deliver ==
    /\ serve = "deliver"
    /\ DeliverAnswers
    /\ Goto("tick")
    /\ UNCHANGED <<task, flagVars, runVars>>
    /\ ServeOnly

LeaveLoop ==
    /\ serve = "tick"
    /\ Goto("pause")
    /\ UNCHANGED <<task, queryVars, resolved, flagVars, runVars>>
    /\ ServeOnly

(* Robot I/O or recording raises; run() unwinds.                           *)
StrategyFails ==
    /\ serve \in {"tick", "poll"}
    /\ failures < MaxFailures
    /\ failures' = failures + 1
    /\ strategyFailed' = TRUE
    /\ Goto("pause")
    /\ UNCHANGED <<task, queryVars, resolved, dropped, serviceVars, flagVars,
                   runVars, globalShutdown, engineFailed, opVars>>

PauseEngine ==
    /\ serve = "pause"
    /\ active' = FALSE
    /\ Goto("finish")
    /\ UNCHANGED <<task, queryVars, resolved, flagVars, running, stopped, obs>>
    /\ ServeOnly

(* The end of a segment: the control lock is taken, and kept up to clean.  *)
FinishSegment ==
    /\ serve = "finish"
    /\ op = "ready"
    /\ running' = FALSE
    /\ StopAutosteer
    /\ Goto("drop")
    /\ UNCHANGED <<task, resolved, flagVars, stopped, active, obs>>
    /\ ServeOnly

DropPending ==
    /\ serve = "drop"
    /\ DropPendingQuery
    /\ Goto("clean")
    /\ UNCHANGED <<task, resolved, serviceVars, flagVars, runVars, failVars, opVars>>

DropAnswers ==
    /\ serve = "clean"
    /\ DropReadySubtaskAnswers
    /\ Goto("report")
    /\ UNCHANGED <<task, resolved, flagVars, runVars>>
    /\ ServeOnly

(* Without the lock: a question that was dropped is answered with an error.*)
ReportDropped ==
    /\ serve = "report"
    /\ resolved' = [n \in DOMAIN resolved |->
                        resolved[n] + (IF dropped = Question(n) THEN 1 ELSE 0)]
    /\ dropped' = NoQuery
    /\ Goto("check")
    /\ UNCHANGED <<task, queryVars, serviceVars, flagVars, runVars, failVars, opVars>>

Serve ==
    \/ ServeEnds \/ ResetRobot \/ NothingFirst \/ ConsumeStart \/ IdlePump
    \/ ClearSegmentStop \/ CheckFlags \/ Prepare \/ ResumeEngine \/ Tick
    \/ PollDue \/ Poll \/ Deliver \/ PauseEngine \/ FinishSegment
    \/ DropPending \/ DropAnswers \/ ReportDropped

-----------------------------------------------------------------------------
(* The engine's thread.                                                    *)

EngineOnly == UNCHANGED <<dropped, flagVars, runVars, failVars, opVars, serve>>

Snapshot ==
    /\ rtc = "top"
    /\ active /\ obs
    /\ rtc' = "service"
    /\ UNCHANGED <<task, queryVars, resolved, query>>
    /\ EngineOnly

(* A fatal error of the inference after the query, which a pause does not  *)
(* stop: the engine has failed, then every loop is told.                   *)
EngineFails ==
    /\ rtc = "service"
    /\ pending = NoQuery
    /\ failures < MaxFailures
    /\ failures' = failures + 1
    /\ engineFailed' = TRUE
    /\ rtc' = "signal"
    /\ UNCHANGED <<task, queryVars, resolved, dropped, query, flagVars, runVars,
                   globalShutdown, strategyFailed, opVars, serve>>

EngineSignals ==
    /\ rtc = "signal"
    /\ segmentStop' = TRUE
    /\ rtc' = "dead"
    /\ UNCHANGED <<task, queryVars, resolved, dropped, query, startRequested,
                   resetRequested, stopRequested, runVars, failVars, opVars,
                   serve>>

Engine == Snapshot \/ (ServiceQuery /\ EngineOnly) \/ EngineSignals

(* SIGINT.                                                                 *)
ShutDown ==
    /\ failures < MaxFailures
    /\ failures' = failures + 1
    /\ globalShutdown' = TRUE
    /\ UNCHANGED <<task, queryVars, resolved, dropped, serviceVars, flagVars,
                   runVars, engineFailed, strategyFailed, opVars, serve>>

Terminated == serve = "over" /\ UNCHANGED vars

Next ==
    \/ Operator \/ OperatorGoesOn \/ Serve \/ LeaveLoop \/ StrategyFails
    \/ Engine \/ EngineFails \/ ShutDown \/ Terminated

Spec == Init /\ [][Next]_vars

(* Every thread runs; a policy answers; the time a turn is due at comes;   *)
(* nobody has to command anything, and a segment need not end by itself.   *)
Fairness ==
    /\ WF_vars(OperatorGoesOn)
    /\ WF_vars(Serve)
    /\ WF_vars(LeaveLoop /\ StopIsSet)
    /\ SF_vars(PollDue)
    /\ WF_vars(Engine)

FairSpec == Spec /\ Fairness

-----------------------------------------------------------------------------
(* After the last command was reset() or stop(), no loop goes on moving    *)
(* the robot: the loop that runs has been told to end.                     *)
LastCommandWins ==
    (last \in {"reset", "stop"} /\ op = "ready" /\ serve = "tick")
        => StopIsSet

(* While a segment runs no start is waiting behind it.                     *)
NoStartBehindSegment == running => ~startRequested

(* stop(), SIGINT and every failure end serve().                           *)
StopEndsServe ==
    (stopRequested \/ globalShutdown \/ Failed) ~> stopped

(* A question that was accepted is answered or reported dropped, unless    *)
(* serve() returns first.                                                  *)
QuestionsResolved ==
    \A n \in 1 .. MaxQuestions :
        asked >= n ~> (resolved[n] > 0 \/ stopped)

(* While a goal drives the robot its turns go on: a turn that was          *)
(* discarded, failed or waits behind a question does not stop them.        *)
AutosteerGoesOn ==
    \A n \in 1 .. MaxSteers :
        goal.steer = n ~> (goal.steer # n \/ (rtc = "generate" /\ Subtask(query)))

(* The idle pump announces no subtask: "no later announcement describes a  *)
(* sequencer that no longer drives anything" (base.py).                    *)
NoLateAnnouncement ==
    serve = "start" => readyAnswers[0] = 0
=============================================================================
