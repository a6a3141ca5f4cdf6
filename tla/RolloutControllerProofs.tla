----------------------- MODULE RolloutControllerProofs ------------------------
(***************************************************************************)
(* What the run of RolloutController shows of a few commands and questions,*)
(* proved for any number of them, of goals and of failures.                *)
(***************************************************************************)
EXTENDS RolloutController, TLAPS

-----------------------------------------------------------------------------
(* The commands.                                                           *)

Ending == last \in {"reset", "stop"}
InSegment == serve \in {"prepare", "resume", "tick", "poll", "deliver"}

(* After a reset or a stop no start is waiting, a segment that has yet to  *)
(* clear its event finds the request, and one past that finds the event.   *)
CommandsInv ==
    /\ Ending => ~startRequested
    /\ running => ~startRequested
    /\ (Ending /\ op # "restore" /\ serve \in {"clear", "flags"})
            => resetRequested \/ stopRequested
    /\ (Ending /\ op \in {"ready", "retask"} /\ InSegment) => StopIsSet

(* The queries.                                                            *)

Serving == rtc \in {"generate", "publish"}

(* The flag covers the whole service of a query.                           *)
FlightMarked == Serving => inFlight

(* A sequencer that drives the robot was started after the operator's task *)
(* was set, and none does while a task is being set.                       *)
SteeredLater ==
    /\ task.steer <= steers
    /\ goal # NoGoal => goal.steer <= steers
    /\ (goal # NoGoal /\ task.by = "operator") => task.steer < goal.steer
    /\ op \in {"restore", "retask"} => goal = NoGoal

(* A question is queued, served, ready, dropped but not yet reported, or   *)
(* resolved, in one place at most.                                         *)
OnePlace(n) ==
    /\ resolved[n] + readyAnswers[n] <= 1
    /\ pending = Question(n) => resolved[n] + readyAnswers[n] = 0
    /\ Serving /\ query = Question(n)
            => resolved[n] + readyAnswers[n] = 0 /\ pending # Question(n)
    /\ dropped = Question(n) =>
            /\ resolved[n] + readyAnswers[n] = 0
            /\ pending # Question(n)
            /\ Serving => query # Question(n)
    /\ n > asked =>
            /\ resolved[n] + readyAnswers[n] = 0
            /\ pending # Question(n) /\ dropped # Question(n)
            /\ Serving => query # Question(n)

EachInOnePlace == \A n \in 1 .. MaxQuestions : OnePlace(n)

QueriesInv ==
    /\ QueryTypeOK
    /\ FlightMarked
    /\ OneTurnAtATime
    /\ SteeredLater
    /\ EachInOnePlace

FlagsTypeOK ==
    /\ startRequested \in BOOLEAN /\ resetRequested \in BOOLEAN
    /\ stopRequested \in BOOLEAN /\ running \in BOOLEAN /\ stopped \in BOOLEAN
    /\ segmentStop \in BOOLEAN /\ globalShutdown \in BOOLEAN
    /\ engineFailed \in BOOLEAN /\ strategyFailed \in BOOLEAN
    /\ active \in BOOLEAN /\ obs \in BOOLEAN

PlacesTypeOK ==
    /\ op \in {"ready", "restore", "retask", "signal"}
    /\ last \in {"none", "start", "reset", "stop"}
    /\ commands \in 0 .. MaxCommands
    /\ failures \in 0 .. MaxFailures
    /\ serve \in {"check", "start", "clear", "flags", "prepare", "resume",
                  "tick", "poll", "deliver", "pause", "finish", "drop",
                  "clean", "report", "over"}

ControlTypeOK == FlagsTypeOK /\ PlacesTypeOK

ControllerInv == ControlTypeOK /\ CommandsInv /\ QueriesInv

-----------------------------------------------------------------------------
(* A query is none, a question or a turn, and which it is can be told.     *)
Told(q) ==
    /\ Subtask(q) => q.text \in Goals
    /\ Subtask(q) => q.no \in 0 .. MaxSteers
    /\ Subtask(q) => \A n \in Nat : q # Question(n)
    /\ ~Subtask(q) /\ q # NoQuery =>
            q.no \in 1 .. MaxQuestions /\ q = Question(q.no)
    /\ ~Subtask(q) => q.no \in 0 .. MaxQuestions

(* The three kinds of queries.                                             *)
LEMMA QueryKinds ==
    /\ NoQuery \in Queries /\ ~Subtask(NoQuery)
    /\ \A n \in 1 .. MaxQuestions :
        /\ Question(n) \in Queries /\ ~Subtask(Question(n))
        /\ Question(n) # NoQuery
        /\ Question(n).no = n
        /\ \A m \in Nat : Question(m) = Question(n) => m = n
    /\ \A q \in Queries : Told(q)
<1>. USE QueryAssumption DEF QueryAssumption
<1>1. NoQuery \in Queries /\ ~Subtask(NoQuery)
    BY DEF NoQuery, Queries, Subtask
<1>2. ASSUME NEW n \in 1 .. MaxQuestions
      PROVE  /\ Question(n) \in Queries /\ ~Subtask(Question(n))
             /\ Question(n) # NoQuery
             /\ Question(n).no = n
             /\ \A m \in Nat : Question(m) = Question(n) => m = n
    <2>1. Question(n) \in Queries
        BY DEF Queries
    <2>2. Question(n).no = n /\ \A m \in Nat : Question(m).no = m
        BY DEF Question
    <2>3. ~Subtask(Question(n)) /\ Question(n) # NoQuery
        BY DEF Question, Subtask, NoQuery
    <2>. QED
        BY <2>1, <2>2, <2>3
<1>3. ASSUME NEW q \in Queries PROVE Told(q)
    <2>1. CASE q = NoQuery
        BY <2>1 DEF Told, NoQuery, Subtask
    <2>2. ASSUME NEW n \in 1 .. MaxQuestions, q = Question(n) PROVE Told(q)
        BY <2>2 DEF Told, Question, Subtask
    <2>3. ASSUME NEW g \in [text : Goals, steer : 1 .. MaxSteers], q = Turn(g)
          PROVE  Told(q)
        BY <2>3 DEF Told, Turn, Question, Subtask
    <2>. QED
        BY <2>1, <2>2, <2>3 DEF Queries
<1>. QED
    BY <1>1, <1>2, <1>3

-----------------------------------------------------------------------------
(* The commands: no step leaves a loop that an earlier command has ended.  *)

(* Nothing was commanded.                                                  *)
LEMMA CommandsInit == Init => ControlTypeOK /\ CommandsInv
<1>. SUFFICES ASSUME Init PROVE ControlTypeOK /\ CommandsInv
    OBVIOUS
<1>1. ControlTypeOK
    <2>1. FlagsTypeOK
        BY Zenon DEF Init, FlagsTypeOK
    <2>2. PlacesTypeOK
        BY ControllerAssumption DEF ControllerAssumption, Init, PlacesTypeOK
    <2>. QED
        BY <2>1, <2>2 DEF ControlTypeOK
<1>2. CommandsInv
    BY DEF Init, CommandsInv, Ending, InSegment
<1>. QED
    BY <1>1, <1>2

(* A step of an operator.                                                  *)
LEMMA OperatorKeepsCommands ==
    ControlTypeOK /\ CommandsInv /\ (Operator \/ OperatorGoesOn)
        => ControlTypeOK' /\ CommandsInv'
<1>. SUFFICES ASSUME ControlTypeOK, CommandsInv, Operator \/ OperatorGoesOn
              PROVE  ControlTypeOK' /\ CommandsInv'
    OBVIOUS
<1>. USE ControllerAssumption
     DEF ControllerAssumption, ControlTypeOK, FlagsTypeOK, PlacesTypeOK,
         CommandsInv, Ending, InSegment, StopIsSet, Command, OpOnly, flagVars, runVars, failVars
<1>1. CASE Start
    BY <1>1 DEF Start
<1>2. CASE Reset
    <2>1. FlagsTypeOK'
        BY <1>2, Zenon DEF Reset
    <2>2. PlacesTypeOK'
        BY <1>2 DEF Reset
    <2>3. CommandsInv'
        BY <1>2 DEF Reset
    <2>. QED
        BY <2>1, <2>2, <2>3
<1>3. CASE RestoreTask
    BY <1>3 DEF RestoreTask
<1>4. CASE Stop
    <2>1. FlagsTypeOK'
        BY <1>4, Zenon DEF Stop
    <2>2. PlacesTypeOK'
        BY <1>4 DEF Stop
    <2>3. CommandsInv'
        BY <1>4 DEF Stop
    <2>. QED
        BY <2>1, <2>2, <2>3
<1>5. CASE Signal
    BY <1>5 DEF Signal
<1>6. CASE SetTask
    BY <1>6 DEF SetTask
<1>7. CASE Retask
    BY <1>7 DEF Retask
<1>8. CASE QueryCommand
    BY <1>8 DEF QueryCommand
<1>. QED
    BY <1>1, <1>2, <1>3, <1>4, <1>5, <1>6, <1>7, <1>8 DEF Operator, OperatorGoesOn

(* A step of the thread of serve().                                        *)
LEMMA ServeKeepsCommands ==
    ControlTypeOK /\ CommandsInv /\ (Serve \/ LeaveLoop \/ StrategyFails)
        => ControlTypeOK' /\ CommandsInv'
<1>. SUFFICES ASSUME ControlTypeOK, CommandsInv,
                     Serve \/ LeaveLoop \/ StrategyFails
              PROVE  ControlTypeOK' /\ CommandsInv'
    OBVIOUS
<1>. USE ControllerAssumption
     DEF ControllerAssumption, ControlTypeOK, FlagsTypeOK, PlacesTypeOK,
         CommandsInv, Ending, InSegment, StopIsSet, ServeOnly, Goto, flagVars, runVars, failVars, opVars
<1>1. CASE ServeEnds
    BY <1>1 DEF ServeEnds
<1>2. CASE ResetRobot
    <2>1. FlagsTypeOK'
        BY <1>2, Zenon DEF ResetRobot
    <2>2. PlacesTypeOK'
        BY <1>2 DEF ResetRobot
    <2>3. CommandsInv'
        BY <1>2 DEF ResetRobot
    <2>. QED
        BY <2>1, <2>2, <2>3
<1>3. CASE NothingFirst
    BY <1>3 DEF NothingFirst
<1>4. CASE ConsumeStart
    BY <1>4 DEF ConsumeStart, StartConsumed
<1>5. CASE IdlePump
    BY <1>5 DEF IdlePump
<1>6. CASE ClearSegmentStop
    <2>1. FlagsTypeOK'
        BY <1>6, Zenon DEF ClearSegmentStop
    <2>2. PlacesTypeOK'
        BY <1>6 DEF ClearSegmentStop
    <2>3. CommandsInv'
        BY <1>6 DEF ClearSegmentStop
    <2>. QED
        BY <2>1, <2>2, <2>3
<1>7. CASE CheckFlags
    BY <1>7 DEF CheckFlags, Overtaken
<1>8. CASE Prepare
    <2>1. FlagsTypeOK'
        BY <1>8, Zenon DEF Prepare
    <2>2. PlacesTypeOK'
        BY <1>8 DEF Prepare
    <2>3. CommandsInv'
        BY <1>8 DEF Prepare
    <2>. QED
        BY <2>1, <2>2, <2>3
<1>9. CASE ResumeEngine
    BY <1>9 DEF ResumeEngine
<1>10. CASE Tick
    BY <1>10 DEF Tick
<1>11. CASE PollDue
    BY <1>11 DEF PollDue
<1>12. CASE Poll
    BY <1>12 DEF Poll
<1>13. CASE Deliver
    BY <1>13 DEF Deliver
<1>14. CASE PauseEngine
    <2>1. FlagsTypeOK'
        BY <1>14, Zenon DEF PauseEngine
    <2>2. PlacesTypeOK'
        BY <1>14 DEF PauseEngine
    <2>3. CommandsInv'
        BY <1>14 DEF PauseEngine
    <2>. QED
        BY <2>1, <2>2, <2>3
<1>15. CASE FinishSegment
    <2>1. FlagsTypeOK'
        BY <1>15, Zenon DEF FinishSegment
    <2>2. PlacesTypeOK'
        BY <1>15 DEF FinishSegment
    <2>3. CommandsInv'
        BY <1>15 DEF FinishSegment
    <2>. QED
        BY <2>1, <2>2, <2>3
<1>16. CASE DropPending \/ DropAnswers \/ ReportDropped
    <2>0. /\ UNCHANGED <<flagVars, runVars, failVars, opVars>>
          /\ serve' \in {"clean", "report", "check"}
        BY <1>16 DEF DropPending, DropAnswers, ReportDropped
    <2>1. FlagsTypeOK'
        BY <2>0, Zenon
    <2>2. PlacesTypeOK'
        BY <2>0
    <2>3. CommandsInv'
        BY <2>0
    <2>. QED
        BY <2>1, <2>2, <2>3
<1>17. CASE LeaveLoop
    BY <1>17 DEF LeaveLoop
<1>18. CASE StrategyFails
    BY <1>18 DEF StrategyFails
<1>. QED
    BY <1>1, <1>2, <1>3, <1>4, <1>5, <1>6, <1>7, <1>8, <1>9, <1>10, <1>11,
       <1>12, <1>13, <1>14, <1>15, <1>16, <1>17, <1>18 DEF Serve

(* A step of the engine's thread, or SIGINT.                               *)
LEMMA EngineKeepsCommands ==
    ControlTypeOK /\ CommandsInv /\ (Engine \/ EngineFails \/ ShutDown)
        => ControlTypeOK' /\ CommandsInv'
<1>. SUFFICES ASSUME ControlTypeOK, CommandsInv, Engine \/ EngineFails \/ ShutDown
              PROVE  ControlTypeOK' /\ CommandsInv'
    OBVIOUS
<1>. USE ControllerAssumption
     DEF ControllerAssumption, ControlTypeOK, FlagsTypeOK, PlacesTypeOK,
         CommandsInv, Ending, InSegment, StopIsSet, EngineOnly, flagVars, runVars, failVars, opVars
<1>1. CASE Snapshot \/ (ServiceQuery /\ EngineOnly)
    BY <1>1 DEF Snapshot
<1>2. CASE EngineSignals
    BY <1>2 DEF EngineSignals
<1>3. CASE EngineFails
    BY <1>3 DEF EngineFails
<1>4. CASE ShutDown
    BY <1>4 DEF ShutDown
<1>. QED
    BY <1>1, <1>2, <1>3, <1>4 DEF Engine

(* Any step.                                                               *)
LEMMA CommandsStep ==
    ControlTypeOK /\ CommandsInv /\ [Next]_vars => ControlTypeOK' /\ CommandsInv'
<1>1. ControlTypeOK /\ CommandsInv /\ UNCHANGED vars
        => ControlTypeOK' /\ CommandsInv'
    BY DEF ControlTypeOK, FlagsTypeOK, PlacesTypeOK, CommandsInv, Ending,
           InSegment, StopIsSet, vars, flagVars, runVars, failVars, opVars
<1>. QED
    BY <1>1, OperatorKeepsCommands, ServeKeepsCommands, EngineKeepsCommands
    DEF Next, Terminated

-----------------------------------------------------------------------------
(* The queries: what each step may do to them.                             *)

(* Nothing, but the threads go on.                                         *)
Quiet ==
    /\ UNCHANGED <<task, queryVars, resolved, dropped, query>>
    /\ rtc' = rtc \/ (~Serving /\ rtc' \in {"service", "signal", "dead"})
    /\ op' \in {op, "ready", "signal"}

(* A step is one that touches the queries, or it is quiet.                 *)
LEMMA QuerySteps ==
    [Next]_vars =>
        \/ Quiet
        \/ Reset \/ RestoreTask \/ SetTask \/ Retask \/ QueryCommand
        \/ IdlePump \/ Deliver \/ PollDue
        \/ FinishSegment \/ DropPending \/ DropAnswers \/ ReportDropped
        \/ ServiceQuery /\ UNCHANGED <<op, dropped>>
<1>. SUFFICES ASSUME [Next]_vars,
                     ~(Reset \/ RestoreTask \/ SetTask \/ Retask \/ QueryCommand),
                     ~(IdlePump \/ Deliver \/ PollDue),
                     ~(FinishSegment \/ DropPending \/ DropAnswers \/ ReportDropped),
                     ~(ServiceQuery /\ UNCHANGED <<op, dropped>>)
              PROVE  Quiet
    OBVIOUS
<1>. USE DEF Quiet, serviceVars
<1>1. CASE Operator \/ OperatorGoesOn
    BY <1>1 DEF Operator, OperatorGoesOn, Start, Stop, Signal, OpOnly
<1>2. CASE Serve \/ LeaveLoop
    BY <1>2
    DEF Serve, LeaveLoop, ServeEnds, ResetRobot, NothingFirst, ConsumeStart,
        ClearSegmentStop, CheckFlags, Prepare, ResumeEngine, Tick, Poll,
        PauseEngine, ServeOnly, opVars
<1>3. CASE StrategyFails \/ ShutDown
    BY <1>3 DEF StrategyFails, ShutDown, opVars
<1>4. CASE Engine \/ EngineFails
    BY <1>4
    DEF Engine, EngineFails, Snapshot, EngineSignals, EngineOnly, opVars, Serving
<1>5. CASE UNCHANGED vars
    BY <1>5 DEF vars, opVars
<1>. QED
    BY <1>1, <1>2, <1>3, <1>4, <1>5 DEF Next, Terminated

(* Nothing is asked, and no sequencer was started.                         *)
LEMMA QueriesInit == Init => QueriesInv
<1>. SUFFICES ASSUME QueryInit PROVE QueriesInv
    BY DEF Init
<1>. USE QueryAssumption DEF QueryAssumption, QueryInit
<1>1. QueryTypeOK
    <2>1. /\ task \in [by : {"operator", "policy"}, steer : 0 .. MaxSteers,
                       turn : 0 .. MaxSteers]
          /\ steers \in 0 .. MaxSteers /\ asked \in 0 .. MaxQuestions
        OBVIOUS
    <2>2. /\ readyAnswers \in [0 .. MaxQuestions -> Nat]
          /\ resolved \in [1 .. MaxQuestions -> Nat]
        BY DEF NoAnswers
    <2>3. {pending, query} \subseteq Queries
        BY QueryKinds
    <2>4. inFlight \in BOOLEAN
        BY Zenon
    <2>. QED
        BY <2>1, <2>2, <2>3, <2>4 DEF QueryTypeOK
<1>2. FlightMarked /\ OneTurnAtATime
    BY DEF FlightMarked, Serving, OneTurnAtATime
<1>3. SteeredLater
    <2>1. op \notin {"restore", "retask"} \/ goal = NoGoal
        OBVIOUS
    <2>. QED
        BY <2>1 DEF SteeredLater
<1>4. EachInOnePlace
    <2>1. ASSUME NEW n \in 1 .. MaxQuestions PROVE OnePlace(n)
        <3>1. resolved[n] = 0 /\ readyAnswers[n] = 0 /\ n \in Nat
            BY DEF NoAnswers
        <3>2. pending # Question(n) /\ ~Serving
            BY QueryKinds DEF Serving
        <3>. QED
            BY <3>1, <3>2 DEF OnePlace
    <2>. QED
        BY <2>1 DEF EachInOnePlace
<1>. QED
    BY <1>1, <1>2, <1>3, <1>4 DEF QueriesInv

(* What a quiet step leaves.                                               *)
LEMMA QuietKeeps == QueriesInv /\ Quiet => QueriesInv'
<1>. SUFFICES ASSUME QueriesInv, Quiet PROVE QueriesInv'
    OBVIOUS
<1>. USE DEF Quiet, queryVars
<1>1. QueryTypeOK'
    BY DEF QueriesInv, QueryTypeOK
<1>2. FlightMarked' /\ OneTurnAtATime'
    BY DEF QueriesInv, FlightMarked, Serving, OneTurnAtATime, Subtask
<1>3. SteeredLater'
    BY DEF QueriesInv, SteeredLater, NoGoal
<1>4. EachInOnePlace'
    BY DEF QueriesInv, EachInOnePlace, OnePlace, Serving, Question
<1>. QED
    BY <1>1, <1>2, <1>3, <1>4 DEF QueriesInv

(* set_task and reset: the sequencer is stopped, and then the task set.    *)
LEMMA TasksKeep ==
    QueriesInv /\ (Reset \/ SetTask \/ RestoreTask \/ Retask) => QueriesInv'
<1>. SUFFICES ASSUME QueriesInv, Reset \/ SetTask \/ RestoreTask \/ Retask
              PROVE  QueriesInv'
    OBVIOUS
<1>1. UNCHANGED <<pending, inFlight, readyAnswers, steers, asked, resolved, rtc,
                  query, dropped>>
    BY DEF Reset, SetTask, RestoreTask, Retask, StopsSequencer, StopAutosteer,
           queryVars, OpOnly, serviceVars
<1>2. /\ task' \in {task, OperatorTask}
      /\ goal' \in {goal, NoGoal}
      /\ goal' = NoGoal \/ op' \notin {"restore", "retask"}
      /\ task' = task \/ goal' = NoGoal
    BY DEF QueriesInv, SteeredLater, Reset, SetTask, RestoreTask, Retask,
           StopsSequencer, StopAutosteer, queryVars
<1>3. OperatorTask \in [by : {"operator", "policy"}, steer : 0 .. MaxSteers,
                        turn : 0 .. MaxSteers]
    BY QueryAssumption
    DEF QueryAssumption, QueriesInv, QueryTypeOK, OperatorTask
<1>4. QueryTypeOK'
    BY <1>1, <1>2, <1>3 DEF QueriesInv, QueryTypeOK
<1>5. FlightMarked' /\ OneTurnAtATime'
    BY <1>1 DEF QueriesInv, FlightMarked, Serving, OneTurnAtATime, Subtask
<1>6. SteeredLater'
    <2>1. NoGoal' = NoGoal /\ steers' = steers
        BY <1>1 DEF NoGoal
    <2>2. steers \in Int /\ task.steer \in Int
        BY DEF QueriesInv, QueryTypeOK
    <2>3. task'.steer <= steers
        BY <1>2, <2>2 DEF OperatorTask, QueriesInv, SteeredLater
    <2>. QED
        BY <1>2, <2>1, <2>3 DEF QueriesInv, SteeredLater
<1>7. EachInOnePlace'
    BY <1>1 DEF QueriesInv, EachInOnePlace, OnePlace, Serving, Question
<1>. QED
    BY <1>4, <1>5, <1>6, <1>7 DEF QueriesInv

(* ask, autosteer and stop_autosteer.                                      *)
LEMMA QueryCommandKeeps == QueriesInv /\ QueryCommand => QueriesInv'
<1>. SUFFICES ASSUME QueriesInv, QueryCommand PROVE QueriesInv'
    OBVIOUS
<1>. USE QueryAssumption DEF QueryAssumption
<1>1. /\ UNCHANGED <<task, resolved, rtc, query, dropped, op>>
      /\ op = "ready"
      /\ Ask \/ StartAutosteer \/ StopAutosteer
    BY DEF QueryCommand, OpOnly, serviceVars, Command
<1>2. CASE Ask
    <2>1. /\ pending' = Question(asked + 1) /\ asked' = asked + 1
          /\ pending = NoQuery /\ asked + 1 \in 1 .. MaxQuestions
          /\ UNCHANGED <<inFlight, readyAnswers, goal, steers>>
        BY <1>2 DEF Ask, QueriesInv, QueryTypeOK
    <2>2. Question(asked + 1) \in Queries /\ ~Subtask(Question(asked + 1))
        BY <2>1, QueryKinds
    <2>3. QueryTypeOK'
        BY <1>1, <2>1, <2>2 DEF QueriesInv, QueryTypeOK
    <2>4. FlightMarked' /\ OneTurnAtATime'
        BY <1>1, <2>1, <2>2
        DEF QueriesInv, FlightMarked, Serving, OneTurnAtATime, Subtask
    <2>5. SteeredLater'
        BY <1>1, <2>1 DEF QueriesInv, SteeredLater, NoGoal
    <2>6. ASSUME NEW n \in 1 .. MaxQuestions PROVE OnePlace(n)'
        <3>1. OnePlace(n) /\ asked \in Nat
            BY DEF QueriesInv, EachInOnePlace, QueryTypeOK
        <3>2. Question(asked + 1) = Question(n) => n = asked + 1
            BY <2>1, QueryKinds
        <3>. QED
            BY <1>1, <2>1, <3>1, <3>2 DEF OnePlace, Serving, Question
    <2>. QED
        BY <2>3, <2>4, <2>5, <2>6 DEF QueriesInv, EachInOnePlace
<1>3. CASE StartAutosteer
    <2>1. /\ goal' \in [text : Goals, steer : 1 .. MaxSteers]
          /\ goal'.steer = steers + 1 /\ steers' = steers + 1
          /\ steers' \in 0 .. MaxSteers /\ steers \in Int
          /\ UNCHANGED <<pending, inFlight, readyAnswers, asked>>
        BY <1>3 DEF StartAutosteer, QueriesInv, QueryTypeOK
    <2>2. QueryTypeOK'
        BY <1>1, <2>1 DEF QueriesInv, QueryTypeOK
    <2>3. FlightMarked' /\ OneTurnAtATime'
        BY <1>1, <2>1 DEF QueriesInv, FlightMarked, Serving, OneTurnAtATime, Subtask
    <2>4. SteeredLater'
        <3>1. task.steer \in Int /\ task.steer <= steers
            BY DEF QueriesInv, QueryTypeOK, SteeredLater
        <3>. QED
            BY <1>1, <2>1, <3>1 DEF SteeredLater
    <2>5. EachInOnePlace'
        BY <1>1, <2>1 DEF QueriesInv, EachInOnePlace, OnePlace, Serving, Question
    <2>. QED
        BY <2>2, <2>3, <2>4, <2>5 DEF QueriesInv
<1>4. CASE StopAutosteer
    <2>1. /\ goal' = NoGoal
          /\ UNCHANGED <<pending, inFlight, readyAnswers, steers, asked>>
        BY <1>4 DEF StopAutosteer
    <2>2. QueryTypeOK'
        BY <1>1, <2>1 DEF QueriesInv, QueryTypeOK
    <2>3. FlightMarked' /\ OneTurnAtATime'
        BY <1>1, <2>1 DEF QueriesInv, FlightMarked, Serving, OneTurnAtATime, Subtask
    <2>4. SteeredLater'
        BY <1>1, <2>1 DEF QueriesInv, SteeredLater, NoGoal
    <2>5. EachInOnePlace'
        BY <1>1, <2>1 DEF QueriesInv, EachInOnePlace, OnePlace, Serving, Question
    <2>. QED
        BY <2>2, <2>3, <2>4, <2>5 DEF QueriesInv
<1>. QED
    BY <1>1, <1>2, <1>3, <1>4

(* The pump delivers every ready answer.                                   *)
LEMMA DeliverKeeps == QueriesInv /\ (IdlePump \/ Deliver) => QueriesInv'
<1>. SUFFICES ASSUME QueriesInv, IdlePump \/ Deliver PROVE QueriesInv'
    OBVIOUS
<1>. USE QueryAssumption DEF QueryAssumption
<1>1. /\ UNCHANGED <<task, pending, inFlight, goal, steers, asked, rtc, query,
                     dropped, op>>
      /\ readyAnswers' = NoAnswers
      /\ resolved' = [n \in DOMAIN resolved |-> resolved[n] + readyAnswers[n]]
    BY DEF IdlePump, Deliver, DeliverAnswers, ServeOnly, serviceVars, opVars
<1>2. /\ readyAnswers \in [0 .. MaxQuestions -> Nat]
      /\ resolved \in [1 .. MaxQuestions -> Nat]
    BY DEF QueriesInv, QueryTypeOK
<1>3. \A n \in 1 .. MaxQuestions :
        /\ readyAnswers'[n] = 0 /\ resolved'[n] = resolved[n] + readyAnswers[n]
        /\ readyAnswers[n] \in Nat /\ resolved[n] \in Nat
    BY <1>1, <1>2 DEF NoAnswers
<1>4. /\ readyAnswers' \in [0 .. MaxQuestions -> Nat]
      /\ resolved' \in [1 .. MaxQuestions -> Nat]
    BY <1>1, <1>2 DEF NoAnswers
<1>5. QueryTypeOK'
    BY <1>1, <1>4 DEF QueriesInv, QueryTypeOK
<1>6. FlightMarked' /\ OneTurnAtATime'
    BY <1>1 DEF QueriesInv, FlightMarked, Serving, OneTurnAtATime, Subtask
<1>7. SteeredLater'
    BY <1>1 DEF QueriesInv, SteeredLater, NoGoal
<1>8. ASSUME NEW n \in 1 .. MaxQuestions PROVE OnePlace(n)'
    <2>1. OnePlace(n)
        BY DEF QueriesInv, EachInOnePlace
    <2>2. resolved'[n] + readyAnswers'[n] = resolved[n] + readyAnswers[n]
        BY <1>3
    <2>. QED
        BY <1>1, <2>1, <2>2 DEF OnePlace, Serving, Question
<1>. QED
    BY <1>5, <1>6, <1>7, <1>8 DEF QueriesInv, EachInOnePlace

(* A turn is queued: the channel is free, of turns that are served too.    *)
LEMMA TurnKeeps == QueriesInv /\ PollDue => QueriesInv'
<1>. SUFFICES ASSUME QueriesInv, PollDue PROVE QueriesInv'
    OBVIOUS
<1>. USE QueryAssumption DEF QueryAssumption
<1>1. /\ UNCHANGED <<task, inFlight, readyAnswers, goal, steers, asked, resolved,
                     rtc, query, dropped, op>>
      /\ pending = NoQuery /\ ~inFlight
      /\ goal # NoGoal /\ pending' = Turn(goal)
    BY DEF PollDue, QueueTurn, ChannelFree, ServeOnly, serviceVars, opVars
<1>2. goal \in [text : Goals, steer : 1 .. MaxSteers]
    BY <1>1 DEF QueriesInv, QueryTypeOK
<1>3. pending' \in Queries
    BY <1>1, <1>2 DEF Queries
<1>4. ~Serving
    BY <1>1 DEF QueriesInv, FlightMarked
<1>5. \A n \in 1 .. MaxQuestions : pending' # Question(n)
    BY <1>1 DEF Turn, Question
<1>6. QueryTypeOK'
    BY <1>1, <1>3 DEF QueriesInv, QueryTypeOK
<1>7. FlightMarked' /\ OneTurnAtATime'
    BY <1>1, <1>4 DEF FlightMarked, Serving, OneTurnAtATime
<1>8. SteeredLater'
    BY <1>1 DEF QueriesInv, SteeredLater, NoGoal
<1>9. EachInOnePlace'
    BY <1>1, <1>4, <1>5
    DEF QueriesInv, EachInOnePlace, OnePlace, Serving, Question
<1>. QED
    BY <1>6, <1>7, <1>8, <1>9 DEF QueriesInv

(* The end of a segment stops the sequencer.                               *)
LEMMA FinishKeeps == QueriesInv /\ FinishSegment => QueriesInv'
<1>. SUFFICES ASSUME QueriesInv, FinishSegment PROVE QueriesInv'
    OBVIOUS
<1>1. /\ UNCHANGED <<task, pending, inFlight, readyAnswers, steers, asked,
                     resolved, rtc, query, dropped, op>>
      /\ goal' = NoGoal
    BY DEF FinishSegment, StopAutosteer, ServeOnly, serviceVars, opVars
<1>2. QueryTypeOK'
    BY <1>1 DEF QueriesInv, QueryTypeOK
<1>3. FlightMarked' /\ OneTurnAtATime'
    BY <1>1 DEF QueriesInv, FlightMarked, Serving, OneTurnAtATime, Subtask
<1>4. SteeredLater'
    BY <1>1 DEF QueriesInv, SteeredLater, NoGoal
<1>5. EachInOnePlace'
    BY <1>1 DEF QueriesInv, EachInOnePlace, OnePlace, Serving, Question
<1>. QED
    BY <1>2, <1>3, <1>4, <1>5 DEF QueriesInv

(* It takes back what is queued.                                           *)
LEMMA DropKeeps == QueriesInv /\ DropPending => QueriesInv'
<1>. SUFFICES ASSUME QueriesInv, DropPending PROVE QueriesInv'
    OBVIOUS
<1>. USE QueryAssumption DEF QueryAssumption
<1>1. /\ UNCHANGED <<task, inFlight, readyAnswers, goal, steers, asked,
                     resolved, rtc, query, op>>
      /\ pending' = NoQuery /\ dropped' = pending
    BY DEF DropPending, DropPendingQuery, PendingDropped, serviceVars, opVars
<1>2. QueryTypeOK'
    BY <1>1, QueryKinds DEF QueriesInv, QueryTypeOK
<1>3. FlightMarked' /\ OneTurnAtATime'
    BY <1>1, QueryKinds DEF QueriesInv, FlightMarked, Serving, OneTurnAtATime, Subtask
<1>4. SteeredLater'
    BY <1>1 DEF QueriesInv, SteeredLater, NoGoal
<1>5. ASSUME NEW n \in 1 .. MaxQuestions PROVE OnePlace(n)'
    <2>1. OnePlace(n) /\ pending' # Question(n)
        BY <1>1, QueryKinds DEF QueriesInv, EachInOnePlace
    <2>. QED
        BY <1>1, <2>1 DEF OnePlace, Serving, Question
<1>. QED
    BY <1>2, <1>3, <1>4, <1>5 DEF QueriesInv, EachInOnePlace

(* Answers of turns that were not delivered go, those to questions stay.   *)
LEMMA CleanKeeps == QueriesInv /\ DropAnswers => QueriesInv'
<1>. SUFFICES ASSUME QueriesInv, DropAnswers PROVE QueriesInv'
    OBVIOUS
<1>. USE QueryAssumption DEF QueryAssumption
<1>1. /\ UNCHANGED <<task, pending, inFlight, goal, steers, asked, resolved,
                     rtc, query, dropped, op>>
      /\ readyAnswers' = [readyAnswers EXCEPT ![0] = 0]
    BY DEF DropAnswers, DropReadySubtaskAnswers, KeptAnswers, ServeOnly,
           serviceVars, opVars
<1>2. readyAnswers \in [0 .. MaxQuestions -> Nat]
    BY DEF QueriesInv, QueryTypeOK
<1>3. /\ readyAnswers' \in [0 .. MaxQuestions -> Nat]
      /\ \A n \in 1 .. MaxQuestions : readyAnswers'[n] = readyAnswers[n]
    BY <1>1, <1>2
<1>4. QueryTypeOK'
    BY <1>1, <1>3 DEF QueriesInv, QueryTypeOK
<1>5. FlightMarked' /\ OneTurnAtATime'
    BY <1>1 DEF QueriesInv, FlightMarked, Serving, OneTurnAtATime, Subtask
<1>6. SteeredLater'
    BY <1>1 DEF QueriesInv, SteeredLater, NoGoal
<1>7. EachInOnePlace'
    BY <1>1, <1>3 DEF QueriesInv, EachInOnePlace, OnePlace, Serving, Question
<1>. QED
    BY <1>4, <1>5, <1>6, <1>7 DEF QueriesInv

(* A question that was taken back is reported; no one else has it.         *)
LEMMA ReportKeeps == QueriesInv /\ ReportDropped => QueriesInv'
<1>. SUFFICES ASSUME QueriesInv, ReportDropped PROVE QueriesInv'
    OBVIOUS
<1>. USE QueryAssumption DEF QueryAssumption
<1>1. /\ UNCHANGED <<task, pending, inFlight, readyAnswers, goal, steers, asked,
                     rtc, query, op>>
      /\ dropped' = NoQuery
      /\ resolved' = [n \in DOMAIN resolved |->
                        resolved[n] + (IF dropped = Question(n) THEN 1 ELSE 0)]
    BY DEF ReportDropped, queryVars, serviceVars, opVars
<1>2. /\ readyAnswers \in [0 .. MaxQuestions -> Nat]
      /\ resolved \in [1 .. MaxQuestions -> Nat]
    BY DEF QueriesInv, QueryTypeOK
<1>3. \A n \in 1 .. MaxQuestions :
        /\ resolved'[n] = resolved[n] + (IF dropped = Question(n) THEN 1 ELSE 0)
        /\ readyAnswers[n] \in Nat /\ resolved[n] \in Nat
    BY <1>1, <1>2
<1>4. resolved' \in [1 .. MaxQuestions -> Nat]
    BY <1>1, <1>2
<1>5. QueryTypeOK'
    BY <1>1, <1>4, QueryKinds DEF QueriesInv, QueryTypeOK
<1>6. FlightMarked' /\ OneTurnAtATime'
    BY <1>1 DEF QueriesInv, FlightMarked, Serving, OneTurnAtATime, Subtask
<1>7. SteeredLater'
    BY <1>1 DEF QueriesInv, SteeredLater, NoGoal
<1>8. ASSUME NEW n \in 1 .. MaxQuestions PROVE OnePlace(n)'
    <2>1. OnePlace(n) /\ dropped' # Question(n)
        BY <1>1, QueryKinds DEF QueriesInv, EachInOnePlace
    <2>2. CASE dropped = Question(n)
        <3>1. /\ resolved[n] + readyAnswers[n] = 0
              /\ resolved'[n] + readyAnswers'[n] = 1
            BY <1>1, <1>3, <2>1, <2>2 DEF OnePlace
        <3>. QED
            BY <1>1, <2>1, <2>2, <3>1 DEF OnePlace, Serving, Question
    <2>3. CASE dropped # Question(n)
        <3>1. resolved'[n] + readyAnswers'[n] = resolved[n] + readyAnswers[n]
            BY <1>1, <1>3, <2>3
        <3>. QED
            BY <1>1, <2>1, <2>3, <3>1 DEF OnePlace, Serving, Question
    <2>. QED
        BY <2>2, <2>3
<1>. QED
    BY <1>5, <1>6, <1>7, <1>8 DEF QueriesInv, EachInOnePlace

(* The thread that owns the policy serves a query.                         *)
LEMMA ServiceKeeps ==
    QueriesInv /\ ServiceQuery /\ UNCHANGED <<op, dropped>> => QueriesInv'
<1>. SUFFICES ASSUME QueriesInv, ServiceQuery, UNCHANGED <<op, dropped>>
              PROVE  QueriesInv'
    OBVIOUS
<1>. USE QueryAssumption DEF QueryAssumption
<1>0. NoGoal' = NoGoal /\ \A n : Question(n)' = Question(n)
    BY DEF NoGoal, Question
<1>1. CASE ClaimQuery
    <2>1. /\ pending # NoQuery /\ query' = pending /\ pending' = NoQuery
          /\ rtc = "service" /\ rtc' = "generate" /\ inFlight' = TRUE
          /\ UNCHANGED <<task, readyAnswers, goal, steers, asked, resolved>>
        BY <1>1 DEF ClaimQuery
    <2>2. QueryTypeOK'
        BY <2>1, QueryKinds DEF QueriesInv, QueryTypeOK
    <2>3. FlightMarked' /\ OneTurnAtATime'
        BY <2>1, QueryKinds DEF FlightMarked, Serving, OneTurnAtATime, Subtask
    <2>4. SteeredLater'
        BY <1>0, <2>1 DEF QueriesInv, SteeredLater
    <2>5. ASSUME NEW n \in 1 .. MaxQuestions PROVE OnePlace(n)'
        <3>1. OnePlace(n) /\ pending' # Question(n)
            BY <2>1, QueryKinds DEF QueriesInv, EachInOnePlace
        <3>. QED
            BY <1>0, <2>1, <3>1 DEF OnePlace, Serving
    <2>. QED
        BY <2>2, <2>3, <2>4, <2>5 DEF QueriesInv, EachInOnePlace
<1>2. CASE NothingToServe \/ AnswerQuestion
    <2>1. /\ UNCHANGED <<task, queryVars, resolved, query>>
          /\ rtc' = "top" \/ (rtc = "generate" /\ rtc' = "publish")
        BY <1>2 DEF NothingToServe, AnswerQuestion
    <2>. USE DEF queryVars
    <2>2. QueryTypeOK'
        BY <2>1 DEF QueriesInv, QueryTypeOK
    <2>3. FlightMarked' /\ OneTurnAtATime'
        BY <2>1 DEF QueriesInv, FlightMarked, Serving, OneTurnAtATime, Subtask
    <2>4. SteeredLater'
        BY <1>0, <2>1 DEF QueriesInv, SteeredLater
    <2>5. EachInOnePlace'
        BY <1>0, <2>1 DEF QueriesInv, EachInOnePlace, OnePlace, Serving
    <2>. QED
        BY <2>2, <2>3, <2>4, <2>5 DEF QueriesInv
<1>3. CASE ApplySubtask \/ FailSubtask
    <2>1. /\ UNCHANGED <<pending, inFlight, readyAnswers, steers, asked, resolved,
                         query>>
          /\ rtc = "generate" /\ rtc' = "publish"
          /\ Subtask(query) /\ goal.text = query.text
          /\ \/ /\ task' = [by |-> "policy", steer |-> goal.steer,
                            turn |-> query.no]
                /\ goal' = goal
             \/ task' = task /\ goal' = NoGoal
        BY <1>3 DEF ApplySubtask, FailSubtask, queryVars, Live
    <2>2. query.text \in Goals /\ query.no \in 0 .. MaxSteers
        BY <2>1, QueryKinds DEF Told, QueriesInv, QueryTypeOK
    <2>3. goal # NoGoal
        BY <2>1, <2>2 DEF NoGoal
    <2>4. /\ goal \in [text : Goals, steer : 1 .. MaxSteers]
          /\ goal.steer \in 0 .. MaxSteers
        BY <2>3 DEF QueriesInv, QueryTypeOK
    <2>5. task' \in [by : {"operator", "policy"}, steer : 0 .. MaxSteers,
                     turn : 0 .. MaxSteers]
        BY <2>1, <2>2, <2>4 DEF QueriesInv, QueryTypeOK
    <2>6. QueryTypeOK'
        BY <2>1, <2>4, <2>5 DEF QueriesInv, QueryTypeOK
    <2>7. FlightMarked' /\ OneTurnAtATime'
        BY <2>1 DEF QueriesInv, FlightMarked, Serving, OneTurnAtATime, Subtask
    <2>8. SteeredLater'
        BY <1>0, <2>1, <2>3 DEF QueriesInv, SteeredLater
    <2>9. EachInOnePlace'
        BY <1>0, <2>1 DEF QueriesInv, EachInOnePlace, OnePlace, Serving
    <2>. QED
        BY <2>6, <2>7, <2>8, <2>9 DEF QueriesInv
<1>4. CASE DiscardTurn
    <2>1. /\ UNCHANGED <<task, pending, readyAnswers, goal, steers, asked,
                         resolved, query>>
          /\ rtc' = "top" /\ inFlight' = FALSE
        BY <1>4 DEF DiscardTurn, FlagCleared
    <2>2. inFlight' \in BOOLEAN
        BY <2>1, Zenon
    <2>3. QueryTypeOK'
        BY <2>1, <2>2 DEF QueriesInv, QueryTypeOK
    <2>4. FlightMarked' /\ OneTurnAtATime'
        BY <2>1 DEF FlightMarked, Serving, OneTurnAtATime
    <2>5. SteeredLater'
        BY <1>0, <2>1 DEF QueriesInv, SteeredLater
    <2>6. EachInOnePlace'
        BY <1>0, <2>1 DEF QueriesInv, EachInOnePlace, OnePlace, Serving
    <2>. QED
        BY <2>3, <2>4, <2>5, <2>6 DEF QueriesInv
<1>5. CASE PublishAnswer
    <2>1. PICK m : m = IF Subtask(query) THEN 0 ELSE query.no
        OBVIOUS
    <2>2. /\ UNCHANGED <<task, pending, goal, steers, asked, resolved, query>>
          /\ rtc = "publish" /\ rtc' = "top" /\ inFlight' = FALSE
          /\ readyAnswers' = [readyAnswers EXCEPT ![m] = @ + 1]
        BY <1>5, <2>1 DEF PublishAnswer
    <2>3. /\ query \in Queries /\ Told(query)
          /\ readyAnswers \in [0 .. MaxQuestions -> Nat]
          /\ resolved \in [1 .. MaxQuestions -> Nat]
        BY QueryKinds DEF QueriesInv, QueryTypeOK
    <2>4. m \in 0 .. MaxQuestions
        BY <2>1, <2>3 DEF Told
    <2>5. /\ readyAnswers' \in [0 .. MaxQuestions -> Nat]
          /\ readyAnswers'[m] = readyAnswers[m] + 1
          /\ \A n \in 1 .. MaxQuestions : n # m => readyAnswers'[n] = readyAnswers[n]
        BY <2>2, <2>3, <2>4
    <2>6. inFlight' \in BOOLEAN
        BY <2>2, Zenon
    <2>7. QueryTypeOK'
        BY <2>2, <2>5, <2>6 DEF QueriesInv, QueryTypeOK
    <2>8. FlightMarked' /\ OneTurnAtATime'
        BY <2>2 DEF FlightMarked, Serving, OneTurnAtATime
    <2>9. SteeredLater'
        BY <1>0, <2>2 DEF QueriesInv, SteeredLater
    <2>10. ASSUME NEW n \in 1 .. MaxQuestions PROVE OnePlace(n)'
        <3>1. /\ OnePlace(n) /\ resolved'[n] = resolved[n]
              /\ readyAnswers[n] \in Nat /\ resolved[n] \in Nat
            BY <2>2, <2>3 DEF QueriesInv, EachInOnePlace
        <3>2. CASE n = m
            <4>1. m # 0
                BY <3>2
            <4>2. query = Question(n)
                <5>1. ~Subtask(query) /\ m = query.no
                    BY <2>1, <4>1
                <5>2. query # NoQuery
                    BY <4>1, <5>1 DEF NoQuery
                <5>. QED
                    BY <2>3, <3>2, <5>1, <5>2 DEF Told
            <4>3. /\ resolved[n] + readyAnswers[n] = 0 /\ pending # Question(n)
                  /\ dropped # Question(n)
                BY <2>2, <3>1, <4>2 DEF OnePlace, Serving
            <4>4. ~(n > asked)
                BY <2>2, <3>1, <4>2 DEF OnePlace, Serving
            <4>5. resolved'[n] + readyAnswers'[n] = 1
                BY <2>5, <3>1, <3>2, <4>3
            <4>. QED
                BY <1>0, <2>2, <4>3, <4>4, <4>5 DEF OnePlace, Serving
        <3>3. CASE n # m
            <4>1. readyAnswers'[n] = readyAnswers[n]
                BY <2>5, <3>3
            <4>. QED
                BY <1>0, <2>2, <3>1, <4>1 DEF OnePlace, Serving
        <3>. QED
            BY <3>2, <3>3
    <2>. QED
        BY <2>7, <2>8, <2>9, <2>10 DEF QueriesInv, EachInOnePlace
<1>. QED
    BY <1>1, <1>2, <1>3, <1>4, <1>5 DEF ServiceQuery

(* Any step.                                                               *)
LEMMA QueriesStep == QueriesInv /\ [Next]_vars => QueriesInv'
    BY QuerySteps, QuietKeeps, TasksKeep, QueryCommandKeeps, DeliverKeeps,
       TurnKeeps, FinishKeeps, DropKeeps, CleanKeeps, ReportKeeps, ServiceKeeps

-----------------------------------------------------------------------------

(* The invariant holds of every behaviour.                                 *)
LEMMA ControllerSafe == Spec => []ControllerInv
<1>1. Init => ControllerInv
    BY CommandsInit, QueriesInit DEF ControllerInv
<1>2. ControllerInv /\ [Next]_vars => ControllerInv'
    BY CommandsStep, QueriesStep DEF ControllerInv
<1>. QED
    BY <1>1, <1>2, PTL DEF Spec

(* The flags, the queries and every thread keep their types.               *)
THEOREM ControllerTypes == Spec => []TypeOK
<1>1. ControllerInv => TypeOK
    BY DEF ControllerInv, ControlTypeOK, FlagsTypeOK, PlacesTypeOK, QueriesInv, TypeOK
<1>. QED
    BY <1>1, ControllerSafe, PTL

(* After a reset or a stop returned, no loop goes on moving the robot: the *)
(* loop that runs has been told to end.                                    *)
THEOREM LastCommandStands == Spec => []LastCommandWins
<1>1. ControllerInv => LastCommandWins
    BY DEF ControllerInv, CommandsInv, Ending, InSegment, LastCommandWins
<1>. QED
    BY <1>1, ControllerSafe, PTL

(* No start waits behind the segment that runs.                            *)
THEOREM StartsAreConsumed == Spec => []NoStartBehindSegment
<1>1. ControllerInv => NoStartBehindSegment
    BY DEF ControllerInv, CommandsInv, NoStartBehindSegment
<1>. QED
    BY <1>1, ControllerSafe, PTL

(* A question is answered or reported dropped at most once, and only one   *)
(* that was asked.                                                         *)
THEOREM QuestionsOnce == Spec => []AnsweredOnce
<1>1. ASSUME ControllerInv PROVE AnsweredOnce
    <2>1. /\ DOMAIN resolved = 1 .. MaxQuestions
          /\ \A n \in 1 .. MaxQuestions :
                resolved[n] \in Nat /\ readyAnswers[n] \in Nat
          /\ asked \in Nat /\ MaxQuestions \in Nat
        BY <1>1, QueryAssumption
        DEF QueryAssumption, ControllerInv, QueriesInv, QueryTypeOK
    <2>2. ASSUME NEW n \in 1 .. MaxQuestions
          PROVE  /\ resolved[n] <= 1
                 /\ n > asked => resolved[n] = 0
        BY <1>1, <2>1 DEF ControllerInv, QueriesInv, EachInOnePlace, OnePlace
    <2>. QED
        BY <2>1, <2>2 DEF AnsweredOnce
<1>. QED
    BY <1>1, ControllerSafe, PTL

(* The sequencer has one turn at a time.                                   *)
THEOREM TurnsOneAtATime == Spec => []OneTurnAtATime
<1>1. ControllerInv => OneTurnAtATime
    BY DEF ControllerInv, QueriesInv
<1>. QED
    BY <1>1, ControllerSafe, PTL

(* An operator's task is replaced by a subtask only of a sequencer that    *)
(* was started after it was set, however long the policy thought.          *)
THEOREM TasksStay == Spec => OperatorTaskKept
<1>1. ASSUME ControllerInv, [Next]_vars, task.by = "operator", task'.by = "policy"
      PROVE  task'.steer > task.steer
    <2>1. task' # task
        BY <1>1
    <2>2. ApplySubtask
        <3>1. OperatorTask.by = "operator"
            BY DEF OperatorTask
        <3>. QED
            BY <1>1, <2>1, <3>1, QuerySteps
            DEF Quiet, Reset, RestoreTask, SetTask, Retask, QueryCommand, IdlePump,
                Deliver, PollDue, FinishSegment, DropPending, DropAnswers,
                ReportDropped, ServiceQuery, ClaimQuery, NothingToServe, AnswerQuestion, FailSubtask, DiscardTurn,
                PublishAnswer
    <2>3. query.text \in Goals /\ goal.text = query.text
        BY <1>1, <2>2, QueryKinds
        DEF ApplySubtask, Live, Told, ControllerInv, QueriesInv, QueryTypeOK
    <2>4. goal # NoGoal
        BY <2>3, QueryAssumption DEF QueryAssumption, NoGoal
    <2>5. task'.steer = goal.steer
        BY <2>2 DEF ApplySubtask
    <2>6. task.steer < goal.steer
        BY <1>1, <2>4 DEF ControllerInv, QueriesInv, SteeredLater
    <2>7. task.steer \in Int /\ goal.steer \in Int
        BY <1>1, <2>4 DEF ControllerInv, QueriesInv, QueryTypeOK
    <2>. QED
        BY <2>5, <2>6, <2>7
<1>2. ControllerInv /\ [Next]_vars
        => [task.by = "operator" /\ task'.by = "policy"
                => task'.steer > task.steer]_task
    BY <1>1
<1>. QED
    BY <1>2, ControllerSafe, PTL DEF Spec, OperatorTaskKept
=============================================================================
