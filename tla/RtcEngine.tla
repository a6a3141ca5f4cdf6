------------------------------ MODULE RtcEngine ------------------------------
(***************************************************************************)
(* lerobot/rollout/inference/rtc.py: the thread that computes chunks of    *)
(* actions while the control thread of a strategy (strategies/core.py and  *)
(* base.py) performs them, resets the engine, runs and pauses it.          *)
(*                                                                         *)
(* An observation is the number of the session (the time between two       *)
(* resets) it was captured in; an action is the session of the observation *)
(* and the task it was computed from.                                      *)
(***************************************************************************)
EXTENDS RtcActionQueue

CONSTANTS
    Tasks,
    Launch,         \* the task the engine is created with
    ChunkLength,
    Threshold,      \* _rtc_queue_threshold
    MaxDelay,       \* an inference lasts at most so many control steps
    Warmups,        \* warmup_required; 0: torch.compile is not used
    MaxErrors,      \* _RTC_MAX_CONSECUTIVE_ERRORS
    MaxDiscards,    \* _RTC_MAX_CONSECUTIVE_DISCARDS
    MaxSessions,    \* bounds the number of resets
    MaxTaskChanges  \* bounds the operator

ASSUME RtcAssumption ==
    /\ Launch \in Tasks
    /\ ChunkLength \in Nat \ {0}
    /\ MaxDelay \in 0 .. ChunkLength
    /\ {Threshold, Warmups, MaxSessions, MaxTaskChanges} \subseteq Nat
    /\ {MaxErrors, MaxDiscards} \subseteq Nat \ {0}

VARIABLES
    mode,           \* rtc_config: its mode, and whether it is enabled
    queue,          \* _action_queue
    obs,            \* _obs_holder["obs"], 0 for None
    resetEpoch,     \* _reset_epoch
    active,         \* _policy_active
    shutdown,       \* _shutdown_event
    warm,           \* _compile_warmup_done
    rtcError,       \* _rtc_error
    stopEvent,      \* _global_shutdown_event
    task,           \* _task
    dispatched,     \* _dispatched_task
    taskChanges,
    rtc,            \* where the RTC thread is
    seen,           \* its observation and epoch_before
    job,            \* its task and has_previous_actions
    counts,         \* inference_count, consecutive_errors, consecutive_discards
    ctl,            \* where the control thread is
    flushed,        \* _warmup_flushed
    returned,       \* what get_action returned last in this session
    session         \* how often the engine was reset, from 1

rtcVars == <<rtc, seen, job, counts>>
ctlVars == <<ctl, flushed, returned, session>>
eventVars == <<active, shutdown, warm, rtcError, stopEvent>>
taskVars == <<task, dispatched, taskChanges>>
vars == <<mode, queue, obs, resetEpoch, eventVars, taskVars, rtcVars, ctlVars>>

(* With enabled = False chunks are appended, and mode "trained" discards   *)
(* late ones then too: context.py does not refuse the combination.         *)
Modes == {"append", "append_trained", "guided", "trained"}
Appends == mode \in {"append", "append_trained"}
Discards == mode \in {"append_trained", "trained"}

Sessions == 1 .. MaxSessions + 2
Actions == [session : Sessions, task : Tasks]
NoAction == [session |-> 0, task |-> Launch]
Running == {"tick", "act", "label"}

TypeOK ==
    /\ mode \in Modes
    /\ queue \in [actions : Seq(Actions), labels : Seq(Tasks), lastIndex : Nat]
    /\ queue.lastIndex <= Len(queue.actions)
    /\ Len(queue.labels) = Len(queue.actions)
    /\ obs \in Sessions \cup {0}
    /\ resetEpoch \in Sessions
    /\ active \in BOOLEAN /\ shutdown \in BOOLEAN /\ warm \in BOOLEAN
    /\ rtcError \in BOOLEAN /\ stopEvent \in BOOLEAN /\ flushed \in BOOLEAN
    /\ {task, dispatched} \subseteq Tasks
    /\ taskChanges \in 0 .. MaxTaskChanges
    /\ rtc \in {"top", "service", "generate", "refill", "infer",
                "fatal", "signal", "exited"}
    /\ seen \in [obs : Sessions \cup {0}, epoch : Sessions]
    /\ job \in [task : Tasks, hadPrevious : BOOLEAN]
    /\ counts \in [inferences : 0 .. Warmups, errors : 0 .. MaxErrors,
                   discards : 0 .. MaxDiscards]
    /\ ctl \in {"idle", "reset", "prime", "stopping", "done"} \cup Running
    /\ returned \in [action : Actions \cup {NoAction}, label : Tasks]
    /\ session \in Sessions

(* The engine as setup() leaves it: reset once, and its thread started.    *)
Init ==
    /\ mode \in Modes
    /\ queue = NoActions
    /\ obs = 0
    /\ resetEpoch = 1 /\ session = 1
    /\ active = FALSE /\ shutdown = FALSE
    /\ rtcError = FALSE /\ stopEvent = FALSE
    /\ warm = (Warmups = 0) /\ flushed = (Warmups = 0)
    /\ task = Launch /\ dispatched = Launch /\ taskChanges = 0
    /\ rtc = "top"
    /\ seen = [obs |-> 0, epoch |-> 1]
    /\ job = [task |-> Launch, hadPrevious |-> FALSE]
    /\ counts = [inferences |-> 0, errors |-> 0, discards |-> 0]
    /\ ctl = "idle"
    /\ returned = [action |-> NoAction, label |-> Launch]

-----------------------------------------------------------------------------
(* The control thread.                                                     *)

(* run() without a reset before it: a one-shot strategy.                   *)
StartRun ==
    /\ ctl = "idle"
    /\ session = 1
    /\ ~stopEvent
    /\ active' = TRUE
    /\ ctl' = "tick"
    /\ UNCHANGED <<mode, queue, obs, resetEpoch, shutdown, warm, rtcError,
                   stopEvent, taskVars, rtcVars, flushed, returned, session>>

(* The segment's own stop flag is cleared, the engine has not failed, and  *)
(* reset() begins with the policy and its processors, without a lock.      *)
StartSegment ==
    /\ ctl = "idle"
    /\ session <= MaxSessions
    /\ ~rtcError
    /\ stopEvent' = FALSE
    /\ ctl' = "reset"
    /\ UNCHANGED <<mode, queue, obs, resetEpoch, active, shutdown, warm,
                   rtcError, taskVars, rtcVars, flushed, returned, session>>

(* _handle_warmup: once the policy is warm, what it computed is flushed;   *)
(* the RTC thread is running.                                              *)
FlushWarmup ==
    /\ ctl = "act"
    /\ warm /\ ~flushed
    /\ flushed' = TRUE
    /\ ctl' = "reset"
    /\ UNCHANGED <<mode, queue, obs, resetEpoch, eventVars, taskVars, rtcVars,
                   returned, session>>

(* Mutant: an epoch that stays.                                            *)
SameEpoch(epoch) == epoch

NextEpoch(epoch) == epoch + 1

(* reset() under _obs_lock.                                                *)
ClearAndBump ==
    /\ ctl = "reset"
    /\ queue' = NoActions
    /\ obs' = 0
    /\ resetEpoch' = NextEpoch(resetEpoch)
    /\ session' = session + 1
    /\ returned' = [action |-> NoAction, label |-> dispatched]
    /\ ctl' = "prime"
    /\ UNCHANGED <<mode, eventVars, taskVars, rtcVars, flushed>>

(* _discard_task_change, then resume().                                    *)
Resume ==
    /\ ctl = "prime"
    /\ dispatched' = task
    /\ active' = TRUE
    /\ ctl' = "tick"
    /\ UNCHANGED <<mode, queue, obs, resetEpoch, shutdown, warm, rtcError,
                   stopEvent, task, taskChanges, rtcVars, flushed, returned,
                   session>>

(* The loop's condition, then notify_observation.                          *)
Observe ==
    /\ ctl = "tick"
    /\ ~stopEvent
    /\ obs' = session
    /\ ctl' = "act"
    /\ UNCHANGED <<mode, queue, resetEpoch, eventVars, taskVars, rtcVars,
                   flushed, returned, session>>

(* The tick of a policy that is not warm sends nothing.                    *)
WaitForWarmup ==
    /\ ctl = "act"
    /\ ~warm
    /\ ctl' = "tick"
    /\ UNCHANGED <<mode, queue, obs, resetEpoch, eventVars, taskVars, rtcVars,
                   flushed, returned, session>>

GetAction ==
    /\ ctl = "act"
    /\ warm /\ flushed
    /\ QSize(queue) > 0
    /\ returned' = NextAction(queue)
    /\ queue' = Consumed(queue)
    /\ ctl' = "label"
    /\ UNCHANGED <<mode, obs, resetEpoch, eventVars, taskVars, rtcVars,
                   flushed, session>>

GetNothing ==
    /\ ctl = "act"
    /\ warm /\ flushed
    /\ QSize(queue) = 0
    /\ ctl' = "tick"
    /\ UNCHANGED <<mode, queue, obs, resetEpoch, eventVars, taskVars, rtcVars,
                   flushed, returned, session>>

(* Mutant: the task the engine is asked for now.                           *)
LiveLabel == task

ReturnedLabel == returned.label

(* _set_dispatched_task; the strategy records and sends the action.        *)
SetDispatched ==
    /\ ctl = "label"
    /\ dispatched' = ReturnedLabel
    /\ ctl' = "tick"
    /\ UNCHANGED <<mode, queue, obs, resetEpoch, eventVars, task, taskChanges,
                   rtcVars, flushed, returned, session>>

(* The stop flag, the duration, or an operator who pauses the policy.      *)
Pause ==
    /\ ctl = "tick"
    /\ active' = FALSE
    /\ ctl' = "idle"
    /\ UNCHANGED <<mode, queue, obs, resetEpoch, shutdown, warm, rtcError,
                   stopEvent, taskVars, rtcVars, flushed, returned, session>>

(* teardown(): stop() sets both events and joins.                          *)
Stop ==
    /\ ctl = "idle"
    /\ shutdown' = TRUE
    /\ active' = FALSE
    /\ ctl' = "stopping"
    /\ UNCHANGED <<mode, queue, obs, resetEpoch, warm, rtcError, stopEvent,
                   taskVars, rtcVars, flushed, returned, session>>

(* The join returns, or gives up on an inference of over three seconds.    *)
Join ==
    /\ ctl = "stopping"
    /\ rtc \in {"exited", "infer", "generate"}
    /\ ctl' = "done"
    /\ UNCHANGED <<mode, queue, obs, resetEpoch, eventVars, taskVars, rtcVars,
                   flushed, returned, session>>

(* Another thread sets the task, at any time.                              *)
SetTask ==
    /\ taskChanges < MaxTaskChanges
    /\ \E t \in Tasks \ {task} : task' = t
    /\ taskChanges' = taskChanges + 1
    /\ UNCHANGED <<mode, queue, obs, resetEpoch, eventVars, dispatched,
                   rtcVars, ctlVars>>

ControlLoop ==
    \/ FlushWarmup \/ ClearAndBump \/ Resume \/ Observe \/ WaitForWarmup
    \/ GetAction \/ GetNothing \/ SetDispatched \/ Join

-----------------------------------------------------------------------------
(* The RTC thread.                                                         *)

RtcOnly == UNCHANGED <<mode, obs, resetEpoch, active, shutdown, stopEvent,
                       taskVars, ctlVars>>

ExitLoop ==
    /\ rtc = "top"
    /\ shutdown
    /\ rtc' = "exited"
    /\ UNCHANGED <<queue, warm, rtcError, seen, job, counts>>
    /\ RtcOnly

(* The observation and the epoch, read under one lock.                     *)
Snapshot ==
    /\ rtc = "top"
    /\ ~shutdown /\ active
    /\ obs # 0
    /\ seen' = [obs |-> obs, epoch |-> resetEpoch]
    /\ rtc' = "service"
    /\ UNCHANGED <<queue, warm, rtcError, job, counts>>
    /\ RtcOnly

(* _service_query: none is queued, or one takes its time.                  *)
ServiceQuery ==
    /\ rtc = "service"
    /\ rtc' \in {"refill", "generate"}
    /\ UNCHANGED <<queue, warm, rtcError, seen, job, counts>>
    /\ RtcOnly

ReadAgain ==
    /\ rtc = "generate"
    /\ seen' = [obs |-> obs, epoch |-> resetEpoch]
    /\ rtc' = IF obs = 0 THEN "top" ELSE "refill"
    /\ UNCHANGED <<queue, warm, rtcError, job, counts>>
    /\ RtcOnly

QueueFull ==
    /\ rtc = "refill"
    /\ QSize(queue) > Threshold
    /\ rtc' = "top"
    /\ UNCHANGED <<queue, warm, rtcError, seen, job, counts>>
    /\ RtcOnly

(* Mutant: the task of the chunk before.                                   *)
OldTask == job.task

TakeTask == task

BeginInference ==
    /\ rtc = "refill"
    /\ QSize(queue) <= Threshold
    /\ job' = [task |-> TakeTask, hadPrevious |-> LeftOver(queue) # <<>>]
    /\ rtc' = "infer"
    /\ UNCHANGED <<queue, warm, rtcError, seen, counts>>
    /\ RtcOnly

IsWarmup == counts.inferences < Warmups
Inferred == IF IsWarmup THEN counts.inferences + 1 ELSE counts.inferences

(* A trained policy's chunk that came too late for what it continues.      *)
DiscardChunk ==
    /\ rtc = "infer"
    /\ Discards /\ ~IsWarmup
    /\ job.hadPrevious
    /\ counts' = [inferences |-> Inferred, errors |-> 0,
                  discards |-> counts.discards + 1]
    /\ rtc' = IF counts.discards + 1 >= MaxDiscards THEN "fatal" ELSE "top"
    /\ UNCHANGED <<queue, warm, rtcError, seen, job>>
    /\ RtcOnly

(* Mutant: a chunk is merged whatever happened since its observation.      *)
MergedAlways(chunk, delay) ==
    IF Appends THEN AppendActions(queue, chunk, job.task)
    ELSE ReplaceActions(chunk, delay, job.task)

(* The queue after the check and the merge under _obs_lock.                *)
Merged(chunk, delay) ==
    IF seen.epoch # resetEpoch THEN queue
    ELSE IF Appends THEN AppendActions(queue, chunk, job.task)
    ELSE ReplaceActions(chunk, delay, job.task)

Chunk == [i \in 1 .. ChunkLength |-> [session |-> seen.obs, task |-> job.task]]

MergeChunk ==
    /\ rtc = "infer"
    /\ \E delay \in 0 .. MaxDelay : queue' = Merged(Chunk, delay)
    /\ counts' = [inferences |-> Inferred, errors |-> 0, discards |-> 0]
    /\ warm' = (warm \/ Inferred >= Warmups)
    /\ rtc' = "top"
    /\ UNCHANGED <<rtcError, seen, job>>
    /\ RtcOnly

(* Mutant: an error that is not counted.                                   *)
ErrorsIgnored == counts.errors

ErrorsNow == counts.errors + 1

InferenceFails ==
    /\ rtc = "infer"
    /\ counts' = [counts EXCEPT !.errors = ErrorsNow]
    /\ rtc' = IF ErrorsNow >= MaxErrors THEN "fatal" ELSE "top"
    /\ UNCHANGED <<queue, warm, rtcError, seen, job>>
    /\ RtcOnly

(* The thread's outer except: the engine has failed, nobody waits for the  *)
(* warmup any more, and then every loop is told.                           *)
Fail ==
    /\ rtc = "fatal"
    /\ rtcError' = TRUE
    /\ warm' = TRUE
    /\ rtc' = "signal"
    /\ UNCHANGED <<queue, seen, job, counts>>
    /\ RtcOnly

SignalShutdown ==
    /\ rtc = "signal"
    /\ stopEvent' = TRUE
    /\ rtc' = "exited"
    /\ UNCHANGED <<mode, queue, obs, resetEpoch, active, shutdown, warm,
                   rtcError, taskVars, seen, job, counts, ctlVars>>

RtcLoop ==
    \/ ExitLoop \/ Snapshot \/ ServiceQuery \/ ReadAgain \/ QueueFull
    \/ BeginInference \/ DiscardChunk \/ MergeChunk \/ InferenceFails
    \/ Fail \/ SignalShutdown

Next ==
    \/ StartRun \/ StartSegment \/ ControlLoop \/ Pause \/ Stop \/ SetTask
    \/ RtcLoop

Spec == Init /\ [][Next]_vars

(* Both threads run; the loop ends when it is told to; an inference and a  *)
(* query end.  Nobody has to start, pause or stop anything.                *)
Fairness ==
    /\ WF_vars(ControlLoop)
    /\ WF_vars(Pause /\ stopEvent)
    /\ WF_vars(RtcLoop)

FairSpec == Spec /\ Fairness

-----------------------------------------------------------------------------
(* No action computed from an observation of before a reset is left to be  *)
(* performed, or was handed out, after it: reset() and _rtc_loop agree by  *)
(* the epoch, whatever an inference was doing meanwhile.                   *)
FreshActions ==
    /\ \A i \in queue.lastIndex + 1 .. Len(queue.actions) :
            queue.actions[i].session = session
    /\ returned.action.session \in {0, session}

(* Every action is labelled with the task it was computed from, and what   *)
(* the strategy records beside the action it performs is that task.        *)
LabelsTrue ==
    /\ \A i \in 1 .. Len(queue.actions) : queue.labels[i] = queue.actions[i].task
    /\ ctl = "tick" /\ returned.action # NoAction
            => dispatched = returned.action.task

(* A robot without actions gets some, or its segment ends: errors and late *)
(* chunks are retried, and a thread that gives up stops the loop.          *)
StarvationEnds ==
    (ctl \in Running /\ warm /\ flushed /\ QSize(queue) = 0)
        ~> (QSize(queue) > 0 \/ ctl \notin Running)

(* A task that stays set becomes the task of the actions performed, as     *)
(* long as the segment goes on.                                            *)
TaskSwitches ==
    \A t \in Tasks :
        (task = t /\ ctl \in Running)
            ~> (task # t \/ ctl \notin Running \/ returned.action.task = t)

(* The wait for the compilation ends ("so the main loop doesn't spin       *)
(* forever", rtc.py).                                                      *)
WarmupEnds == (ctl \in Running /\ ~warm) ~> (warm \/ ctl \notin Running)

(* The policy has one user: "policy state is never mutated across threads" *)
(* (base.py).                                                              *)
PolicyHasOneUser == ~(ctl = "reset" /\ rtc \in {"infer", "generate"})

Supply == INSTANCE ActionSupply
            WITH ready <- LeftOver(queue), taken <- returned.action,
                 appends <- Appends

(* The engine supplies actions as ActionSupply says.                       *)
SuppliesActions == Supply!Spec
=============================================================================
