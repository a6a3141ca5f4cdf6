# Specifications of LeRobot's concurrent core

TLA+ models of the parts of LeRobot that run in more than one thread, process
or machine, the TLC configurations that check them, and proofs about them that
TLAPS checks.  Paths below are relative to `src/src/lerobot/`; `PROJECT.json`
maps every definition to the lines it models.

Contents: [1 The system](#1-the-system) · [2 The modules](#2-the-modules) ·
[3 Runs](#3-runs) · [4 Bounds](#4-bounds) · [5 Timing and fairness](#5-timing-and-fairness) ·
[6 Proofs](#6-proofs) · [7 What the code does otherwise than it says](#7-what-the-code-does-otherwise-than-it-says) ·
[8 Not modelled](#8-not-modelled) · [9 Plan](#9-plan)

To check a run: `tlc -config <run>.cfg <module>.tla`; to check the proofs:
`tlapm <module>Proofs.tla`.

## 1 The system

LeRobot drives robots with learned policies, records datasets and trains.  Most
of its code computes on tensors or talks to hardware.  What follows is the part
with state that several threads share, or that must survive a failure.

### Asynchronous inference (`async_inference/`)
*State.*  The robot client has an action queue with the timestep of the last
action performed, a `must_go` event, a shutdown event, and two threads: the
control loop, which performs actions and sends observations, and the action
receiver, which fetches chunks of actions and merges them into the queue.  The
policy server has an observation queue of one, the set of timesteps it
predicted for, and the last observation it accepted; its handlers run in a
pool of four workers.
*Interaction.*  `Ready`, `SendPolicyInstructions`, `SendObservations` and
`GetActions`, all blocking gRPC calls without a deadline, over a channel that
retries what broke with UNAVAILABLE.
*Hard.*  Two threads on one queue with a lock that does not cover what is done
with what was read under it; an event read before a call and cleared after it;
a retried call beside the handler of the broken one; a client that restarts
while handlers of the one before run; an inference that raises.
*Correct when* the robot performs the actions in order, none twice; a robot
that runs out of actions gets new ones; no call hangs; a client that connects is
given actions whatever the one before it left behind.

### Transport (`transport/`)
*State.*  A sender's position in a message, the buffer of each receiving handler.
Used by the RL actor and learner.
*Hard.*  Messages at the boundary of a chunk; messages without bytes; a stream
that breaks in the middle of a message and is retried, while the handler of the
broken attempt runs on and puts on the same queue.
*Correct when* what comes out is what went in, whole, all of it, and in order in
each attempt.

### Rollout recording (`rollout/ring_buffer.py`, `rollout/strategies/highlight.py`)
*State.*  The ring buffer (a deque with a limit of frames, and a byte counter
with a limit of bytes); the strategy's flags; the dataset's episode.  The
keyboard's thread sets flags, the control loop reads and clears them.
*Hard.*  Flush, live recording, save and buffering hand frames to each other
at any key press; a dataset call that raises halfway.
*Correct when* each episode is one stretch of the rollout, no frame is in two,
and the ring keeps within its limits.

### Real-time chunking (`policies/rtc/action_queue.py`, `rollout/inference/rtc.py`)
*State.*  `ActionQueue` (actions and their task labels, an index, one lock);
`RTCInferenceEngine` (a thread, the last observation, an epoch, error counters,
active, warm-up and error events).
*Interaction.*  The control thread of a strategy gives observations and takes
actions; the engine's thread computes chunks and merges them.  The control
thread resets, pauses, resumes and stops the engine at any moment of an
inference; a thread that gives up sets the strategy's stop event.
*Hard.*  A chunk computed before a reset arrives after it; merges that keep
actions, labels and index in step; errors and late chunks with two counters.
*Correct when* no action of before a reset is performed after it, every action
carries the task it was computed from, and a robot without actions gets some
or is stopped.

### Controller and text queries (`rollout/controller.py`, `rollout/inference/base.py`)
*State.*  Requested commands and a linked stop event; the engine's task; a
channel of one query, and the sequencer that asks the policy for subtasks.
*Interaction.*  Commands from any thread, the thread of `serve()`, and the
engine's thread, which answers queries between inferences.
*Hard.*  A segment begins by clearing the event that stop, reset and a dying
engine set; a segment ends while a question is asked, answered or published;
an answer that took seconds arrives after the operator set another task.
*Correct when* stop and reset are never overtaken, each question is resolved
once, and a generated subtask never replaces a newer task of the operator.

### Cameras (`cameras/opencv/camera_opencv.py`)
*State.*  The latest frame under a lock, an event that is set after it, a
reading thread with its stop event, the device.
*Hard.*  Frame and event are not set together; the thread outlives a join that
gives up, and stores a frame in the slot that was cleared behind it, or beside
the thread of the next connection.
*Correct when* no frame of an earlier connection is returned and no reader
waits beside a frame.

### Recording with a background push (`rollout/strategies/sentry.py`, `datasets/dataset_writer.py`, `datasets/video_utils.py`)
*State.*  The episode buffer, the data files, the metadata; per camera an
encoder thread with a bounded queue; a lock between saves and pushes, a latch
for poisoned data, what remains to be pushed.
*Hard.*  Each step of `save_episode` may fail after the earlier ones took
effect; threads that die, are too slow or drop frames; a push between the
steps of a failing save.
*Correct when* the metadata is true of rows and videos whatever failed, no push
uploads a dataset that a save left halfway, and no save stays without a push.

### RL actor and learner (`rl/`)
*State.*  Two processes with queues of parameters, transitions and
interactions; the learner's replay buffer; a shutdown event each.
*Hard.*  Streams that end for good after an error; the newest parameters among
many; sampling beside adding.
*Correct when* parameters never go backwards and shutdown ends every thread.

### DAgger (`rollout/strategies/dagger.py`)
*State.*  A phase, requested transitions.
*Hard.*  Keyboard and pedal threads request transitions while the control loop
applies one.
*Correct when* only legal transitions happen and none requested is lost unseen.

### Image writer (`datasets/image_writer.py`)
*State.*  A queue of images and its worker threads or processes.
*Hard.*  A worker that dies leaves `join` waiting.
*Correct when* every image is on disk before the episode is.

Everything else is listed with its reason in [section 8](#8-not-modelled).

## 2 The modules

| module | models | extends |
|---|---|---|
| `AsyncRpc` | the two calls between client and server | |
| `RobotClient` | `robot_client.py`: both threads | `AsyncRpc` |
| `PolicyServer` | `policy_server.py`: the handlers in their pool | `AsyncRpc` |
| `AsyncInference` | client, server, handshake, faults, restarts; the properties | `RobotClient`, `PolicyServer` |
| `MCAsync` | what the runs of the system instantiate | `AsyncInference` |
| `AsyncInferenceProofs` | theorems | `AsyncInference` |
| `MessageChannel` | abstract: whole messages, in order in each attempt, again from the first in the next | |
| `ChunkTransport` | `transport/utils.py` at both ends of a stream; implements `MessageChannel` | |
| `ChunkTransportProofs` | theorems | `ChunkTransport` |
| `RolloutRingBuffer` | `rollout/ring_buffer.py` | |
| `HighlightStrategy` | `rollout/strategies/highlight.py` | `RolloutRingBuffer` |
| `SumLemmas` | lemmas about the community modules' sum over a sequence | |
| `HighlightStrategyProofs` | theorems | `HighlightStrategy`, `SumLemmas` |
| `RtcActionQueue` | `policies/rtc/action_queue.py` | |
| `ActionSupply` | abstract: what an engine promises the control loop | |
| `RtcEngine` | `rollout/inference/rtc.py` and the control loop that uses it; implements `ActionSupply` | `RtcActionQueue` |
| `RtcEngineProofs` | theorems | `RtcEngine` |
| `TextQueries` | task, query channel and sequencer of `rollout/inference/base.py` | |
| `RolloutController` | `rollout/controller.py`: commands, `serve()`, segments | `TextQueries` |
| `RolloutControllerProofs` | theorems | `RolloutController` |
| `CameraThread` | `cameras/opencv/camera_opencv.py` | |
| `CameraThreadProofs` | theorems | `CameraThread` |
| `StreamingEncoder` | the encoder and its threads in `datasets/video_utils.py` | |
| `SentryRecorder` | `rollout/strategies/sentry.py` with `datasets/dataset_writer.py` and the push worker | `StreamingEncoder` |
| `SentryRecorderProofs` | theorems | `SentryRecorder` |

Operators named in a comment as a mutant are what a plausible error would make of
the definition below them; no behaviour uses them.

### RobotClient and AsyncRpc
An action is the stretch of code between two points where another thread can act
on the state the stretch uses.  `ctl` is where the control loop is:

| `ctl` | code | actions from there |
|---|---|---|
| `start`, `instruct` | `start()` | `ClientReady`, `SendPolicyInstructions`, `StartFails` |
| `barrier` | both threads at `start_barrier.wait()` | `Barrier` |
| `avail` | `actions_available()` | `ActionsAvailable` |
| `pop` | under the lock in `control_loop_action` | `PopAction`, `PopFails` |
| `perform` | from `send_action` to the write of `latest_action` | `PerformAction`, `PerformFails` |
| `ready` | `_ready_to_send_observation()` | `ReadyToSendObservation` |
| `observe` | `control_loop_observation` up to the call | `SendObservation`, `CaptureFails` |
| `await` | the call, and the clear of `must_go` after it | `ObservationSent` |
| `stopped`, `crashed` | `stop()` ran; the process is gone | |

`rcv` is where the receiver is: `loop`, `await` (in `GetActions`), `scan` (the
deque is read under the lock, 249-250), `walk` (the comprehension at 252),
`filter` (one incoming action, 254-277), `swap` (279-280), `set` (350), `done`,
`dead` (an exception other than `RpcError`).

The queue is a sequence of timesteps.  What the aggregate function makes of two
actions for one timestep is data, and both of its branches queue the incoming
timestep.  Joint space is a set of cells: observations in one cell are similar.

### PolicyServer
`sPc[s]` and `gPc[g]` are the places of the workers.  `_enqueue_observation` is
split where another handler can act: filter and `full()` (`FilterObservation`,
`AcceptObservation`), `get_nowait()` (`MakeRoom`, `MakeRoomFails`) and `put()`
(`PutObservation`, `PutBlocks`, `PutResumes`).  `GetActions` is split at its
start (`BeginGet`), the reading of `self.observation_queue` (`ReadQueue`), the
blocking get, the mark in `_predicted_timesteps`, the start of the inference
and its end.  `Ready` replaces the observation queue, so `obsQ` has a queue per
session and a blocked handler keeps its own.  A handler whose call broke is an
orphan (`sLive`, `gLive` false): it runs to its end and answers no one.

### ChunkTransport and MessageChannel
A chunk names the bytes it carries (`msg`, `from`, `len`); a buffer is a prefix
of one message or `Garbled`.  Each attempt has a handler with its own place in the
stream and its own buffer (`utils.py:75`).  `Retry` starts the next one on the whole
`stream`; the handler of the broken attempt runs on, on the chunks it had been
`given` when the connection broke, or stops anywhere among them, and its messages
may come between those of the new one (`utils.py:100`).  `Break` and
`ReceiverReturns` end the call.  The refinement maps `received` to the message
numbers on the receiver's queue, each with its attempt.

### RolloutRingBuffer and HighlightStrategy
`RingAppend` is `append`: eviction for memory by the counter, then the deque's
own eviction, which does not touch the counter.  `HighlightStrategy` splits a
tick at `is_set()`, `clear()` and the frame's handling, so a key can be pressed
between any two.  Each call of the dataset that can raise has an action for
what it leaves behind (`FlushFails`, `FirstLiveFails`, `RecordFails`,
`SaveFails`), and `Finally` is the `finally:` of `run`.

### RtcActionQueue and RtcEngine
Every operation of `ActionQueue` holds its lock, so each is an operator on one
record.  An action is the session (the time between two resets) of the
observation it was computed from, and its task.  `ctl` is where the control
thread is:

| `ctl` | code | actions from there |
|---|---|---|
| `idle` | no loop runs | `StartRun`, `StartSegment`, `Stop` |
| `reset`, `prime` | in `reset()`, and before `resume()` | `ClearAndBump`, `Resume` |
| `tick` | the loop's condition | `Observe`, `Pause` |
| `act` | `_handle_warmup`, `get_action` | `FlushWarmup`, `WaitForWarmup`, `GetAction`, `GetNothing` |
| `label` | `_set_dispatched_task`, then record and send | `SetDispatched` |
| `stopping`, `done` | `stop()` | `Join` |

`rtc` is where the engine's thread is: `top` (414-425), `service` and `generate`
(a query, then the second snapshot), `refill` (the look at the queue), `infer`
(from the task's read to the merge under `_obs_lock`), `fatal` and `signal` (the
outer `except`), `exited`.  `mode` tells the ways of merging apart:
`append` (no blending), `guided`, and `trained`, which may discard a chunk that
came too late; `append_trained` is mode `trained` with `enabled = False`, which
`context.py:105` lets through: it appends, and discards late chunks all the same.  The number of steps an inference lasted, by which a chunk is
cut, is any number up to `MaxDelay`.

`ActionSupply` sees four variables: the mode, the session, the actions left and
the last one taken.  The refinement maps what the index leaves of the queue to
`ready`; a merge is `Supply`, `reset()` is `Reset`, `get_action` is `Take`, all
else stutters.

### TextQueries and RolloutController
A query is an operator's question, by its number, or a turn of the sequencer,
by the goal's text, which is all the code compares, and by the count of
`start_autosteer`, which the code does not see and the properties need.
`resolved` counts how often a question was answered or reported dropped.
`_service_query` is split at the claim, the generation and the publication.

`op` is where a command is that takes more than one lock: `restore` and `signal`
in `reset()` (258-261), `signal` in `stop()`, `retask` between `set_task`'s
`stop_autosteer` and the task.  `serve` is where `serve()` is: the checks
(`check`, `start`), `clear` and `flags` (396-403), the strategy's
`prepare`, `resume`, `tick`, `poll`, `deliver`, `pause`, then the end of the segment,
which takes the query lock three times: `finish` (`stop_autosteer`), `drop`
(`drop_pending_query`), `clean` (`drop_ready_subtask_answers`), and then `report`,
where a dropped question is answered.  The control lock is held while `op` is not
`ready`, so `ConsumeStart` and `FinishSegment` wait for it, and from `finish` to
`clean`, when the commands wait.

### CameraThread
A reading thread is in `read`, `store` or `notify`; the user's thread connects,
reads in the three ways the class has, and disconnects in four steps (`join`,
`release`, `rejoin`, `off`).  A frame is its connection and its number.  Both
joins have a timeout, and `ClearSlot` and `Disconnected` pass a thread that hangs
in a read; there is a thread for each connection, so that one which outlived its
own runs on beside the next.  `late` is what such threads had in hand when the
second join gave up on them.

### StreamingEncoder and SentryRecorder
A take is an episode being recorded.  `StreamingEncoder` keeps a thread for each
camera of each take, so that a thread that was given up runs on beside the next
take's; its operations are steps of the control thread, in whose `pc` each
place of `save_episode` has a name: `lock`, `data` (validation, then the rows),
`sentinel` and `join` (`finish_episode`), `cleanup`, `video`
(`_save_episode_video`), `commit` (`meta.save_episode`).  Where one of these
raises, `failed`, `latch`, `cancel` and `drain` are the steps of
`_checked_save_episode` and of `clear_episode_buffer`.  `lock` is who holds
`_episode_lock`; `worker` is where the push is.  What a push uploads (`OnDisk`) is
the number of episodes `info.json` counts, the number of those whose metadata was
written, and whether the writers had written their footers.  `Commit` counts an
episode at once but only buffers its metadata (`dataset_metadata.py:632-636`):
`unflushed` is how much of it is in memory, until there is a buffer of it
(`MetadataBuffer`, ten in the code), the metadata file is full (`Held`), or the
writers are closed.

## 3 Runs

| run | states | shows |
|---|---|---|
| `async_core` | 56 k | without faults: actions stay in order and none is skipped (`ActionsInOrder`, `QueueConsecutive`), `must_go` is never lost (`NoLostWakeup`), a robot out of actions gets more (`EmptyQueueRefilled`), no put blocks |
| `async_faults` | 257 k | a broken call or inference, a killed client, a restart beside the handlers of the client before: once nothing breaks any more, a client that connected is given actions (`NewClientServed`) |
| `async_send_returns` | 130 k | a retried call beside its orphan, with any timing of merges and of the scan: `SendObservations` always returns, even behind a blocked put |
| `transport_chunks` | 461 k | whole messages, none lost, in order in each attempt, through a retry and beside the orphaned handler; `ChunkTransport` implements `MessageChannel` |
| `highlight` | 0.50 M | episodes are unbroken and disjoint, the ring honours its limit, the last frame is where the next follows it |
| `rtc_engine` | 133 k | in every mode of merging: no action outlives a reset (`FreshActions`), labels tell the truth (`LabelsTrue`), a starved robot is supplied or stopped (`StarvationEnds`), a new task takes effect (`TaskSwitches`); `RtcEngine` implements `ActionSupply` |
| `controller` | 141 k | commands at any moment: stop and reset win (`LastCommandWins`, `StopEndsServe`), no start waits behind a segment, questions are resolved, once (`QuestionsResolved`, `AnsweredOnce`), the sequencer has one turn at a time, goes on, and never overwrites the operator |
| `camera` | 220 k | with threads that outlive their disconnect: of an earlier connection at most the frame such a thread had in hand, no reader that waits beside a frame |
| `recorder` | 168 k | two cameras, a failure of any step: the metadata is true (`EpisodesWhole`), no push of half a save but in one window (`PushesWhole`), a push since the last save and all but a buffer of metadata on the Hub (`SavesPushed`), and every save ends (`SaveEnds`) |

Three more runs each show one disagreement; see [section 7](#7-what-the-code-does-otherwise-than-it-says).

`CHECK_DEADLOCK FALSE`: in `rtc_engine` the engine is stopped for good at `done`; in `camera` the user may disconnect for good; in `recorder` the
session ends at `done`, and a sentinel may wait for ever.  The system really
stops there.

Four properties name their exception.  `PushesWhole` excepts the moment `latch`,
between the release of `_episode_lock` and the poison latch, in which the code
does push.  `SaveEnds` excepts the full queue of a thread that died, where
`finish_episode` does wait for ever.  `EpisodesWhole` requires of a video the
frames that were not counted as dropped, unless its thread was given up at the
join (`cut`), when nothing promises them; order and take hold of that one too.  `OwnFrames` and
`EventTellsSlot` except what a thread had in hand that outlived both joins of
`disconnect()`: one frame, whose arrival the code does not prevent
([section 7](#7-what-the-code-does-otherwise-than-it-says)); what it keeps is that
there is no second one.

## 4 Bounds

| bound | value | why it is enough |
|---|---|---|
| `Horizon` | 0-3 actions | one chunk and its successor are merged and performed; later chunks only shift timesteps |
| `ActionsPerChunk` | 1-3 | 2 lets a merge overlap the queue, 3 lets it overlap in the middle |
| `MaxSessions` (clients) | 1 or 2 | a second client meets everything the first left |
| `MaxFaults` | 0 or 1 | one break makes one orphan beside one live call; one death leaves a handler of each kind to the next client |
| workers | 1 or 2 of each kind | a call and one orphan; a fault adds at most one.  `async_faults` has two workers for `SendObservations`; it also passes with one, and two for `GetActions` (363 k states) |
| `Poses` | 1 or 2 cells | similar and not similar |
| `Sizes`, `ChunkSize` | {0, 1, 2, 4, 5}, 2 | empty, part of a chunk, one chunk, two chunks exactly, and one byte over |
| `MaxMessages`, `MaxAttempts` | 3, 2 | a message before, in and after a retry |
| `MaxFrames`, `MaxBytes`, `FrameBytes` | 3, 4, {1, 2, 5} | each limit is hit alone and both at once; 5 is a frame that never fits |
| `MaxRecorded`, `MaxErrors` (`highlight`) | 6, 1 | two episodes, or a flush of an overflowed ring and an episode; one raise |
| `ChunkLength`, `Threshold`, `MaxDelay` | 2, 1, 1 | a chunk is asked for with one action left and with none; it is cut in the middle or not |
| `MaxErrors`, `MaxDiscards` (`rtc_engine`) | 2, 2 | one error that is retried and one that is fatal, in either order with discards |
| `MaxSessions` (`rtc_engine`) | 2 | resets during an inference, with the epoch of two sessions before; with the warm-up's flush four sessions |
| `MaxTaskChanges`, `Warmups` | 1, 1 | a task changes between any two steps; a warm-up that ends |
| `Goals`, `MaxSteers` | 2, 2 | a goal stopped and started again with the same text, and with another |
| `MaxQuestions`, `MaxCommands` | 1, 4 | a question against a turn; start, autosteer, question and the command that ends it |
| `MaxFailures` (`controller`, `camera`) | 1 | SIGINT, a strategy or an engine that fails; a read that fails once and one that is fatal |
| `MaxConnections`, `MaxFrames` (`camera`) | 2, 3 | a thread that outlives the joins, met by the next connection; a frame before, in and after a read |
| `Cameras`, `QueueSize` | 2, 1 | one camera fails or drops while the other does not; a queue is full after one frame |
| `MaxTakes`, `MaxFrames`, `UploadEvery` | 3, 4, 2 | an episode before, in and after a failure, of one frame or more; a push with one more episode saved meanwhile |
| `MetadataBuffer` | 2 | metadata in memory at a push, and not |
| `MaxErrors` (`recorder`) | 1 | one failing step, join that gives up, or push |

`recorder` also passes with `MaxErrors = 2` (593 k states, two minutes).  TLC evaluates the named assumptions on
the constants in every run.  The proofs have none of these bounds but
`MaxFaults`, where a theorem says so.

## 5 Timing and fairness

The asynchronous inference system relies on time in five places.  Each is a
constant, so that a run says which it assumes:

| constant | TRUE means | code |
|---|---|---|
| `ScanIsAtomic` | no switch of threads while the receiver walks the deque | `robot_client.py:252` |
| `FastMerge` | a merge is over before the control loop's next turn | 279-280 against 480-494 |
| `SlowInference` | no inference ends while a `SendObservations` is being answered | 449-450: the clear follows the call |
| `FastPut` | no `get` times out between an enqueue's pop and its put | `policy_server.py:303-307` |
| `FastGet` | no `Ready` comes between the start of a `GetActions` and its reading of `observation_queue` | `policy_server.py:217-223` |

`async_send_returns` assumes the last two only, `async_faults` all but
`SlowInference`.  `FastGet` keeps out a handler of the client before that is about to
read `self.observation_queue` when `Ready` replaces it: it then takes the new
client's first observation, marks its timestep, computes a chunk for nobody, and the
new client's `must_go` is spent (`NewClientServed` and, with two sessions,
`NoLostWakeup` fail).  Without `FastPut` a `GetActions` may time out again and again
just between pop and put, and `NewClientServed` fails too.  `async_core` assumes all,
and needs them: with `SlowInference = FALSE` a chunk merged during the call sets
`must_go` and line 450 clears it, so `NoLostWakeup` fails; with
`FastMerge = FALSE` the control loop performs actions between the reads of
`latest_action` for one chunk, and `QueueConsecutive` fails.  With
`ActionsPerChunk = 1`, which `configs.py` accepts, `EmptyQueueRefilled` fails:
the one action of the chunk is for the timestep already performed.

`rtc_engine` assumes one thing about time, `MaxDelay < ChunkLength`: an inference
is over before a chunk of its own length would have been performed.  The module
and its proofs do without (`RtcAssumption` says only `MaxDelay <= ChunkLength`), but
with `MaxDelay = ChunkLength` a merge may leave nothing, again and again, and
`StarvationEnds` fails.

Fairness (`FairSpec`) is what a scheduler gives: weak fairness for each thread.
What only an operator decides (commands, key presses, pauses, resets, tasks),
faults, restarts and failures are never fair.  Beyond weak fairness of threads:

* `AsyncInference`: `TakeObservation` and `PredictActionChunk` have strong
  fairness.  The queue's condition variable does not overlook a waiting `get` for
  ever, however often its item is replaced; an inference ends, even if
  `SlowInference` disables its end again and again.
* `RtcEngine`: a loop that has been told to stop stops (`WF` of `Pause` while the
  stop event is set); a segment need not end otherwise.  A step of the engine's
  thread is fair, but not its success: `InferenceFails` and `DiscardChunk` are
  steps too, which is why `StarvationEnds` has its second outcome.
* `RolloutController`: `PollDue` has strong fairness.  The time of a turn comes
  (`time.monotonic()` passes the deadline), however many ticks find it not due and
  however often a question occupies the channel meanwhile.
* `SentryRecorder`: `AcquireLock` has strong fairness.  A worker that pushes again
  and again gives the lock back each time, and does not keep the save from it
  for ever.

The runs `transport_chunks`, `highlight` and `camera` have no fairness.  In `FairSpec`
a client may stop by itself only after `Horizon` actions, which is why
`NewClientServed` can promise actions, not just actions or the end.

## 6 Proofs

`AsyncInferenceProofs` proves, for any number of workers, sessions, poses, any
chunk length, threshold and horizon:

| theorem | assumes | invariant |
|---|---|---|
| `TypeCorrect`: `Spec => []TypeOK` | nothing | `TypeInv` |
| `WakeupsKept`: `Spec => []NoLostWakeup` | `Calm` | `WakeInv` |
| `PutsNeverBlock`: `Spec => []PutNeverBlocks` | `Calm` | `WakeInv` |
| `QueueHasNoGap`: `Spec => []QueueConsecutive` | `OneStream` | `StreamInv` |
| `ActionsPerformedInOrder`: `Spec => ActionsInOrder` | `OneStream` | `StreamInv` |

`Calm` is `MaxFaults = 0 /\ ScanIsAtomic /\ SlowInference /\ FastGet`; `FastMerge` and
`FastPut` are free.  `OneStream` is `FastMerge /\ (MaxFaults = 0 \/ MaxSessions = 1)`:
a merge is over before the control loop's next turn, and either no call breaks or
no second client follows.  Neither half can be dropped (sections 5 and 7), and
the rest is free: a client may stop and another start after it, or calls and
inferences may break, with the scan raising or not and any order of handlers.

`TypeInv` adds to `TypeOK` that each observation queue holds one at most, and
that a place of a thread implies the data it works on is there.

`NoLostWakeup` alone is not inductive: `must_go` is cleared after the call
returns, and what was pending when it was sent may be gone by then.  `WakeInv`
says where the cause is at each place of each thread.  `ClientPlaces` relates
the control loop's place to the call it made; `SendPlaces` and `GetPlaces` say
that a handler at work has its caller, so that there is one of each kind at
most; `DropsAreSafe` says that an observation the filter or a failed
`get_nowait` may drop finds `must_go` still set or something `Secured`.  The
put never blocks because one handler at most is between `full()` and `put()`.

A queue without a gap is not inductive either: the next chunk may begin anywhere
that the inference was asked for.  `StreamInv` follows the timestep round the loop.
`NoneSkipped` says that whatever carries an observation or a chunk of this session
(a call, a handler, the observation queue, an inference, a reply) carries a
timestep the robot had reached, so a chunk never begins behind a gap.
`QueueContinues` says that the queue begins with the action last performed or the
one after it: a merge that filters with a `latest_action` one action old may
queue that action again, and no older one.  `MergeContinues` says the same of
the queue that is being built, with the rest of the chunk behind it; `StartsAlone`
that a client that starts finds no handler of the one before.  Under it lies
`HandlerInv`: a handler is live exactly while its call is being served, one of each
kind at most (`SendHandlers`, `GetHandlers`; for the latter in the session the
handler's queue belongs to), and only a waiting receiver has a call out
(`ReceiverPlaces`).

Each preservation lemma (`TypeControl`, ..., `WakeSend`, ..., `HandlerGet`, ...)
covers one group of actions, with a step per action.

`ChunkTransportProofs` proves, for any chunk size, sizes, number of messages and
of attempts, and assuming only that a chunk has at least one byte
(`ChunkAssumption`):

| theorem | states |
|---|---|
| `ChunkTypes` | `Spec => []TypeOK` |
| `MessagesAreWhole` | `Spec => []WholeMessages` |
| `MessagesAllCome` | `Spec => []NothingLost` |
| `ChunksImplementChannel` | `Spec => ImplementsChannel`, that is `Channel!Spec` |

All four rest on `ChunkInv`.  `WholeMessages` speaks of the queue only; that the
next message comes out whole depends on the chunks in the stream and on where
each handler is among them.  `ChunksWellFormed` and `ChunksFollow` describe the
stream: each chunk goes on where the one before ended, or starts the next
message that has bytes.  `SenderPlace` says what the last chunk sent means for
`sent_bytes`, and `ReceiverPlace`, of every handler, live or orphaned, what the last
chunk it read means for its buffer and for what it has put: exactly the messages
with bytes that ended among the chunks it read.  A new handler starts in place, and
none depends on another, which is why an orphan does no harm but to the order.

`HighlightStrategyProofs` assumes `RingAssumption` and `HighlightAssumption`: limits
and bounds are numbers, the ring has room for a frame, a frame has a byte.

| theorem | states |
|---|---|
| `HighlightTypeCorrect` | `Spec => []TypeOK` |
| `RingCapHonoured` | `Spec => []CapHonoured` |
| `EpisodesAreUnbroken` | `Spec => []EpisodesUnbroken` |
| `FramesRecordedOnce` | `Spec => []FramesOnce` |
| `FramesNotSkipped` | `Spec => []NothingSkipped` |

All rest on `HighlightInv`.  Its part `CapInv` says why the cap holds although
`BytesAccounted` fails: the counter may run ahead of the frames, as the deque's own
eviction leaves it alone, but never falls behind them, so an eviction by the
counter evicts enough.  `PlaceInv` says that the frames are in the ring or in the
episode, not in both, up to the last one handled, and where that one is when a
save just emptied the episode; `StretchInv` adds the ring's own frames to
`EpisodesUnbroken`; `OrderInv` puts saved episodes, the one under way and the ring
in the order of their frames, which is `FramesOnce` without the sequence built for
it.  A call of the dataset that raises leaves the loop, so `PlaceInv` need not hold
after it, and the other parts do.

The bytes of the ring are `SumFunction` of the community modules, a fold.
`SumLemmas` proves what it computes (`SeqSumOfAppend`, `SeqSumOfConcat`):
that the fold exists, and that the order in which it takes the elements does
not matter.  That is induction over data; the library's induction theorems cannot
be used, so it is done through the set of numbers for which the claim fails,
which has no least element (`LeastElement`, from the library's `WFMin`).

`RtcEngineProofs` assumes `RtcAssumption`: a chunk has an action, a delay is at most
its length, limits are positive.

| theorem | states |
|---|---|
| `EngineTypes` | `Spec => []TypeOK` |
| `ActionsStayFresh` | `Spec => []FreshActions` |
| `LabelsStayTrue` | `Spec => []LabelsTrue` |
| `EngineSupplies` | `Spec => SuppliesActions`, that is `Supply!Spec` |

`FreshActions` alone is not inductive: a chunk that is being computed is neither
in the queue nor returned.  `EngineInv` adds what the epoch is for:
`SnapshotKnown` says that epoch and session move together, and that whoever still
holds the current epoch holds an observation of the current session, so that the
check under `_obs_lock` lets only such a chunk through.  `WellFormed` keeps actions,
labels and index in step through both merges (lemmas `Taken`, `Replaced`,
`Appended`); `LabelFollows` carries the label from the queue to `_dispatched_task`;
`ResetsBounded` and `LimitsNotReached` are what the types of counters need.  The
refinement uses the same invariant: `MergeSupplies` says that a merge extends or
replaces what is left by actions of one task and this session.

`RolloutControllerProofs` assumes `QueryAssumption` and `ControllerAssumption`: the
bounds are numbers, and no goal has the text that means none.

| theorem | states |
|---|---|
| `ControllerTypes` | `Spec => []TypeOK` |
| `LastCommandStands` | `Spec => []LastCommandWins` |
| `StartsAreConsumed` | `Spec => []NoStartBehindSegment` |
| `QuestionsOnce` | `Spec => []AnsweredOnce` |
| `TurnsOneAtATime` | `Spec => []OneTurnAtATime` |
| `TasksStay` | `Spec => OperatorTaskKept` |

Two invariants, one for each half.  `CommandsInv`: after a reset or a stop no start
is waiting; a segment that has yet to clear its event finds the request flag, which
is set before the event; one past that finds the event.  `QueriesInv`: the in-flight
flag covers the whole service of a query (`FlightMarked`), which makes one turn at
a time inductive; a question is in one place, queued, served, ready, dropped or resolved
(`OnePlace`); a sequencer that drives the robot was started after the operator's
task (`SteeredLater`), also in the middle of `set_task` and `reset`.

`CameraThreadProofs` assumes that the bounds are numbers (`CameraAssumption`), and
proves `Spec => []TypeOK`, `[]OwnFrames` and `[]EventTellsSlot` (`CameraTypes`,
`FramesAreOwn`, `EventsTellSlots`), for any number of threads that outlived their
connection.  `CameraInv` adds that the slot itself is of this connection or a late
frame (`SlotIsOwn`), and where the event may be behind the slot
(`EventMeansFrame`).  That there is one late frame for each such thread is
`LateKnown`: a thread whose disconnect is over was asked to stop, by a `stop_event`
no later connection replaces, and what it has in hand is what it had then.

`SentryRecorderProofs` assumes `EncoderAssumption` and `RecorderAssumption` (positive
sizes), and proves, for any number of cameras, takes, frames and errors:

| theorem | states |
|---|---|
| `RecorderTypes` | `Spec => []TypeOK` |
| `PushesAreWhole` | `Spec => PushesWhole` |
| `AllPushed` | `Spec => []SavesPushed` |
| `EpisodesAreWhole` | `Spec => []EpisodesWhole` |

A lemma for each operation of the encoder says that it keeps the types of its
threads (`StartKeeps`, `PutKeeps`, `StopsKeep`, `ThreadKeeps`).  `RecorderInv` adds
`TakeInv` (wherever a frame is handled there is a take, and room), `LockInv` (who
holds `_episode_lock`, at each place of both threads), `RowsInv` (rows that no
metadata tells of belong to the save under way, the one that failed, or a
poisoned dataset, and poisoned is for good), `FlushInv` (less than one buffer of
metadata is in memory, none once the writers are closed, and so it was when the
Hub last got it) and `PushInv` (an episode the Hub does not count is registered or
about to be).  A push begins under the lock, so no
save is under way, and not on poisoned data; what is left of `RowsInv` is the
window `latch`.  `ClearNeedsPush` loses nothing because the upload it follows ran
under the same lock.

`EpisodesWhole` speaks of the metadata alone, and what is true of an episode then
was settled many steps earlier, camera by camera.  `WholeInv` follows the frames
there, beside `RecorderInv`.  `FlowInv`: each round of the cameras begins with the
first, and what reaches the files has frames, all of them whole (`torn` is a frame
some cameras got and others did not).  `CamerasInv`: while an episode is recorded or
saved, each camera's thread has encoded, or still has in its queue, the frames of
this take in their order, and these with the dropped ones are the frames it was
fed, unless it was stopped or died (`ThreadTrue`); its sentinel is unsent, sent or
behind the join according to the place of the save.  `EpisodesInv`: what is saved is
true, the rows of the save under way follow the last known row, and the videos
made so far are those of its frames.  The lemmas about threads (`StreamTail`,
`StreamEncode`, ...) count frames; `RowsAdded` and `VideoAdded` say that a file
only grows, so that what was true of it stays true; `RowsWhole` and `VideosWhole`
translate the result into the set and sequence operators of the property.

Every invariant and action property of a passing run is thus proved, those of
`AsyncInference` under the assumptions named.  Checked by TLC only: liveness
(`EmptyQueueRefilled`, `NewClientServed`, `SendReturns`, `StarvationEnds`, `TaskSwitches`,
`StopEndsServe`, `QuestionsResolved`, `AutosteerGoesOn`, `SaveEnds`), which is out of
the prover's reach, as it needs `ENABLED`.

## 7 What the code does otherwise than it says

| run | property | in short |
|---|---|---|
| `failed_inference` | `EmptyQueueRefilled` | the timestep is marked predicted before the inference; if that raises, nothing the client sends passes the filter again |
| `second_warmup` | `WarmupEnds` | with two warm-up inferences the chunk of the first fills the queue, nothing consumes it, and the second never begins |
| `unfinished_push` | `PushedWithFooters` | a background push uploads files whose writers are open; if no episode follows, the final push is skipped and the files on the Hub have no footers |

The quotations of the comments and tests that promise otherwise are in
`PROJECT.json` under `findings`.  The following are stated in the modules and fail
too, each under the configuration named here (its properties replaced by the one):

| property | configuration | in short |
|---|---|---|
| `NoReplay` | `async_core` | `latest_action` is written after the action was performed (`robot_client.py:398`); a chunk merged meanwhile queues it again |
| `NeverPopsEmpty` | `async_core` with `FastMerge = FALSE` or `ActionsPerChunk = 1` | a merge replaces the queue by an empty one between `actions_available` and `get_nowait`, and `queue.Empty` ends the control loop |
| `QueueConsecutive` | `async_core` with `MaxFaults = 1`, `MaxSessions = 2`, two workers for `SendObservations`, deadlock not checked | a client dies while a call of its broke; the orphan is still at `put` (`policy_server.py:307`), reads `self.observation_queue` after the new client's `Ready` replaced it, and the new client gets a chunk that begins behind a gap |
| `ReceiverSurvives` | `async_core` with `ScanIsAtomic = FALSE` | the comprehension at 252 walks the deque without the lock; a pop meanwhile raises in the receiver's thread and ends it |
| `NewClientServed` | `async_faults` with `FastGet = FALSE` | a `GetActions` of the client that died reads `self.observation_queue` (`policy_server.py:223`) after the new client's `Ready` replaced it (103), takes its must-go observation and answers no one; the new client's later observations are filtered |
| `PutNeverBlocks` | `async_send_returns` | a retried call and its orphan both find room, and the second put waits without a timeout |
| `FiltersOwnSession` | `async_faults` | `_reset_server` keeps `last_processed_obs`; a new client's observations are compared with the old client's |
| `InOrderAcrossAttempts` | `transport_chunks` | the handler of a broken attempt puts a message on the learner's queue (`utils.py:100`) after the retry's handler put its first; `MessageChannel` therefore promises the order in each attempt only |
| `BytesAccounted` | `highlight` | the deque's own eviction does not reduce the byte counter, so frames are later evicted that would fit |
| `PolicyHasOneUser` | `rtc_engine` | `reset()` resets the policy and its processors without a lock, beside an inference or a generation (`base.py:101` says of the task's hand-over: "policy state is never mutated across threads") |
| `NoLateAnnouncement` | `controller` | a turn that is published after its segment ended is delivered by the idle pump |
| `StoppedTurnsDiscarded` | `controller` | the liveness of a turn is that of its goal's text: stopped and started again with the same text, the old answer is applied for the new goal |
| `FramesTakenOnce` | `camera` | a reader between `latest_frame` and the event takes the frame, clears an event that is not set yet, and is woken for the same frame again (`camera.py:131-132`: "the latest unconsumed frame") |
| `NoLateFrames` | `camera` | the second join gives up too (`camera_opencv.py:534-537`, a warning only), `connect()` starts a thread beside the late one, and the frame that one had in hand is stored in the new connection's slot and returned |
| `NothingUnpushed` | `recorder` | a background push uploads what is on disk; the metadata of the last episodes is in `_metadata_buffer` (`dataset_metadata.py:632-636`), is written by `finalize()`, and reaches the Hub only if a later save asked for the final push (`sentry.py:276-281`) |
| `NeverPushesHalf` | `recorder` | `_episode_lock` is released before `_dataset_poisoned` is set (`sentry.py:206-212`); a worker that was waiting pushes the half-saved dataset |

Two more are visible in the model and have no property of their own.  The
rotation (`sentry.py:165-166`) saves whatever the buffer holds: an episode
without frames, when no action was performed during its duration, does not
validate, and the dataset is poisoned over it (`Rotate`, `BufferRefused`).
`finish_episode` puts the sentinel without a timeout (`video_utils.py:1043`), into
the full queue of a thread that has died it waits for ever (`DeadAndFull`).

## 8 Not modelled

Not reached: the loops of the RL processes around the modelled stream, DAgger
and the episodic strategy (they record as `SentryRecorder` does, without the
rotation), the image writer, and the push of the highlight strategy (it is the
sentry strategy's).

Left out for good: `policies/` and `processor/` (tensor computations without a
state machine; by far the largest part of the repository), `motors/`, `robots/`,
`teleoperators/` (hardware protocols and I/O), `envs/`, `optim/`, `scripts/`, `jobs/`,
`distributed/`, `configs/` (glue around libraries), reading, editing and statistics
of datasets (tables in, tables out), `annotations/`, `templates/`, `utils/` (pure
functions), `integrations/`, `examples/`, `docs/`.  `transport/services_pb2*.py` is
generated.  `rollout/inference/sync.py` calls the policy in the control thread:
nothing interleaves.

Within the modelled parts: contents of tensors, pickling, logging and the
metrics, FPS control (it delays, it decides nothing), visualisation, the TLS
and server options; of the RTC engine, how a delay is estimated and how a
prefix guides an inference; of the controller, the events it emits and the
interpolation of actions; of the cameras, all drivers but OpenCV's, whose
pattern they follow, pixels and the age limit of `read_latest`; of the writer,
images on disk, batched encoding, presentation times, the split into several
files and resuming a dataset.

## 9 Plan

1. *Done.*  The asynchronous inference system, the transport with its abstract
   channel, the ring buffer and the highlight strategy.
2. *Done.*  The RTC queue and engine with their abstract specification; the
   controller with the text queries; the OpenCV camera; the streaming encoder,
   the dataset writer and the sentry strategy with its push; their proofs.
3. Next: `ActorLearner` on `MessageChannel` (parameters never go backwards,
   shutdown ends both processes); `Dagger`, composed with `SentryRecorder` without
   the rotation; `ImageWriter`.
4. *Done.*  Proofs of the invariants that were only model-checked: `QueueConsecutive`
   and `ActionsInOrder`; types, cap and episodes of the highlight strategy;
   `EpisodesWhole`.
5. Left to prove: an abstract specification of what a recorder promises (a list of
   episodes that only grows, and how much of it is on the Hub), implemented by
   `SentryRecorder`; the safety of the modules of item 3.

Runs to come stay near the sizes above: two or three threads, queues of one or
two, one fault.
