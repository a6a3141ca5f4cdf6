----------------------------- MODULE RobotClient -----------------------------
(***************************************************************************)
(* RobotClient of lerobot/async_inference/robot_client.py: the control     *)
(* loop (main thread) and the action receiver (daemon thread), with the    *)
(* state they share.                                                       *)
(*                                                                         *)
(* One action per stretch of code between two points where the other       *)
(* thread, or the server, can act on state the stretch uses.  An action    *)
(* queue is the sequence of its timesteps: what aggregate_fn computes from *)
(* two tensors decides nothing here, and both branches of                  *)
(* _aggregate_action_queues queue the incoming timestep.                   *)
(***************************************************************************)
EXTENDS AsyncRpc

CONSTANTS
    ActionsPerChunk,  \* config.actions_per_chunk
    ThresholdNum,     \* config.chunk_size_threshold, as a fraction
    ThresholdDen,
    Horizon,          \* bound: the operator stops the run once it got here
    ScanIsAtomic,     \* no thread switch while the receiver walks the deque
    FastMerge         \* a merge is over before the control loop's next turn

ASSUME ClientAssumption ==
    /\ ActionsPerChunk \in Nat \ {0}
    /\ ThresholdNum \in Nat
    /\ ThresholdDen \in Nat \ {0}
    /\ ThresholdNum <= ThresholdDen
    /\ Horizon \in Nat
    /\ ScanIsAtomic \in BOOLEAN
    /\ FastMerge \in BOOLEAN

VARIABLES
    running,    \* ~shutdown_event.is_set()
    ctl,        \* where the control loop is
    act,        \* the timestep it popped and is performing
    latest,     \* latest_action
    pose,       \* cell of joint space the robot is in
    queue,      \* action_queue, oldest first
    chunkSize,  \* action_chunk_size
    mustGo,     \* the must_go event
    rcv,        \* where the action receiver is
    incoming,   \* actions of the received chunk not yet looked at
    future,     \* future_action_queue
    mutated     \* the deque being walked lost an element

ctlVars == <<running, ctl, act, latest, pose>>
rcvVars == <<rcv, incoming, future>>
clientVars == <<ctlVars, queue, chunkSize, mustGo, rcvVars, mutated>>

CtlStates == {"start", "instruct", "barrier", "avail", "pop", "perform",
              "ready", "observe", "await", "stopped", "crashed"}
RcvStates == {"barrier", "loop", "await", "scan", "walk", "filter", "swap",
              "set", "done", "dead"}

(* In _aggregate_action_queues, up to the must_go.set() that follows it.   *)
Merging == {"scan", "walk", "filter", "swap", "set"}

ClientTypeOK ==
    /\ running \in BOOLEAN
    /\ ctl \in CtlStates
    /\ act \in Nat
    /\ latest \in Nat \union {-1}
    /\ pose \in Poses
    /\ queue \in Seq(Nat)
    /\ chunkSize \in Nat \union {-1}
    /\ mustGo \in BOOLEAN
    /\ rcv \in RcvStates
    /\ incoming \in Seq(Nat)
    /\ future \in Seq(Nat)
    /\ mutated \in BOOLEAN

(* __init__; the values a new client process starts from.                  *)
ClientInit ==
    /\ running = TRUE
    /\ ctl = "start"
    /\ act = 0
    /\ latest = -1
    /\ pose \in Poses
    /\ queue = <<>>
    /\ chunkSize = -1
    /\ mustGo = TRUE
    /\ rcv = "barrier"
    /\ incoming = <<>>
    /\ future = <<>>
    /\ mutated = FALSE

(* The actions of the chunk computed for timestep t: what                  *)
(* PolicyServer._time_action_chunk makes of actions_per_chunk tensors.     *)
ChunkFrom(t) == [i \in 1 .. ActionsPerChunk |-> t + i - 1]

-----------------------------------------------------------------------------
(* Control loop.                                                           *)

(* start_barrier.wait() in both threads.                                   *)
Barrier ==
    /\ ctl = "barrier" /\ rcv = "barrier"
    /\ ctl' = "avail"
    /\ rcv' = "loop"
    /\ UNCHANGED <<running, act, latest, pose, queue, chunkSize, mustGo,
                   incoming, future, mutated, rpcVars>>

(* The test of one turn of control_loop: perform an action, or go on to    *)
(* the observation.                                                        *)
ActionsAvailable ==
    /\ ctl = "avail"
    /\ latest < Horizon
    /\ FastMerge => rcv \notin Merging
    /\ ctl' = IF queue # <<>> THEN "pop" ELSE "ready"
    /\ UNCHANGED <<running, act, latest, pose, queue, chunkSize, mustGo,
                   rcvVars, mutated, rpcVars>>

(* control_loop_action, the locked part: get_nowait.                       *)
PopAction ==
    /\ ctl = "pop"
    /\ queue # <<>>
    /\ act' = Head(queue)
    /\ queue' = Tail(queue)
    /\ mutated' = (mutated \/ rcv = "walk")
    /\ ctl' = "perform"
    /\ UNCHANGED <<running, latest, pose, chunkSize, mustGo, rcvVars, rpcVars>>

(* get_nowait found the queue empty: queue.Empty leaves control_loop, and  *)
(* async_client's finally stops the client.                                *)
PopFails ==
    /\ ctl = "pop"
    /\ queue = <<>>
    /\ ctl' = "crashed"
    /\ running' = FALSE
    /\ UNCHANGED <<act, latest, pose, queue, chunkSize, mustGo, rcvVars,
                   mutated, rpcVars>>

(* The rest of control_loop_action: the robot moves, into any cell, and    *)
(* only then is latest_action written.                                     *)
PerformAction ==
    /\ ctl = "perform"
    /\ pose' \in Poses
    /\ latest' = act
    /\ ctl' = "ready"
    /\ UNCHANGED <<running, act, queue, chunkSize, mustGo, rcvVars, mutated,
                   rpcVars>>

(* send_action raised: the exception leaves control_loop.                  *)
PerformFails ==
    /\ ctl = "perform"
    /\ faults < MaxFaults
    /\ faults' = faults + 1
    /\ ctl' = "crashed"
    /\ running' = FALSE
    /\ UNCHANGED <<act, latest, pose, queue, chunkSize, mustGo, rcvVars,
                   mutated, sendRpc, obsOut, getRpc, reply, session>>

(* qsize() / action_chunk_size <= threshold; -1 divides before any chunk.  *)
QueueIsLow ==
    \/ chunkSize < 0
    \/ Len(queue) * ThresholdDen <= ThresholdNum * chunkSize

(* Send an observation this turn, or sleep and start over.                 *)
ReadyToSendObservation ==
    /\ ctl = "ready"
    /\ ctl' = IF QueueIsLow THEN "observe" ELSE "avail"
    /\ UNCHANGED <<running, act, latest, pose, queue, chunkSize, mustGo,
                   rcvVars, mutated, rpcVars>>

(* control_loop_observation up to the call: capture, flag, send.  The      *)
(* queue the flag is read from need not be the one found low.              *)
SendObservation ==
    /\ ctl = "observe"
    /\ obsOut' = [ts   |-> IF latest < 0 THEN 0 ELSE latest,
                  must |-> mustGo /\ queue = <<>>,
                  pose |-> pose,
                  sess |-> session]
    /\ sendRpc' = "sent"
    /\ ctl' = "await"
    /\ UNCHANGED <<running, act, latest, pose, queue, chunkSize, mustGo,
                   rcvVars, mutated, getRpc, reply, session, faults>>

(* get_observation raised: logged, and the turn is over.                   *)
CaptureFails ==
    /\ ctl = "observe"
    /\ faults < MaxFaults
    /\ faults' = faults + 1
    /\ ctl' = "avail"
    /\ UNCHANGED <<running, act, latest, pose, queue, chunkSize, mustGo,
                   rcvVars, mutated, sendRpc, obsOut, getRpc, reply, session>>

(* The call returned, or raised an RpcError that send_observation turns    *)
(* into False: either way the flag of a must-go observation is cleared.    *)
ObservationSent ==
    /\ ctl = "await"
    /\ sendRpc \in {"ok", "err"}
    /\ sendRpc' = "idle"
    /\ mustGo' = (mustGo /\ ~obsOut.must)
    /\ obsOut' = NoObs
    /\ ctl' = "avail"
    /\ UNCHANGED <<running, act, latest, pose, queue, chunkSize, rcvVars,
                   mutated, getRpc, reply, session, faults>>

(* The operator ends the run; stop() sets the event, closes the channel.   *)
StopClient ==
    /\ ctl = "avail"
    /\ latest >= Horizon
    /\ running' = FALSE
    /\ ctl' = "stopped"
    /\ UNCHANGED <<act, latest, pose, queue, chunkSize, mustGo, rcvVars,
                   mutated, rpcVars>>

ControlLoop ==
    \/ ActionsAvailable \/ PopAction \/ PopFails \/ PerformAction
    \/ PerformFails
    \/ ReadyToSendObservation \/ SendObservation \/ CaptureFails
    \/ ObservationSent \/ StopClient

-----------------------------------------------------------------------------
(* Action receiver.                                                        *)

(* while self.running: GetActions(Empty()).                                *)
RequestActions ==
    /\ rcv = "loop"
    /\ running
    /\ getRpc = "idle"
    /\ getRpc' = "sent"
    /\ rcv' = "await"
    /\ UNCHANGED <<ctlVars, queue, chunkSize, mustGo, incoming, future,
                   mutated, sendRpc, obsOut, reply, session, faults>>

(* The loop condition is false: receive_actions returns.                   *)
ReceiverExits ==
    /\ rcv = "loop"
    /\ ~running
    /\ rcv' = "done"
    /\ UNCHANGED <<ctlVars, queue, chunkSize, mustGo, incoming, future,
                   mutated, rpcVars>>

(* No bytes, an RpcError, or the call the closing channel cancelled.       *)
ReceiveNothing ==
    /\ rcv = "await"
    /\ \/ getRpc = "ok" /\ reply = EmptyReply
       \/ getRpc = "err"
       \/ ~running
    /\ getRpc' = "idle"
    /\ reply' = EmptyReply
    /\ rcv' = "loop"
    /\ UNCHANGED <<ctlVars, queue, chunkSize, mustGo, incoming, future,
                   mutated, sendRpc, obsOut, session, faults>>

(* Mutant: the test for a reply without data is missing.                   *)
ReceiveChunkUnchecked ==
    /\ rcv = "await"
    /\ getRpc = "ok"
    /\ getRpc' = "idle"
    /\ reply' = EmptyReply
    /\ chunkSize' = IF chunkSize < ActionsPerChunk THEN ActionsPerChunk
                                                   ELSE chunkSize
    /\ incoming' = ChunkFrom(reply)
    /\ future' = <<>>
    /\ rcv' = "scan"
    /\ UNCHANGED <<ctlVars, queue, mustGo, mutated, sendRpc, obsOut, session,
                   faults>>

(* A chunk: remember the longest length seen, go on to merge it.           *)
ReceiveChunk ==
    /\ rcv = "await"
    /\ getRpc = "ok" /\ reply # EmptyReply
    /\ getRpc' = "idle"
    /\ reply' = EmptyReply
    /\ chunkSize' = IF chunkSize < ActionsPerChunk THEN ActionsPerChunk
                                                   ELSE chunkSize
    /\ incoming' = ChunkFrom(reply)
    /\ future' = <<>>
    /\ rcv' = "scan"
    /\ UNCHANGED <<ctlVars, queue, mustGo, mutated, sendRpc, obsOut, session,
                   faults>>

(* The lock is held to read the reference to the deque only; the dict is   *)
(* built from it afterwards.                                               *)
BeginScan ==
    /\ rcv = "scan"
    /\ mutated' = FALSE
    /\ rcv' = IF ScanIsAtomic THEN "filter" ELSE "walk"
    /\ UNCHANGED <<ctlVars, queue, chunkSize, mustGo, incoming, future,
                   rpcVars>>

(* A deque that changed size under its iterator raises RuntimeError, which *)
(* "except grpc.RpcError" does not catch: the daemon thread ends.          *)
EndScan ==
    /\ rcv = "walk"
    /\ rcv' = IF mutated THEN "dead" ELSE "filter"
    /\ UNCHANGED <<ctlVars, queue, chunkSize, mustGo, incoming, future,
                   mutated, rpcVars>>

(* Mutant: actions older than latest_action are kept.                      *)
FilterNothing ==
    /\ rcv = "filter"
    /\ incoming # <<>>
    /\ future' = Append(future, Head(incoming))
    /\ incoming' = Tail(incoming)
    /\ rcv' = IF Len(incoming) = 1 THEN "swap" ELSE "filter"
    /\ UNCHANGED <<ctlVars, queue, chunkSize, mustGo, mutated, rpcVars>>

(* One turn of the loop over incoming_actions; latest_action is read       *)
(* afresh for each.                                                        *)
FilterAction ==
    /\ rcv = "filter"
    /\ incoming # <<>>
    /\ future' = IF Head(incoming) <= latest THEN future
                                             ELSE Append(future, Head(incoming))
    /\ incoming' = Tail(incoming)
    /\ rcv' = IF Len(incoming) = 1 THEN "swap" ELSE "filter"
    /\ UNCHANGED <<ctlVars, queue, chunkSize, mustGo, mutated, rpcVars>>

(* Mutant: the new actions are queued behind the old ones.                 *)
SwapQueueAppending ==
    /\ rcv = "swap"
    /\ queue' = queue \o future
    /\ rcv' = "set"
    /\ UNCHANGED <<ctlVars, chunkSize, mustGo, incoming, future, mutated,
                   rpcVars>>

(* The new queue replaces the old one, whatever was popped meanwhile.      *)
SwapQueue ==
    /\ rcv = "swap"
    /\ queue' = future
    /\ rcv' = "set"
    /\ UNCHANGED <<ctlVars, chunkSize, mustGo, incoming, future, mutated,
                   rpcVars>>

(* Mutant: the event is not set.                                           *)
SetMustGoForgotten ==
    /\ rcv = "set"
    /\ rcv' = "loop"
    /\ UNCHANGED <<ctlVars, queue, chunkSize, mustGo, incoming, future,
                   mutated, rpcVars>>

(* must_go.set().                                                          *)
SetMustGo ==
    /\ rcv = "set"
    /\ mustGo' = TRUE
    /\ rcv' = "loop"
    /\ UNCHANGED <<ctlVars, queue, chunkSize, incoming, future, mutated,
                   rpcVars>>

Receiver ==
    \/ RequestActions \/ ReceiverExits \/ ReceiveNothing \/ ReceiveChunk
    \/ BeginScan \/ EndScan \/ FilterAction \/ SwapQueue \/ SetMustGo
=============================================================================
