--------------------------- MODULE AsyncInference ----------------------------
(***************************************************************************)
(* The asynchronous inference system of lerobot/async_inference: clients   *)
(* that connect one after the other (RobotClient), the server they share   *)
(* (PolicyServer), and a network that breaks calls.  grpc_channel_options  *)
(* has the channel retry a call that broke with UNAVAILABLE, so the server *)
(* may be given the same observation twice.                                *)
(***************************************************************************)
EXTENDS RobotClient, PolicyServer

vars == <<clientVars, rpcVars, serverVars>>

-----------------------------------------------------------------------------
(* start(): the two calls of the handshake.                                *)

ClientReady ==
    /\ ctl = "start"
    /\ Ready
    /\ ctl' = "instruct"
    /\ UNCHANGED <<running, act, latest, pose, queue, chunkSize, mustGo,
                   rcvVars, mutated, sendRpc, obsOut, getRpc, reply, faults>>

(* SendPolicyInstructions; which policy is loaded is data.                 *)
SendPolicyInstructions ==
    /\ ctl = "instruct"
    /\ ctl' = "barrier"
    /\ UNCHANGED <<running, act, latest, pose, queue, chunkSize, mustGo,
                   rcvVars, mutated, rpcVars, serverVars>>

(* An RpcError in either: start() returns False, async_client returns.     *)
StartFails ==
    /\ ctl \in {"start", "instruct"}
    /\ faults < MaxFaults
    /\ faults' = faults + 1
    /\ ctl' = "stopped"
    /\ rcv' = "done"
    /\ running' = FALSE
    /\ UNCHANGED <<act, latest, pose, queue, chunkSize, mustGo, incoming,
                   future, mutated, sendRpc, obsOut, getRpc, reply, session,
                   serverVars>>

Start == ClientReady \/ SendPolicyInstructions \/ StartFails

-----------------------------------------------------------------------------
(* Faults.                                                                 *)

(* The connection of a SendObservations breaks.  The channel gives up, or  *)
(* sends the call again; a handler of the broken call becomes an orphan.   *)
BreakSend ==
    /\ sendRpc \in {"sent", "served"}
    /\ faults < MaxFaults
    /\ faults' = faults + 1
    /\ sendRpc' \in {"sent", "err"}
    /\ sLive' = [s \in SendThreads |-> FALSE]
    /\ UNCHANGED <<clientVars, obsOut, getRpc, reply, session, obsQ, predicted,
                   lastProc, sPc, sObs, sQ, getVars>>

BreakGet ==
    /\ getRpc \in {"sent", "served"}
    /\ faults < MaxFaults
    /\ faults' = faults + 1
    /\ getRpc' \in {"sent", "err"}
    /\ gLive' = [g \in GetThreads |-> FALSE]
    /\ UNCHANGED <<clientVars, sendRpc, obsOut, reply, session, obsQ, predicted,
                   lastProc, sendVars, gPc, gObs, gQ>>

(* The client's process is killed, whatever its threads were doing.        *)
ClientDies ==
    /\ ctl \notin {"stopped", "crashed"}
    /\ faults < MaxFaults
    /\ faults' = faults + 1
    /\ running' = FALSE
    /\ ctl' = "crashed"
    /\ rcv' = "dead"
    /\ sendRpc' = "idle"
    /\ getRpc' = "idle"
    /\ obsOut' = NoObs
    /\ sLive' = [s \in SendThreads |-> FALSE]
    /\ gLive' = [g \in GetThreads |-> FALSE]
    /\ UNCHANGED <<act, latest, pose, queue, chunkSize, mustGo, incoming,
                   future, mutated, reply, session, obsQ, predicted,
                   lastProc, sPc, sObs, sQ, gPc, gObs, gQ>>

ClientEnded == ctl \in {"stopped", "crashed"} /\ rcv \in {"done", "dead"}

(* The operator runs robot_client again, against the same server.          *)
Restart ==
    /\ ClientEnded
    /\ session < MaxSessions
    /\ running' = TRUE
    /\ ctl' = "start"
    /\ act' = 0
    /\ latest' = -1
    /\ queue' = <<>>
    /\ chunkSize' = -1
    /\ mustGo' = TRUE
    /\ rcv' = "barrier"
    /\ incoming' = <<>>
    /\ future' = <<>>
    /\ mutated' = FALSE
    /\ UNCHANGED <<pose, rpcVars, serverVars>>

Faults == BreakSend \/ BreakGet \/ ClientDies

(* Nothing more to do: the last client is gone.                            *)
Finished ==
    /\ ClientEnded
    /\ session = MaxSessions
    /\ UNCHANGED vars

-----------------------------------------------------------------------------
ControlStep == (Barrier \/ ControlLoop) /\ UNCHANGED serverVars
ReceiverStep == Receiver /\ UNCHANGED serverVars
SendStep(s) == SendHandler(s) /\ UNCHANGED clientVars
GetStep(g) == GetHandler(g) /\ UNCHANGED clientVars

Init == ClientInit /\ RpcInit /\ ServerInit

Next ==
    \/ Start \/ ControlStep \/ ReceiverStep
    \/ \E s \in SendThreads : SendStep(s)
    \/ \E g \in GetThreads : GetStep(g)
    \/ Faults \/ Restart \/ Finished

Spec == Init /\ [][Next]_vars

(* Every thread keeps running.  The condition variable of the queue does   *)
(* not overlook a waiting GetActions for ever, however often its item is   *)
(* replaced; and an inference ends even if the client goes on sending, so  *)
(* SlowInference does not keep it waiting.                                 *)
Fairness ==
    /\ WF_vars(Start)
    /\ WF_vars(ControlStep)
    /\ WF_vars(ReceiverStep)
    /\ \A s \in SendThreads : WF_vars(SendStep(s))
    /\ \A g \in GetThreads :
          /\ WF_vars(GetStep(g))
          /\ SF_vars(TakeObservation(g) /\ UNCHANGED clientVars)
          /\ SF_vars(PredictActionChunk(g) /\ UNCHANGED clientVars)

FairSpec == Spec /\ Fairness

-----------------------------------------------------------------------------
(* Every variable holds values of the kind the code gives it.              *)
TypeOK == RpcTypeOK /\ ClientTypeOK /\ ServerTypeOK

(* A chunk for this client is being computed, returned or merged, or an    *)
(* observation it will be computed from is queued or about to be.          *)
InFlight(g) == HasWaiter(g) /\ gPc[g] \in {"mark", "prepare", "infer"}
Pending ==
    \/ obsQ[session] # <<>>
    \/ \E s \in SendThreads : HasCaller(s) /\ sPc[s] \in {"put", "full"}
    \/ \E g \in GetThreads : InFlight(g)
    \/ getRpc = "ok" /\ reply # EmptyReply
    \/ rcv \in Merging

(* While the client runs, either its must_go event is set, so that the     *)
(* next observation sent with an empty queue passes the server's filter,   *)
(* or something is on its way that sets it again: control_loop_observation *)
(* never clears the event (449-450) for good.                              *)
NoLostWakeup == running => mustGo \/ Pending

(* The queue _aggregate_action_queues installs holds consecutive timesteps *)
(* although latest_action is read afresh for each action it filters.       *)
QueueConsecutive ==
    \A i \in 1 .. Len(queue) - 1 : queue[i + 1] = queue[i] + 1

(* The robot performs the actions in order: whatever chunks were merged    *)
(* meanwhile, after action n it performs n again or n + 1, none skipped    *)
(* and never an earlier one.                                               *)
ActionsInOrder == [][PerformAction => latest' \in {latest, latest + 1}]_vars

(* An action that was performed is not queued any more: what the filter on *)
(* latest_action in _aggregate_action_queues is for.                       *)
NoReplay ==
    ctl # "perform" => \A i \in 1 .. Len(queue) : queue[i] > latest

(* control_loop_action finds the action that actions_available saw.        *)
NeverPopsEmpty == ctl = "pop" => queue # <<>>

(* The lock protects the deque the receiver walks from the control loop.   *)
ReceiverSurvives == rcv # "dead"

(* A robot that ran out of actions is given new ones, unless its client    *)
(* stops.                                                                  *)
EmptyQueueRefilled ==
    (ctl = "observe" /\ queue = <<>>) ~> (queue # <<>> \/ ~running)

(* A client that connected is given actions when nothing breaks any more,  *)
(* whatever the one before it left behind: handlers that wait in the old   *)
(* queue, mark timesteps in the new set and put observations into the new  *)
(* queue, and last_processed_obs (_reset_server).                          *)
NewClientServed == (ctl = "barrier" /\ faults = MaxFaults) ~> queue # <<>>

(* send_observation returns: the control loop never hangs in a call, even  *)
(* one whose handler blocks in the put behind an orphan's observation.     *)
SendReturns == (ctl = "await") ~> (ctl # "await")

(* The put in _enqueue_observation never blocks.                           *)
PutNeverBlocks == \A s \in SendThreads : sPc[s] # "full"

(* An observation is compared with observations of its own session only.   *)
FiltersOwnSession ==
    [][\A s \in SendThreads :
          FilterObservation(s) => lastProc.sess = sObs[s].sess]_vars
=============================================================================
