------------------------------ MODULE AsyncRpc ------------------------------
(***************************************************************************)
(* The two blocking gRPC calls that join a RobotClient to a PolicyServer   *)
(* (lerobot/async_inference, service AsyncInference of services.proto):    *)
(*                                                                         *)
(*   SendObservations  made by the client's control loop,                  *)
(*   GetActions        made by the client's action receiver.               *)
(*                                                                         *)
(* The client holds one call of each kind at most, so a call is a state    *)
(* and its payload.  Pickled bytes are abstracted to the values the two    *)
(* sides act on: an observation is its timestep, the must_go flag, the     *)
(* cell of joint space the robot was in and the session it was taken in;   *)
(* a chunk of actions is the timestep of its first action.                 *)
(***************************************************************************)
EXTENDS Integers, Sequences

CONSTANTS
    Poses,      \* cells of joint space; one cell is "similar", two are not
    NoObs,      \* Python's None for last_processed_obs and for a handler's obs
    MaxSessions,\* bound: how many clients connect one after the other
    MaxFaults   \* bound: how many calls are broken, and inferences that raise

ASSUME RpcAssumption ==
    /\ MaxSessions \in Nat \ {0}
    /\ MaxFaults \in Nat
    /\ NoObs \notin [ts : Nat, must : BOOLEAN, pose : Poses, sess : Nat]

VARIABLES
    sendRpc,    \* state of the SendObservations call
    obsOut,     \* the observation that call carries
    getRpc,     \* state of the GetActions call
    reply,      \* what a finished GetActions returned
    session,    \* how many times Ready was served: whose server it is
    faults      \* faults so far, counted against MaxFaults

rpcVars == <<sendRpc, obsOut, getRpc, reply, session, faults>>

Obs == [ts : Nat, must : BOOLEAN, pose : Poses, sess : Nat]

(* "sent" is on the wire or queued for a worker of the server's pool,      *)
(* "served" is in a handler, "ok" and "err" are what the caller finds.     *)
CallStates == {"idle", "sent", "served", "ok", "err"}

(* services_pb2.Empty(): no bytes, where a chunk was asked for.            *)
EmptyReply == -1

RpcTypeOK ==
    /\ sendRpc \in CallStates
    /\ obsOut \in Obs \union {NoObs}
    /\ getRpc \in CallStates
    /\ reply \in Nat \union {EmptyReply}
    /\ session \in Nat
    /\ faults \in Nat

RpcInit ==
    /\ sendRpc = "idle"
    /\ obsOut = NoObs
    /\ getRpc = "idle"
    /\ reply = EmptyReply
    /\ session = 0
    /\ faults = 0
=============================================================================
