---------------------------- MODULE PolicyServer -----------------------------
(***************************************************************************)
(* PolicyServer of lerobot/async_inference/policy_server.py: the handlers  *)
(* of SendObservations and GetActions, each running in a worker thread of  *)
(* the gRPC server's pool, and the state they share without a lock.        *)
(*                                                                         *)
(* A handler is not interrupted when its call breaks: it runs to its end   *)
(* as an orphan.  sLive and gLive say which handlers still have a caller.  *)
(*                                                                         *)
(* Ready replaces the observation queue by a new one, and a handler that   *)
(* blocks in get or put stays with the queue it blocked on, so there is a  *)
(* queue per session.                                                      *)
(***************************************************************************)
EXTENDS AsyncRpc

CONSTANTS
    SendThreads,    \* workers for SendObservations
    GetThreads,     \* workers for GetActions
    SlowInference,  \* no inference ends while a SendObservations is answered
    FastPut,        \* no get times out between an enqueueing's pop and put
    FastGet         \* no Ready comes between a GetActions' first two lines

ASSUME ServerAssumption ==
    /\ SlowInference \in BOOLEAN
    /\ FastPut \in BOOLEAN
    /\ FastGet \in BOOLEAN

VARIABLES
    obsQ,       \* observation_queue, one for each session
    predicted,  \* _predicted_timesteps
    lastProc,   \* last_processed_obs: what others are compared with
    sPc, sObs, sLive, sQ,   \* SendObservations handlers
    gPc, gObs, gLive, gQ    \* GetActions handlers

sendVars == <<sPc, sObs, sLive, sQ>>
getVars == <<gPc, gObs, gLive, gQ>>
serverVars == <<obsQ, predicted, lastProc, sendVars, getVars>>

Sessions == 0 .. MaxSessions
QueueSize == 1      \* Queue(maxsize=1)

ServerTypeOK ==
    /\ obsQ \in [Sessions -> Seq(Obs)]
    /\ predicted \in SUBSET Nat
    /\ lastProc \in [pose : Poses, sess : Nat] \union {NoObs}
    /\ sPc \in [SendThreads -> {"idle", "recv", "check", "room", "put", "full"}]
    /\ sObs \in [SendThreads -> Obs \union {NoObs}]
    /\ sLive \in [SendThreads -> BOOLEAN]
    /\ sQ \in [SendThreads -> Sessions]
    /\ gPc \in [GetThreads -> {"idle", "begin", "wait", "mark", "prepare", "infer"}]
    /\ gObs \in [GetThreads -> Obs \union {NoObs}]
    /\ gLive \in [GetThreads -> BOOLEAN]
    /\ gQ \in [GetThreads -> Sessions]

(* __init__                                                                *)
ServerInit ==
    /\ obsQ = [k \in Sessions |-> <<>>]
    /\ predicted = {}
    /\ lastProc = NoObs
    /\ sPc = [s \in SendThreads |-> "idle"]
    /\ sObs = [s \in SendThreads |-> NoObs]
    /\ sLive = [s \in SendThreads |-> FALSE]
    /\ sQ = [s \in SendThreads |-> 0]
    /\ gPc = [g \in GetThreads |-> "idle"]
    /\ gObs = [g \in GetThreads |-> NoObs]
    /\ gLive = [g \in GetThreads |-> FALSE]
    /\ gQ = [g \in GetThreads |-> 0]

(* Ready, with _reset_server: last_processed_obs is not reset.             *)
Ready ==
    /\ session < MaxSessions
    /\ FastGet => \A g \in GetThreads : gPc[g] # "begin"
    /\ session' = session + 1
    /\ predicted' = {}
    /\ UNCHANGED <<obsQ, lastProc, sendVars, getVars>>

-----------------------------------------------------------------------------
(* SendObservations.                                                       *)

HasCaller(s) == sLive[s] /\ sendRpc = "served"

(* A handler ends; its caller, if it has one, finds this result.           *)
EndSend(s, result) ==
    /\ sPc' = [sPc EXCEPT ![s] = "idle"]
    /\ sObs' = [sObs EXCEPT ![s] = NoObs]
    /\ sLive' = [sLive EXCEPT ![s] = FALSE]
    /\ sendRpc' = IF HasCaller(s) THEN result ELSE sendRpc
    /\ UNCHANGED <<obsOut, getRpc, reply, session, faults>>

(* The pool has a worker for the call.                                     *)
BeginSend(s) ==
    /\ sendRpc = "sent"
    /\ sPc[s] = "idle"
    /\ sendRpc' = "served"
    /\ sPc' = [sPc EXCEPT ![s] = "recv"]
    /\ sObs' = [sObs EXCEPT ![s] = obsOut]
    /\ sLive' = [sLive EXCEPT ![s] = TRUE]
    /\ UNCHANGED <<obsQ, predicted, lastProc, sQ, getVars,
                   obsOut, getRpc, reply, session, faults>>

(* receive_bytes_in_chunks returned the whole observation.                 *)
ReceiveObservation(s) ==
    /\ sPc[s] = "recv"
    /\ sPc' = [sPc EXCEPT ![s] = "check"]
    /\ UNCHANGED <<obsQ, predicted, lastProc, sObs, sLive, sQ, getVars, rpcVars>>

(* A call that broke while its bytes were coming raises here.              *)
ReceiveFails(s) ==
    /\ sPc[s] = "recv"
    /\ ~sLive[s]
    /\ EndSend(s, "err")
    /\ UNCHANGED <<obsQ, predicted, lastProc, sQ, getVars>>

(* _obs_sanity_checks: similar is at less than atol in joint space.        *)
ObsSanityChecks(o) == o.ts \notin predicted /\ o.pose # lastProc.pose

(* Mutant: must_go is not looked at.                                       *)
AcceptedUnforced(o) == lastProc # NoObs => ObsSanityChecks(o)

(* The chain of "or" in _enqueue_observation.                              *)
Accepted(o) == (~o.must /\ lastProc # NoObs) => ObsSanityChecks(o)

(* _enqueue_observation returns False.                                     *)
FilterObservation(s) ==
    /\ sPc[s] = "check"
    /\ ~Accepted(sObs[s])
    /\ EndSend(s, "ok")
    /\ UNCHANGED <<obsQ, predicted, lastProc, sQ, getVars>>

(* Mutant: nobody asks whether the queue is full.                          *)
AcceptWithoutRoom(s) ==
    /\ sPc[s] = "check"
    /\ Accepted(sObs[s])
    /\ sPc' = [sPc EXCEPT ![s] = "put"]
    /\ UNCHANGED <<obsQ, predicted, lastProc, sObs, sLive, sQ, getVars, rpcVars>>

(* It is to be queued: is the queue full?                                  *)
AcceptObservation(s) ==
    /\ sPc[s] = "check"
    /\ Accepted(sObs[s])
    /\ sPc' = [sPc EXCEPT ![s] = IF Len(obsQ[session]) >= QueueSize
                                 THEN "room" ELSE "put"]
    /\ UNCHANGED <<obsQ, predicted, lastProc, sObs, sLive, sQ, getVars, rpcVars>>

(* get_nowait: out with the oldest.                                        *)
MakeRoom(s) ==
    /\ sPc[s] = "room"
    /\ obsQ[session] # <<>>
    /\ obsQ' = [obsQ EXCEPT ![session] = Tail(@)]
    /\ sPc' = [sPc EXCEPT ![s] = "put"]
    /\ UNCHANGED <<predicted, lastProc, sObs, sLive, sQ, getVars, rpcVars>>

(* Mutant: get in place of get_nowait, which waits for an observation.     *)
MakeRoomWaits(s) == FALSE /\ EndSend(s, "err")

(* A GetActions took it since: queue.Empty leaves the handler, and the     *)
(* observation that came with the call is dropped.                         *)
MakeRoomFails(s) ==
    /\ sPc[s] = "room"
    /\ obsQ[session] = <<>>
    /\ EndSend(s, "err")
    /\ UNCHANGED <<obsQ, predicted, lastProc, sQ, getVars>>

(* put, which blocks on the queue that is the current one now.             *)
PutObservation(s) ==
    /\ sPc[s] = "put"
    /\ Len(obsQ[session]) < QueueSize
    /\ obsQ' = [obsQ EXCEPT ![session] = Append(@, sObs[s])]
    /\ EndSend(s, "ok")
    /\ UNCHANGED <<predicted, lastProc, sQ, getVars>>

PutBlocks(s) ==
    /\ sPc[s] = "put"
    /\ Len(obsQ[session]) >= QueueSize
    /\ sQ' = [sQ EXCEPT ![s] = session]
    /\ sPc' = [sPc EXCEPT ![s] = "full"]
    /\ UNCHANGED <<obsQ, predicted, lastProc, sObs, sLive, getVars, rpcVars>>

PutResumes(s) ==
    /\ sPc[s] = "full"
    /\ Len(obsQ[sQ[s]]) < QueueSize
    /\ obsQ' = [obsQ EXCEPT ![sQ[s]] = Append(@, sObs[s])]
    /\ EndSend(s, "ok")
    /\ UNCHANGED <<predicted, lastProc, sQ, getVars>>

SendHandler(s) ==
    \/ BeginSend(s) \/ ReceiveObservation(s) \/ ReceiveFails(s)
    \/ FilterObservation(s) \/ AcceptObservation(s)
    \/ MakeRoom(s) \/ MakeRoomFails(s)
    \/ PutObservation(s) \/ PutBlocks(s) \/ PutResumes(s)

-----------------------------------------------------------------------------
(* GetActions.                                                             *)

(* The client process of an earlier session waits for no answer.           *)
HasWaiter(g) == gLive[g] /\ gQ[g] = session /\ getRpc = "served"

EndGet(g, result) ==
    /\ gPc' = [gPc EXCEPT ![g] = "idle"]
    /\ gObs' = [gObs EXCEPT ![g] = NoObs]
    /\ gLive' = [gLive EXCEPT ![g] = FALSE]
    /\ IF HasWaiter(g) THEN getRpc' = "ok" /\ reply' = result
                       ELSE UNCHANGED <<getRpc, reply>>
    /\ UNCHANGED <<sendRpc, obsOut, session>>

BeginGet(g) ==
    /\ getRpc = "sent"
    /\ gPc[g] = "idle"
    /\ getRpc' = "served"
    /\ gPc' = [gPc EXCEPT ![g] = "begin"]
    /\ gLive' = [gLive EXCEPT ![g] = TRUE]
    /\ gQ' = [gQ EXCEPT ![g] = session]
    /\ UNCHANGED <<obsQ, predicted, lastProc, gObs, sendVars,
                   sendRpc, obsOut, reply, session, faults>>

(* self.observation_queue is read: it is the current session's, though the *)
(* caller may be of the one before.                                        *)
ReadQueue(g) ==
    /\ gPc[g] = "begin"
    /\ gPc' = [gPc EXCEPT ![g] = "wait"]
    /\ gQ' = [gQ EXCEPT ![g] = session]
    /\ gLive' = [gLive EXCEPT ![g] = gLive[g] /\ gQ[g] = session]
    /\ UNCHANGED <<obsQ, predicted, lastProc, gObs, sendVars, rpcVars>>

(* Mutant: self.observation_queue is read again when something comes.      *)
TakeObservationCurrent(g) ==
    /\ gPc[g] = "wait"
    /\ obsQ[session] # <<>>
    /\ gObs' = [gObs EXCEPT ![g] = Head(obsQ[session])]
    /\ obsQ' = [obsQ EXCEPT ![session] = Tail(@)]
    /\ gPc' = [gPc EXCEPT ![g] = "mark"]
    /\ UNCHANGED <<predicted, lastProc, gLive, gQ, sendVars, rpcVars>>

(* observation_queue.get(timeout=obs_queue_timeout)                        *)
TakeObservation(g) ==
    /\ gPc[g] = "wait"
    /\ obsQ[gQ[g]] # <<>>
    /\ gObs' = [gObs EXCEPT ![g] = Head(obsQ[gQ[g]])]
    /\ obsQ' = [obsQ EXCEPT ![gQ[g]] = Tail(@)]
    /\ gPc' = [gPc EXCEPT ![g] = "mark"]
    /\ UNCHANGED <<predicted, lastProc, gLive, gQ, sendVars, rpcVars>>

(* except Empty: no observation in obs_queue_timeout.                      *)
QueueTimeout(g) ==
    /\ gPc[g] = "wait"
    /\ obsQ[gQ[g]] = <<>>
    /\ FastPut /\ gQ[g] = session => \A s \in SendThreads : sPc[s] # "put"
    /\ EndGet(g, EmptyReply)
    /\ UNCHANGED <<obsQ, predicted, lastProc, gQ, sendVars, faults>>

(* Under _predicted_timesteps_lock: the set that is current now.           *)
MarkPredicted(g) ==
    /\ gPc[g] = "mark"
    /\ predicted' = predicted \union {gObs[g].ts}
    /\ gPc' = [gPc EXCEPT ![g] = "prepare"]
    /\ UNCHANGED <<obsQ, lastProc, gObs, gLive, gQ, sendVars, rpcVars>>

(* _predict_action_chunk up to the preprocessor.                           *)
PrepareObservation(g) ==
    /\ gPc[g] = "prepare"
    /\ lastProc' = [pose |-> gObs[g].pose, sess |-> gObs[g].sess]
    /\ gPc' = [gPc EXCEPT ![g] = "infer"]
    /\ UNCHANGED <<obsQ, predicted, gObs, gLive, gQ, sendVars, rpcVars>>

(* The rest of it, and the answer.                                         *)
PredictActionChunk(g) ==
    /\ gPc[g] = "infer"
    /\ SlowInference => sendRpc = "idle"
    /\ EndGet(g, gObs[g].ts)
    /\ UNCHANGED <<obsQ, predicted, lastProc, gQ, sendVars, faults>>

(* except Exception: whatever the preprocessor or the policy raised.       *)
PredictFails(g) ==
    /\ gPc[g] \in {"prepare", "infer"}
    /\ faults < MaxFaults
    /\ faults' = faults + 1
    /\ EndGet(g, EmptyReply)
    /\ UNCHANGED <<obsQ, predicted, lastProc, gQ, sendVars>>

GetHandler(g) ==
    \/ BeginGet(g) \/ ReadQueue(g) \/ TakeObservation(g) \/ QueueTimeout(g) \/ MarkPredicted(g)
    \/ PrepareObservation(g) \/ PredictActionChunk(g) \/ PredictFails(g)
=============================================================================
