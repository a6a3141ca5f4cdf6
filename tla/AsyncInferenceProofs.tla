------------------------ MODULE AsyncInferenceProofs -------------------------
(***************************************************************************)
(* What holds of AsyncInference for every value of its constants.  Four    *)
(* inductive invariants, each strengthening one property:                  *)
(*                                                                         *)
(*   TypeInv     TypeOK, with the observation queues' bound and where a    *)
(*               handler holds an observation;                             *)
(*   WakeInv     NoLostWakeup and PutNeverBlocks, when nothing breaks;     *)
(*   HandlerInv  which handler answers a call, for the next;               *)
(*   StreamInv   QueueConsecutive and ActionsInOrder, for the observations *)
(*               of one stream.                                            *)
(***************************************************************************)
EXTENDS AsyncInference, SequenceTheorems, TLAPS

(* What is popped from a queue, and the queue left, are of the queue's     *)
(* type.                                                                   *)
LEMMA HeadTailType ==
    ASSUME NEW S, NEW q \in Seq(S), q # <<>>
    PROVE  Head(q) \in S /\ Tail(q) \in Seq(S)
BY HeadTailProperties

(* Putting an element of its type on a queue keeps the queue's type.       *)
LEMMA AppendType ==
    ASSUME NEW S, NEW q \in Seq(S), NEW e \in S
    PROVE  Append(q, e) \in Seq(S)
BY AppendProperties

(* A queue is empty just when its length is below one.                     *)
LEMMA NonEmptyLen ==
    ASSUME NEW S, NEW q \in Seq(S)
    PROVE  /\ Len(q) \in Nat
           /\ Len(q) >= 1 <=> q # <<>>
           /\ Len(q) < 1 <=> q = <<>>
BY EmptySeq, LenProperties

USE DEF Sessions, CallStates, EmptyReply, CtlStates, RcvStates, Merging,
        clientVars, ctlVars, rcvVars, rpcVars,
        serverVars, sendVars, getVars

(* What get_nowait, get and put make of the observation queues.            *)
Slots == {q \in [Sessions -> Seq(Obs)] : \A k \in Sessions : Len(q[k]) <= QueueSize}

(* get and get_nowait on an observation queue (policy_server.py 223, 303): *)
(* with room for one, the queue is empty afterwards, and no queue holds    *)
(* too many.                                                               *)
LEMMA SlotTaken ==
    ASSUME NEW q \in Slots, NEW j \in Sessions, q[j] # <<>>
    PROVE  /\ [q EXCEPT ![j] = Tail(@)] \in Slots
           /\ Tail(q[j]) = <<>>
<1>1. q[j] \in Seq(Obs) /\ Len(q[j]) <= 1
    BY DEF Slots, QueueSize
<1>2. Len(q[j]) = 1
  <2>1. Len(q[j]) \in Nat /\ (Len(q[j]) >= 1 <=> q[j] # <<>>)
    BY <1>1, NonEmptyLen, Zenon
  <2>2. Len(q[j]) >= 1
    BY <2>1, Zenon
  <2>3. \A n \in Nat : n <= 1 /\ n >= 1 => n = 1
    OBVIOUS
  <2>. QED
    BY <1>1, <2>1, <2>2, <2>3, Zenon
<1>3. Tail(q[j]) \in Seq(Obs) /\ Len(Tail(q[j])) = 0
    BY <1>1, <1>2, HeadTailProperties
<1>4. Tail(q[j]) = <<>>
  <2>1. Len(Tail(q[j])) < 1 <=> Tail(q[j]) = <<>>
    BY <1>3, NonEmptyLen, Zenon
  <2>2. 0 < 1
    OBVIOUS
  <2>. QED
    BY <1>3, <2>1, <2>2, Zenon
<1>5. [q EXCEPT ![j] = Tail(@)] \in [Sessions -> Seq(Obs)]
    BY <1>3 DEF Slots
<1>6. ASSUME NEW k \in Sessions
      PROVE  Len([q EXCEPT ![j] = Tail(@)][k]) <= QueueSize
    BY <1>3 DEF Slots, QueueSize
<1>. QED
    BY <1>4, <1>5, <1>6 DEF Slots

(* put on an observation queue with room (307) leaves no queue with more   *)
(* than maxsize observations.                                              *)
LEMMA SlotFilled ==
    ASSUME NEW q \in Slots, NEW j \in Sessions, Len(q[j]) < QueueSize, NEW o \in Obs
    PROVE  [q EXCEPT ![j] = Append(@, o)] \in Slots
<1>1. q[j] \in Seq(Obs)
    BY DEF Slots
<1>2. Len(q[j]) \in Nat
    BY <1>1, LenProperties
<1>3. Append(q[j], o) \in Seq(Obs) /\ Len(Append(q[j], o)) = Len(q[j]) + 1
    BY <1>1, AppendProperties
<1>4. ASSUME NEW k \in Sessions
      PROVE  Len([q EXCEPT ![j] = Append(@, o)][k]) <= QueueSize
    BY <1>2, <1>3 DEF Slots, QueueSize
<1>. QED
    BY <1>3, <1>4 DEF Slots

(* The types, and what else the handlers rely on.                         *)
TypeInv ==
    /\ TypeOK
    /\ obsQ \in Slots
    /\ session \in Sessions
    /\ sendRpc # "idle" => ctl = "await"
    /\ ctl = "await" => obsOut \in Obs
    /\ \A s \in SendThreads : sPc[s] # "idle" => sObs[s] \in Obs
    /\ \A g \in GetThreads :
          gPc[g] \in {"mark", "prepare", "infer"} => gObs[g] \in Obs

(* A chunk (_time_action_chunk) is a sequence of timesteps.                *)
LEMMA ChunkType == \A t \in Nat : ChunkFrom(t) \in Seq(Nat)
<1> SUFFICES ASSUME NEW t \in Nat PROVE ChunkFrom(t) \in Seq(Nat)
    OBVIOUS
<1>1. ActionsPerChunk \in Nat
    BY ClientAssumption
<1>2. ChunkFrom(t) \in [1 .. ActionsPerChunk -> Nat]
    BY <1>1 DEF ChunkFrom
<1>. QED
    BY <1>1, <1>2 DEF ChunkFrom

(* __init__ of client and server establishes the strengthened type         *)
(* invariant.                                                              *)
LEMMA TypeInit == Init => TypeInv
<1> SUFFICES ASSUME Init PROVE TypeInv
    OBVIOUS
<1>1. obsQ \in Slots
    BY EmptySeq DEF Slots, QueueSize, Init, ServerInit
<1>2. RpcTypeOK
    BY DEF Init, RpcInit, RpcTypeOK
<1>3. ClientTypeOK
    BY EmptySeq DEF Init, ClientInit, ClientTypeOK
<1>4. ServerTypeOK
    BY <1>1, RpcAssumption DEF Init, ServerInit, ServerTypeOK, Slots
<1>. QED
    BY <1>1, <1>2, <1>3, <1>4, RpcAssumption
    DEF Init, ClientInit, RpcInit, ServerInit, TypeInv, TypeOK

(* No step of the control loop breaks it.                                  *)
LEMMA TypeControl == TypeInv /\ ControlStep => TypeInv'
<1> SUFFICES ASSUME TypeInv, ControlStep PROVE TypeInv'
    OBVIOUS
<1> USE DEF TypeInv, TypeOK, RpcTypeOK, ClientTypeOK, ServerTypeOK
<1>1. CASE Barrier
    BY <1>1 DEF Barrier, ControlStep
<1>2. CASE ActionsAvailable
    BY <1>2 DEF ActionsAvailable, ControlStep
<1>3. CASE PopAction
    BY <1>3, HeadTailType DEF PopAction, ControlStep
<1>4. CASE PopFails
  <2>1. running' \in BOOLEAN
    BY <1>4, Zenon DEF PopFails
  <2>. QED
    BY <1>4, <2>1 DEF PopFails, ControlStep
<1>5. CASE PerformAction
    BY <1>5 DEF PerformAction, ControlStep
<1>6. CASE ReadyToSendObservation
    BY <1>6 DEF ReadyToSendObservation, ControlStep
<1>7. CASE SendObservation
  <2>1. (mustGo /\ queue = <<>>) \in BOOLEAN
    BY Zenon
  <2>2. obsOut' \in Obs
    BY <1>7, <2>1 DEF SendObservation, Obs
  <2>. QED
    BY <1>7, <2>2 DEF SendObservation, ControlStep
<1>8. CASE CaptureFails
    BY <1>8 DEF CaptureFails, ControlStep
<1>9. CASE ObservationSent
    BY <1>9 DEF ObservationSent, ControlStep
<1>10. CASE StopClient
  <2>1. running' \in BOOLEAN
    BY <1>10, Zenon DEF StopClient
  <2>. QED
    BY <1>10, <2>1 DEF StopClient, ControlStep
<1>11. CASE PerformFails
  <2>1. running' \in BOOLEAN
    BY <1>11, Zenon DEF PerformFails
  <2>. QED
    BY <1>11, <2>1 DEF PerformFails, ControlStep
<1>. QED
    BY <1>1, <1>2, <1>3, <1>4, <1>5, <1>6, <1>7, <1>8, <1>9, <1>10, <1>11
    DEF ControlStep, ControlLoop

(* No step of the action receiver breaks it.                               *)
LEMMA TypeReceiver == TypeInv /\ ReceiverStep => TypeInv'
<1> SUFFICES ASSUME TypeInv, ReceiverStep PROVE TypeInv'
    OBVIOUS
<1> USE DEF TypeInv, TypeOK, RpcTypeOK, ClientTypeOK, ServerTypeOK
<1>1. CASE RequestActions
    BY <1>1 DEF RequestActions, ReceiverStep
<1>2. CASE ReceiverExits
    BY <1>2 DEF ReceiverExits, ReceiverStep
<1>3. CASE ReceiveNothing
    BY <1>3 DEF ReceiveNothing, ReceiverStep
<1>4. CASE ReceiveChunk
    BY <1>4, ChunkType, EmptySeq, ClientAssumption DEF ReceiveChunk, ReceiverStep
<1>5. CASE BeginScan
  <2>1. mutated' \in BOOLEAN
    BY <1>5, Zenon DEF BeginScan
  <2>2. rcv' \in RcvStates
    BY <1>5 DEF BeginScan
  <2>. QED
    BY <1>5, <2>1, <2>2 DEF BeginScan, ReceiverStep
<1>6. CASE EndScan
    BY <1>6 DEF EndScan, ReceiverStep
<1>7. CASE FilterAction
    BY <1>7, HeadTailType, AppendType DEF FilterAction, ReceiverStep
<1>8. CASE SwapQueue
    BY <1>8 DEF SwapQueue, ReceiverStep
<1>9. CASE SetMustGo
    BY <1>9 DEF SetMustGo, ReceiverStep
<1>. QED
    BY <1>1, <1>2, <1>3, <1>4, <1>5, <1>6, <1>7, <1>8, <1>9 DEF ReceiverStep, Receiver

(* No step of a SendObservations handler breaks it.                        *)
LEMMA TypeSend ==
    ASSUME TypeInv, NEW s \in SendThreads, SendStep(s)
    PROVE  TypeInv'
<1> USE DEF TypeInv, TypeOK, RpcTypeOK, ClientTypeOK, ServerTypeOK
<1>1. CASE BeginSend(s)
    BY <1>1 DEF BeginSend, SendStep
<1>2. CASE ReceiveObservation(s)
    BY <1>2 DEF ReceiveObservation, SendStep
<1>3. CASE ReceiveFails(s)
    BY <1>3 DEF ReceiveFails, SendStep, EndSend, HasCaller
<1>4. CASE FilterObservation(s)
    BY <1>4 DEF FilterObservation, SendStep, EndSend, HasCaller
<1>5. CASE AcceptObservation(s)
    BY <1>5 DEF AcceptObservation, SendStep
<1>6. CASE MakeRoom(s)
  <2>1. obsQ' \in Slots
    BY <1>6, SlotTaken DEF MakeRoom
  <2>2. obsQ' \in [Sessions -> Seq(Obs)]
    BY <2>1 DEF Slots
  <2>. QED
    BY <1>6, <2>1, <2>2 DEF MakeRoom, SendStep
<1>7. CASE MakeRoomFails(s)
    BY <1>7 DEF MakeRoomFails, SendStep, EndSend, HasCaller
<1>8. CASE PutObservation(s)
  <2>1. obsQ' \in Slots
    BY <1>8, SlotFilled DEF PutObservation
  <2>2. obsQ' \in [Sessions -> Seq(Obs)]
    BY <2>1 DEF Slots
  <2>. QED
    BY <1>8, <2>1, <2>2 DEF PutObservation, SendStep, EndSend, HasCaller
<1>9. CASE PutBlocks(s)
    BY <1>9 DEF PutBlocks, SendStep
<1>10. CASE PutResumes(s)
  <2>1. obsQ' \in Slots
    BY <1>10, SlotFilled DEF PutResumes
  <2>2. obsQ' \in [Sessions -> Seq(Obs)]
    BY <2>1 DEF Slots
  <2>. QED
    BY <1>10, <2>1, <2>2 DEF PutResumes, SendStep, EndSend, HasCaller
<1>. QED
    BY <1>1, <1>2, <1>3, <1>4, <1>5, <1>6, <1>7, <1>8, <1>9, <1>10 DEF SendStep, SendHandler

(* No step of a GetActions handler breaks it.                              *)
LEMMA TypeGet ==
    ASSUME TypeInv, NEW g \in GetThreads, GetStep(g)
    PROVE  TypeInv'
<1> USE DEF TypeInv, TypeOK, RpcTypeOK, ClientTypeOK, ServerTypeOK
<1>1. CASE BeginGet(g)
    BY <1>1 DEF BeginGet, GetStep
<1>2. CASE TakeObservation(g)
  <2>1. obsQ' \in Slots
    BY <1>2, SlotTaken DEF TakeObservation
  <2>2. obsQ' \in [Sessions -> Seq(Obs)]
    BY <2>1 DEF Slots
  <2>3. Head(obsQ[gQ[g]]) \in Obs
    BY <1>2, HeadTailType DEF TakeObservation
  <2>. QED
    BY <1>2, <2>1, <2>2, <2>3 DEF TakeObservation, GetStep
<1>3. CASE QueueTimeout(g)
    BY <1>3 DEF QueueTimeout, GetStep, EndGet
<1>4. CASE MarkPredicted(g)
  <2>1. predicted' \in SUBSET Nat
    BY <1>4 DEF MarkPredicted, Obs
  <2>. QED
    BY <1>4, <2>1 DEF MarkPredicted, GetStep
<1>5. CASE PrepareObservation(g)
  <2>1. lastProc' \in [pose : Poses, sess : Nat]
    BY <1>5 DEF PrepareObservation, Obs
  <2>. QED
    BY <1>5, <2>1 DEF PrepareObservation, GetStep
<1>6. CASE PredictActionChunk(g)
  <2>1. gObs[g].ts \in Nat
    BY <1>6 DEF PredictActionChunk, Obs
  <2>2. EndGet(g, gObs[g].ts)
    BY <1>6 DEF PredictActionChunk
  <2>3. RpcTypeOK'
    BY <1>6, <2>1, <2>2 DEF PredictActionChunk, EndGet
  <2>. QED
    BY <1>6, <2>2, <2>3 DEF PredictActionChunk, GetStep, EndGet
<1>7. CASE PredictFails(g)
    BY <1>7 DEF PredictFails, GetStep, EndGet
<1>8. CASE ReadQueue(g)
  <2>1. gLive' \in [GetThreads -> BOOLEAN]
    BY <1>8, Zenon DEF ReadQueue
  <2>. QED
    BY <1>8, <2>1 DEF ReadQueue, GetStep
<1>. QED
    BY <1>1, <1>2, <1>3, <1>4, <1>5, <1>6, <1>7, <1>8 DEF GetStep, GetHandler

(* Neither the handshake, nor a fault, nor a restart breaks it.            *)
LEMMA TypeOther == TypeInv /\ (Start \/ Faults \/ Restart \/ UNCHANGED vars) => TypeInv'
<1> SUFFICES ASSUME TypeInv, (Start \/ Faults \/ Restart \/ UNCHANGED vars) PROVE TypeInv'
    OBVIOUS
<1> USE DEF TypeInv, TypeOK, RpcTypeOK, ClientTypeOK, ServerTypeOK
<1>1. CASE ClientReady
    BY <1>1, RpcAssumption DEF ClientReady, Ready
<1>2. CASE SendPolicyInstructions
    BY <1>2 DEF SendPolicyInstructions
<1>3. CASE StartFails
  <2>1. running' \in BOOLEAN
    BY <1>3, Zenon DEF StartFails
  <2>. QED
    BY <1>3, <2>1 DEF StartFails
<1>4. CASE BreakSend
    BY <1>4 DEF BreakSend
<1>5. CASE BreakGet
    BY <1>5 DEF BreakGet
<1>6. CASE ClientDies
  <2>1. running' \in BOOLEAN
    BY <1>6, Zenon DEF ClientDies
  <2>. QED
    BY <1>6, <2>1 DEF ClientDies
<1>7. CASE Restart
  <2>1. running' \in BOOLEAN /\ mustGo' \in BOOLEAN /\ mutated' \in BOOLEAN
    BY <1>7, Zenon DEF Restart
  <2>2. ClientTypeOK'
    BY <1>7, <2>1, EmptySeq DEF Restart
  <2>3. RpcTypeOK' /\ ServerTypeOK'
    BY <1>7 DEF Restart
  <2>4. sendRpc = "idle"
    BY <1>7 DEF Restart, ClientEnded
  <2>. QED
    BY <1>7, <2>2, <2>3, <2>4 DEF Restart
<1>8. CASE UNCHANGED vars
    BY <1>8 DEF vars
<1>. QED
    BY <1>1, <1>2, <1>3, <1>4, <1>5, <1>6, <1>7, <1>8 DEF Start, Faults

(* The strengthened type invariant is inductive.                           *)
LEMMA TypeStep == TypeInv /\ [Next]_vars => TypeInv'
<1> SUFFICES ASSUME TypeInv, [Next]_vars PROVE TypeInv'
    OBVIOUS
<1>1. CASE Start \/ Faults \/ Restart \/ UNCHANGED vars
    BY <1>1, TypeOther
<1>2. CASE ControlStep
    BY <1>2, TypeControl
<1>3. CASE ReceiverStep
    BY <1>3, TypeReceiver
<1>4. CASE \E s \in SendThreads : SendStep(s)
    BY <1>4, TypeSend
<1>5. CASE \E g \in GetThreads : GetStep(g)
    BY <1>5, TypeGet
<1>6. CASE Finished
    BY <1>6, TypeOther DEF Finished
<1>. QED
    BY <1>1, <1>2, <1>3, <1>4, <1>5, <1>6 DEF Next

(* Type correctness, for any number of workers, sessions and faults.       *)
THEOREM TypeCorrect == Spec => []TypeOK
<1>1. Spec => []TypeInv
    BY TypeInit, TypeStep, PTL DEF Spec
<1>2. TypeInv => TypeOK
    BY DEF TypeInv
<1>. QED
    BY <1>1, <1>2, PTL

-----------------------------------------------------------------------------
(* Why no wake-up is lost when no call breaks and no inference raises.     *)

Connected == running /\ ctl # "start"
Busy(s) == sPc[s] # "idle"
Serves(g) == gPc[g] # "idle" /\ gQ[g] = session

(* What cannot go away before a chunk for this client is returned.         *)
Secured ==
    \/ obsQ[session] # <<>>
    \/ \E g \in GetThreads : InFlight(g)

(* A handler of SendObservations is the only one and serves the client's   *)
(* call; so is a GetActions handler of a connected client's session.  An   *)
(* observation is only dropped, or replaced, for a chunk that is secured,  *)
(* and so is the one the client is about to clear its event for.           *)
ClientPlaces ==
    /\ running <=> ctl \notin {"stopped", "crashed"}
    /\ running => rcv \notin {"done", "dead"}
    /\ ctl \in {"start", "instruct", "barrier"} => rcv = "barrier" /\ mustGo
    /\ rcv # "walk"
    /\ rcv # "await" => getRpc = "idle"
    /\ getRpc # "err"

SendPlaces ==
    /\ \A s \in SendThreads : Busy(s) =>
          /\ sLive[s]
          /\ sendRpc = "served"
          /\ sObs[s] = obsOut
          /\ sPc[s] # "full"
          /\ sPc[s] = "put" => obsQ[session] = <<>>
    /\ \A s, t \in SendThreads : Busy(s) /\ Busy(t) => s = t

GetPlaces ==
    /\ \A g \in GetThreads : gQ[g] <= session
    /\ \A g \in GetThreads : gPc[g] = "begin" => gQ[g] = session
    /\ Connected =>
          /\ \A g \in GetThreads : Serves(g) => gLive[g] /\ getRpc = "served"
          /\ \A g, h \in GetThreads : Serves(g) /\ Serves(h) => g = h

DropsAreSafe ==
    /\ \A s \in SendThreads : sPc[s] = "room" => Secured
    /\ sendRpc \in {"ok", "err"} /\ obsOut.must => Secured

WakeInv ==
    /\ ClientPlaces
    /\ SendPlaces
    /\ GetPlaces
    /\ DropsAreSafe
    /\ NoLostWakeup

(* No fault, and the timings the argument needs.                           *)
Calm == MaxFaults = 0 /\ ScanIsAtomic /\ SlowInference /\ FastGet

(* The invariant behind NoLostWakeup holds initially: must_go is set in    *)
(* __init__.                                                               *)
LEMMA WakeInit == Init => WakeInv
BY DEF Init, ClientInit, RpcInit, ServerInit, WakeInv, ClientPlaces, SendPlaces,
       GetPlaces, DropsAreSafe, NoLostWakeup, Connected, Busy, Serves

(* The control loop keeps it: it clears must_go only after a must-go       *)
(* observation was queued, or while a chunk is on its way.                 *)
LEMMA WakeControl ==
    ASSUME TypeInv, TypeInv', WakeInv, Calm, ControlStep
    PROVE  WakeInv'
<1> USE DEF WakeInv, ClientPlaces, SendPlaces, GetPlaces, DropsAreSafe,
            NoLostWakeup, Connected, Busy, Serves, Secured, Pending, InFlight,
            HasWaiter, HasCaller
<1> USE DEF TypeInv, TypeOK, RpcTypeOK, ClientTypeOK, ServerTypeOK
<1>1. CASE Barrier
    BY <1>1 DEF Barrier, Calm, ControlStep
<1>2. CASE ActionsAvailable
    BY <1>2 DEF ActionsAvailable, Calm, ControlStep
<1>3. CASE PopAction
    BY <1>3 DEF PopAction, Calm, ControlStep
<1>4. CASE PopFails
    BY <1>4 DEF PopFails, Calm, ControlStep
<1>5. CASE PerformAction
    BY <1>5 DEF PerformAction, Calm, ControlStep
<1>6. CASE ReadyToSendObservation
    BY <1>6 DEF ReadyToSendObservation, Calm, ControlStep
<1>7. CASE SendObservation
    BY <1>7 DEF SendObservation, Calm, ControlStep
<1>8. CASE CaptureFails
    BY <1>8 DEF CaptureFails, Calm, ControlStep
<1>9. CASE ObservationSent
    BY <1>9 DEF ObservationSent, Calm, ControlStep
<1>10. CASE StopClient
    BY <1>10 DEF StopClient, Calm, ControlStep
<1>11. CASE PerformFails
    BY <1>11 DEF PerformFails, Calm, ControlStep
<1>. QED
    BY <1>1, <1>2, <1>3, <1>4, <1>5, <1>6, <1>7, <1>8, <1>9, <1>10, <1>11
    DEF ControlStep, ControlLoop

(* The action receiver keeps it: the merge ends with must_go.set().        *)
LEMMA WakeReceiver ==
    ASSUME TypeInv, TypeInv', WakeInv, Calm, ReceiverStep
    PROVE  WakeInv'
<1> USE DEF WakeInv, ClientPlaces, SendPlaces, GetPlaces, DropsAreSafe,
            NoLostWakeup, Connected, Busy, Serves, Secured, Pending, InFlight,
            HasWaiter, HasCaller
<1> USE DEF TypeInv, TypeOK, RpcTypeOK, ClientTypeOK, ServerTypeOK
<1>1. CASE RequestActions
    BY <1>1 DEF RequestActions, Calm, ReceiverStep
<1>2. CASE ReceiverExits
    BY <1>2 DEF ReceiverExits, Calm, ReceiverStep
<1>3. CASE ReceiveNothing
    BY <1>3 DEF ReceiveNothing, Calm, ReceiverStep
<1>4. CASE ReceiveChunk
    BY <1>4 DEF ReceiveChunk, Calm, ReceiverStep
<1>5. CASE BeginScan
    BY <1>5 DEF BeginScan, Calm, ReceiverStep
<1>6. CASE EndScan
    BY <1>6 DEF EndScan, Calm, ReceiverStep
<1>7. CASE FilterAction
    BY <1>7 DEF FilterAction, Calm, ReceiverStep
<1>8. CASE SwapQueue
    BY <1>8 DEF SwapQueue, Calm, ReceiverStep
<1>9. CASE SetMustGo
    BY <1>9 DEF SetMustGo, Calm, ReceiverStep
<1>. QED
    BY <1>1, <1>2, <1>3, <1>4, <1>5, <1>6, <1>7, <1>8, <1>9 DEF ReceiverStep, Receiver

(* Queue.full(): the queue of one is full just when it is not empty.       *)
LEMMA FullOrEmpty ==
    ASSUME NEW q \in [Sessions -> Seq(Obs)], NEW k \in Sessions
    PROVE  Len(q[k]) >= 1 <=> q[k] # <<>>
<1>1. q[k] \in Seq(Obs)
    OBVIOUS
<1>. QED
    BY <1>1, NonEmptyLen, Zenon

(* A SendObservations handler keeps it: a must-go observation is never     *)
(* filtered, and one that is popped to make room is followed by a put.     *)
LEMMA WakeSend ==
    ASSUME TypeInv, TypeInv', WakeInv, Calm, NEW s \in SendThreads, SendStep(s)
    PROVE  WakeInv'
<1> USE DEF WakeInv, ClientPlaces, SendPlaces, GetPlaces, DropsAreSafe,
            NoLostWakeup, Connected, Busy, Serves, Secured, Pending, InFlight,
            HasWaiter, HasCaller
<1> USE DEF TypeInv, TypeOK, RpcTypeOK, ClientTypeOK, ServerTypeOK
<1>1. CASE BeginSend(s)
    BY <1>1 DEF BeginSend, Calm, SendStep
<1>2. CASE ReceiveObservation(s)
    BY <1>2 DEF ReceiveObservation, Calm, SendStep
<1>3. CASE ReceiveFails(s)
    BY <1>3 DEF ReceiveFails, Calm, SendStep, EndSend
<1>4. CASE FilterObservation(s)
  <2>1. ~obsOut.must
    BY <1>4 DEF FilterObservation, Accepted
  <2>. QED
    BY <1>4, <2>1
    DEF FilterObservation, EndSend, Calm, SendStep
<1>5. CASE AcceptObservation(s)
  <2>1. obsQ \in [Sessions -> Seq(Obs)] /\ session \in Sessions
    OBVIOUS
  <2>2. Len(obsQ[session]) >= 1 <=> obsQ[session] # <<>>
    BY ONLY <2>1, FullOrEmpty, Zenon
  <2>3. sPc' = [sPc EXCEPT ![s] = IF obsQ[session] # <<>> THEN "room" ELSE "put"]
    BY <1>5, <2>2 DEF AcceptObservation, QueueSize
  <2>4. /\ sPc[s] = "check"
        /\ UNCHANGED <<clientVars, rpcVars, getVars, obsQ, sObs, sLive, sQ>>
    BY <1>5 DEF AcceptObservation, SendStep
  <2>5. ClientPlaces' /\ GetPlaces' /\ SendPlaces' /\ DropsAreSafe'
    BY <2>3, <2>4
  <2>6. NoLostWakeup'
    BY <2>3, <2>4
  <2>. QED
    BY <2>5, <2>6
<1>6. CASE MakeRoom(s)
  <2>1. /\ sPc[s] = "room" /\ sPc' = [sPc EXCEPT ![s] = "put"]
        /\ obsQ' = [obsQ EXCEPT ![session] = Tail(@)]
        /\ UNCHANGED <<clientVars, rpcVars, getVars, sObs, sLive, sQ>>
    BY <1>6 DEF MakeRoom, SendStep
  <2>2. obsQ'[session] = <<>>
    <3>1. obsQ \in Slots /\ session \in Sessions /\ obsQ[session] # <<>>
      BY <1>6 DEF MakeRoom
    <3>2. Tail(obsQ[session]) = <<>>
      BY <3>1, SlotTaken
    <3>. QED
      BY <2>1, <3>1, <3>2 DEF Slots
  <2>3. ClientPlaces' /\ GetPlaces'
    BY <2>1
  <2>4. SendPlaces'
    BY <2>1, <2>2
  <2>5. DropsAreSafe'
    BY <2>1
  <2>6. NoLostWakeup'
    BY <2>1
  <2>. QED
    BY <2>3, <2>4, <2>5, <2>6
<1>7. CASE MakeRoomFails(s)
    BY <1>7 DEF MakeRoomFails, Calm, SendStep, EndSend
<1>8. CASE PutObservation(s)
    BY <1>8 DEF PutObservation, Calm, SendStep, EndSend
<1>9. CASE PutBlocks(s)
    BY <1>9, NonEmptyLen DEF PutBlocks, QueueSize
<1>10. CASE PutResumes(s)
    BY <1>10 DEF PutResumes, Calm, SendStep, EndSend
<1>. QED
    BY <1>1, <1>2, <1>3, <1>4, <1>5, <1>6, <1>7, <1>8, <1>9, <1>10 DEF SendStep, SendHandler

(* A GetActions handler keeps it: the observation it takes off the queue   *)
(* becomes a chunk, and it does not time out on a queue that holds one.    *)
LEMMA WakeGet ==
    ASSUME TypeInv, TypeInv', WakeInv, Calm, NEW g \in GetThreads, GetStep(g)
    PROVE  WakeInv'
<1> USE DEF WakeInv, ClientPlaces, SendPlaces, GetPlaces, DropsAreSafe,
            NoLostWakeup, Connected, Busy, Serves, Secured, Pending, InFlight,
            HasWaiter, HasCaller
<1> USE DEF TypeInv, TypeOK, RpcTypeOK, ClientTypeOK, ServerTypeOK
<1>1. CASE BeginGet(g)
    BY <1>1 DEF BeginGet, Calm, GetStep
<1>2. CASE TakeObservation(g)
  <2>1. /\ gPc[g] = "wait" /\ gPc' = [gPc EXCEPT ![g] = "mark"]
        /\ obsQ[gQ[g]] # <<>> /\ obsQ' = [obsQ EXCEPT ![gQ[g]] = Tail(@)]
        /\ UNCHANGED <<clientVars, rpcVars, sendVars, gLive, gQ>>
    BY <1>2 DEF TakeObservation, GetStep
  <2>. QED
    BY <2>1
<1>3. CASE QueueTimeout(g)
  <2>1. /\ gPc[g] = "wait" /\ obsQ[gQ[g]] = <<>> /\ EndGet(g, EmptyReply)
        /\ UNCHANGED <<clientVars, obsQ, sendVars, gQ>>
    BY <1>3 DEF QueueTimeout, GetStep
  <2>2. CASE HasWaiter(g)
    <3>1. Connected => \A h \in GetThreads : ~InFlight(h)
      BY <2>1, <2>2
    <3>. QED
      BY <2>1, <2>2, <3>1 DEF EndGet
  <2>3. CASE ~HasWaiter(g)
    BY <2>1, <2>3 DEF EndGet
  <2>. QED
    BY <2>2, <2>3
<1>4. CASE MarkPredicted(g)
    BY <1>4 DEF MarkPredicted, Calm, GetStep
<1>5. CASE PrepareObservation(g)
  <2>1. /\ gPc[g] = "prepare" /\ gPc' = [gPc EXCEPT ![g] = "infer"]
        /\ UNCHANGED <<clientVars, rpcVars, obsQ, sendVars, gObs, gLive, gQ>>
    BY <1>5 DEF PrepareObservation, GetStep
  <2>. QED
    BY <2>1
<1>6. CASE PredictActionChunk(g)
  <2>1. /\ gPc[g] = "infer" /\ sendRpc = "idle" /\ EndGet(g, gObs[g].ts)
        /\ UNCHANGED <<clientVars, obsQ, sendVars, gQ>>
    BY <1>6 DEF PredictActionChunk, GetStep, Calm
  <2>2. gObs[g].ts \in Nat
    BY <2>1 DEF Obs
  <2>3. CASE HasWaiter(g)
    BY <2>1, <2>2, <2>3 DEF EndGet
  <2>4. CASE ~HasWaiter(g)
    BY <2>1, <2>4 DEF EndGet
  <2>. QED
    BY <2>3, <2>4
<1>7. CASE PredictFails(g)
    BY <1>7 DEF PredictFails, Calm, GetStep, EndGet
<1>8. CASE ReadQueue(g)
  <2>1. /\ gPc[g] = "begin" /\ gPc' = [gPc EXCEPT ![g] = "wait"]
        /\ gQ[g] = session /\ gQ' = gQ /\ gLive' = gLive
        /\ UNCHANGED <<clientVars, rpcVars, obsQ, sendVars, gObs>>
    BY <1>8 DEF ReadQueue, GetStep
  <2>. QED
    BY <2>1
<1>. QED
    BY <1>1, <1>2, <1>3, <1>4, <1>5, <1>6, <1>7, <1>8 DEF GetStep, GetHandler

(* The handshake and a restart keep it; nothing breaks.                    *)
LEMMA WakeOther ==
    ASSUME TypeInv, TypeInv', WakeInv, Calm, Start \/ Faults \/ Restart \/ UNCHANGED vars
    PROVE  WakeInv'
<1> USE DEF WakeInv, ClientPlaces, SendPlaces, GetPlaces, DropsAreSafe,
            NoLostWakeup, Connected, Busy, Serves, Secured, Pending, InFlight,
            HasWaiter, HasCaller
<1> USE DEF TypeInv, TypeOK, RpcTypeOK, ClientTypeOK, ServerTypeOK
<1>1. CASE ClientReady
    BY <1>1 DEF ClientReady, Calm, Ready
<1>2. CASE SendPolicyInstructions
    BY <1>2 DEF SendPolicyInstructions, Calm
<1>3. CASE StartFails
    BY <1>3 DEF StartFails, Calm
<1>4. CASE BreakSend
    BY <1>4 DEF BreakSend, Calm
<1>5. CASE BreakGet
    BY <1>5 DEF BreakGet, Calm
<1>6. CASE ClientDies
    BY <1>6 DEF ClientDies, Calm
<1>7. CASE Restart
    BY <1>7 DEF Restart, Calm, ClientEnded
<1>8. CASE UNCHANGED vars
    BY <1>8 DEF vars, Calm
<1>. QED
    BY <1>1, <1>2, <1>3, <1>4, <1>5, <1>6, <1>7, <1>8 DEF Start, Faults

(* The invariant behind NoLostWakeup is inductive, relative to the types.  *)
LEMMA WakeStep ==
    ASSUME TypeInv, TypeInv', WakeInv, Calm, [Next]_vars
    PROVE  WakeInv'
<1>1. CASE Start \/ Faults \/ Restart \/ UNCHANGED vars
    BY <1>1, WakeOther
<1>2. CASE ControlStep
    BY <1>2, WakeControl
<1>3. CASE ReceiverStep
    BY <1>3, WakeReceiver
<1>4. CASE \E s \in SendThreads : SendStep(s)
    BY <1>4, WakeSend
<1>5. CASE \E g \in GetThreads : GetStep(g)
    BY <1>5, WakeGet
<1>6. CASE Finished
    BY <1>6, WakeOther DEF Finished
<1>. QED
    BY <1>1, <1>2, <1>3, <1>4, <1>5, <1>6 DEF Next

(* It holds in every reachable state.                                      *)
LEMMA WakeInvariant == ASSUME Calm PROVE Spec => []WakeInv
<1>1. Spec => []TypeInv
    BY TypeInit, TypeStep, PTL DEF Spec
<1>2. TypeInv /\ TypeInv' /\ WakeInv /\ [Next]_vars => WakeInv'
    BY WakeStep
<1>. QED
    BY <1>1, <1>2, WakeInit, PTL DEF Spec

(* No wake-up of the server is lost, for any number of workers and of      *)
(* sessions, when nothing breaks.                                          *)
THEOREM WakeupsKept == ASSUME Calm PROVE Spec => []NoLostWakeup
<1>1. WakeInv => NoLostWakeup
    BY DEF WakeInv
<1>. QED
    BY <1>1, WakeInvariant, PTL

(* The put in _enqueue_observation never blocks, as its comment says, when *)
(* no call breaks: a second SendObservations cannot be in a handler.       *)
THEOREM PutsNeverBlock == ASSUME Calm PROVE Spec => []PutNeverBlocks
<1>1. WakeInv => PutNeverBlocks
    BY DEF WakeInv, SendPlaces, PutNeverBlocks, Busy
<1>. QED
    BY <1>1, WakeInvariant, PTL

-----------------------------------------------------------------------------
(* Which handlers will answer a call, whatever breaks: what the argument   *)
(* about the actions' order needs to know of the calls.                    *)

(* A handler GetActions could still answer through, once the call it took  *)
(* is in a handler.                                                        *)
LiveHere(g) == gLive[g] /\ gQ[g] = session

SendHandlers ==
    /\ \A s \in SendThreads : sLive[s] => sPc[s] # "idle" /\ sendRpc = "served"
    /\ \A s, t \in SendThreads : sLive[s] /\ sLive[t] => s = t
    /\ sendRpc = "served" => \E s \in SendThreads : sLive[s]

GetHandlers ==
    /\ \A g \in GetThreads : gQ[g] <= session
    /\ \A g \in GetThreads : LiveHere(g) => gPc[g] # "idle"
    /\ \A g, h \in GetThreads : LiveHere(g) /\ LiveHere(h) => g = h
    /\ getRpc = "served" => \E g \in GetThreads : LiveHere(g)
    /\ getRpc = "sent" => \A g \in GetThreads : ~LiveHere(g)
    /\ Connected /\ getRpc # "served" => \A g \in GetThreads : ~LiveHere(g)

ReceiverPlaces ==
    /\ ctl \in {"start", "instruct", "barrier"} => rcv = "barrier"
    /\ rcv # "await" => getRpc = "idle"

HandlerInv == SendHandlers /\ GetHandlers /\ ReceiverPlaces

(* It holds initially: no call, no handler.                                *)
LEMMA HandlerInit == Init => HandlerInv
BY DEF Init, ClientInit, RpcInit, ServerInit, HandlerInv, SendHandlers,
       GetHandlers, ReceiverPlaces, LiveHere

(* The control loop keeps it: it calls again only when the call before has *)
(* returned.                                                               *)
LEMMA HandlerControl ==
    ASSUME TypeInv, TypeInv', HandlerInv, ControlStep
    PROVE  HandlerInv'
<1> USE DEF HandlerInv, SendHandlers, GetHandlers, ReceiverPlaces, LiveHere,
            Connected, HasWaiter, HasCaller
<1> USE DEF TypeInv, TypeOK, RpcTypeOK, ClientTypeOK, ServerTypeOK
<1>1. CASE Barrier
    BY <1>1 DEF Barrier, ControlStep
<1>2. CASE ActionsAvailable
    BY <1>2 DEF ActionsAvailable, ControlStep
<1>3. CASE PopAction
    BY <1>3 DEF PopAction, ControlStep
<1>4. CASE PopFails
    BY <1>4 DEF PopFails, ControlStep
<1>5. CASE PerformAction
    BY <1>5 DEF PerformAction, ControlStep
<1>6. CASE ReadyToSendObservation
    BY <1>6 DEF ReadyToSendObservation, ControlStep
<1>7. CASE SendObservation
    BY <1>7 DEF SendObservation, ControlStep
<1>8. CASE CaptureFails
    BY <1>8 DEF CaptureFails, ControlStep
<1>9. CASE ObservationSent
    BY <1>9 DEF ObservationSent, ControlStep
<1>10. CASE StopClient
    BY <1>10 DEF StopClient, ControlStep
<1>11. CASE PerformFails
    BY <1>11 DEF PerformFails, ControlStep
<1>. QED
    BY <1>1, <1>2, <1>3, <1>4, <1>5, <1>6, <1>7, <1>8, <1>9, <1>10, <1>11
    DEF ControlStep, ControlLoop

(* The action receiver keeps it: it calls again only when the call before  *)
(* has returned.                                                           *)
LEMMA HandlerReceiver ==
    ASSUME TypeInv, TypeInv', HandlerInv, ReceiverStep
    PROVE  HandlerInv'
<1> USE DEF HandlerInv, SendHandlers, GetHandlers, ReceiverPlaces, LiveHere,
            Connected, HasWaiter, HasCaller
<1> USE DEF TypeInv, TypeOK, RpcTypeOK, ClientTypeOK, ServerTypeOK
<1>1. CASE RequestActions
    BY <1>1 DEF RequestActions, ReceiverStep
<1>2. CASE ReceiverExits
    BY <1>2 DEF ReceiverExits, ReceiverStep
<1>3. CASE ReceiveNothing
    BY <1>3 DEF ReceiveNothing, ReceiverStep
<1>4. CASE ReceiveChunk
    BY <1>4 DEF ReceiveChunk, ReceiverStep
<1>5. CASE BeginScan
    BY <1>5 DEF BeginScan, ReceiverStep
<1>6. CASE EndScan
    BY <1>6 DEF EndScan, ReceiverStep
<1>7. CASE FilterAction
    BY <1>7 DEF FilterAction, ReceiverStep
<1>8. CASE SwapQueue
    BY <1>8 DEF SwapQueue, ReceiverStep
<1>9. CASE SetMustGo
    BY <1>9 DEF SetMustGo, ReceiverStep
<1>. QED
    BY <1>1, <1>2, <1>3, <1>4, <1>5, <1>6, <1>7, <1>8, <1>9 DEF ReceiverStep, Receiver

(* A SendObservations handler keeps it: it takes a call that has no        *)
(* handler, and answers its own.                                           *)
LEMMA HandlerSend ==
    ASSUME TypeInv, TypeInv', HandlerInv, NEW s \in SendThreads, SendStep(s)
    PROVE  HandlerInv'
<1> USE DEF HandlerInv, SendHandlers, GetHandlers, ReceiverPlaces, LiveHere,
            Connected, HasWaiter, HasCaller
<1> USE DEF TypeInv, TypeOK, RpcTypeOK, ClientTypeOK, ServerTypeOK
<1>1. CASE BeginSend(s)
    BY <1>1 DEF BeginSend, SendStep
<1>2. CASE ReceiveObservation(s)
    BY <1>2 DEF ReceiveObservation, SendStep
<1>3. CASE ReceiveFails(s)
    BY <1>3 DEF ReceiveFails, SendStep, EndSend
<1>4. CASE FilterObservation(s)
    BY <1>4 DEF FilterObservation, SendStep, EndSend
<1>5. CASE AcceptObservation(s)
    BY <1>5 DEF AcceptObservation, SendStep
<1>6. CASE MakeRoom(s)
    BY <1>6 DEF MakeRoom, SendStep
<1>7. CASE MakeRoomFails(s)
    BY <1>7 DEF MakeRoomFails, SendStep, EndSend
<1>8. CASE PutObservation(s)
    BY <1>8 DEF PutObservation, SendStep, EndSend
<1>9. CASE PutBlocks(s)
    BY <1>9 DEF PutBlocks, SendStep
<1>10. CASE PutResumes(s)
    BY <1>10 DEF PutResumes, SendStep, EndSend
<1>. QED
    BY <1>1, <1>2, <1>3, <1>4, <1>5, <1>6, <1>7, <1>8, <1>9, <1>10 DEF SendStep, SendHandler

(* A GetActions handler keeps it, in the same way.                         *)
LEMMA HandlerGet ==
    ASSUME TypeInv, TypeInv', HandlerInv, NEW g \in GetThreads, GetStep(g)
    PROVE  HandlerInv'
<1> USE DEF HandlerInv, SendHandlers, GetHandlers, ReceiverPlaces, LiveHere,
            Connected, HasWaiter, HasCaller
<1> USE DEF TypeInv, TypeOK, RpcTypeOK, ClientTypeOK, ServerTypeOK
<1>1. CASE BeginGet(g)
    BY <1>1 DEF BeginGet, GetStep
<1>2. CASE TakeObservation(g)
    BY <1>2 DEF TakeObservation, GetStep
<1>3. CASE QueueTimeout(g)
    BY <1>3 DEF QueueTimeout, GetStep, EndGet
<1>4. CASE MarkPredicted(g)
    BY <1>4 DEF MarkPredicted, GetStep
<1>5. CASE PrepareObservation(g)
    BY <1>5 DEF PrepareObservation, GetStep
<1>6. CASE PredictActionChunk(g)
    BY <1>6 DEF PredictActionChunk, GetStep, EndGet
<1>7. CASE PredictFails(g)
    BY <1>7 DEF PredictFails, GetStep, EndGet
<1>8. CASE ReadQueue(g)
  <2>1. /\ gPc[g] = "begin" /\ gPc' = [gPc EXCEPT ![g] = "wait"]
        /\ gQ' = [gQ EXCEPT ![g] = session]
        /\ UNCHANGED <<clientVars, rpcVars, sendVars>>
    BY <1>8 DEF ReadQueue, GetStep
  <2>2. ASSUME NEW h \in GetThreads
        PROVE  (gLive'[h] /\ gQ'[h] = session) <=> (gLive[h] /\ gQ[h] = session)
    <3>1. CASE h = g
      <4>1. gLive'[g] = (gLive[g] /\ gQ[g] = session)
        BY <1>8, Zenon DEF ReadQueue
      <4>2. gQ'[g] = session
        BY <2>1
      <4>. QED
        BY <3>1, <4>1, <4>2, Zenon
    <3>2. CASE h # g
      BY <1>8, <3>2 DEF ReadQueue
    <3>. QED
      BY <3>1, <3>2
  <2>. QED
    BY <2>1, <2>2
<1>. QED
    BY <1>1, <1>2, <1>3, <1>4, <1>5, <1>6, <1>7, <1>8 DEF GetStep, GetHandler

(* A fault keeps it by making orphans of the handlers of the calls it      *)
(* breaks, Ready by counting a new session.                                *)
LEMMA HandlerOther ==
    ASSUME TypeInv, TypeInv', HandlerInv, Start \/ Faults \/ Restart \/ UNCHANGED vars
    PROVE  HandlerInv'
<1> USE DEF HandlerInv, SendHandlers, GetHandlers, ReceiverPlaces, LiveHere,
            Connected, HasWaiter, HasCaller
<1> USE DEF TypeInv, TypeOK, RpcTypeOK, ClientTypeOK, ServerTypeOK
<1>1. CASE ClientReady
    BY <1>1 DEF ClientReady, Ready
<1>2. CASE SendPolicyInstructions
    BY <1>2 DEF SendPolicyInstructions
<1>3. CASE StartFails
    BY <1>3 DEF StartFails
<1>4. CASE BreakSend
    BY <1>4 DEF BreakSend
<1>5. CASE BreakGet
    BY <1>5 DEF BreakGet
<1>6. CASE ClientDies
    BY <1>6 DEF ClientDies
<1>7. CASE Restart
    BY <1>7 DEF Restart, ClientEnded
<1>8. CASE UNCHANGED vars
    BY <1>8 DEF vars
<1>. QED
    BY <1>1, <1>2, <1>3, <1>4, <1>5, <1>6, <1>7, <1>8 DEF Start, Faults

(* It is inductive, relative to the types.                                 *)
LEMMA HandlerStep ==
    ASSUME TypeInv, TypeInv', HandlerInv, [Next]_vars
    PROVE  HandlerInv'
<1>1. CASE Start \/ Faults \/ Restart \/ UNCHANGED vars
    BY <1>1, HandlerOther
<1>2. CASE ControlStep
    BY <1>2, HandlerControl
<1>3. CASE ReceiverStep
    BY <1>3, HandlerReceiver
<1>4. CASE \E s \in SendThreads : SendStep(s)
    BY <1>4, HandlerSend
<1>5. CASE \E g \in GetThreads : GetStep(g)
    BY <1>5, HandlerGet
<1>6. CASE Finished
    BY <1>6, HandlerOther DEF Finished
<1>. QED
    BY <1>1, <1>2, <1>3, <1>4, <1>5, <1>6 DEF Next

(* It holds in every reachable state.                                      *)
LEMMA HandlerInvariant == Spec => []HandlerInv
<1>1. Spec => []TypeInv
    BY TypeInit, TypeStep, PTL DEF Spec
<1>2. TypeInv /\ TypeInv' /\ HandlerInv /\ [Next]_vars => HandlerInv'
    BY HandlerStep
<1>. QED
    BY <1>1, <1>2, HandlerInit, PTL DEF Spec

-----------------------------------------------------------------------------
(* Why the robot performs its actions in order.                            *)

(* Nothing breaks, or there is one session: no observation an orphan holds *)
(* reaches a client that did not take it.  And a merge is over before the  *)
(* control loop's next turn.                                               *)
OneStream == FastMerge /\ (MaxFaults = 0 \/ MaxSessions = 1)

(* Successive timesteps, as _time_action_chunk gives them.                 *)
Run(q) == \A i \in 1 .. Len(q) : q[i] = q[1] + (i - 1)

(* A timestep a chunk may begin with and not skip one the robot has yet to *)
(* perform.                                                                *)
Reached(t) == t <= latest + 1

(* A client that starts is alone: the handlers of SendObservations have    *)
(* ended, and no queue of a later session was touched.                     *)
StartsAlone ==
    /\ ctl = "start" => \A s \in SendThreads : ~Busy(s)
    /\ ctl = "start" => session < MaxSessions
    /\ session = 0 => /\ ctl \in {"start", "stopped", "crashed"}
                      /\ rcv \in {"barrier", "done", "dead"}
                      /\ \A s \in SendThreads : ~Busy(s)
    /\ MaxFaults = 0 => \A s \in SendThreads : Busy(s) => sLive[s]
    /\ \A s \in SendThreads : sQ[s] <= session
    /\ \A k \in Sessions : k > session => obsQ[k] = <<>>

(* Whatever carries an observation or a chunk of this session carries a    *)
(* timestep the robot had reached.                                         *)
NoneSkipped ==
    /\ ctl = "await" => Reached(obsOut.ts)
    /\ \A s \in SendThreads : Busy(s) => Reached(sObs[s].ts)
    /\ \A i \in 1 .. Len(obsQ[session]) : Reached(obsQ[session][i].ts)
    /\ \A g \in GetThreads :
          gPc[g] \in {"mark", "prepare", "infer"} /\ gQ[g] = session
             => Reached(gObs[g].ts)
    /\ getRpc = "ok" => Reached(reply)

(* What the robot performed last, once the action popped is performed.     *)
Performed == IF ctl = "perform" THEN act ELSE latest

(* The queue continues what the robot performed, from that action or the   *)
(* next one.                                                               *)
QueueContinues ==
    /\ Run(queue)
    /\ ctl = "perform" => act \in {latest, latest + 1}
    /\ ctl \notin {"stopped", "crashed"} /\ queue # <<>>
          => queue[1] \in {Performed, Performed + 1}

(* So does the queue being built, and the chunk left to filter goes on     *)
(* where it ends.                                                          *)
MergeContinues ==
    rcv \in Merging \ {"set"} =>
        /\ Run(future)
        /\ Run(incoming)
        /\ future # <<>> =>
              /\ future[1] \in {latest, latest + 1}
              /\ ctl \in {"pop", "perform"} => future[1] = latest + 1
              /\ incoming # <<>> => incoming[1] = future[1] + Len(future)
        /\ future = <<>> /\ incoming # <<>> => Reached(incoming[1])

(* The inductive invariant of the stream of actions.                       *)
StreamInv ==
    /\ StartsAlone
    /\ ctl # "start" /\ session # 0 => NoneSkipped
    /\ QueueContinues
    /\ MergeContinues

(* The rest of a run of timesteps is one, beginning with the next.         *)
LEMMA RunTail ==
    ASSUME NEW q \in Seq(Nat), q # <<>>, Run(q)
    PROVE  /\ Head(q) = q[1]
           /\ Run(Tail(q))
           /\ Tail(q) # <<>> => Tail(q)[1] = q[1] + 1
<1>1. Len(q) \in Nat /\ Len(q) >= 1 /\ Len(Tail(q)) = Len(q) - 1
    OBVIOUS
<1>2. \A i \in 1 .. Len(q) - 1 : Tail(q)[i] = q[i + 1]
    OBVIOUS
<1>3. \A i \in 1 .. Len(q) : q[i] = q[1] + (i - 1) /\ q[i] \in Nat
    BY DEF Run
<1>4. Run(Tail(q))
    BY <1>1, <1>2, <1>3 DEF Run
<1>5. ASSUME Tail(q) # <<>> PROVE Tail(q)[1] = q[1] + 1
  <2>1. Len(Tail(q)) >= 1
    BY <1>5
  <2>. QED
    BY <2>1, <1>1, <1>2, <1>3
<1>7. Head(q) = q[1]
    OBVIOUS
<1>. QED
    BY <1>4, <1>5, <1>7

(* A run with the next timestep put behind it is a run.                    *)
LEMMA RunAppend ==
    ASSUME NEW q \in Seq(Nat), NEW t \in Nat, Run(q),
           q # <<>> => t = q[1] + Len(q)
    PROVE  /\ Run(Append(q, t))
           /\ Append(q, t) # <<>>
           /\ Append(q, t)[1] = IF q = <<>> THEN t ELSE q[1]
           /\ Append(q, t)[1] + Len(Append(q, t)) = t + 1
<1> DEFINE r == Append(q, t)
<1>1. /\ Len(q) \in Nat /\ Len(r) = Len(q) + 1
      /\ r[Len(q) + 1] = t
      /\ \A i \in 1 .. Len(q) : r[i] = q[i]
      /\ r # <<>>
    OBVIOUS
<1>2. \A i \in 1 .. Len(q) : q[i] = q[1] + (i - 1)
    BY DEF Run
<1> HIDE DEF r
<1>3. CASE q = <<>>
    BY <1>1, <1>3 DEF Run
<1>4. CASE q # <<>>
  <2>1. Len(q) >= 1 /\ q[1] \in Nat
    BY <1>4
  <2>2. r[1] = q[1]
    BY <2>1, <1>1
  <2>3. t = q[1] + Len(q)
    BY <1>4
  <2>4. ASSUME NEW i \in 1 .. Len(r)
        PROVE  r[i] = r[1] + (i - 1)
    <3>1. CASE i = Len(q) + 1
      BY <3>1, <2>1, <2>2, <2>3, <1>1
    <3>2. CASE i # Len(q) + 1
      <4>1. i \in 1 .. Len(q)
        BY <3>2, <1>1
      <4>. QED
        BY <4>1, <2>2, <1>1, <1>2
    <3>. QED
      BY <3>1, <3>2
  <2>5. r[1] + Len(r) = t + 1
    <3>1. r[1] + Len(r) = q[1] + (Len(q) + 1)
      BY <2>2, <1>1
    <3>2. \A a, b \in Nat : a + (b + 1) = (a + b) + 1
      OBVIOUS
    <3>. QED
      BY <3>1, <3>2, <2>1, <2>3, <1>1
  <2>. QED
    BY <2>2, <2>4, <2>5, <1>1, <1>4 DEF Run
<1>. QED
    BY <1>3, <1>4 DEF r

(* A chunk is a run that begins with its timestep.                         *)
LEMMA ChunkRun ==
    ASSUME NEW t \in Nat
    PROVE  Run(ChunkFrom(t)) /\ ChunkFrom(t) # <<>> /\ ChunkFrom(t)[1] = t
<1>1. ActionsPerChunk \in Nat /\ ActionsPerChunk >= 1
    BY ClientAssumption
<1>2. /\ Len(ChunkFrom(t)) = ActionsPerChunk
      /\ \A i \in 1 .. ActionsPerChunk : ChunkFrom(t)[i] = t + i - 1
    BY <1>1 DEF ChunkFrom
<1>. QED
    BY <1>1, <1>2 DEF Run

(* It holds initially: nothing was observed, sent or queued.               *)
LEMMA StreamInit == Init => StreamInv
<1> SUFFICES ASSUME Init PROVE StreamInv
    OBVIOUS
<1> USE DEF Init, ClientInit, RpcInit, ServerInit
<1>1. 0 < MaxSessions
    BY RpcAssumption
<1>2. StartsAlone
    BY <1>1 DEF StartsAlone, Busy
<1>3. QueueContinues /\ MergeContinues
    BY DEF QueueContinues, MergeContinues, Run
<1>. QED
    BY <1>2, <1>3 DEF StreamInv

(* The timesteps that are compared are numbers.                            *)
LEMMA TimestepTypes ==
    ASSUME TypeInv
    PROVE  /\ latest \in Int /\ latest >= -1
           /\ act \in Int /\ reply \in Int /\ session \in Nat
           /\ ctl = "await" => obsOut.ts \in Int
           /\ \A s \in SendThreads : Busy(s) => sObs[s].ts \in Int
           /\ \A i \in 1 .. Len(obsQ[session]) : obsQ[session][i].ts \in Int
           /\ \A g \in GetThreads : gPc[g] \in {"mark", "prepare", "infer"}
                                        => gObs[g].ts \in Int
           /\ future # <<>> => future[1] \in Nat /\ Len(future) \in Nat \ {0}
           /\ incoming # <<>> => incoming[1] \in Nat
           /\ queue # <<>> => queue[1] \in Nat
<1> USE DEF TypeInv, TypeOK, RpcTypeOK, ClientTypeOK, ServerTypeOK
<1>1. \A o \in Obs : o.ts \in Int
    BY DEF Obs
<1>2. \A i \in 1 .. Len(obsQ[session]) : obsQ[session][i] \in Obs
  <2>1. obsQ[session] \in Seq(Obs)
    BY DEF Slots
  <2>. QED
    BY <2>1
<1>3. ASSUME NEW q \in Seq(Nat), q # <<>>
      PROVE  q[1] \in Nat /\ Len(q) \in Nat \ {0}
    BY <1>3
<1>4. ctl = "await" => obsOut.ts \in Int
    BY <1>1
<1>5. \A s \in SendThreads : Busy(s) => sObs[s].ts \in Int
    BY <1>1 DEF Busy
<1>6. \A g \in GetThreads : gPc[g] \in {"mark", "prepare", "infer"}
                                => gObs[g].ts \in Int
    BY <1>1
<1>7. \A i \in 1 .. Len(obsQ[session]) : obsQ[session][i].ts \in Int
    BY <1>1, <1>2
<1>8. /\ latest \in Int /\ latest >= -1
      /\ act \in Int /\ reply \in Int /\ session \in Nat
    OBVIOUS
<1>9. /\ future # <<>> => future[1] \in Nat /\ Len(future) \in Nat \ {0}
      /\ incoming # <<>> => incoming[1] \in Nat
      /\ queue # <<>> => queue[1] \in Nat
    BY <1>3
<1>. QED
    BY <1>4, <1>5, <1>6, <1>7, <1>8, <1>9

(* The control loop keeps it: it performs what is first in the queue, and  *)
(* takes the next turn only when no merge is under way.                    *)
LEMMA StreamControl ==
    ASSUME TypeInv, TypeInv', HandlerInv, StreamInv, OneStream, ControlStep
    PROVE  StreamInv'
<1> USE DEF StreamInv, StartsAlone, NoneSkipped, QueueContinues,
            MergeContinues, Performed, Reached, Busy, OneStream
<1>0. /\ queue \in Seq(Nat) /\ act \in Nat /\ latest \in Nat \union {-1}
      /\ sendRpc # "idle" => ctl = "await"
    BY DEF TypeInv, TypeOK, ClientTypeOK
<1>1. CASE Barrier
    BY <1>0, <1>1 DEF Barrier, ControlStep
<1>2. CASE ActionsAvailable
    BY <1>0, <1>2 DEF ActionsAvailable, ControlStep
<1>3. CASE PopAction
  <2>1. /\ ctl = "pop" /\ ctl' = "perform" /\ queue # <<>>
        /\ act' = Head(queue) /\ queue' = Tail(queue)
        /\ UNCHANGED <<latest, rcvVars, rpcVars, serverVars>>
    BY <1>0, <1>3 DEF PopAction, ControlStep
  <2>2. /\ queue \in Seq(Nat) /\ Head(queue) = queue[1] /\ Run(Tail(queue))
        /\ Tail(queue) # <<>> => Tail(queue)[1] = queue[1] + 1
    BY <1>0, <2>1, RunTail
  <2>3. queue[1] \in {latest, latest + 1}
    BY <1>0, <2>1
  <2>4. StartsAlone' /\ (session # 0 => NoneSkipped)'
    BY <1>0, <2>1
  <2>5. QueueContinues'
    <3> HIDE DEF Run
    <3>. QED
      BY <2>1, <2>2, <2>3
  <2>6. MergeContinues'
    <3>1. Run(future)' = Run(future) /\ Run(incoming)' = Run(incoming)
      BY <1>0, <2>1 DEF Run
    <3>. QED
      BY <2>1, <3>1
  <2>. QED
    BY <2>1, <2>4, <2>5, <2>6
<1>4. CASE PopFails
    BY <1>0, <1>4 DEF PopFails, ControlStep
<1>5. CASE PerformAction
  <2>1. /\ ctl = "perform" /\ ctl' = "ready" /\ latest' = act
        /\ UNCHANGED <<queue, rcvVars, rpcVars, serverVars>>
    BY <1>0, <1>5 DEF PerformAction, ControlStep
  <2>2. act \in {latest, latest + 1} /\ session # 0
    BY <1>0, <2>1
  <2>3. \A t \in Int : Reached(t) => t <= latest' + 1
    BY <1>0, <2>1, <2>2
  <2>4. StartsAlone'
    BY <1>0, <2>1
  <2>5. NoneSkipped'
    BY <1>0, <2>1, <2>2, <2>3, TimestepTypes
  <2>6. QueueContinues' /\ MergeContinues'
    <3>1. /\ Run(future)' = Run(future) /\ Run(incoming)' = Run(incoming)
          /\ Run(queue)' = Run(queue)
      BY <1>0, <2>1 DEF Run
    <3>. QED
      BY <1>0, <2>1, <2>2, <3>1, TimestepTypes
  <2>. QED
    BY <2>4, <2>5, <2>6
<1>6. CASE ReadyToSendObservation
    BY <1>0, <1>6 DEF ReadyToSendObservation, ControlStep
<1>7. CASE SendObservation
    BY <1>0, <1>7 DEF SendObservation, ControlStep
<1>8. CASE CaptureFails
    BY <1>0, <1>8 DEF CaptureFails, ControlStep
<1>9. CASE ObservationSent
    BY <1>0, <1>9 DEF ObservationSent, ControlStep
<1>10. CASE StopClient
    BY <1>0, <1>10 DEF StopClient, ControlStep
<1>11. CASE PerformFails
    BY <1>0, <1>11 DEF PerformFails, ControlStep
<1>. QED
    BY <1>1, <1>2, <1>3, <1>4, <1>5, <1>6, <1>7, <1>8, <1>9, <1>10, <1>11
    DEF ControlStep, ControlLoop

(* The action receiver keeps it: a chunk begins where the robot has been,  *)
(* and what the filter leaves of it begins with the action after that.     *)
LEMMA StreamReceiver ==
    ASSUME TypeInv, TypeInv', HandlerInv, StreamInv, OneStream, ReceiverStep
    PROVE  StreamInv'
<1> USE DEF StreamInv, StartsAlone, NoneSkipped, QueueContinues,
            MergeContinues, Performed, Reached, Busy, OneStream
<1>0. /\ incoming \in Seq(Nat) /\ future \in Seq(Nat)
      /\ latest \in Nat \union {-1} /\ reply \in Nat \union {EmptyReply}
    BY DEF TypeInv, TypeOK, RpcTypeOK, ClientTypeOK
<1>1. CASE RequestActions
    BY <1>0, <1>1 DEF RequestActions, ReceiverStep
<1>2. CASE ReceiverExits
    BY <1>0, <1>2 DEF ReceiverExits, ReceiverStep
<1>3. CASE ReceiveNothing
    BY <1>0, <1>3 DEF ReceiveNothing, ReceiverStep
<1>4. CASE ReceiveChunk
  <2>1. /\ rcv = "await" /\ rcv' = "scan" /\ getRpc = "ok" /\ getRpc' = "idle"
        /\ reply # EmptyReply /\ incoming' = ChunkFrom(reply) /\ future' = <<>>
        /\ UNCHANGED <<ctlVars, queue, sendRpc, obsOut, session, serverVars>>
    BY <1>0, <1>4 DEF ReceiveChunk, ReceiverStep
  <2>2. reply \in Nat /\ Run(ChunkFrom(reply)) /\ ChunkFrom(reply)[1] = reply
    BY <1>0, <2>1, ChunkRun
  <2>3. session # 0 /\ ctl # "start"
    BY <1>0, <2>1 DEF HandlerInv, ReceiverPlaces
  <2>4. StartsAlone' /\ NoneSkipped'
    BY <1>0, <2>1, <2>3
  <2>5. QueueContinues'
    BY <1>0, <2>1 DEF Run
  <2>6. MergeContinues'
    <3>1. Run(<<>>)
      BY DEF Run
    <3>2. reply <= latest + 1
      BY <1>0, <2>1, <2>3
    <3>3. (future = <<>>)' /\ Run(future)' /\ Run(incoming)' /\ incoming'[1] = reply
      BY <1>0, <2>1, <2>2, <3>1 DEF Run
    <3>. QED
      BY <2>1, <3>2, <3>3
  <2>. QED
    BY <2>4, <2>5, <2>6
<1>5. CASE BeginScan
    BY <1>0, <1>5 DEF BeginScan, ReceiverStep
<1>6. CASE EndScan
    BY <1>0, <1>6 DEF EndScan, ReceiverStep
<1>7. CASE FilterAction
  <2>1. /\ rcv = "filter" /\ rcv' \in {"swap", "filter"} /\ incoming # <<>>
        /\ incoming' = Tail(incoming)
        /\ future' = IF Head(incoming) <= latest
                     THEN future ELSE Append(future, Head(incoming))
        /\ UNCHANGED <<ctlVars, queue, rpcVars, serverVars>>
    BY <1>0, <1>7 DEF FilterAction, ReceiverStep
  <2>2. StartsAlone' /\ (ctl # "start" /\ session # 0 => NoneSkipped)'
    BY <1>0, <2>1
  <2>3. QueueContinues'
    BY <1>0, <2>1 DEF Run
  <2>4. MergeContinues'
    <3>1. /\ incoming \in Seq(Nat) /\ future \in Seq(Nat)
          /\ Run(incoming) /\ Run(future)
          /\ latest \in Int /\ incoming[1] \in Nat
      BY <1>0, <2>1
    <3>2. /\ Head(incoming) = incoming[1] /\ Run(Tail(incoming))
          /\ Tail(incoming) # <<>> => Tail(incoming)[1] = incoming[1] + 1
      BY <1>0, <2>1, <3>1, RunTail
    <3>3. CASE Head(incoming) <= latest
      <4>1. future = <<>>
        <5> SUFFICES ASSUME future # <<>> PROVE FALSE
          OBVIOUS
        <5>1. /\ future[1] \in Nat /\ Len(future) \in Nat \ {0}
          BY TimestepTypes
        <5>2. /\ future[1] >= latest /\ incoming[1] = future[1] + Len(future)
          BY <1>0, <2>1, <5>1
        <5>. QED
          BY <1>0, <3>2, <3>3, <5>1, <5>2
      <4>2. future' = <<>>
        BY <1>0, <2>1, <3>3, <4>1
      <4>3. Run(future') /\ Run(incoming')
        <5>1. Run(<<>>)
          BY DEF Run
        <5>. QED
          BY <2>1, <3>2, <4>2, <5>1
      <4>4. Tail(incoming) # <<>> => Tail(incoming)[1] <= latest + 1
        BY <1>0, <3>1, <3>2, <3>3
      <4>. QED
        BY <2>1, <4>2, <4>3, <4>4
    <3>4. CASE ~(Head(incoming) <= latest)
      <4> DEFINE r == Append(future, incoming[1])
      <4>1. future # <<>> => incoming[1] = future[1] + Len(future)
        BY <1>0, <2>1
      <4>2. /\ Run(r) /\ r # <<>>
            /\ r[1] = IF future = <<>> THEN incoming[1] ELSE future[1]
            /\ r[1] + Len(r) = incoming[1] + 1
        BY <1>0, <3>1, <4>1, RunAppend
      <4> HIDE DEF r
      <4>3. future' = r
        BY <1>0, <2>1, <3>2, <3>4 DEF r
      <4>4. Run(future') /\ Run(incoming')
        BY <1>0, <2>1, <3>2, <4>2, <4>3
      <4>5. /\ r[1] \in {latest, latest + 1}
            /\ ctl \in {"pop", "perform"} => r[1] = latest + 1
        <5>1. CASE future = <<>>
          BY <1>0, <2>1, <3>1, <3>2, <3>4, <4>2, <5>1
        <5>2. CASE future # <<>>
          BY <1>0, <2>1, <4>2, <5>2
        <5>. QED
          BY <5>1, <5>2
      <4>. QED
        BY <2>1, <3>2, <4>2, <4>3, <4>4, <4>5
    <3>. QED
      BY <3>3, <3>4
  <2>. QED
    BY <2>2, <2>3, <2>4
<1>8. CASE SwapQueue
    BY <1>0, <1>8 DEF SwapQueue, ReceiverStep
<1>9. CASE SetMustGo
    BY <1>0, <1>9 DEF SetMustGo, ReceiverStep
<1>. QED
    BY <1>1, <1>2, <1>3, <1>4, <1>5, <1>6, <1>7, <1>8, <1>9 DEF ReceiverStep, Receiver

(* A SendObservations handler keeps it: it queues what its call carried,   *)
(* on the queue of this session or of an earlier one.                      *)
LEMMA StreamSend ==
    ASSUME TypeInv, TypeInv', HandlerInv, StreamInv, OneStream,
           NEW s \in SendThreads, SendStep(s)
    PROVE  StreamInv'
<1> USE DEF StreamInv, StartsAlone, NoneSkipped, QueueContinues,
            MergeContinues, Performed, Reached, Busy, OneStream
<1>0. /\ sPc \in [SendThreads -> {"idle", "recv", "check", "room", "put", "full"}]
      /\ sObs \in [SendThreads -> Obs \union {NoObs}]
      /\ sLive \in [SendThreads -> BOOLEAN] /\ sQ \in [SendThreads -> Sessions]
      /\ obsQ \in Slots /\ obsQ \in [Sessions -> Seq(Obs)] /\ session \in Sessions
      /\ sendRpc # "idle" => ctl = "await"
      /\ \A u \in SendThreads : sPc[u] # "idle" => sObs[u] \in Obs
    BY DEF TypeInv, TypeOK, RpcTypeOK, ServerTypeOK
<1>1. CASE BeginSend(s)
    BY <1>0, <1>1 DEF BeginSend, SendStep
<1>2. CASE ReceiveObservation(s)
  <2>1. /\ sPc[s] = "recv" /\ sPc' = [sPc EXCEPT ![s] = "check"]
        /\ UNCHANGED <<clientVars, rpcVars, getVars, obsQ, sObs, sLive, sQ>>
    BY <1>0, <1>2 DEF ReceiveObservation, SendStep
  <2>. QED
    BY <2>1
<1>3. CASE ReceiveFails(s)
    BY <1>0, <1>3 DEF ReceiveFails, EndSend, HasCaller, SendStep
<1>4. CASE FilterObservation(s)
    BY <1>0, <1>4 DEF FilterObservation, EndSend, HasCaller, SendStep
<1>5. CASE AcceptObservation(s)
  <2>1. PICK place \in {"room", "put"} :
        /\ sPc[s] = "check" /\ sPc' = [sPc EXCEPT ![s] = place]
        /\ UNCHANGED <<clientVars, rpcVars, getVars, obsQ, sObs, sLive, sQ>>
    BY <1>0, <1>5 DEF AcceptObservation, SendStep
  <2>. QED
    BY <2>1
<1>6. CASE MakeRoom(s)
  <2>1. /\ sPc[s] = "room" /\ sPc' = [sPc EXCEPT ![s] = "put"]
        /\ obsQ[session] # <<>> /\ obsQ' = [obsQ EXCEPT ![session] = Tail(@)]
        /\ UNCHANGED <<clientVars, rpcVars, getVars, sObs, sLive, sQ>>
    BY <1>0, <1>6 DEF MakeRoom, SendStep
  <2>2. Tail(obsQ[session]) = <<>>
    BY <1>0, <2>1, SlotTaken
  <2>3. /\ obsQ'[session] = <<>>
        /\ \A k \in Sessions : k > session => obsQ'[k] = obsQ[k]
    BY <1>0, <2>1, <2>2, TimestepTypes DEF Slots
  <2>4. StartsAlone'
    BY <1>0, <2>1, <2>3
  <2>5. (ctl # "start" /\ session # 0 => NoneSkipped)'
    BY <1>0, <2>1, <2>3
  <2>6. QueueContinues' /\ MergeContinues'
    BY <1>0, <2>1
  <2>. QED
    BY <2>4, <2>5, <2>6
<1>7. CASE MakeRoomFails(s)
    BY <1>0, <1>7 DEF MakeRoomFails, EndSend, HasCaller, SendStep
<1>8. CASE PutBlocks(s)
    BY <1>0, <1>8 DEF PutBlocks, SendStep
<1>9. CASE PutObservation(s) \/ PutResumes(s)
  <2>1. PICK k \in Sessions :
          /\ k <= session
          /\ Len(obsQ[k]) < QueueSize
          /\ obsQ' = [obsQ EXCEPT ![k] = Append(@, sObs[s])]
    <3>1. CASE PutObservation(s)
      <4>1. session <= session
        BY TimestepTypes
      <4>. QED
        BY <1>0, <3>1, <4>1 DEF PutObservation
    <3>2. CASE PutResumes(s)
      <4>1. sQ[s] \in Sessions /\ sQ[s] <= session
        BY <1>0
      <4>. QED
        BY <3>2, <4>1 DEF PutResumes
    <3>. QED
      BY <1>9, <3>1, <3>2
  <2>2. /\ Busy(s) /\ EndSend(s, "ok")
        /\ UNCHANGED <<clientVars, getVars, sQ>>
    BY <1>0, <1>9 DEF PutObservation, PutResumes, SendStep
  <2>3. /\ \A j \in Sessions : j > session => obsQ'[j] = obsQ[j]
        /\ k # session => obsQ'[session] = obsQ[session]
        /\ k = session => obsQ'[session] = Append(obsQ[session], sObs[s])
    BY <1>0, <2>1, TimestepTypes DEF Slots
  <2>4. StartsAlone'
    <3>1. ASSUME MaxFaults = 0 PROVE \A u \in SendThreads : Busy(u)' => sLive'[u]
      BY <1>0, <2>2, <3>1 DEF EndSend
    <3>. QED
      BY <1>0, <2>2, <2>3, <3>1 DEF EndSend
  <2>5. (ctl # "start" /\ session # 0 => NoneSkipped)'
    <3> SUFFICES ASSUME ctl # "start", session # 0 PROVE NoneSkipped'
      BY <1>0, <2>2 DEF EndSend
    <3>1. NoneSkipped /\ Reached(sObs[s].ts)
      BY <1>0, <2>2
    <3>2. \A i \in 1 .. Len(obsQ'[session]) : Reached(obsQ'[session][i].ts)
      <4>1. CASE k # session
        BY <1>0, <2>3, <3>1, <4>1
      <4>2. CASE k = session
        <5>1. obsQ[session] \in Seq(Obs) /\ sObs[s] \in Obs
          BY <1>0, <2>2
        <5>2. Append(obsQ[session], sObs[s])[1] = sObs[s]
              /\ Len(Append(obsQ[session], sObs[s])) = 1
          BY <1>0, <2>1, <4>2, <5>1 DEF QueueSize
        <5>. QED
          BY <2>3, <3>1, <4>2, <5>2
      <4>. QED
        BY <4>1, <4>2
    <3>. QED
      BY <1>0, <2>2, <3>1, <3>2 DEF EndSend
  <2>6. QueueContinues' /\ MergeContinues'
    BY <1>0, <2>2
  <2>. QED
    BY <2>4, <2>5, <2>6
<1>. QED
    BY <1>1, <1>2, <1>3, <1>4, <1>5, <1>6, <1>7, <1>8, <1>9 DEF SendStep, SendHandler

(* A GetActions handler keeps it: the chunk it answers with begins at the  *)
(* timestep of the observation it took.                                    *)
LEMMA StreamGet ==
    ASSUME TypeInv, TypeInv', HandlerInv, StreamInv, OneStream,
           NEW g \in GetThreads, GetStep(g)
    PROVE  StreamInv'
<1> USE DEF StreamInv, StartsAlone, NoneSkipped, QueueContinues,
            MergeContinues, Performed, Reached, Busy, OneStream
<1>0. /\ gPc \in [GetThreads -> {"idle", "begin", "wait", "mark", "prepare", "infer"}]
      /\ gObs \in [GetThreads -> Obs \union {NoObs}]
      /\ gLive \in [GetThreads -> BOOLEAN] /\ gQ \in [GetThreads -> Sessions]
      /\ obsQ \in Slots /\ obsQ \in [Sessions -> Seq(Obs)] /\ session \in Sessions
      /\ latest \in Nat \union {-1}
    BY DEF TypeInv, TypeOK, RpcTypeOK, ClientTypeOK, ServerTypeOK
<1>1. CASE BeginGet(g)
    BY <1>0, <1>1 DEF BeginGet, GetStep
<1>2. CASE TakeObservation(g)
  <2>1. /\ gPc[g] = "wait" /\ gPc' = [gPc EXCEPT ![g] = "mark"]
        /\ gObs' = [gObs EXCEPT ![g] = Head(obsQ[gQ[g]])]
        /\ obsQ[gQ[g]] # <<>> /\ obsQ' = [obsQ EXCEPT ![gQ[g]] = Tail(@)]
        /\ UNCHANGED <<clientVars, rpcVars, sendVars, gLive, gQ>>
    BY <1>0, <1>2 DEF TakeObservation, GetStep
  <2>2. gQ[g] \in Sessions /\ gQ[g] <= session
    BY <1>0 DEF HandlerInv, GetHandlers
  <2>3. Tail(obsQ[gQ[g]]) = <<>>
    BY <1>0, <2>1, <2>2, SlotTaken
  <2>4. /\ obsQ'[gQ[g]] = <<>>
        /\ \A k \in Sessions : k # gQ[g] => obsQ'[k] = obsQ[k]
    BY <1>0, <2>1, <2>2, <2>3 DEF Slots
  <2>5. StartsAlone'
    BY <1>0, <2>1, <2>2, <2>4, TimestepTypes
  <2>6. (ctl # "start" /\ session # 0 => NoneSkipped)'
    <3> SUFFICES ASSUME ctl # "start", session # 0 PROVE NoneSkipped'
      BY <1>0, <2>1
    <3>1. gQ[g] = session => Reached(Head(obsQ[gQ[g]]).ts)
      <4> SUFFICES ASSUME gQ[g] = session PROVE Reached(Head(obsQ[session]).ts)
        OBVIOUS
      <4>1. obsQ[session] \in Seq(Obs) /\ obsQ[session] # <<>>
        BY <1>0, <2>1
      <4>2. Head(obsQ[session]) = obsQ[session][1] /\ 1 \in 1 .. Len(obsQ[session])
        BY <1>0, <4>1
      <4>. QED
        BY <4>2
    <3>2. \A i \in 1 .. Len(obsQ'[session]) : Reached(obsQ'[session][i].ts)
      <4>1. CASE gQ[g] = session
        BY <2>4, <4>1
      <4>2. CASE gQ[g] # session
        BY <1>0, <2>1, <2>4, <4>2
      <4>. QED
        BY <4>1, <4>2
    <3>3. ASSUME NEW h \in GetThreads, gPc'[h] \in {"mark", "prepare", "infer"},
                 gQ'[h] = session
          PROVE  Reached(gObs'[h].ts)
      BY <1>0, <2>1, <3>1, <3>3
    <3>. QED
      BY <1>0, <2>1, <3>2, <3>3
  <2>7. QueueContinues' /\ MergeContinues'
    BY <1>0, <2>1
  <2>. QED
    BY <2>5, <2>6, <2>7
<1>3. CASE QueueTimeout(g)
    BY <1>0, <1>3 DEF QueueTimeout, EndGet, HasWaiter, GetStep
<1>4. CASE MarkPredicted(g)
    BY <1>0, <1>4 DEF MarkPredicted, GetStep
<1>5. CASE PrepareObservation(g)
    BY <1>0, <1>5 DEF PrepareObservation, GetStep
<1>6. CASE PredictActionChunk(g)
    BY <1>0, <1>6 DEF PredictActionChunk, EndGet, HasWaiter, GetStep
<1>7. CASE PredictFails(g)
    BY <1>0, <1>7 DEF PredictFails, EndGet, HasWaiter, GetStep
<1>8. CASE ReadQueue(g)
    BY <1>0, <1>8 DEF ReadQueue, GetStep
<1>. QED
    BY <1>1, <1>2, <1>3, <1>4, <1>5, <1>6, <1>7, <1>8 DEF GetStep, GetHandler

(* A fault keeps it, and so does a new session: nothing the client before  *)
(* sent can reach its queue.                                               *)
LEMMA StreamOther ==
    ASSUME TypeInv, TypeInv', HandlerInv, StreamInv, OneStream,
           Start \/ Faults \/ Restart \/ UNCHANGED vars
    PROVE  StreamInv'
<1> USE DEF StreamInv, StartsAlone, NoneSkipped, QueueContinues,
            MergeContinues, Performed, Reached, Busy, OneStream
<1>0. /\ obsQ \in [Sessions -> Seq(Obs)] /\ session \in Sessions /\ faults \in Nat
      /\ latest \in Nat \union {-1} /\ gQ \in [GetThreads -> Sessions]
      /\ sQ \in [SendThreads -> Sessions] /\ MaxSessions \in Nat
      /\ sendRpc # "idle" => ctl = "await"
    BY RpcAssumption DEF TypeInv, TypeOK, RpcTypeOK, ClientTypeOK, ServerTypeOK
<1>1. CASE ClientReady
  <2>1. /\ ctl = "start" /\ ctl' = "instruct" /\ session' = session + 1
        /\ UNCHANGED <<latest, act, queue, rcvVars, sendRpc, obsOut, getRpc,
                       reply, obsQ, sendVars, getVars>>
    BY <1>0, <1>1 DEF ClientReady, Ready
  <2>2. /\ getRpc = "idle"
        /\ \A h \in GetThreads : gQ[h] <= session /\ gQ[h] \in Nat
    BY <1>0, <2>1 DEF HandlerInv, ReceiverPlaces, GetHandlers
  <2>3. session' \in Sessions /\ session' > session /\ session' # 0
    BY <1>0, <2>1, TimestepTypes
  <2>4. StartsAlone'
    BY <1>0, <2>1, <2>3, TimestepTypes
  <2>5. NoneSkipped'
    <3>1. obsQ'[session'] = <<>>
      BY <1>0, <2>1, <2>3
    <3>2. \A h \in GetThreads : gQ'[h] # session'
      BY <1>0, <2>1, <2>2, TimestepTypes
    <3>. QED
      BY <2>1, <2>2, <3>1, <3>2
  <2>6. QueueContinues' /\ MergeContinues'
    BY <1>0, <2>1
  <2>. QED
    BY <2>4, <2>5, <2>6
<1>2. CASE SendPolicyInstructions
    BY <1>0, <1>2 DEF SendPolicyInstructions
<1>3. CASE StartFails
  <2>1. /\ ctl \in {"start", "instruct"} /\ ctl' = "stopped" /\ rcv' = "done"
        /\ MaxFaults # 0
        /\ UNCHANGED <<latest, act, queue, sendRpc, obsOut, getRpc, reply,
                       session, obsQ, sendVars, getVars>>
    BY <1>0, <1>3, RpcAssumption DEF StartFails
  <2>2. ctl = "start" => session = 0
    BY <1>0, <2>1, TimestepTypes
  <2>. QED
    BY <2>1, <2>2
<1>4. CASE BreakSend
  <2>1. /\ MaxFaults # 0 /\ sendRpc # "idle"
        /\ UNCHANGED <<clientVars, obsOut, getRpc, reply, session, obsQ, sPc,
                       sObs, sQ, getVars>>
    BY <1>0, <1>4 DEF BreakSend
  <2>. QED
    BY <1>0, <2>1
<1>5. CASE BreakGet
    BY <1>0, <1>5 DEF BreakGet
<1>6. CASE ClientDies
  <2>1. /\ ctl \notin {"stopped", "crashed"} /\ ctl' = "crashed" /\ rcv' = "dead"
        /\ MaxFaults # 0 /\ getRpc' = "idle"
        /\ UNCHANGED <<latest, act, queue, session, obsQ, sPc, sObs, sQ, gPc,
                       gObs, gQ>>
    BY <1>0, <1>6, RpcAssumption DEF ClientDies
  <2>2. ctl = "start" => session = 0
    BY <1>0, <2>1, TimestepTypes
  <2>3. StartsAlone'
    BY <1>0, <2>1
  <2>4. (ctl # "start" /\ session # 0 => NoneSkipped)'
    BY <1>0, <2>1, <2>2
  <2>5. QueueContinues' /\ MergeContinues'
    BY <1>0, <2>1
  <2>. QED
    BY <2>3, <2>4, <2>5
<1>7. CASE Restart
  <2>1. /\ ctl \in {"stopped", "crashed"} /\ ctl' = "start" /\ rcv' = "barrier"
        /\ session < MaxSessions /\ queue' = <<>>
        /\ UNCHANGED <<session, sendRpc, obsQ, sendVars>>
    BY <1>0, <1>7 DEF Restart, ClientEnded
  <2>2. \A s \in SendThreads : ~Busy(s)
    <3>1. CASE MaxFaults = 0
      BY <1>0, <2>1, <3>1 DEF HandlerInv, SendHandlers
    <3>2. CASE MaxSessions = 1
      BY <1>0, <2>1, <3>2, TimestepTypes
    <3>. QED
      BY <3>1, <3>2
  <2>3. StartsAlone'
    BY <1>0, <2>1, <2>2
  <2>4. QueueContinues' /\ MergeContinues'
    BY <1>0, <2>1 DEF Run
  <2>. QED
    BY <2>1, <2>3, <2>4
<1>8. CASE UNCHANGED vars
    BY <1>0, <1>8 DEF vars
<1>. QED
    BY <1>0, <1>1, <1>2, <1>3, <1>4, <1>5, <1>6, <1>7, <1>8 DEF Start, Faults

(* The invariant behind QueueConsecutive is inductive.                     *)
LEMMA StreamStep ==
    ASSUME TypeInv, TypeInv', HandlerInv, StreamInv, OneStream, [Next]_vars
    PROVE  StreamInv'
<1>1. CASE Start \/ Faults \/ Restart \/ UNCHANGED vars
    BY <1>1, StreamOther
<1>2. CASE ControlStep
    BY <1>2, StreamControl
<1>3. CASE ReceiverStep
    BY <1>3, StreamReceiver
<1>4. CASE \E s \in SendThreads : SendStep(s)
    BY <1>4, StreamSend
<1>5. CASE \E g \in GetThreads : GetStep(g)
    BY <1>5, StreamGet
<1>6. CASE Finished
    BY <1>6, StreamOther DEF Finished
<1>. QED
    BY <1>1, <1>2, <1>3, <1>4, <1>5, <1>6 DEF Next

(* It holds in every reachable state.                                      *)
LEMMA StreamInvariant == ASSUME OneStream PROVE Spec => []StreamInv
<1>1. Spec => []TypeInv
    BY TypeInit, TypeStep, PTL DEF Spec
<1>2. Spec => []HandlerInv
    BY HandlerInvariant
<1>3. TypeInv /\ TypeInv' /\ HandlerInv /\ StreamInv /\ [Next]_vars => StreamInv'
    BY StreamStep
<1>. QED
    BY <1>1, <1>2, <1>3, StreamInit, PTL DEF Spec

(* Whatever chunks are merged while the control loop runs, the queue holds *)
(* consecutive timesteps: for any number of workers, any chunk length and  *)
(* any number of broken calls in one session, or of sessions when no call  *)
(* breaks.                                                                 *)
THEOREM QueueHasNoGap == ASSUME OneStream PROVE Spec => []QueueConsecutive
<1>1. TypeInv /\ StreamInv => QueueConsecutive
  <2> SUFFICES ASSUME TypeInv, StreamInv PROVE QueueConsecutive
      OBVIOUS
  <2>1. queue \in Seq(Nat) /\ Run(queue)
    BY DEF TypeInv, TypeOK, ClientTypeOK, StreamInv, QueueContinues
  <2> SUFFICES ASSUME NEW i \in 1 .. Len(queue) - 1
               PROVE  queue[i + 1] = queue[i] + 1
    BY DEF QueueConsecutive
  <2>2. /\ Len(queue) \in Nat /\ i \in 1 .. Len(queue) /\ i + 1 \in 1 .. Len(queue)
        /\ 1 \in 1 .. Len(queue)
    BY <2>1
  <2>3. /\ queue[i] = queue[1] + (i - 1) /\ queue[i + 1] = queue[1] + ((i + 1) - 1)
        /\ queue[1] \in Nat
    BY <2>1, <2>2 DEF Run
  <2>. QED
    BY <2>2, <2>3
<1>2. Spec => []TypeInv
    BY TypeInit, TypeStep, PTL DEF Spec
<1>. QED
    BY <1>1, <1>2, StreamInvariant, PTL

(* And the robot performs them in order: after an action the same one or   *)
(* the next, under the same conditions.                                    *)
THEOREM ActionsPerformedInOrder == ASSUME OneStream PROVE Spec => ActionsInOrder
<1>1. StreamInv /\ [Next]_vars
        => [PerformAction => latest' \in {latest, latest + 1}]_vars
    BY DEF StreamInv, QueueContinues, PerformAction
<1>. QED
    BY <1>1, StreamInvariant, PTL DEF Spec, ActionsInOrder
=============================================================================
