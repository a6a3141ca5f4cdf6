-------------------------- MODULE CameraThreadProofs --------------------------
(***************************************************************************)
(* What the run of CameraThread shows of a few frames and connections,     *)
(* proved for any number of them and any number of failures.               *)
(***************************************************************************)
EXTENDS CameraThread, TLAPS

(* While the camera is connected its slot holds a frame of its own, or one *)
(* that a thread had in hand which outlived both joins.                    *)
SlotIsOwn ==
    client # "off" => slot.connection \in {0, connection} \/ slot \in late

(* A thread runs only for a connection that was made, and stores and tells *)
(* only what it read.                                                      *)
Connected ==
    /\ client # "off" => connection >= 1
    /\ \A c \in Connections :
        /\ cam[c] # "none" => c <= connection
        /\ cam[c] \in {"store", "notify"} => frames[c] >= 1

(* A thread that outlived its disconnect() was asked to stop, so it ends   *)
(* after the frame it has in hand.                                         *)
Leaving == client \in {"join", "release", "rejoin"}
LateKnown ==
    /\ Leaving => stop[connection]
    /\ \A c \in Connections :
        cam[c] # "none" /\ (c < connection \/ client = "off")
        => stop[c] /\ InHand(c) \in late

(* The event is set, or about to be, for a frame in the slot.              *)
Using == client \in {"idle", "wait", "take"}
EventMeansFrame ==
    /\ Using
    /\ newFrame \/ client = "take" \/ \E c \in Connections : cam[c] = "notify"
    => slot # NoFrame \/ late # {}

CameraInv ==
    /\ TypeOK
    /\ SlotIsOwn
    /\ Connected
    /\ LateKnown
    /\ OwnFrames
    /\ EventMeansFrame
    /\ FrameAnnounced

(* Nothing is connected.                                                   *)
LEMMA CameraInit == Init => CameraInv
<1>. SUFFICES ASSUME Init PROVE CameraInv
    OBVIOUS
<1>. USE DEF Init
<1>1. TypeOK
    <2>1. 0 \in 0 .. MaxFailures + 1
        BY CameraAssumption DEF CameraAssumption
    <2>2. {slot, got, taken} \subseteq Frames
        BY DEF Frames
    <2>3. connection \in 0 .. MaxConnections
        BY CameraAssumption DEF CameraAssumption
    <2>. QED
        BY <2>1, <2>2, <2>3 DEF TypeOK
<1>2. SlotIsOwn /\ Connected /\ LateKnown /\ OwnFrames
    BY DEF SlotIsOwn, Connected, Leaving, LateKnown, OwnFrames
<1>3. EventMeansFrame /\ FrameAnnounced
    BY DEF Using, EventMeansFrame, FrameAnnounced
<1>. QED
    BY <1>1, <1>2, <1>3 DEF CameraInv

(* What a thread has in hand is a frame.                                   *)
LEMMA InHandIsFrame ==
    ASSUME TypeOK, Connected, NEW c \in Connections, cam[c] # "none"
    PROVE  InHand(c) \in Frames
BY CameraAssumption
DEF CameraAssumption, TypeOK, Connected, Connections, InHand, Frames

(* A step of a reading thread, alive or late.                              *)
LEMMA CameraReads ==
    ASSUME CameraInv, NEW d \in Connections, ReadLoop(d)
    PROVE  CameraInv'
<1>. USE DEF CameraInv
<1>1. CASE StoreFrame(d)
    <2>1. slot' = InHand(d) /\ slot' # NoFrame /\ slot'.connection = d
        BY <1>1 DEF StoreFrame, InHand, NoFrame, TypeOK, Connections
    <2>2. TypeOK'
        BY <1>1, <2>1, InHandIsFrame
        DEF TypeOK, StoreFrame, CamOnly, stopVars, clientVars
    <2>3. SlotIsOwn'
        BY <1>1, <2>1, CameraAssumption
        DEF SlotIsOwn, StoreFrame, CamOnly, stopVars, clientVars, LateKnown,
            Connected, TypeOK, Connections, CameraAssumption
    <2>4. (Connected /\ OwnFrames)'
        BY <1>1 DEF StoreFrame, CamOnly, stopVars, clientVars, Connected, OwnFrames, TypeOK
    <2>6. \A c \in Connections : InHand(c)' = InHand(c)
        <3>. SUFFICES ASSUME NEW c \in Connections PROVE InHand(c)' = InHand(c)
            OBVIOUS
        <3>1. frames' = frames /\ (cam'[c] = "read" <=> cam[c] = "read")
            BY <1>1 DEF StoreFrame, TypeOK
        <3>. QED
            BY <3>1 DEF InHand
    <2>7. LateKnown'
        BY <1>1, <2>6 DEF StoreFrame, CamOnly, stopVars, clientVars, LateKnown, Leaving,
                          TypeOK
    <2>5. (EventMeansFrame /\ FrameAnnounced)'
        BY <1>1, <2>1 DEF StoreFrame, CamOnly, stopVars, clientVars, EventMeansFrame,
                          FrameAnnounced, Using, TypeOK
    <2>. QED
        BY <2>2, <2>3, <2>4, <2>5, <2>7
<1>2. ASSUME ReadFrame(d) \/ Notify(d) \/ ReadFails(d) \/ ThreadEnds(d)
      PROVE  CameraInv'
    <2>. USE <1>2 DEF ReadFrame, Notify, ReadFails, ThreadEnds, Again, CamOnly,
                      stopVars, clientVars
    <2>1. TypeOK'
        <3>1. failures' \in [Connections -> 0 .. MaxFailures + 1]
            BY CameraAssumption DEF TypeOK, CameraAssumption
        <3>2. cam' \in [Connections -> {"none", "read", "store", "notify"}]
            BY DEF TypeOK
        <3>3. frames' \in [Connections -> Nat]
            BY DEF TypeOK
        <3>4. newFrame' \in BOOLEAN
            BY DEF TypeOK
        <3>. QED
            BY <3>1, <3>2, <3>3, <3>4 DEF TypeOK
    <2>2. (SlotIsOwn /\ OwnFrames)'
        BY DEF SlotIsOwn, OwnFrames
    <2>3. Connected'
        BY DEF Connected, TypeOK
    <2>4. LateKnown'
        <3>1. ASSUME NEW c \in Connections, cam[c]' # "none"
              PROVE  cam[c] # "none" /\ (InHand(c)' = InHand(c) \/ (c = d /\ ~stop[c]))
            BY <3>1 DEF InHand, TypeOK
        <3>. QED
            BY <3>1 DEF LateKnown, Leaving
    <2>5. EventMeansFrame'
        BY DEF EventMeansFrame, Using, TypeOK
    <2>6. FrameAnnounced'
        BY DEF FrameAnnounced, TypeOK
    <2>. QED
        BY <2>1, <2>2, <2>3, <2>4, <2>5, <2>6
<1>. QED
    BY <1>1, <1>2 DEF ReadLoop

(* A step of the thread that uses the camera.                              *)
LEMMA CameraUsed == CameraInv /\ User => CameraInv'
<1>. SUFFICES ASSUME CameraInv, User PROVE CameraInv'
    OBVIOUS
<1>. USE CameraAssumption
     DEF CameraAssumption, CameraInv, TypeOK, SlotIsOwn, Connected, Leaving, LateKnown,
         OwnFrames, Using, EventMeansFrame, FrameAnnounced, UserOnly, camVars, stopVars,
         InHand
<1>0. NoFrame \in Frames /\ NoFrame.connection = 0
    BY DEF Frames, NoFrame
<1>1. CASE Connect
    <2>1. connection + 1 \in Connections /\ connection \in Nat
        BY <1>1 DEF Connect, Connections
    <2>2. TypeOK'
        <3>1. cam' \in [Connections -> {"none", "read", "store", "notify"}]
            BY <1>1 DEF Connect
        <3>2. connection' \in 0 .. MaxConnections
            BY <1>1 DEF Connect
        <3>3. {slot', got', taken'} \subseteq Frames
            BY <1>1, <1>0 DEF Connect, StartsClean
        <3>4. /\ newFrame' = FALSE /\ opened' = TRUE /\ client' = "idle"
              /\ UNCHANGED <<failures, frames, stop, late>>
            BY <1>1 DEF Connect, StartsClean
        <3>. QED
            BY <3>1, <3>2, <3>3, <3>4
    <2>3. (SlotIsOwn /\ OwnFrames)'
        BY <1>1, <1>0 DEF Connect, StartsClean
    <2>4. Connected'
        BY <1>1, <2>1 DEF Connect, Connections
    <2>7. LateKnown'
        <3>1. ASSUME NEW c \in Connections, cam'[c] # "none", c < connection'
              PROVE  cam[c] # "none" /\ InHand(c)' = InHand(c)
            BY <1>1, <2>1, <3>1 DEF Connect, Connections
        <3>2. client' = "idle" /\ stop' = stop /\ late' = late /\ client = "off"
            BY <1>1 DEF Connect
        <3>. QED
            BY <3>1, <3>2
    <2>5. EventMeansFrame'
        BY <1>1, <2>1 DEF Connect, StartsClean
    <2>6. FrameAnnounced'
        BY <1>1 DEF Connect, StartsClean
    <2>. QED
        BY <2>2, <2>3, <2>4, <2>5, <2>6, <2>7
<1>2. CASE AsyncRead
    BY <1>2 DEF AsyncRead
<1>3. CASE Read
    BY <1>3 DEF Read
<1>4. CASE WaitReturns
    BY <1>4 DEF WaitReturns
<1>5. CASE WaitTimesOut
    BY <1>5 DEF WaitTimesOut
<1>6. CASE TakeFrame
    BY <1>6 DEF TakeFrame
<1>7. CASE ReadLatest
    BY <1>7 DEF ReadLatest
<1>8. CASE Disconnect
    BY <1>8 DEF Disconnect, Connections
<1>9. CASE ClearSlot
    BY <1>9, <1>0 DEF ClearSlot
<1>10. CASE Release
    BY <1>10 DEF Release
<1>11. CASE Disconnected
    <2>1. connection \in Connections /\ connection \in Nat
        BY <1>11 DEF Disconnected, Connections
    <2>2. Alive => InHand(connection) \in Frames
        BY <2>1, InHandIsFrame DEF Alive
    <2>3. TypeOK'
        BY <1>11, <2>2 DEF Disconnected
    <2>4. (Connected /\ LateKnown)'
        BY <1>11, <2>1 DEF Disconnected, Alive, Connections
    <2>5. (SlotIsOwn /\ OwnFrames /\ EventMeansFrame /\ FrameAnnounced)'
        BY <1>11 DEF Disconnected
    <2>. QED
        BY <2>3, <2>4, <2>5
<1>. QED
    BY <1>1, <1>2, <1>3, <1>4, <1>5, <1>6, <1>7, <1>8, <1>9, <1>10, <1>11
    DEF User

(* A step of a reading thread or of the user, or none.                     *)
LEMMA CameraStep == CameraInv /\ [Next]_vars => CameraInv'
<1>1. CameraInv /\ UNCHANGED vars => CameraInv'
    BY DEF CameraInv, TypeOK, SlotIsOwn, Connected, Leaving, LateKnown, InHand, OwnFrames,
           Using, EventMeansFrame, FrameAnnounced, vars, camVars, stopVars, clientVars
<1>. QED
    BY <1>1, CameraReads, CameraUsed DEF Next

(* The invariant holds of every behaviour.                                 *)
LEMMA CameraSafe == Spec => []CameraInv
    BY CameraInit, CameraStep, PTL DEF Spec

(* The slot, the event and the threads keep their types.                  *)
THEOREM CameraTypes == Spec => []TypeOK
    BY CameraSafe, PTL DEF CameraInv

(* What a read returns is of the connection it was called in, or the one   *)
(* frame an earlier thread had in hand when both joins had given up on it. *)
THEOREM FramesAreOwn == Spec => []OwnFrames
    BY CameraSafe, PTL DEF CameraInv

(* No reader waits beside a frame nobody took, and none is told of a frame *)
(* that is not there, unless a thread outlived both joins.                 *)
THEOREM EventsTellSlots == Spec => []EventTellsSlot
<1>1. CameraInv => EventTellsSlot
    BY DEF CameraInv, EventTellsSlot, FrameWithEvent, EventMeansFrame, Using
<1>. QED
    BY <1>1, CameraSafe, PTL
=============================================================================
