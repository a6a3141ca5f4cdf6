---------------------------- MODULE CameraThread -----------------------------
(***************************************************************************)
(* lerobot/cameras/opencv/camera_opencv.py: the thread that reads frames   *)
(* from the device into one slot, and the thread that connects the camera, *)
(* takes frames and disconnects.  A frame is the connection it was read in *)
(* and its number; the slot is written and read under frame_lock.          *)
(*                                                                         *)
(* Both joins of disconnect() have a timeout.  A thread that outlives them *)
(* runs on beside that of the next connection; its stop_event is its own.  *)
(***************************************************************************)
EXTENDS Integers

CONSTANTS
    MaxFailures,    \* failure_count beyond which the thread raises
    MaxFrames,      \* bounds the frames of one connection
    MaxConnections  \* bounds the connections

ASSUME CameraAssumption == {MaxFailures, MaxFrames, MaxConnections} \subseteq Nat

VARIABLES
    slot,           \* latest_frame
    newFrame,       \* new_frame_event
    stop,           \* the stop_event of each connection's thread
    opened,         \* the device is open
    cam,            \* where each connection's thread is
    failures,       \* its failure_count
    frames,         \* how many frames it read
    late,           \* what threads had in hand that outlived both joins
    connection,
    client,         \* where the thread that uses the camera is
    got,            \* what async_read or read_latest returned last
    taken           \* the last frame async_read took, or read() skipped

camVars == <<cam, failures, frames>>
clientVars == <<client, got, taken>>
stopVars == <<stop, late>>
vars == <<slot, newFrame, stopVars, opened, connection, camVars, clientVars>>

Connections == 1 .. MaxConnections

NoFrame == [connection |-> 0, no |-> 0]
Frames == [connection : Nat \ {0}, no : Nat \ {0}] \cup {NoFrame}

TypeOK ==
    /\ {slot, got, taken} \subseteq Frames
    /\ newFrame \in BOOLEAN /\ opened \in BOOLEAN
    /\ stop \in [Connections -> BOOLEAN]
    /\ cam \in [Connections -> {"none", "read", "store", "notify"}]
    /\ failures \in [Connections -> 0 .. MaxFailures + 1]
    /\ frames \in [Connections -> Nat]
    /\ late \subseteq Frames
    /\ connection \in 0 .. MaxConnections
    /\ client \in {"off", "idle", "wait", "take", "join", "release", "rejoin"}

Init ==
    /\ slot = NoFrame /\ newFrame = FALSE
    /\ stop = [c \in Connections |-> FALSE] /\ late = {} /\ opened = FALSE
    /\ cam = [c \in Connections |-> "none"]
    /\ failures = [c \in Connections |-> 0]
    /\ frames = [c \in Connections |-> 0]
    /\ connection = 0
    /\ client = "off"
    /\ got = NoFrame /\ taken = NoFrame

-----------------------------------------------------------------------------
(* The reading threads.                                                    *)

CamOnly == UNCHANGED <<stopVars, opened, connection, clientVars>>

(* Mutant: the thread looks at self.stop_event, which the next connection  *)
(* replaced.                                                               *)
AgainShared(c) ==
    cam' = [cam EXCEPT ![c] = IF stop[connection] THEN "none" ELSE "read"]

(* The loop's condition, after every frame or failure.                     *)
Again(c) == cam' = [cam EXCEPT ![c] = IF stop[c] THEN "none" ELSE "read"]

(* The device may give a frame after it was asked to stop.                 *)
ReadFrame(c) ==
    /\ cam[c] = "read"
    /\ frames[c] < MaxFrames
    /\ frames' = [frames EXCEPT ![c] = @ + 1]
    /\ cam' = [cam EXCEPT ![c] = "store"]
    /\ UNCHANGED <<slot, newFrame, failures>>
    /\ CamOnly

StoreFrame(c) ==
    /\ cam[c] = "store"
    /\ slot' = [connection |-> c, no |-> frames[c]]
    /\ cam' = [cam EXCEPT ![c] = "notify"]
    /\ UNCHANGED <<newFrame, failures, frames>>
    /\ CamOnly

(* Mutant: only a user who waits is told.                                  *)
NotifyWaiting(c) ==
    /\ cam[c] = "notify"
    /\ newFrame' = (client = "wait")
    /\ failures' = [failures EXCEPT ![c] = 0]
    /\ Again(c)
    /\ UNCHANGED <<slot, frames>>
    /\ CamOnly

Notify(c) ==
    /\ cam[c] = "notify"
    /\ newFrame' = TRUE
    /\ failures' = [failures EXCEPT ![c] = 0]
    /\ Again(c)
    /\ UNCHANGED <<slot, frames>>
    /\ CamOnly

(* Mutant: one failure more than the thread should bear.                   *)
ReadFailsOnceMore(c) ==
    /\ cam[c] = "read"
    /\ failures[c] <= MaxFailures + 1
    /\ failures' = [failures EXCEPT ![c] = @ + 1]
    /\ Again(c)
    /\ UNCHANGED <<slot, newFrame, frames>>
    /\ CamOnly

ReadFails(c) ==
    /\ cam[c] = "read"
    /\ failures[c] <= MaxFailures
    /\ failures' = [failures EXCEPT ![c] = @ + 1]
    /\ Again(c)
    /\ UNCHANGED <<slot, newFrame, frames>>
    /\ CamOnly

(* Too many failures in a row, or the device was released.                 *)
ThreadEnds(c) ==
    /\ cam[c] = "read"
    /\ failures[c] > MaxFailures \/ ~opened
    /\ cam' = [cam EXCEPT ![c] = "none"]
    /\ UNCHANGED <<slot, newFrame, failures, frames>>
    /\ CamOnly

ReadLoop(c) ==
    ReadFrame(c) \/ StoreFrame(c) \/ Notify(c) \/ ReadFails(c) \/ ThreadEnds(c)

-----------------------------------------------------------------------------
(* The user.                                                               *)

StartsClean == slot' = NoFrame /\ newFrame' = FALSE

(* connect(): the device opens and _start_read_thread runs, which begins   *)
(* with _stop_read_thread.                                                 *)
Connect ==
    /\ client = "off"
    /\ connection < MaxConnections
    /\ connection' = connection + 1
    /\ opened' = TRUE
    /\ StartsClean
    /\ cam' = [cam EXCEPT ![connection + 1] = "read"]
    /\ client' = "idle"
    /\ got' = NoFrame /\ taken' = NoFrame
    /\ UNCHANGED <<failures, frames, stopVars>>

UserOnly == UNCHANGED <<camVars, connection>>

(* self.thread.is_alive()                                                  *)
Alive == cam[connection] # "none"

(* async_read, and read(), which first clears the event to wait for the    *)
(* next frame.  Both refuse when the thread is not alive.                  *)
AsyncRead ==
    /\ client = "idle"
    /\ Alive
    /\ client' = "wait"
    /\ UNCHANGED <<slot, newFrame, stopVars, opened, got, taken>>
    /\ UserOnly

Read ==
    /\ client = "idle"
    /\ Alive
    /\ newFrame' = FALSE
    /\ taken' = slot
    /\ client' = "wait"
    /\ UNCHANGED <<slot, stopVars, opened, got>>
    /\ UserOnly

WaitReturns ==
    /\ client = "wait"
    /\ newFrame
    /\ client' = "take"
    /\ UNCHANGED <<slot, newFrame, stopVars, opened, got, taken>>
    /\ UserOnly

WaitTimesOut ==
    /\ client = "wait"
    /\ ~newFrame
    /\ client' = "idle"
    /\ UNCHANGED <<slot, newFrame, stopVars, opened, got, taken>>
    /\ UserOnly

(* Under frame_lock: the frame and the event.                              *)
TakeFrame ==
    /\ client = "take"
    /\ got' = slot
    /\ taken' = slot
    /\ newFrame' = FALSE
    /\ client' = "idle"
    /\ UNCHANGED <<slot, stopVars, opened>>
    /\ UserOnly

(* read_latest, when the frame is not too old.                             *)
ReadLatest ==
    /\ client = "idle"
    /\ Alive
    /\ slot # NoFrame
    /\ got' = slot
    /\ UNCHANGED <<slot, newFrame, stopVars, opened, taken, client>>
    /\ UserOnly

(* disconnect(): _cleanup_resources, in four steps.                        *)
Disconnect ==
    /\ client = "idle"
    /\ stop' = [stop EXCEPT ![connection] = TRUE]
    /\ client' = "join"
    /\ UNCHANGED <<slot, newFrame, late, opened, got, taken>>
    /\ UserOnly

(* The join ends with the thread, or gives up on it.                       *)
ClearSlot ==
    /\ client = "join"
    /\ slot' = NoFrame /\ newFrame' = FALSE
    /\ client' = "release"
    /\ UNCHANGED <<stopVars, opened, got, taken>>
    /\ UserOnly

(* Releasing the device may unblock the read.                              *)
Release ==
    /\ client = "release"
    /\ opened' = FALSE
    /\ client' = "rejoin"
    /\ UNCHANGED <<slot, newFrame, stopVars, got, taken>>
    /\ UserOnly

(* What a thread is reading, or has read last.                             *)
InHand(c) == [connection |-> c,
              no |-> IF cam[c] = "read" THEN frames[c] + 1 ELSE frames[c]]

(* The second join, which may also give up.                                *)
Disconnected ==
    /\ client = "rejoin"
    /\ client' = "off"
    /\ late' = IF Alive THEN late \cup {InHand(connection)} ELSE late
    /\ UNCHANGED <<slot, newFrame, stop, opened, got, taken>>
    /\ UserOnly

User ==
    \/ Connect \/ AsyncRead \/ Read \/ WaitReturns \/ WaitTimesOut \/ TakeFrame
    \/ ReadLatest \/ Disconnect \/ ClearSlot \/ Release \/ Disconnected

Next == (\E c \in Connections : ReadLoop(c)) \/ User

Spec == Init /\ [][Next]_vars

-----------------------------------------------------------------------------
(* A frame is of the connection it was asked in, although a thread may     *)
(* store one after the join that gave up on it.  Of a thread that outlived *)
(* both joins of its disconnect(), a later connection may be given the one *)
(* frame it had in hand then, and no other.                                *)
OwnFrames ==
    client # "off" => got.connection \in {0, connection} \/ got \in late

(* Nothing an earlier connection read is ever returned.                    *)
NoLateFrames == client # "off" => got.connection \in {0, connection}

(* A frame that nobody took is announced or about to be, so a reader does  *)
(* not wait beside it.                                                     *)
FrameAnnounced ==
    /\ client \in {"idle", "wait", "take"} /\ slot \notin {NoFrame, taken}
    /\ \A c \in Connections : cam[c] # "notify"
    => newFrame

(* "Internal error: Event set but no frame available" is raised only where *)
(* a thread that outlived both joins set the event after the slot was      *)
(* cleared.                                                                *)
FrameWithEvent == client = "take" => slot # NoFrame \/ late # {}

(* The event and the slot agree, though they are not set together.         *)
EventTellsSlot == FrameAnnounced /\ FrameWithEvent

(* "this method return the latest unconsumed frame, waiting if necessary   *)
(* for a new one" (camera.py).                                             *)
FramesTakenOnce == [][client = "take" /\ client' = "idle" => taken' # taken]_vars
=============================================================================
