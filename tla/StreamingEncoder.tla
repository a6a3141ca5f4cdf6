--------------------------- MODULE StreamingEncoder ---------------------------
(***************************************************************************)
(* StreamingVideoEncoder and _CameraEncoderThread of lerobot/datasets/     *)
(* video_utils.py: one thread for each camera of each take (an episode     *)
(* being recorded), which encodes what the recording thread puts into its  *)
(* queue.  The operations are steps of the recording thread, which         *)
(* SentryRecorder composes.                                                *)
(***************************************************************************)
EXTENDS Integers, Sequences

CONSTANTS
    Cameras,        \* how many video keys the dataset has
    QueueSize,      \* queue_maxsize
    MaxTakes,       \* bounds the takes
    MaxErrors       \* bounds what fails or takes too long

ASSUME EncoderAssumption ==
    /\ {Cameras, QueueSize, MaxTakes} \subseteq Nat \ {0}
    /\ MaxErrors \in Nat

Keys == 1 .. Cameras
Takes == 1 .. MaxTakes
Frames == [take : Takes, no : Nat \ {0}]
End == [take |-> 0, no |-> 0]       \* the sentinel None

VARIABLES
    take,           \* the take whose threads the dictionaries hold
    recording,      \* _episode_active
    threads,        \* for each take and key: the thread, its queue and file
    dropped,        \* _dropped_frames
    errors

encoderVars == <<take, recording, threads, dropped, errors>>

Idle == [queue |-> <<>>, stop |-> FALSE, status |-> "none", video |-> <<>>]

EncoderTypeOK ==
    /\ take \in Takes \cup {0}
    /\ recording \in BOOLEAN
    /\ threads \in [Takes -> [Keys ->
            [queue : Seq(Frames \cup {End}), stop : BOOLEAN,
             status : {"none", "running", "ok", "error"}, video : Seq(Frames)]]]
    /\ \A k \in Takes, c \in Keys : Len(threads[k][c].queue) <= QueueSize
    /\ dropped \in [Keys -> Nat]
    /\ errors \in 0 .. MaxErrors

EncoderInit ==
    /\ take = 0 /\ recording = FALSE
    /\ threads = [k \in Takes |-> [c \in Keys |-> Idle]]
    /\ dropped = [c \in Keys |-> 0]
    /\ errors = 0

-----------------------------------------------------------------------------
(* What the recording thread does.                                         *)

Thread(c) == threads[take][c]

(* Mutant: a queue without a limit.                                        *)
HasRoomAlways(c) == TRUE

HasRoom(c) == Len(Thread(c).queue) < QueueSize

(* start_episode: new threads with new queues.                             *)
StartEpisode ==
    /\ take' = take + 1
    /\ recording' = TRUE
    /\ threads' = [threads EXCEPT ![take + 1] =
                        [c \in Keys |-> [Idle EXCEPT !.status = "running"]]]
    /\ dropped' = [c \in Keys |-> 0]
    /\ UNCHANGED errors

CountDropped(c) == [dropped EXCEPT ![c] = @ + 1]

(* The put of feed_frame, which gives up on a full queue.                  *)
PutFrame(c, frame) ==
    /\ IF HasRoom(c)
       THEN /\ threads' = [threads EXCEPT ![take][c].queue = Append(@, frame)]
            /\ UNCHANGED dropped
       ELSE dropped' = CountDropped(c) /\ UNCHANGED threads
    /\ UNCHANGED <<take, recording, errors>>

(* finish_episode waits for room for the sentinel.                         *)
PutSentinel(c) ==
    /\ HasRoom(c)
    /\ threads' = [threads EXCEPT ![take][c].queue = Append(@, End)]
    /\ UNCHANGED <<take, recording, dropped, errors>>

(* Its join gives up on a thread that is too slow, and stops it.           *)
GiveUp(c) ==
    /\ Thread(c).status = "running"
    /\ errors < MaxErrors
    /\ threads' = [threads EXCEPT ![take][c].stop = TRUE]
    /\ errors' = errors + 1
    /\ UNCHANGED <<take, recording, dropped>>

(* cancel_episode signals every thread, if an episode is active; the joins *)
(* that follow time out.                                                   *)
StopThreads ==
    /\ threads' = [threads EXCEPT ![take] =
                        [c \in Keys |-> [@[c] EXCEPT !.stop = TRUE]]]
    /\ UNCHANGED <<take, recording, dropped, errors>>

(* _cleanup, also of the queue of a thread that is still running.          *)
Cleanup ==
    /\ threads' = [threads EXCEPT ![take] =
                        [c \in Keys |-> [@[c] EXCEPT !.queue = <<>>]]]
    /\ recording' = FALSE
    /\ UNCHANGED <<take, dropped, errors>>

(* close() cancels the episode a segment left behind.                      *)
Close ==
    /\ threads' = IF recording
                  THEN [threads EXCEPT ![take] = [c \in Keys |->
                            [@[c] EXCEPT !.stop = TRUE, !.queue = <<>>]]]
                  ELSE threads
    /\ recording' = FALSE
    /\ UNCHANGED <<take, dropped, errors>>

(* Something outside the encoder fails.                                    *)
CountError ==
    /\ errors < MaxErrors
    /\ errors' = errors + 1
    /\ UNCHANGED <<take, recording, threads, dropped>>

-----------------------------------------------------------------------------
(* What a thread does: run().                                              *)

Encode(k, c) ==
    /\ threads[k][c].status = "running"
    /\ threads[k][c].queue # <<>>
    /\ Head(threads[k][c].queue) # End
    /\ threads' = [threads EXCEPT
                      ![k][c].queue = Tail(@),
                      ![k][c].video = Append(@, Head(threads[k][c].queue))]
    /\ UNCHANGED <<take, recording, dropped, errors>>

(* An exception ends the thread; the file it wrote is closed.              *)
EncodeFails(k, c) ==
    /\ threads[k][c].status = "running"
    /\ threads[k][c].queue # <<>>
    /\ errors < MaxErrors
    /\ threads' = [threads EXCEPT ![k][c].queue = Tail(@),
                                  ![k][c].status = "error"]
    /\ errors' = errors + 1
    /\ UNCHANGED <<take, recording, dropped>>

(* Mutant: the thread looks for a stop only.                               *)
FlushOnStop(k, c) ==
    LET t == threads[k][c] IN
    /\ t.status = "running"
    /\ t.queue = <<>> /\ t.stop
    /\ threads' = [threads EXCEPT ![k][c].status = "ok"]
    /\ UNCHANGED <<take, recording, dropped, errors>>

(* The sentinel, or a stop seen when there is nothing left to encode.      *)
FlushAndClose(k, c) ==
    LET t == threads[k][c] IN
    /\ t.status = "running"
    /\ \/ t.queue # <<>> /\ Head(t.queue) = End
       \/ t.queue = <<>> /\ t.stop
    /\ threads' = [threads EXCEPT
                      ![k][c].queue = IF @ = <<>> THEN @ ELSE Tail(@),
                      ![k][c].status = "ok"]
    /\ UNCHANGED <<take, recording, dropped, errors>>

EncoderThread(k, c) ==
    Encode(k, c) \/ EncodeFails(k, c) \/ FlushAndClose(k, c)
=============================================================================
