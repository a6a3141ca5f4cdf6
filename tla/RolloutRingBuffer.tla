-------------------------- MODULE RolloutRingBuffer --------------------------
(***************************************************************************)
(* lerobot/rollout/ring_buffer.py: the last frames of a rollout, bounded   *)
(* in number by the deque's maxlen and in bytes by the buffer itself.  A   *)
(* frame is its number in the rollout and its estimated size.              *)
(***************************************************************************)
EXTENDS Integers, Sequences, FiniteSetsExt, Functions

CONSTANTS
    MaxFrames,      \* _max_frames
    MaxBytes,       \* _max_bytes
    FrameBytes      \* what _estimate_frame_bytes returns, never 0

ASSUME RingAssumption ==
    /\ MaxFrames \in Nat \ {0}
    /\ MaxBytes \in Nat
    /\ FrameBytes \subseteq Nat \ {0}

VARIABLES
    buffer,         \* _buffer
    currentBytes    \* _current_bytes

ringVars == <<buffer, currentBytes>>

Frames == [no : Nat, bytes : FrameBytes]

RingTypeOK ==
    /\ buffer \in Seq(Frames)
    /\ Len(buffer) <= MaxFrames
    /\ currentBytes \in Nat

RingInit == buffer = <<>> /\ currentBytes = 0

Bytes(frames) == SumFunction([i \in 1 .. Len(frames) |-> frames[i].bytes])
First(n) == SubSeq(buffer, 1, n)
From(n) == SubSeq(buffer, n, Len(buffer))

(* Mutant: one frame is popped at most.                                    *)
EvictedIf(bytes) ==
    IF currentBytes + bytes > MaxBytes /\ buffer # <<>> THEN 1 ELSE 0

(* How many frames the while loop pops to make room for the given bytes.   *)
Evicted(bytes) ==
    Min({n \in 0 .. Len(buffer) :
            \/ n = Len(buffer)
            \/ currentBytes - Bytes(First(n)) + bytes <= MaxBytes})

(* Mutant: a deque without maxlen.                                         *)
DequeAppendUnbounded(frames, frame) == Append(frames, frame)

(* Appending to a full deque drops its first frame, and nothing else.      *)
DequeAppend(frames, frame) ==
    Append(IF Len(frames) = MaxFrames THEN Tail(frames) ELSE frames, frame)

RingAppend(frame) ==
    LET n == Evicted(frame.bytes)
    IN  /\ buffer' = DequeAppend(From(n + 1), frame)
        /\ currentBytes' = currentBytes - Bytes(First(n)) + frame.bytes

(* drain's effect; what it returns is the buffer before.                   *)
RingDrain == buffer' = <<>> /\ currentBytes' = 0

-----------------------------------------------------------------------------
(* The memory cap holds of the frames in the buffer, not only of the       *)
(* counter, unless one frame alone is larger than the cap.                 *)
CapHonoured == Bytes(buffer) <= MaxBytes \/ Len(buffer) = 1

(* estimated_bytes is the size of the buffered frames, as its docstring    *)
(* says.                                                                   *)
BytesAccounted == currentBytes = Bytes(buffer)
=============================================================================
