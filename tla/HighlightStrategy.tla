-------------------------- MODULE HighlightStrategy --------------------------
(***************************************************************************)
(* lerobot/rollout/strategies/highlight.py: the control loop keeps the     *)
(* last frames in the ring buffer; a key pressed in the listener's thread  *)
(* flushes them into the dataset's episode and goes on recording live,     *)
(* pressed again it saves the episode.  The dataset is what the strategy   *)
(* sees of it: add_frame appends to the episode, save_episode closes it,   *)
(* and either may raise.                                                   *)
(***************************************************************************)
EXTENDS RolloutRingBuffer

CONSTANTS
    MaxRecorded,    \* bound: frames of the rollout
    MaxErrors       \* bound: calls of the dataset that raise

ASSUME HighlightAssumption == MaxRecorded \in Nat /\ MaxErrors \in Nat

VARIABLES
    loop,           \* where the control loop is
    frame,          \* the frame of this tick
    saveRequested,  \* _save_requested, set by the listener's thread
    recordingLive,  \* _recording_live
    shutdown,       \* shutdown_event
    episode,        \* the dataset's episode buffer
    saved,          \* the episodes saved
    errors          \* calls that raised

keyVars == <<saveRequested, shutdown>>
dataVars == <<recordingLive, episode, saved>>
vars == <<ringVars, loop, frame, keyVars, dataVars, errors>>

(* At the top of the loop; a frame is built; the request was seen set; it  *)
(* was cleared; leaving the loop; gone.                                    *)
Places == {"tick", "frame", "requested", "toggled", "finally", "done"}

TypeOK ==
    /\ RingTypeOK
    /\ loop \in Places
    /\ frame \in [no : Nat, bytes : FrameBytes \union {0}]
    /\ saveRequested \in BOOLEAN
    /\ recordingLive \in BOOLEAN
    /\ shutdown \in BOOLEAN
    /\ episode \in Seq(Frames)
    /\ saved \in Seq(Seq(Frames))
    /\ errors \in 0 .. MaxErrors

Init ==
    /\ RingInit
    /\ loop = "tick"
    /\ frame = [no |-> 0, bytes |-> 0]
    /\ saveRequested = FALSE
    /\ recordingLive = FALSE
    /\ shutdown = FALSE
    /\ episode = <<>>
    /\ saved = <<>>
    /\ errors = 0

-----------------------------------------------------------------------------
(* The control loop.                                                       *)

BuildFrame ==
    /\ loop = "tick" /\ ~shutdown
    /\ frame.no < MaxRecorded
    /\ \E b \in FrameBytes : frame' = [no |-> frame.no + 1, bytes |-> b]
    /\ loop' = "frame"
    /\ UNCHANGED <<ringVars, keyVars, dataVars, errors>>

SeeRequest ==
    /\ loop = "frame" /\ saveRequested
    /\ loop' = "requested"
    /\ UNCHANGED <<ringVars, frame, keyVars, dataVars, errors>>

(* A press between the two calls is cleared with the one that was seen.    *)
ClearRequest ==
    /\ loop = "requested"
    /\ saveRequested' = FALSE
    /\ loop' = "toggled"
    /\ UNCHANGED <<ringVars, frame, shutdown, dataVars, errors>>

BufferFrame ==
    /\ loop = "frame" /\ ~saveRequested /\ ~recordingLive
    /\ RingAppend(frame)
    /\ loop' = "tick"
    /\ UNCHANGED <<frame, keyVars, dataVars, errors>>

RecordFrame ==
    /\ loop = "frame" /\ ~saveRequested /\ recordingLive
    /\ episode' = Append(episode, frame)
    /\ loop' = "tick"
    /\ UNCHANGED <<ringVars, frame, keyVars, recordingLive, saved, errors>>

(* Mutant: live recording starts with the next frame.                      *)
StartLiveLate ==
    /\ loop = "toggled" /\ ~recordingLive
    /\ episode' = episode \o buffer
    /\ RingDrain
    /\ recordingLive' = TRUE
    /\ loop' = "tick"
    /\ UNCHANGED <<frame, keyVars, saved, errors>>

(* The ring is flushed to the dataset, and this frame follows it.          *)
StartLive ==
    /\ loop = "toggled" /\ ~recordingLive
    /\ episode' = episode \o Append(buffer, frame)
    /\ RingDrain
    /\ recordingLive' = TRUE
    /\ loop' = "tick"
    /\ UNCHANGED <<frame, keyVars, saved, errors>>

(* Mutant: the frame that is consumed is buffered too.                     *)
FinishLiveBuffering ==
    /\ loop = "toggled" /\ recordingLive
    /\ saved' = Append(saved, Append(episode, frame))
    /\ episode' = <<>>
    /\ recordingLive' = FALSE
    /\ RingAppend(frame)
    /\ loop' = "tick"
    /\ UNCHANGED <<frame, keyVars, errors>>

(* Mutant: this frame goes to neither the episode nor the ring.            *)
FinishLiveSkipping ==
    /\ loop = "toggled" /\ recordingLive
    /\ saved' = Append(saved, episode)
    /\ episode' = <<>>
    /\ recordingLive' = FALSE
    /\ loop' = "tick"
    /\ UNCHANGED <<ringVars, frame, keyVars, errors>>

FinishLive ==
    /\ loop = "toggled" /\ recordingLive
    /\ saved' = Append(saved, Append(episode, frame))
    /\ episode' = <<>>
    /\ recordingLive' = FALSE
    /\ loop' = "tick"
    /\ UNCHANGED <<ringVars, frame, keyVars, errors>>

-----------------------------------------------------------------------------
(* What a call of the dataset that raises leaves behind.                   *)

Raise ==
    /\ errors < MaxErrors
    /\ errors' = errors + 1
    /\ loop' = "finally"
    /\ UNCHANGED <<frame, keyVars, recordingLive, saved>>

(* The ring was emptied before the first add_frame.                        *)
FlushFails ==
    /\ loop = "toggled" /\ ~recordingLive
    /\ Raise
    /\ \E n \in 0 .. Len(buffer) - 1 : episode' = episode \o First(n)
    /\ RingDrain

(* The frame that follows the flush; _recording_live is already set.       *)
FirstLiveFails ==
    /\ loop = "toggled" /\ ~recordingLive
    /\ errors < MaxErrors
    /\ errors' = errors + 1
    /\ episode' = episode \o buffer
    /\ RingDrain
    /\ recordingLive' = TRUE
    /\ loop' = "finally"
    /\ UNCHANGED <<frame, keyVars, saved>>

RecordFails ==
    /\ \/ loop = "frame" /\ ~saveRequested
       \/ loop = "toggled"
    /\ recordingLive
    /\ Raise
    /\ UNCHANGED <<ringVars, episode>>

(* save_episode takes the buffer apart first, so the one in finally finds  *)
(* nothing it can save, and what it raises is suppressed.                  *)
SaveFails ==
    /\ loop = "toggled" /\ recordingLive
    /\ errors < MaxErrors
    /\ errors' = errors + 1
    /\ episode' = <<>>
    /\ loop' = "done"
    /\ UNCHANGED <<ringVars, frame, keyVars, recordingLive, saved>>

(* shutdown_event is set, the duration is over, or the robot raises.       *)
LeaveLoop ==
    /\ loop = "tick"
    /\ loop' = "finally"
    /\ UNCHANGED <<ringVars, frame, keyVars, dataVars, errors>>

(* An episode in progress is saved; whatever that raises is suppressed.    *)
Finally ==
    /\ loop = "finally"
    /\ loop' = "done"
    /\ \/ /\ recordingLive
          /\ saved' = Append(saved, episode)
          /\ episode' = <<>>
          /\ UNCHANGED errors
       \/ /\ recordingLive
          /\ errors < MaxErrors
          /\ errors' = errors + 1
          /\ UNCHANGED <<episode, saved>>
       \/ /\ ~recordingLive
          /\ UNCHANGED <<episode, saved, errors>>
    /\ UNCHANGED <<ringVars, frame, keyVars, recordingLive>>

-----------------------------------------------------------------------------
(* The listener's thread: dispatch.                                        *)

PressSave ==
    /\ loop # "done" /\ ~saveRequested
    /\ saveRequested' = TRUE
    /\ UNCHANGED <<ringVars, loop, frame, shutdown, dataVars, errors>>

PressEsc ==
    /\ loop # "done"
    /\ shutdown => saveRequested    \* pressed again: only the request is undone
    /\ saveRequested' = FALSE
    /\ shutdown' = TRUE
    /\ UNCHANGED <<ringVars, loop, frame, dataVars, errors>>

Done == loop = "done" /\ UNCHANGED vars

Next ==
    \/ BuildFrame \/ SeeRequest \/ ClearRequest
    \/ BufferFrame \/ RecordFrame \/ StartLive \/ FinishLive
    \/ FlushFails \/ FirstLiveFails \/ RecordFails \/ SaveFails
    \/ LeaveLoop \/ Finally
    \/ PressSave \/ PressEsc
    \/ Done

Spec == Init /\ [][Next]_vars

-----------------------------------------------------------------------------
Consecutive(frames) ==
    \A i \in 1 .. Len(frames) - 1 : frames[i + 1].no = frames[i].no + 1

(* An episode is one stretch of the rollout: flushing the ring and going   *)
(* live leaves no gap and repeats no frame, whenever the key is pressed    *)
(* and whatever the ring evicted.                                          *)
EpisodesUnbroken ==
    /\ Consecutive(episode)
    /\ \A i \in 1 .. Len(saved) : Consecutive(saved[i])

(* No frame is in two episodes, or in an episode and in the ring.          *)
FramesOnce ==
    LET episodes == saved \o <<episode, buffer>>
    IN  \A i, j \in 1 .. Len(episodes) : i < j =>
            \A f \in Range(episodes[i]), g \in Range(episodes[j]) :
                f.no < g.no

(* At the top of the loop the last frame of the rollout is where the next  *)
(* one will follow it: in the episode being recorded, in the ring, or at   *)
(* the end of the episode just saved.                                      *)
NothingSkipped ==
    loop = "tick" /\ frame.no > 0 =>
        LET last == IF recordingLive THEN episode
                    ELSE IF buffer # <<>> THEN buffer
                    ELSE saved[Len(saved)]
        IN  last[Len(last)].no = frame.no
=============================================================================
