---------------------------- MODULE SentryRecorder ----------------------------
(***************************************************************************)
(* A rollout that records: the control thread of lerobot/rollout/          *)
(* strategies/sentry.py, the DatasetWriter of lerobot/datasets/            *)
(* dataset_writer.py it records with, the encoding threads of              *)
(* StreamingEncoder, and the worker that pushes to the Hub meanwhile.      *)
(***************************************************************************)
EXTENDS StreamingEncoder

CONSTANTS
    UploadEvery,    \* upload_every_n_episodes
    MetadataBuffer, \* _metadata_buffer_size, 10 in the code
    MaxFrames       \* bounds the frames recorded

ASSUME RecorderAssumption ==
    {UploadEvery, MetadataBuffer, MaxFrames} \subseteq Nat \ {0}

VARIABLES
    pc, key,        \* where the control thread is, and at which camera
    ending,         \* the segment's loop has ended
    size,           \* episode_buffer["size"]
    torn,           \* add_frame raised between two features of a frame
    rows,           \* the data files, a frame in each row
    videos,         \* the video files of each camera
    episodes,       \* what the metadata says of each episode
    unflushed,      \* how many of them are still in _metadata_buffer
    made,           \* the metadata of the videos of the episode being saved
    poisoned,       \* _dataset_poisoned
    lock,           \* who holds _episode_lock
    worker,         \* where the worker of _push_executor is
    submitted,      \* the pushes it has to do
    sincePush,      \* _episodes_since_push
    needsPush,      \* _needs_push
    finalized,      \* the writers are closed: files have their footers
    hub,            \* what the last push uploaded: see OnDisk
    pushFailed      \* a push raised

controlVars == <<pc, key, ending, size, torn>>
diskVars == <<rows, videos, episodes, unflushed, made, finalized>>
pushVars == <<worker, submitted, needsPush, hub, pushFailed>>
vars == <<encoderVars, controlVars, diskVars, poisoned, lock, sincePush, pushVars>>

Tick == {"tick", "check", "put"}
Saving == {"lock", "data", "sentinel", "join", "cleanup", "video", "commit"}
Failing == {"failed", "latch", "cancel", "drain"}

Videos == [from : Nat, to : Nat, lost : Nat, cut : BOOLEAN]

TypeOK ==
    /\ EncoderTypeOK
    /\ pc \in {"off", "tail", "register", "submit", "shutdown", "close",
               "final", "done"} \cup Tick \cup Saving \cup Failing
    /\ key \in Keys
    /\ ending \in BOOLEAN /\ torn \in BOOLEAN
    /\ size \in 0 .. MaxFrames
    /\ rows \in Seq(Frames)
    /\ videos \in [Keys -> Seq(Frames)]
    /\ episodes \in Seq([take : Takes, from : Nat, to : Nat,
                         videos : [Keys -> Videos]])
    /\ unflushed \in 0 .. MetadataBuffer - 1
    /\ made \in [Keys -> Videos]
    /\ poisoned \in BOOLEAN /\ finalized \in BOOLEAN
    /\ lock \in {"free", "control", "worker"}
    /\ worker \in {"idle", "wait", "look", "upload", "clear"}
    /\ submitted \in Nat
    /\ sincePush \in 0 .. UploadEvery - 1
    /\ needsPush \in BOOLEAN
    /\ hub \in [info : Nat, episodes : Nat, footers : BOOLEAN]
    /\ pushFailed \in BOOLEAN

NoVideo == [from |-> 0, to |-> 0, lost |-> 0, cut |-> FALSE]

Init ==
    /\ EncoderInit
    /\ pc = "off" /\ key = 1 /\ ending = FALSE
    /\ size = 0 /\ torn = FALSE
    /\ rows = <<>> /\ videos = [c \in Keys |-> <<>>]
    /\ episodes = <<>> /\ unflushed = 0 /\ made = [c \in Keys |-> NoVideo]
    /\ poisoned = FALSE
    /\ lock = "free"
    /\ worker = "idle" /\ submitted = 0 /\ sincePush = 0
    /\ needsPush = FALSE /\ finalized = FALSE
    /\ hub = [info |-> 0, episodes |-> 0, footers |-> FALSE]
    /\ pushFailed = FALSE

-----------------------------------------------------------------------------
(* run(): frames, episodes that are complete, and the tail.                *)

ControlOnly == UNCHANGED <<encoderVars, diskVars, poisoned, lock, sincePush, pushVars>>

NextKey(at, then) ==
    IF key < Cameras THEN key' = key + 1 /\ pc' = at
                     ELSE key' = 1 /\ pc' = then

(* Mutant: a segment begins whatever the last save did.                    *)
StartWhatever ==
    /\ pc = "off"
    /\ ~torn
    /\ pc' = "tick"
    /\ ending' = FALSE
    /\ UNCHANGED <<key, size, torn>>
    /\ ControlOnly

(* A segment that raised was the last: its dataset is poisoned, or its     *)
(* first frame is torn and its caller gives up.                            *)
StartSegment ==
    /\ pc = "off"
    /\ ~poisoned /\ ~torn
    /\ pc' = "tick"
    /\ ending' = FALSE
    /\ UNCHANGED <<key, size, torn>>
    /\ ControlOnly

(* add_frame: the first frame of an episode starts the encoder.            *)
AddFrame ==
    /\ pc = "tick"
    /\ Len(rows) + size < MaxFrames
    /\ IF size = 0 THEN take < MaxTakes /\ StartEpisode
                   ELSE UNCHANGED encoderVars
    /\ pc' = "check"
    /\ UNCHANGED <<key, ending, size, torn, diskVars, poisoned, lock,
                   sincePush, pushVars>>

(* feed_frame raises when the thread is dead: the frame is incomplete, and *)
(* the segment ends.                                                       *)
FeedRaises ==
    /\ pc = "check"
    /\ Thread(key).status # "running"
    /\ torn' = TRUE
    /\ pc' = "tail" /\ ending' = TRUE
    /\ key' = 1
    /\ UNCHANGED size
    /\ ControlOnly

FeedChecks ==
    /\ pc = "check"
    /\ Thread(key).status = "running"
    /\ pc' = "put"
    /\ UNCHANGED <<key, ending, size, torn>>
    /\ ControlOnly

FeedFrame ==
    /\ pc = "put"
    /\ PutFrame(key, [take |-> take, no |-> size + 1])
    /\ NextKey("check", "tick")
    /\ size' = IF key = Cameras THEN size + 1 ELSE size
    /\ UNCHANGED <<ending, torn, diskVars, poisoned, lock, sincePush, pushVars>>

(* The episode's duration is over, however many frames it has.             *)
Rotate ==
    /\ pc = "tick"
    /\ pc' = "lock"
    /\ UNCHANGED <<key, ending, size, torn>>
    /\ ControlOnly

LoopEnds ==
    /\ pc = "tick"
    /\ pc' = "tail" /\ ending' = TRUE
    /\ UNCHANGED <<key, size, torn>>
    /\ ControlOnly

(* _save_tail_episode.                                                     *)
SaveTail ==
    /\ pc = "tail"
    /\ pc' = IF poisoned \/ size = 0 THEN "off" ELSE "lock"
    /\ UNCHANGED <<key, ending, size, torn>>
    /\ ControlOnly

-----------------------------------------------------------------------------
(* save_episode, under _episode_lock.                                      *)

AcquireLock ==
    /\ pc = "lock"
    /\ lock = "free"
    /\ lock' = "control"
    /\ pc' = "data"
    /\ UNCHANGED <<encoderVars, key, ending, size, torn, diskVars, poisoned,
                   sincePush, pushVars>>

(* An empty buffer does not validate; of a torn one, the columns have      *)
(* different lengths.                                                      *)
BufferRefused ==
    /\ pc = "data"
    /\ size = 0 \/ torn
    /\ pc' = "failed"
    /\ UNCHANGED <<key, ending, size, torn>>
    /\ ControlOnly

EpisodeRows == [i \in 1 .. size |-> [take |-> take, no |-> i]]

(* The rows are on disk before anything of the episode is in the metadata. *)
WriteRows ==
    /\ pc = "data"
    /\ size > 0 /\ ~torn
    /\ rows' = rows \o EpisodeRows
    /\ pc' = "sentinel"
    /\ UNCHANGED <<encoderVars, key, ending, size, torn, videos, episodes,
                   unflushed, made, finalized, poisoned, lock, sincePush, pushVars>>

SendSentinel ==
    /\ pc = "sentinel"
    /\ PutSentinel(key)
    /\ NextKey("sentinel", "join")
    /\ UNCHANGED <<ending, size, torn, diskVars, poisoned, lock, sincePush, pushVars>>

(* The thread ended: "ok" is collected, "error" raised.                    *)
JoinThread ==
    /\ pc = "join"
    /\ Thread(key).status = "ok"
    /\ NextKey("join", "cleanup")
    /\ UNCHANGED <<ending, size, torn>>
    /\ ControlOnly

JoinRaises ==
    /\ pc = "join"
    /\ Thread(key).status = "error"
    /\ pc' = "failed" /\ key' = 1
    /\ UNCHANGED <<ending, size, torn>>
    /\ ControlOnly

JoinTimesOut ==
    /\ pc = "join"
    /\ GiveUp(key)
    /\ NextKey("join", "cleanup")
    /\ UNCHANGED <<ending, size, torn, diskVars, poisoned, lock, sincePush, pushVars>>

CleanupEpisode ==
    /\ pc = "cleanup"
    /\ Cleanup
    /\ pc' = "video"
    /\ UNCHANGED <<key, ending, size, torn, diskVars, poisoned, lock, sincePush, pushVars>>

LatestTo(c) ==
    IF episodes = <<>> THEN 0 ELSE episodes[Len(episodes)].videos[c].to

(* A file with frames, and closed by its thread.                           *)
VideoReadable == Thread(key).status # "running" /\ Thread(key).video # <<>>

(* _save_episode_video: the file joins the camera's.                       *)
SaveVideo ==
    /\ pc = "video"
    /\ VideoReadable
    /\ LET video == Thread(key).video IN
         /\ videos' = [videos EXCEPT ![key] =
                            IF episodes = <<>> THEN video ELSE @ \o video]
         /\ made' = [made EXCEPT ![key] =
                [from |-> LatestTo(key), to |-> LatestTo(key) + Len(video),
                 lost |-> dropped[key], cut |-> Thread(key).stop]]
    /\ NextKey("video", "commit")
    /\ UNCHANGED <<encoderVars, ending, size, torn, rows, episodes, unflushed,
                   finalized, poisoned, lock, sincePush, pushVars>>

(* The thread was given up: its file has no end yet, or is not there.      *)
VideoUnreadable ==
    /\ pc = "video"
    /\ ~VideoReadable
    /\ pc' = "failed" /\ key' = 1
    /\ UNCHANGED <<ending, size, torn>>
    /\ ControlOnly

(* Writing fails.                                                          *)
SaveFails ==
    /\ pc \in {"data", "video", "commit"}
    /\ CountError
    /\ pc' = "failed" /\ key' = 1
    /\ UNCHANGED <<ending, size, torn, diskVars, poisoned, lock, sincePush, pushVars>>

LatestRow == IF episodes = <<>> THEN 0 ELSE episodes[Len(episodes)].to

(* Of the buffered metadata, what is still in memory when an episode joins *)
(* it: all, or nothing before it when a file that exists is full.          *)
Held == {unflushed} \cup IF unflushed < Len(episodes) THEN {0} ELSE {}

(* meta.save_episode: the metadata is buffered, and written when there is  *)
(* enough of it; the lock is free again.                                   *)
Commit ==
    /\ pc = "commit"
    /\ \E held \in Held :
            unflushed' = IF held + 1 < MetadataBuffer THEN held + 1 ELSE 0
    /\ episodes' = Append(episodes,
            [take |-> take, from |-> LatestRow, to |-> LatestRow + size,
             videos |-> made])
    /\ made' = [c \in Keys |-> NoVideo]
    /\ size' = 0
    /\ lock' = "free"
    /\ pc' = "register"
    /\ UNCHANGED <<encoderVars, key, ending, torn, rows, videos, finalized,
                   poisoned, sincePush, pushVars>>

-----------------------------------------------------------------------------
(* _checked_save_episode when save_episode raises: the lock is released    *)
(* first, and then the dataset is poisoned and the buffer cleared.         *)

ReleaseOnError ==
    /\ pc = "failed"
    /\ lock' = "free"
    /\ pc' = "latch"
    /\ UNCHANGED <<encoderVars, key, ending, size, torn, diskVars, poisoned,
                   sincePush, pushVars>>

Poison ==
    /\ pc = "latch"
    /\ poisoned' = TRUE
    /\ pc' = "cancel"
    /\ UNCHANGED <<encoderVars, key, ending, size, torn, diskVars,
                   lock, sincePush, pushVars>>

(* clear_episode_buffer, and the error goes on: the segment is over.       *)
CancelEpisode ==
    /\ pc = "cancel"
    /\ recording
    /\ StopThreads
    /\ pc' = "drain"
    /\ UNCHANGED <<key, ending, size, torn, diskVars, poisoned, lock, sincePush, pushVars>>

DrainQueues ==
    /\ pc = "drain"
    /\ Cleanup
    /\ pc' = "off" /\ size' = 0 /\ torn' = FALSE
    /\ UNCHANGED <<key, ending, diskVars, poisoned, lock, sincePush, pushVars>>

ClearBuffer ==
    /\ pc = "cancel"
    /\ ~recording
    /\ pc' = "off" /\ size' = 0 /\ torn' = FALSE
    /\ UNCHANGED <<key, ending>>
    /\ ControlOnly

-----------------------------------------------------------------------------
(* _register_saved_episode and _background_push.                           *)

After == IF ending THEN "off" ELSE "tick"

Register ==
    /\ pc = "register"
    /\ needsPush' = TRUE
    /\ IF sincePush + 1 >= UploadEvery
       THEN pc' = "submit" /\ UNCHANGED sincePush
       ELSE pc' = After /\ sincePush' = sincePush + 1
    /\ UNCHANGED <<encoderVars, key, ending, size, torn, diskVars, poisoned,
                   lock, worker, submitted, hub, pushFailed>>

SubmitPush ==
    /\ pc = "submit"
    /\ submitted' = IF poisoned THEN submitted ELSE submitted + 1
    /\ sincePush' = 0
    /\ pc' = After
    /\ UNCHANGED <<encoderVars, key, ending, size, torn, diskVars, poisoned,
                   lock, worker, needsPush, hub, pushFailed>>

(* teardown(): the worker finishes what was submitted, the writers are     *)
(* closed, and the dataset is pushed when the last pushes left something.  *)
Teardown ==
    /\ pc = "off"
    /\ pc' = "shutdown"
    /\ UNCHANGED <<key, ending, size, torn>>
    /\ ControlOnly

ShutdownExecutor ==
    /\ pc = "shutdown"
    /\ submitted = 0 /\ worker = "idle"
    /\ pc' = "close"
    /\ UNCHANGED <<key, ending, size, torn>>
    /\ ControlOnly

(* An episode whose first frame is torn is still active. The buffered      *)
(* metadata is written before the writers are closed.                      *)
Finalize ==
    /\ pc = "close"
    /\ Close
    /\ unflushed' = 0
    /\ finalized' = TRUE
    /\ pc' = IF ~poisoned /\ needsPush THEN "final" ELSE "done"
    /\ UNCHANGED <<key, ending, size, torn, rows, videos, episodes,
                   made, poisoned, lock, sincePush, pushVars>>

(* What upload_folder finds in the dataset's directory: info.json counts   *)
(* every episode, the metadata files have only those that were flushed.    *)
OnDisk == [info |-> Len(episodes), episodes |-> Len(episodes) - unflushed,
           footers |-> finalized]

FinalPush ==
    /\ pc = "final"
    /\ \/ hub' = OnDisk /\ UNCHANGED <<pushFailed, encoderVars>>
       \/ pushFailed' = TRUE /\ CountError /\ UNCHANGED hub
    /\ pc' = "done"
    /\ UNCHANGED <<key, ending, size, torn, diskVars, poisoned,
                   lock, sincePush, worker, submitted, needsPush>>

Save ==
    \/ AcquireLock \/ BufferRefused \/ WriteRows \/ SendSentinel \/ JoinThread
    \/ JoinRaises \/ CleanupEpisode \/ SaveVideo \/ VideoUnreadable \/ Commit
    \/ ReleaseOnError \/ Poison \/ CancelEpisode \/ DrainQueues \/ ClearBuffer

-----------------------------------------------------------------------------
(* The worker: _push().                                                    *)

WorkerOnly == UNCHANGED <<encoderVars, controlVars, diskVars, poisoned, sincePush>>

TakePush ==
    /\ worker = "idle"
    /\ submitted > 0
    /\ submitted' = submitted - 1
    /\ worker' = "wait"
    /\ UNCHANGED <<lock, needsPush, hub, pushFailed>>
    /\ WorkerOnly

LockForPush ==
    /\ worker = "wait"
    /\ lock = "free"
    /\ lock' = "worker"
    /\ worker' = "look"
    /\ UNCHANGED <<submitted, needsPush, hub, pushFailed>>
    /\ WorkerOnly

(* Mutant: the dataset is only looked at when a push is submitted.         *)
LookNoMore ==
    /\ worker = "look"
    /\ worker' = "upload"
    /\ UNCHANGED <<lock, submitted, needsPush, hub, pushFailed>>
    /\ WorkerOnly

(* Poisoned while queued, or not.                                          *)
LookAgain ==
    /\ worker = "look"
    /\ worker' = IF poisoned THEN "idle" ELSE "upload"
    /\ lock' = IF poisoned THEN "free" ELSE lock
    /\ UNCHANGED <<submitted, needsPush, hub, pushFailed>>
    /\ WorkerOnly

(* Mutant: the lock is released before _needs_push is cleared.             *)
UploadUnlocked ==
    /\ worker = "upload"
    /\ hub' = OnDisk
    /\ worker' = "clear"
    /\ lock' = "free"
    /\ UNCHANGED <<submitted, needsPush, pushFailed>>
    /\ WorkerOnly

Upload ==
    /\ worker = "upload"
    /\ hub' = OnDisk
    /\ worker' = "clear"
    /\ UNCHANGED <<lock, submitted, needsPush, pushFailed>>
    /\ WorkerOnly

UploadFails ==
    /\ worker = "upload"
    /\ CountError
    /\ pushFailed' = TRUE
    /\ worker' = "idle"
    /\ lock' = "free"
    /\ UNCHANGED <<submitted, needsPush, hub, controlVars, diskVars, poisoned, sincePush>>

ClearNeedsPush ==
    /\ worker = "clear"
    /\ needsPush' = FALSE
    /\ lock' = "free"
    /\ worker' = "idle"
    /\ UNCHANGED <<submitted, hub, pushFailed>>
    /\ WorkerOnly

Worker == TakePush \/ LockForPush \/ LookAgain \/ Upload \/ UploadFails \/ ClearNeedsPush

Encoders ==
    /\ \E k \in Takes, c \in Keys : EncoderThread(k, c)
    /\ UNCHANGED <<controlVars, diskVars, poisoned, lock, sincePush, pushVars>>

Next ==
    \/ StartSegment \/ AddFrame \/ FeedRaises \/ FeedChecks \/ FeedFrame
    \/ Rotate \/ LoopEnds \/ SaveTail \/ Save \/ JoinTimesOut \/ SaveFails
    \/ Register \/ SubmitPush \/ Teardown \/ ShutdownExecutor \/ Finalize
    \/ FinalPush \/ Worker \/ Encoders

Spec == Init /\ [][Next]_vars

(* A save goes on when it can, the worker works, and so does each thread.  *)
Fairness ==
    /\ SF_vars(AcquireLock)
    /\ WF_vars(Save)
    /\ WF_vars(Worker)
    /\ \A k \in Takes, c \in Keys : WF_vars(Encoders /\ EncoderThread(k, c))

FairSpec == Spec /\ Fairness

-----------------------------------------------------------------------------
FramesOf(k, n) == [i \in 1 .. n |-> [take |-> k, no |-> i]]

(* The rows an episode's metadata gives are the frames of its take, all    *)
(* and in order.                                                           *)
RowsTrue(e) ==
    SubSeq(rows, e.from + 1, e.to) = FramesOf(e.take, e.to - e.from)

(* So are its videos, of which only the frames are missing that were       *)
(* counted as dropped, unless their thread had to be given up.             *)
VideosTrue(e) ==
    \A c \in Keys :
        LET v == e.videos[c]
            video == SubSeq(videos[c], v.from + 1, v.to)
        IN  /\ \A i \in DOMAIN video : video[i].take = e.take
            /\ \A i, j \in DOMAIN video : i < j => video[i].no < video[j].no
            /\ v.cut \/ Len(video) + v.lost = e.to - e.from

(* What the metadata says of the episodes is so, whatever failed.          *)
EpisodesWhole == \A i \in DOMAIN episodes :
                    RowsTrue(episodes[i]) /\ VideosTrue(episodes[i])

RowsKnown == Len(rows) = LatestRow

(* No push begins on a dataset that a save left halfway, but in the moment *)
(* between the release of the lock and the latch.                          *)
PushesWhole ==
    [][worker' = "upload" /\ worker # "upload" => RowsKnown \/ pc = "latch"]_vars

(* "pushing it would grow/upload corruption": no push begins then (sentry.py) *)
NeverPushesHalf ==
    [][worker' = "upload" /\ worker # "upload" => RowsKnown]_vars

(* A recorder that ended well has pushed since its last save: info.json    *)
(* counts every episode, and of the metadata less than one buffer is       *)
(* missing, nothing of it when the push came after finalize().             *)
SavesPushed ==
    pc = "done" /\ ~poisoned /\ ~pushFailed =>
        /\ hub.info = Len(episodes)
        /\ hub.info - hub.episodes \in 0 .. MetadataBuffer - 1
        /\ hub.footers => hub.episodes = hub.info

(* It does not hold that the metadata of every episode is on the Hub: a    *)
(* background push uploads what was flushed (dataset_metadata.py), and     *)
(* with no later episode there is no final push (sentry.py).               *)
NothingUnpushed ==
    pc = "done" /\ ~poisoned /\ ~pushFailed => hub.episodes = Len(episodes)

(* And with the footers without which "the dataset will be invalid"        *)
(* (lerobot_dataset.py).                                                   *)
PushedWithFooters ==
    pc = "done" /\ ~poisoned /\ ~pushFailed /\ episodes # <<>> => hub.footers

DeadAndFull == \E c \in Keys : Thread(c).status = "error" /\ ~HasRoom(c)

(* A save ends, with a result or an error, unless it waits to put the      *)
(* sentinel into the full queue of a thread that died.                     *)
SaveEnds == pc \in Saving \cup Failing
                ~> (pc \notin Saving \cup Failing
                        \/ (pc = "sentinel" /\ DeadAndFull))
=============================================================================
