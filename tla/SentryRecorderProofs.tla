------------------------- MODULE SentryRecorderProofs -------------------------
(***************************************************************************)
(* What the run of SentryRecorder shows of a few cameras, frames and       *)
(* errors, proved for any number of them: types, what a push uploads, what *)
(* is left to be pushed, and that every episode is what its metadata says. *)
(***************************************************************************)
EXTENDS SentryRecorder, TLAPS

-----------------------------------------------------------------------------
(* The encoder.                                                            *)

ThreadType == [queue : Seq(Frames \cup {End}), stop : BOOLEAN,
               status : {"none", "running", "ok", "error"}, video : Seq(Frames)]

ThreadOK(t) == t \in ThreadType /\ Len(t.queue) <= QueueSize

ThreadsOK(all) ==
    /\ all \in [Takes -> [Keys -> ThreadType]]
    /\ \A k \in Takes, c \in Keys : ThreadOK(all[k][c])

(* The encoder's types, in terms of its threads.                           *)
LEMMA EncoderTypes ==
    EncoderTypeOK <=>
        /\ take \in Takes \cup {0}
        /\ recording \in BOOLEAN
        /\ ThreadsOK(threads)
        /\ dropped \in [Keys -> Nat]
        /\ errors \in 0 .. MaxErrors
    BY DEF EncoderTypeOK, ThreadsOK, ThreadOK, ThreadType

(* The state of one thread changes.                                        *)
LEMMA ThreadChanges ==
    ASSUME ThreadsOK(threads), NEW k \in Takes, NEW c \in Keys,
           NEW t, ThreadOK(t)
    PROVE  ThreadsOK([threads EXCEPT ![k][c] = t])
    BY DEF ThreadsOK, ThreadOK

(* Those of all threads of a take.                                         *)
LEMMA TakeChanges ==
    ASSUME ThreadsOK(threads), NEW k \in Takes,
           NEW f \in [Keys -> ThreadType], \A c \in Keys : ThreadOK(f[c])
    PROVE  ThreadsOK([threads EXCEPT ![k] = f])
    BY DEF ThreadsOK, ThreadOK

(* The queue, the stop flag, the status and the video of a thread.         *)
LEMMA ThreadUpdates ==
    ASSUME NEW t, ThreadOK(t)
    PROVE  /\ \A q \in Seq(Frames \cup {End}) :
                Len(q) <= QueueSize => ThreadOK([t EXCEPT !.queue = q])
           /\ ThreadOK([t EXCEPT !.stop = TRUE])
           /\ \A s \in {"ok", "error"} : ThreadOK([t EXCEPT !.status = s])
           /\ \A v \in Seq(Frames) : ThreadOK([t EXCEPT !.video = v])
    BY DEF ThreadOK, ThreadType

(* A thread that has only been created.                                    *)
LEMMA IdleThread ==
    ThreadOK(Idle) /\ ThreadOK([Idle EXCEPT !.status = "running"])
<1>1. FALSE \in BOOLEAN
    BY Zenon
<1>2. <<>> \in Seq(Frames \cup {End}) /\ <<>> \in Seq(Frames) /\ Len(<<>>) <= QueueSize
    BY EncoderAssumption DEF EncoderAssumption
<1>3. Idle \in ThreadType
    BY <1>1, <1>2 DEF ThreadType, Idle
<1>4. [Idle EXCEPT !.status = "running"] \in ThreadType
    BY <1>3 DEF ThreadType
<1>5. Idle.queue = <<>> /\ [Idle EXCEPT !.status = "running"].queue = <<>>
    BY DEF Idle
<1>. QED
    BY <1>2, <1>3, <1>4, <1>5 DEF ThreadOK

(* A new take: new threads.                                                *)
LEMMA StartKeeps ==
    EncoderTypeOK /\ take < MaxTakes /\ StartEpisode => EncoderTypeOK' /\ take' \in Takes
<1>. SUFFICES ASSUME EncoderTypeOK, take < MaxTakes, StartEpisode
              PROVE  EncoderTypeOK' /\ take' \in Takes
    OBVIOUS
<1>. USE EncoderAssumption DEF EncoderAssumption, StartEpisode
<1>1. take + 1 \in Takes
    BY DEF EncoderTypeOK, Takes
<1>2. PICK t : t = [Idle EXCEPT !.status = "running"]
    OBVIOUS
<1>3. ThreadOK(t) /\ t \in ThreadType
    BY <1>2, IdleThread DEF ThreadOK
<1>4. ThreadsOK([threads EXCEPT ![take + 1] = [c \in Keys |-> t]])
    <2>1. /\ [c \in Keys |-> t] \in [Keys -> ThreadType]
          /\ \A c \in Keys : ThreadOK([d \in Keys |-> t][c])
        BY <1>3
    <2>. QED
        BY <1>1, <2>1, TakeChanges, EncoderTypes
<1>5. ThreadsOK(threads')
    BY <1>2, <1>4
<1>. QED
    BY <1>1, <1>5 DEF EncoderTypeOK, ThreadsOK, ThreadOK, ThreadType

(* A frame or the sentinel is put into a queue with room.                  *)
LEMMA PutKeeps ==
    ASSUME EncoderTypeOK, take \in Takes, NEW c \in Keys
    PROVE  /\ \A f \in Frames : PutFrame(c, f) => EncoderTypeOK'
           /\ PutSentinel(c) => EncoderTypeOK'
<1>. USE EncoderAssumption DEF EncoderAssumption
<1>1. PICK t : t = threads[take][c]
    OBVIOUS
<1>2. ThreadOK(t) /\ t.queue \in Seq(Frames \cup {End})
    BY <1>1, EncoderTypes DEF ThreadsOK, ThreadOK, ThreadType
<1>3. ASSUME NEW f \in Frames \cup {End}, Len(t.queue) < QueueSize
      PROVE  ThreadsOK([threads EXCEPT ![take][c].queue = Append(@, f)])
    <2>1. PICK q : q = Append(t.queue, f)
        OBVIOUS
    <2>2. q \in Seq(Frames \cup {End}) /\ Len(q) <= QueueSize
        BY <1>2, <1>3, <2>1
    <2>3. PICK u : u = [t EXCEPT !.queue = q]
        OBVIOUS
    <2>4. ThreadOK(u)
        BY <1>2, <2>2, <2>3, ThreadUpdates
    <2>5. ThreadsOK([threads EXCEPT ![take][c] = u])
        BY <2>4, ThreadChanges, EncoderTypes
    <2>6. [threads EXCEPT ![take][c].queue = Append(@, f)]
            = [threads EXCEPT ![take][c] = u]
        BY <1>1, <2>1, <2>3, EncoderTypes DEF ThreadsOK, ThreadType
    <2>. QED
        BY <2>5, <2>6
<1>4. ASSUME NEW f \in Frames, PutFrame(c, f) PROVE EncoderTypeOK'
    <2>1. CASE HasRoom(c)
        <3>1. ThreadsOK(threads')
            BY <1>1, <1>3, <1>4, <2>1 DEF PutFrame, HasRoom, Thread
        <3>. QED
            BY <1>4, <2>1, <3>1
            DEF PutFrame, EncoderTypeOK, ThreadsOK, ThreadOK, ThreadType
    <2>2. CASE ~HasRoom(c)
        <3>1. dropped' \in [Keys -> Nat]
            BY <1>4, <2>2 DEF PutFrame, CountDropped, EncoderTypeOK
        <3>. QED
            BY <1>4, <2>2, <3>1 DEF PutFrame, EncoderTypeOK
    <2>. QED
        BY <2>1, <2>2
<1>5. ASSUME PutSentinel(c) PROVE EncoderTypeOK'
    <2>1. ThreadsOK(threads')
        BY <1>1, <1>3, <1>5 DEF PutSentinel, HasRoom, Thread
    <2>. QED
        BY <1>5, <2>1
        DEF PutSentinel, EncoderTypeOK, ThreadsOK, ThreadOK, ThreadType
<1>. QED
    BY <1>4, <1>5

(* A thread is stopped, or all of a take; queues are emptied.              *)
LEMMA StopsKeep ==
    ASSUME EncoderTypeOK
    PROVE  /\ \A c \in Keys : take \in Takes /\ GiveUp(c) => EncoderTypeOK'
           /\ take \in Takes /\ (StopThreads \/ Cleanup) => EncoderTypeOK'
           /\ (recording => take \in Takes) /\ Close => EncoderTypeOK'
           /\ CountError => EncoderTypeOK'
<1>. USE EncoderAssumption DEF EncoderAssumption
<1>1. ThreadsOK(threads)
    BY EncoderTypes
<1>2. ASSUME NEW t, ThreadOK(t)
      PROVE  /\ ThreadOK([t EXCEPT !.stop = TRUE])
             /\ ThreadOK([t EXCEPT !.queue = <<>>])
             /\ ThreadOK([t EXCEPT !.stop = TRUE, !.queue = <<>>])
    <2>1. <<>> \in Seq(Frames \cup {End}) /\ Len(<<>>) <= QueueSize
        OBVIOUS
    <2>2. ThreadOK([t EXCEPT !.stop = TRUE]) /\ ThreadOK([t EXCEPT !.queue = <<>>])
        BY <1>2, <2>1, ThreadUpdates
    <2>3. ThreadOK([[t EXCEPT !.stop = TRUE] EXCEPT !.queue = <<>>])
        BY <2>1, <2>2, ThreadUpdates
    <2>. QED
        BY <2>2, <2>3
<1>3. ASSUME NEW c \in Keys, take \in Takes, GiveUp(c) PROVE EncoderTypeOK'
    <2>1. ThreadOK(threads[take][c])
        BY <1>1, <1>3 DEF ThreadsOK
    <2>2. PICK u : u = [threads[take][c] EXCEPT !.stop = TRUE]
        OBVIOUS
    <2>3. ThreadsOK([threads EXCEPT ![take][c] = u])
        BY <1>1, <1>2, <1>3, <2>1, <2>2, ThreadChanges
    <2>4. ThreadsOK(threads')
        BY <1>1, <1>3, <2>2, <2>3 DEF GiveUp, ThreadsOK, ThreadType
    <2>5. errors' \in 0 .. MaxErrors
        BY <1>3 DEF GiveUp, EncoderTypeOK
    <2>6. UNCHANGED <<take, recording, dropped>>
        BY <1>3 DEF GiveUp
    <2>. QED
        BY <2>4, <2>5, <2>6 DEF EncoderTypeOK, ThreadsOK, ThreadOK, ThreadType
<1>4. ASSUME take \in Takes,
             NEW f, f \in {[c \in Keys |-> [threads[take][c] EXCEPT !.stop = TRUE]],
                           [c \in Keys |-> [threads[take][c] EXCEPT !.queue = <<>>]],
                           [c \in Keys |-> [threads[take][c] EXCEPT
                                                !.stop = TRUE, !.queue = <<>>]]}
      PROVE  ThreadsOK([threads EXCEPT ![take] = f])
    <2>1. \A c \in Keys : ThreadOK(threads[take][c])
        BY <1>1, <1>4 DEF ThreadsOK
    <2>2. ASSUME NEW c \in Keys PROVE ThreadOK(f[c])
        <3>1. PICK t : t = threads[take][c]
            OBVIOUS
        <3>2. f[c] \in {[t EXCEPT !.stop = TRUE], [t EXCEPT !.queue = <<>>],
                        [t EXCEPT !.stop = TRUE, !.queue = <<>>]}
            BY <1>4, <3>1
        <3>. QED
            BY <1>2, <2>1, <3>1, <3>2
    <2>3. f \in [Keys -> ThreadType]
        <3>1. f = [c \in Keys |-> f[c]]
            BY <1>4
        <3>. QED
            BY <2>2, <3>1 DEF ThreadOK
    <2>. QED
        BY <1>1, <1>4, <2>2, <2>3, TakeChanges
<1>5. ASSUME take \in Takes, StopThreads \/ Cleanup PROVE EncoderTypeOK'
    <2>1. ThreadsOK(threads')
        BY <1>4, <1>5 DEF StopThreads, Cleanup
    <2>2. recording' \in BOOLEAN
        BY <1>5, Zenon DEF StopThreads, Cleanup, EncoderTypeOK
    <2>. QED
        BY <1>5, <2>1, <2>2
        DEF StopThreads, Cleanup, EncoderTypeOK, ThreadsOK, ThreadOK, ThreadType
<1>6. ASSUME recording => take \in Takes, Close PROVE EncoderTypeOK'
    <2>1. ThreadsOK(threads')
        <3>1. CASE recording
            BY <1>4, <1>6, <3>1 DEF Close
        <3>2. CASE ~recording
            BY <1>1, <1>6, <3>2 DEF Close
        <3>. QED
            BY <3>1, <3>2
    <2>2. recording' \in BOOLEAN
        BY <1>6, Zenon DEF Close
    <2>. QED
        BY <1>6, <2>1, <2>2
        DEF Close, EncoderTypeOK, ThreadsOK, ThreadOK, ThreadType
<1>7. CountError => EncoderTypeOK'
    BY DEF CountError, EncoderTypeOK
<1>. QED
    BY <1>3, <1>5, <1>6, <1>7

(* A thread encodes, fails or ends.                                        *)
LEMMA ThreadKeeps ==
    ASSUME EncoderTypeOK, NEW k \in Takes, NEW c \in Keys, EncoderThread(k, c)
    PROVE  EncoderTypeOK'
<1>. USE EncoderAssumption DEF EncoderAssumption
<1>1. ThreadsOK(threads)
    BY EncoderTypes
<1>2. PICK t : t = threads[k][c]
    OBVIOUS
<1>3. /\ ThreadOK(t)
      /\ t.queue \in Seq(Frames \cup {End}) /\ t.video \in Seq(Frames)
      /\ Len(t.queue) <= QueueSize
    BY <1>1, <1>2 DEF ThreadsOK, ThreadOK, ThreadType
<1>4. t.queue # <<>> =>
        /\ Tail(t.queue) \in Seq(Frames \cup {End})
        /\ Len(Tail(t.queue)) <= QueueSize
        /\ Head(t.queue) \in Frames \cup {End}
    BY <1>3
<1>5. CASE Encode(k, c)
    <2>1. PICK q, v : q = Tail(t.queue) /\ v = Append(t.video, Head(t.queue))
        OBVIOUS
    <2>2. /\ q \in Seq(Frames \cup {End}) /\ Len(q) <= QueueSize
          /\ v \in Seq(Frames)
        BY <1>2, <1>3, <1>4, <1>5, <2>1 DEF Encode
    <2>3. PICK u : u = [[t EXCEPT !.queue = q] EXCEPT !.video = v]
        OBVIOUS
    <2>4. ThreadOK([t EXCEPT !.queue = q])
        BY <1>3, <2>2, ThreadUpdates
    <2>5. ThreadOK(u)
        BY <2>2, <2>3, <2>4, ThreadUpdates
    <2>6. ThreadsOK([threads EXCEPT ![k][c] = u])
        BY <1>1, <2>5, ThreadChanges
    <2>7. threads' = [threads EXCEPT ![k][c] = u]
        BY <1>1, <1>2, <1>5, <2>1, <2>3 DEF Encode, ThreadsOK, ThreadType
    <2>. QED
        BY <1>5, <2>6, <2>7
        DEF Encode, EncoderTypeOK, ThreadsOK, ThreadOK, ThreadType
<1>6. CASE EncodeFails(k, c) \/ FlushAndClose(k, c)
    <2>1. PICK q, s : /\ q = IF t.queue = <<>> THEN t.queue ELSE Tail(t.queue)
                      /\ s = IF EncodeFails(k, c) THEN "error" ELSE "ok"
        OBVIOUS
    <2>2. q \in Seq(Frames \cup {End}) /\ Len(q) <= QueueSize /\ s \in {"ok", "error"}
        BY <1>3, <1>4, <2>1
    <2>3. PICK u : u = [[t EXCEPT !.queue = q] EXCEPT !.status = s]
        OBVIOUS
    <2>4. ThreadOK([t EXCEPT !.queue = q])
        BY <1>3, <2>2, ThreadUpdates
    <2>5. ThreadOK(u)
        BY <2>2, <2>3, <2>4, ThreadUpdates
    <2>6. ThreadsOK([threads EXCEPT ![k][c] = u])
        BY <1>1, <2>5, ThreadChanges
    <2>7. threads' = [threads EXCEPT ![k][c] = u]
        <3>1. CASE EncodeFails(k, c)
            BY <1>1, <1>2, <2>1, <2>3, <3>1 DEF EncodeFails, ThreadsOK, ThreadType
        <3>2. CASE ~EncodeFails(k, c)
            <4>1. threads' = [threads EXCEPT
                                ![k][c].queue = IF @ = <<>> THEN @ ELSE Tail(@),
                                ![k][c].status = "ok"]
                BY <1>6, <3>2 DEF FlushAndClose
            <4>2. threads' = [threads EXCEPT ![k][c].queue = q,
                                             ![k][c].status = "ok"]
                BY <1>1, <1>2, <2>1, <4>1 DEF ThreadsOK, ThreadType
            <4>. QED
                BY <1>1, <1>2, <2>1, <2>3, <3>2, <4>2 DEF ThreadsOK, ThreadType
        <3>. QED
            BY <3>1, <3>2
    <2>8. errors' \in 0 .. MaxErrors
        BY <1>6 DEF EncodeFails, FlushAndClose, EncoderTypeOK
    <2>9. UNCHANGED <<take, recording, dropped>>
        BY <1>6 DEF EncodeFails, FlushAndClose
    <2>. QED
        BY <2>6, <2>7, <2>8, <2>9
        DEF EncoderTypeOK, ThreadsOK, ThreadOK, ThreadType
<1>. QED
    BY <1>5, <1>6 DEF EncoderThread

-----------------------------------------------------------------------------
(* The recorder.                                                           *)

Written == {"sentinel", "join", "cleanup", "video", "commit"}

(* Where there are frames, there is a take, and room for the next frame.   *)
TakeInv ==
    /\ take \in 0 .. MaxTakes
    /\ pc \in {"check", "put", "drain"} \cup Written \/ recording \/ size > 0
            => take \in Takes
    /\ pc \in {"check", "put"} => size < MaxFrames

(* Who holds _episode_lock.                                                *)
LockInv ==
    /\ lock = "worker" <=> worker \in {"look", "upload", "clear"}
    /\ lock = "control" <=> pc \in {"data", "failed"} \cup Written

(* The rows that no metadata tells of are those of the save under way, of  *)
(* the one that failed, or of a poisoned dataset.                          *)
RowsInv ==
    /\ pc \in Written => Len(rows) = LatestRow + size
    /\ RowsKnown \/ poisoned \/ pc \in Written \cup {"failed", "latch"}
    /\ poisoned => pc \in {"cancel", "drain", "off", "shutdown", "close", "done"}

(* An episode that the Hub does not count is registered, or about to be.   *)
PushInv ==
    /\ worker = "clear" => hub.info = Len(episodes)
    /\ needsPush \/ pc = "register" \/ hub.info = Len(episodes)
    /\ pc \in {"close", "final", "done"} => submitted = 0 /\ worker = "idle"
    /\ pc = "done" /\ ~poisoned /\ ~pushFailed => hub.info = Len(episodes)

(* Of the metadata, less than one buffer is in memory, and as much was     *)
(* missing when it was last uploaded: nothing once the writers are closed. *)
FlushInv ==
    /\ unflushed \in 0 .. MetadataBuffer - 1
    /\ unflushed <= Len(episodes)
    /\ finalized => unflushed = 0 /\ pc \in {"final", "done"}
    /\ hub.info - hub.episodes \in 0 .. MetadataBuffer - 1
    /\ hub.footers => hub.episodes = hub.info

DataTypes ==
    /\ rows \in Seq(Frames)
    /\ videos \in [Keys -> Seq(Frames)]
    /\ episodes \in Seq([take : Takes, from : Nat, to : Nat,
                         videos : [Keys -> Videos]])
    /\ made \in [Keys -> Videos]

ControlTypes ==
    /\ pc \in {"off", "tail", "register", "submit", "shutdown", "close",
               "final", "done"} \cup Tick \cup Saving \cup Failing
    /\ key \in Keys
    /\ size \in 0 .. MaxFrames
    /\ lock \in {"free", "control", "worker"}
    /\ worker \in {"idle", "wait", "look", "upload", "clear"}
    /\ submitted \in Nat
    /\ sincePush \in 0 .. UploadEvery - 1

FlagTypes ==
    /\ ending \in BOOLEAN /\ torn \in BOOLEAN
    /\ poisoned \in BOOLEAN /\ finalized \in BOOLEAN
    /\ needsPush \in BOOLEAN /\ pushFailed \in BOOLEAN

HubType == hub \in [info : Nat, episodes : Nat, footers : BOOLEAN]

BufferType == unflushed \in 0 .. MetadataBuffer - 1

(* The parts of the type invariant.                                        *)
LEMMA TypeParts ==
    TypeOK <=> /\ EncoderTypeOK /\ ControlTypes /\ DataTypes
               /\ FlagTypes /\ HubType /\ BufferType
    BY DEF TypeOK, ControlTypes, DataTypes, FlagTypes, HubType, BufferType

(* The next camera, or what comes after the last.                          *)
LEMMA NextKeyKeeps ==
    ASSUME key \in Keys, NEW at, NEW then, NextKey(at, then)
    PROVE  key' \in Keys /\ pc' \in {at, then}
    BY EncoderAssumption DEF EncoderAssumption, Keys, NextKey

(* The control flow's types: no action leaves its states.                  *)
LEMMA ControlKeeps ==
    ControlTypes /\ TakeInv /\ Next => ControlTypes'
<1>. SUFFICES ASSUME ControlTypes, TakeInv, Next PROVE ControlTypes'
    OBVIOUS
<1>. USE EncoderAssumption, RecorderAssumption
     DEF EncoderAssumption, RecorderAssumption, ControlTypes, TakeInv,
         Tick, Saving, Failing
<1>0. 1 \in Keys
    BY DEF Keys
<1>1. CASE StartSegment \/ AddFrame \/ FeedRaises \/ FeedChecks
    BY <1>0, <1>1 DEF StartSegment, AddFrame, FeedRaises, FeedChecks,
                      ControlOnly, pushVars
<1>10. CASE FeedFrame
    <2>1. key' \in Keys /\ pc' \in {"check", "tick"}
        BY <1>10, NextKeyKeeps DEF FeedFrame
    <2>. QED
        BY <1>10, <2>1 DEF FeedFrame, pushVars
<1>2. CASE Rotate \/ LoopEnds \/ SaveTail \/ SaveFails
    BY <1>0, <1>2 DEF Rotate, LoopEnds, SaveTail, SaveFails, ControlOnly, pushVars
<1>3. CASE AcquireLock \/ BufferRefused \/ WriteRows
    BY <1>3 DEF AcquireLock, BufferRefused, WriteRows, ControlOnly, pushVars
<1>11. CASE SendSentinel \/ JoinThread \/ JoinTimesOut \/ SaveVideo
    <2>1. \/ NextKey("sentinel", "join") \/ NextKey("join", "cleanup")
          \/ NextKey("video", "commit")
        BY <1>11 DEF SendSentinel, JoinThread, JoinTimesOut, SaveVideo
    <2>2. key' \in Keys /\ pc' \in {"sentinel", "join", "cleanup", "video", "commit"}
        BY <2>1, NextKeyKeeps
    <2>3. UNCHANGED <<size, lock, worker, submitted, sincePush>>
        BY <1>11 DEF SendSentinel, JoinThread, JoinTimesOut, SaveVideo,
                     ControlOnly, pushVars
    <2>. QED
        BY <2>2, <2>3
<1>4. CASE JoinRaises \/ CleanupEpisode \/ VideoUnreadable \/ Commit
    BY <1>0, <1>4 DEF JoinRaises, CleanupEpisode, VideoUnreadable, Commit,
                      ControlOnly, pushVars
<1>5. CASE ReleaseOnError \/ Poison \/ CancelEpisode \/ DrainQueues \/ ClearBuffer
    BY <1>5 DEF ReleaseOnError, Poison, CancelEpisode, DrainQueues, ClearBuffer,
                ControlOnly, pushVars
<1>6. CASE Register \/ SubmitPush \/ Teardown \/ ShutdownExecutor
    BY <1>6 DEF Register, SubmitPush, After, Teardown, ShutdownExecutor,
                ControlOnly, pushVars
<1>7. CASE Finalize \/ FinalPush
    BY <1>7 DEF Finalize, FinalPush, ControlOnly, pushVars
<1>8. CASE Worker
    BY <1>8 DEF Worker, TakePush, LockForPush, LookAgain, Upload, UploadFails,
                ClearNeedsPush, WorkerOnly, controlVars
<1>9. CASE Encoders
    BY <1>9 DEF Encoders, controlVars, pushVars
<1>. QED
    BY <1>1, <1>2, <1>3, <1>4, <1>5, <1>6, <1>7, <1>8, <1>9, <1>10, <1>11 DEF Next, Save

(* The flags stay flags.                                                   *)
LEMMA FlagsKeep ==
    FlagTypes /\ Next => FlagTypes'
<1>. SUFFICES ASSUME FlagTypes, Next PROVE FlagTypes'
    OBVIOUS
<1>. USE DEF FlagTypes
<1>1. CASE StartSegment \/ AddFrame \/ FeedRaises \/ FeedChecks \/ FeedFrame
    BY <1>1, Zenon DEF StartSegment, AddFrame, FeedRaises, FeedChecks, FeedFrame,
                ControlOnly, pushVars, diskVars
<1>2. CASE Rotate \/ LoopEnds \/ SaveTail \/ JoinTimesOut \/ SaveFails
    BY <1>2, Zenon DEF Rotate, LoopEnds, SaveTail, JoinTimesOut, SaveFails,
                ControlOnly, pushVars, diskVars
<1>3. CASE AcquireLock \/ BufferRefused \/ WriteRows \/ SendSentinel \/ JoinThread
    BY <1>3, Zenon DEF AcquireLock, BufferRefused, WriteRows, SendSentinel,
                JoinThread, ControlOnly, pushVars, diskVars
<1>4. CASE JoinRaises \/ CleanupEpisode \/ SaveVideo \/ VideoUnreadable \/ Commit
    BY <1>4, Zenon DEF JoinRaises, CleanupEpisode, SaveVideo, VideoUnreadable,
                Commit, ControlOnly, pushVars, diskVars
<1>5. CASE ReleaseOnError \/ Poison \/ CancelEpisode \/ DrainQueues \/ ClearBuffer
    BY <1>5, Zenon DEF ReleaseOnError, Poison, CancelEpisode, DrainQueues,
                ClearBuffer, ControlOnly, pushVars, diskVars
<1>6. CASE Register \/ SubmitPush \/ Teardown \/ ShutdownExecutor
    BY <1>6, Zenon DEF Register, SubmitPush, Teardown, ShutdownExecutor,
                ControlOnly, pushVars, diskVars
<1>7. CASE Finalize \/ FinalPush
    BY <1>7, Zenon DEF Finalize, FinalPush, ControlOnly, pushVars, diskVars
<1>8. CASE Worker
    BY <1>8, Zenon DEF Worker, TakePush, LockForPush, LookAgain, Upload,
                UploadFails, ClearNeedsPush, WorkerOnly, controlVars, diskVars
<1>9. CASE Encoders
    BY <1>9, Zenon DEF Encoders, controlVars, pushVars, diskVars
<1>. QED
    BY <1>1, <1>2, <1>3, <1>4, <1>5, <1>6, <1>7, <1>8, <1>9 DEF Next, Save

(* What no encoder operation but StartEpisode changes is the take.         *)
LEMMA TakeKept ==
    Next /\ ~AddFrame => take' = take
<1>. SUFFICES ASSUME Next, ~AddFrame PROVE take' = take
    OBVIOUS
<1>. USE DEF encoderVars
<1>1. CASE StartSegment \/ FeedRaises \/ FeedChecks \/ FeedFrame
    BY <1>1 DEF StartSegment, FeedRaises, FeedChecks, FeedFrame, PutFrame, ControlOnly
<1>2. CASE Rotate \/ LoopEnds \/ SaveTail \/ JoinTimesOut \/ SaveFails
    BY <1>2 DEF Rotate, LoopEnds, SaveTail, JoinTimesOut, SaveFails,
                GiveUp, CountError, ControlOnly
<1>3. CASE AcquireLock \/ BufferRefused \/ WriteRows \/ SendSentinel \/ JoinThread
    BY <1>3 DEF AcquireLock, BufferRefused, WriteRows, SendSentinel, JoinThread,
                PutSentinel, ControlOnly
<1>4. CASE JoinRaises \/ CleanupEpisode \/ SaveVideo \/ VideoUnreadable \/ Commit
    BY <1>4 DEF JoinRaises, CleanupEpisode, SaveVideo, VideoUnreadable, Commit,
                Cleanup, ControlOnly
<1>5. CASE ReleaseOnError \/ Poison \/ CancelEpisode \/ DrainQueues \/ ClearBuffer
    BY <1>5 DEF ReleaseOnError, Poison, CancelEpisode, DrainQueues, ClearBuffer,
                StopThreads, Cleanup, ControlOnly
<1>6. CASE Register \/ SubmitPush \/ Teardown \/ ShutdownExecutor
    BY <1>6 DEF Register, SubmitPush, Teardown, ShutdownExecutor, ControlOnly
<1>7. CASE Finalize \/ FinalPush
    BY <1>7 DEF Finalize, FinalPush, Close, CountError
<1>8. CASE Worker
    BY <1>8 DEF Worker, TakePush, LockForPush, LookAgain, Upload, UploadFails,
                ClearNeedsPush, WorkerOnly, CountError
<1>9. CASE Encoders
    BY <1>9 DEF Encoders, EncoderThread, Encode, EncodeFails, FlushAndClose
<1>. QED
    BY <1>1, <1>2, <1>3, <1>4, <1>5, <1>6, <1>7, <1>8, <1>9 DEF Next, Save

(* Frames are added where there is a take, and room.                       *)
LEMMA TakeKeeps ==
    ControlTypes /\ EncoderTypeOK /\ DataTypes /\ TakeInv /\ Next => TakeInv'
<1>. SUFFICES ASSUME ControlTypes, EncoderTypeOK, DataTypes, TakeInv, Next
              PROVE  TakeInv'
    OBVIOUS
<1>. USE EncoderAssumption, RecorderAssumption
     DEF EncoderAssumption, RecorderAssumption, ControlTypes, TakeInv, Takes,
         Written, encoderVars
<1>1. CASE AddFrame
    <2>1. take' \in Takes
        <3>1. CASE size = 0
            BY <1>1, <3>1, StartKeeps DEF AddFrame
        <3>. QED
            BY <1>1, <3>1 DEF AddFrame
    <2>2. size < MaxFrames
        <3>1. Len(rows) \in Nat /\ size \in Nat /\ MaxFrames \in Nat
            BY DEF DataTypes
        <3>. QED
            BY <1>1, <3>1 DEF AddFrame
    <2>3. pc' = "check" /\ size' = size
        BY <1>1 DEF AddFrame
    <2>. QED
        BY <2>1, <2>2, <2>3
<1>2. CASE StartSegment \/ FeedRaises \/ FeedChecks \/ FeedFrame
    BY <1>2 DEF StartSegment, FeedRaises, FeedChecks, FeedFrame, PutFrame,
                NextKey, ControlOnly
<1>3. CASE Rotate \/ LoopEnds \/ SaveTail \/ JoinTimesOut \/ SaveFails
    BY <1>3 DEF Rotate, LoopEnds, SaveTail, JoinTimesOut, SaveFails,
                GiveUp, CountError, NextKey, ControlOnly
<1>4. CASE AcquireLock \/ BufferRefused \/ WriteRows \/ SendSentinel \/ JoinThread
    BY <1>4 DEF AcquireLock, BufferRefused, WriteRows, SendSentinel, JoinThread,
                PutSentinel, NextKey, ControlOnly
<1>5. CASE JoinRaises \/ CleanupEpisode \/ VideoUnreadable \/ Commit
    BY <1>5 DEF JoinRaises, CleanupEpisode, VideoUnreadable, Commit, Cleanup,
                ControlOnly
<1>6. CASE SaveVideo
    <2>1. NextKey("video", "commit") /\ UNCHANGED <<take, recording, size>>
        BY <1>6 DEF SaveVideo
    <2>2. pc' \in {"video", "commit"} /\ pc = "video"
        BY <1>6, <2>1 DEF NextKey, SaveVideo
    <2>. QED
        BY <2>1, <2>2
<1>7. CASE ReleaseOnError \/ Poison \/ CancelEpisode \/ DrainQueues \/ ClearBuffer
    BY <1>7 DEF ReleaseOnError, Poison, CancelEpisode, DrainQueues, ClearBuffer,
                StopThreads, Cleanup, ControlOnly
<1>8. CASE Register \/ SubmitPush \/ Teardown \/ ShutdownExecutor
    BY <1>8 DEF Register, SubmitPush, After, Teardown, ShutdownExecutor, ControlOnly
<1>9. CASE Finalize \/ FinalPush
    <2>1. pc' \in {"final", "done"} /\ UNCHANGED <<size, take>>
        BY <1>9 DEF Finalize, FinalPush, Close, CountError
    <2>2. recording' = FALSE \/ recording' = recording
        BY <1>9 DEF Finalize, FinalPush, Close, CountError
    <2>. QED
        BY <2>1, <2>2
<1>10. CASE Worker
    BY <1>10 DEF Worker, TakePush, LockForPush, LookAgain, Upload, UploadFails,
                 ClearNeedsPush, WorkerOnly, CountError, controlVars
<1>11. CASE Encoders
    BY <1>11 DEF Encoders, EncoderThread, Encode, EncodeFails, FlushAndClose,
                 controlVars
<1>. QED
    BY <1>1, <1>2, <1>3, <1>4, <1>5, <1>6, <1>7, <1>8, <1>9, <1>10, <1>11
    DEF Next, Save

(* The lock is held through a save, and through a push.                    *)
LEMMA LockKeeps ==
    ControlTypes /\ LockInv /\ Next => LockInv'
<1>. SUFFICES ASSUME ControlTypes, LockInv, Next PROVE LockInv'
    OBVIOUS
<1>. USE DEF ControlTypes, LockInv, Written, Tick, Saving, Failing
<1>1. CASE StartSegment \/ AddFrame \/ FeedRaises \/ FeedChecks \/ FeedFrame
    BY <1>1 DEF StartSegment, AddFrame, FeedRaises, FeedChecks, FeedFrame,
                NextKey, ControlOnly, pushVars
<1>2. CASE Rotate \/ LoopEnds \/ SaveTail \/ JoinTimesOut \/ SaveFails
    BY <1>2 DEF Rotate, LoopEnds, SaveTail, JoinTimesOut, SaveFails,
                NextKey, ControlOnly, pushVars
<1>3. CASE AcquireLock \/ BufferRefused \/ WriteRows \/ SendSentinel \/ JoinThread
    BY <1>3 DEF AcquireLock, BufferRefused, WriteRows, SendSentinel, JoinThread,
                NextKey, ControlOnly, pushVars
<1>4. CASE JoinRaises \/ CleanupEpisode \/ VideoUnreadable \/ Commit
    BY <1>4 DEF JoinRaises, CleanupEpisode, VideoUnreadable, Commit,
                ControlOnly, pushVars
<1>5. CASE SaveVideo
    <2>1. pc = "video" /\ NextKey("video", "commit") /\ UNCHANGED <<lock, worker>>
        BY <1>5 DEF SaveVideo, pushVars
    <2>2. pc' \in {"video", "commit"}
        BY <2>1 DEF NextKey
    <2>. QED
        BY <2>1, <2>2
<1>6. CASE ReleaseOnError \/ Poison \/ CancelEpisode \/ DrainQueues \/ ClearBuffer
    BY <1>6 DEF ReleaseOnError, Poison, CancelEpisode, DrainQueues, ClearBuffer,
                ControlOnly, pushVars
<1>7. CASE Register \/ SubmitPush \/ Teardown \/ ShutdownExecutor
    BY <1>7 DEF Register, SubmitPush, After, Teardown, ShutdownExecutor,
                ControlOnly, pushVars
<1>8. CASE Finalize \/ FinalPush
    BY <1>8 DEF Finalize, FinalPush, pushVars
<1>9. CASE Worker
    BY <1>9 DEF Worker, TakePush, LockForPush, LookAgain, Upload, UploadFails,
                ClearNeedsPush, WorkerOnly, controlVars
<1>10. CASE Encoders
    BY <1>10 DEF Encoders, controlVars, pushVars
<1>. QED
    BY <1>1, <1>2, <1>3, <1>4, <1>5, <1>6, <1>7, <1>8, <1>9, <1>10 DEF Next, Save

(* The last element of a sequence is one of its elements.                  *)
LEMMA LastOf ==
    ASSUME NEW S, NEW s \in Seq(S), s # <<>>
    PROVE  s[Len(s)] \in S
<1>1. Len(s) \in 1 .. Len(s)
    OBVIOUS
<1>. QED
    BY <1>1

(* An episode has as many rows as frames.                                  *)
LEMMA RowsOfEpisode ==
    ASSUME size \in Nat, take \in Takes
    PROVE  EpisodeRows \in Seq(Frames) /\ Len(EpisodeRows) = size
<1>1. \A i \in 1 .. size : [take |-> take, no |-> i] \in Frames
    BY DEF Frames
<1>. QED
    BY <1>1 DEF EpisodeRows

(* What is written is a frame, an episode or a video.                      *)
LEMMA DataKeeps ==
    ControlTypes /\ EncoderTypeOK /\ DataTypes /\ TakeInv /\ Next => DataTypes'
<1>. SUFFICES ASSUME ControlTypes, EncoderTypeOK, DataTypes, TakeInv, Next
              PROVE  DataTypes'
    OBVIOUS
<1>. USE EncoderAssumption DEF EncoderAssumption, DataTypes
<1>1. UNCHANGED diskVars => DataTypes'
    BY DEF diskVars
<1>2. /\ take \in Nat /\ size \in Nat /\ key \in Keys
      /\ size > 0 \/ pc \in Written => take \in Takes
    BY DEF EncoderTypeOK, ControlTypes, TakeInv, Takes
<1>3. LatestRow \in Nat
    <2>1. CASE episodes = <<>>
        BY <2>1 DEF LatestRow
    <2>2. CASE episodes # <<>>
        <3>1. episodes[Len(episodes)] \in [take : Takes, from : Nat, to : Nat,
                                           videos : [Keys -> Videos]]
            BY <2>2, LastOf
        <3>. QED
            BY <2>2, <3>1 DEF LatestRow
    <2>. QED
        BY <2>1, <2>2
<1>4. LatestTo(key) \in Nat
    <2>1. CASE episodes = <<>>
        BY <2>1 DEF LatestTo
    <2>2. CASE episodes # <<>>
        <3>1. episodes[Len(episodes)] \in [take : Takes, from : Nat, to : Nat,
                                           videos : [Keys -> Videos]]
            BY <2>2, LastOf
        <3>2. episodes[Len(episodes)].videos[key] \in Videos
            BY <1>2, <3>1
        <3>. QED
            BY <2>2, <3>2 DEF LatestTo, Videos
    <2>. QED
        BY <2>1, <2>2
<1>5. CASE WriteRows
    <2>1. EpisodeRows \in Seq(Frames)
        BY <1>2, <1>5, RowsOfEpisode DEF WriteRows
    <2>2. rows' = rows \o EpisodeRows /\ UNCHANGED <<videos, episodes, made>>
        BY <1>5 DEF WriteRows
    <2>. QED
        BY <2>1, <2>2
<1>6. CASE SaveVideo
    <2>1. PICK v : v = Thread(key).video
        OBVIOUS
    <2>2. pc = "video"
        BY <1>6 DEF SaveVideo
    <2>3. ThreadOK(threads[take][key])
        BY <1>2, <2>2, EncoderTypes DEF ThreadsOK, Written
    <2>4. v \in Seq(Frames) /\ Thread(key).stop \in BOOLEAN
        BY <2>1, <2>3, Zenon DEF ThreadOK, ThreadType, Thread
    <2>5. UNCHANGED <<rows, episodes>>
        BY <1>6 DEF SaveVideo
    <2>6. videos' = [videos EXCEPT ![key] = IF episodes = <<>> THEN v ELSE @ \o v]
        BY <1>6, <2>1 DEF SaveVideo
    <2>7. videos' \in [Keys -> Seq(Frames)]
        BY <1>2, <2>4, <2>6
    <2>8. PICK r : r = [from |-> LatestTo(key), to |-> LatestTo(key) + Len(v),
                        lost |-> dropped[key], cut |-> Thread(key).stop]
        OBVIOUS
    <2>9. made' = [made EXCEPT ![key] = r]
        BY <1>6, <2>1, <2>8 DEF SaveVideo
    <2>10. r \in Videos
        <3>1. LatestTo(key) + Len(v) \in Nat /\ dropped[key] \in Nat
            BY <1>2, <1>4, <2>4 DEF EncoderTypeOK
        <3>. QED
            BY <1>4, <2>4, <2>8, <3>1, Zenon DEF Videos
    <2>. QED
        BY <1>2, <2>5, <2>7, <2>9, <2>10
<1>7. CASE Commit
    <2>1. PICK e : e = [take |-> take, from |-> LatestRow, to |-> LatestRow + size,
                        videos |-> made]
        OBVIOUS
    <2>2. e \in [take : Takes, from : Nat, to : Nat, videos : [Keys -> Videos]]
        BY <1>2, <1>3, <1>7, <2>1 DEF Commit, Written
    <2>3. episodes' = Append(episodes, e) /\ UNCHANGED <<rows, videos>>
        BY <1>7, <2>1 DEF Commit
    <2>4. NoVideo \in Videos
        <3>1. FALSE \in BOOLEAN
            BY Zenon
        <3>. QED
            BY <3>1 DEF NoVideo, Videos
    <2>5. made' \in [Keys -> Videos]
        BY <1>7, <2>4 DEF Commit
    <2>. QED
        BY <2>2, <2>3, <2>5
<1>8. CASE Finalize
    BY <1>8 DEF Finalize
<1>9. CASE \/ StartSegment \/ AddFrame \/ FeedRaises \/ FeedChecks \/ FeedFrame
           \/ Rotate \/ LoopEnds \/ SaveTail \/ JoinTimesOut \/ SaveFails
    BY <1>1, <1>9
    DEF StartSegment, AddFrame, FeedRaises, FeedChecks, FeedFrame, Rotate,
        LoopEnds, SaveTail, JoinTimesOut, SaveFails, ControlOnly
<1>10. CASE \/ AcquireLock \/ BufferRefused \/ SendSentinel \/ JoinThread
            \/ JoinRaises \/ CleanupEpisode \/ VideoUnreadable
            \/ ReleaseOnError \/ Poison \/ CancelEpisode \/ DrainQueues \/ ClearBuffer
    BY <1>1, <1>10
    DEF AcquireLock, BufferRefused, SendSentinel, JoinThread, JoinRaises,
        CleanupEpisode, VideoUnreadable, ReleaseOnError, Poison, CancelEpisode,
        DrainQueues, ClearBuffer, ControlOnly
<1>11. CASE \/ Register \/ SubmitPush \/ Teardown \/ ShutdownExecutor \/ FinalPush
            \/ Worker \/ Encoders
    BY <1>1, <1>11
    DEF Register, SubmitPush, Teardown, ShutdownExecutor, FinalPush, Worker,
        TakePush, LockForPush, LookAgain, Upload, UploadFails, ClearNeedsPush,
        Encoders, ControlOnly, WorkerOnly
<1>. QED
    BY <1>5, <1>6, <1>7, <1>8, <1>9, <1>10, <1>11 DEF Next, Save

(* The encoder keeps its types whoever takes a step.                       *)
LEMMA EncoderKeeps ==
    ControlTypes /\ EncoderTypeOK /\ TakeInv /\ Next => EncoderTypeOK'
<1>. SUFFICES ASSUME ControlTypes, EncoderTypeOK, TakeInv, Next PROVE EncoderTypeOK'
    OBVIOUS
<1>1. UNCHANGED encoderVars => EncoderTypeOK'
    BY DEF encoderVars, EncoderTypeOK, Thread
<1>2. size \in Nat /\ key \in Keys
    BY DEF ControlTypes
<1>3. \/ pc \in {"check", "put", "drain"} \cup Written \/ recording
        => take \in Takes
    BY DEF TakeInv
<1>4. CASE AddFrame
    BY <1>1, <1>4, StartKeeps DEF AddFrame
<1>5. CASE FeedFrame
    <2>1. [take |-> take, no |-> size + 1] \in Frames
        BY <1>2, <1>3, <1>5 DEF FeedFrame, Frames
    <2>. QED
        BY <1>2, <1>3, <1>5, <2>1, PutKeeps DEF FeedFrame
<1>6. CASE SendSentinel
    BY <1>2, <1>3, <1>6, PutKeeps DEF SendSentinel, Written
<1>7. CASE JoinTimesOut
    BY <1>2, <1>3, <1>7, StopsKeep DEF JoinTimesOut, Written
<1>8. CASE CleanupEpisode \/ CancelEpisode \/ DrainQueues
    BY <1>3, <1>8, StopsKeep DEF CleanupEpisode, CancelEpisode, DrainQueues, Written
<1>9. CASE Finalize
    BY <1>3, <1>9, StopsKeep DEF Finalize
<1>10. CASE SaveFails \/ FinalPush \/ UploadFails
    BY <1>1, <1>10, StopsKeep DEF SaveFails, FinalPush, UploadFails
<1>11. CASE Encoders
    BY <1>11, ThreadKeeps DEF Encoders
<1>12. CASE \/ StartSegment \/ FeedRaises \/ FeedChecks \/ Rotate \/ LoopEnds
            \/ SaveTail \/ AcquireLock \/ BufferRefused \/ WriteRows \/ JoinThread
    BY <1>1, <1>12
    DEF StartSegment, FeedRaises, FeedChecks, Rotate, LoopEnds, SaveTail,
        AcquireLock, BufferRefused, WriteRows, JoinThread, ControlOnly
<1>13. CASE \/ JoinRaises \/ SaveVideo \/ VideoUnreadable \/ Commit
            \/ ReleaseOnError \/ Poison \/ ClearBuffer
    BY <1>1, <1>13
    DEF JoinRaises, SaveVideo, VideoUnreadable, Commit, ReleaseOnError, Poison,
        ClearBuffer, ControlOnly
<1>14. CASE \/ Register \/ SubmitPush \/ Teardown \/ ShutdownExecutor
            \/ TakePush \/ LockForPush \/ LookAgain \/ Upload \/ ClearNeedsPush
    BY <1>1, <1>14
    DEF Register, SubmitPush, Teardown, ShutdownExecutor, TakePush, LockForPush,
        LookAgain, Upload, ClearNeedsPush, ControlOnly, WorkerOnly
<1>. QED
    BY <1>4, <1>5, <1>6, <1>7, <1>8, <1>9, <1>10, <1>11, <1>12, <1>13, <1>14
    DEF Next, Save, Worker

(* What is appended comes last.                                            *)
LEMMA Appended ==
    ASSUME NEW S, NEW s \in Seq(S), NEW x
    PROVE  /\ Len(Append(s, x)) = Len(s) + 1
           /\ Append(s, x) # <<>>
           /\ Append(s, x)[Len(s) + 1] = x
    OBVIOUS

(* What is joined is as long as its parts.                                 *)
LEMMA Joined ==
    ASSUME NEW S, NEW s \in Seq(S), NEW t \in Seq(S)
    PROVE  Len(s \o t) = Len(s) + Len(t)
    OBVIOUS

(* How many rows the metadata tells of is a number.                        *)
LEMMA LatestRowNat == DataTypes => LatestRow \in Nat
<1>1. CASE episodes = <<>>
    BY <1>1 DEF LatestRow
<1>2. ASSUME DataTypes, episodes # <<>> PROVE LatestRow \in Nat
    <2>1. episodes[Len(episodes)] \in [take : Takes, from : Nat, to : Nat,
                                       videos : [Keys -> Videos]]
        BY <1>2, LastOf DEF DataTypes
    <2>. QED
        BY <1>2, <2>1 DEF LatestRow
<1>. QED
    BY <1>1, <1>2

(* Rows and metadata agree, but in a save and after one that failed.       *)
LEMMA RowsKeep ==
    ControlTypes /\ DataTypes /\ TakeInv /\ RowsInv /\ Next => RowsInv'
<1>. SUFFICES ASSUME ControlTypes, DataTypes, TakeInv, RowsInv, Next PROVE RowsInv'
    OBVIOUS
<1>. USE DEF ControlTypes, RowsInv, RowsKnown, Written, Tick, Saving, Failing, diskVars
<1>1. UNCHANGED <<rows, episodes>> => LatestRow' = LatestRow /\ Len(rows') = Len(rows)
    BY DEF LatestRow
<1>2. LatestRow \in Nat /\ Len(rows) \in Nat /\ size \in Nat
    BY LatestRowNat DEF DataTypes
<1>3. CASE StartSegment \/ AddFrame \/ FeedRaises \/ FeedChecks \/ FeedFrame
    BY <1>1, <1>3 DEF StartSegment, AddFrame, FeedRaises, FeedChecks, FeedFrame,
                      NextKey, ControlOnly
<1>4. CASE Rotate \/ LoopEnds \/ SaveTail \/ JoinTimesOut \/ SaveFails
    BY <1>1, <1>4 DEF Rotate, LoopEnds, SaveTail, JoinTimesOut, SaveFails,
                      NextKey, ControlOnly
<1>5. CASE AcquireLock \/ BufferRefused \/ SendSentinel \/ JoinThread
    BY <1>1, <1>5 DEF AcquireLock, BufferRefused, SendSentinel, JoinThread,
                      NextKey, ControlOnly
<1>6. CASE WriteRows
    <2>1. EpisodeRows \in Seq(Frames) /\ Len(EpisodeRows) = size
        BY <1>2, <1>6, RowsOfEpisode DEF WriteRows, TakeInv
    <2>2. rows' = rows \o EpisodeRows
        BY <1>6 DEF WriteRows
    <2>3. Len(rows') = Len(rows) + size
        BY <2>1, <2>2, Joined DEF DataTypes
    <2>4. LatestRow' = LatestRow
        BY <1>6 DEF WriteRows, LatestRow
    <2>5. pc = "data" /\ pc' = "sentinel" /\ UNCHANGED <<size, poisoned>>
        BY <1>6 DEF WriteRows
    <2>6. Len(rows) = LatestRow
        BY <2>5
    <2>. QED
        BY <2>3, <2>4, <2>5, <2>6
<1>7. CASE JoinRaises \/ CleanupEpisode \/ VideoUnreadable
    BY <1>1, <1>7 DEF JoinRaises, CleanupEpisode, VideoUnreadable, ControlOnly
<1>8. CASE SaveVideo
    <2>1. /\ pc = "video" /\ NextKey("video", "commit")
          /\ UNCHANGED <<rows, episodes, size, poisoned>>
        BY <1>8 DEF SaveVideo
    <2>2. pc' \in {"video", "commit"}
        BY <2>1 DEF NextKey
    <2>. QED
        BY <1>1, <2>1, <2>2
<1>9. CASE Commit
    <2>1. PICK e : e = [take |-> take, from |-> LatestRow, to |-> LatestRow + size,
                        videos |-> made]
        OBVIOUS
    <2>2. episodes' = Append(episodes, e) /\ UNCHANGED <<rows, poisoned>>
        BY <1>9, <2>1 DEF Commit
    <2>3. /\ Len(episodes') = Len(episodes) + 1
          /\ episodes' # <<>> /\ episodes'[Len(episodes) + 1] = e
        BY <2>2, Appended DEF DataTypes
    <2>4. LatestRow' = LatestRow + size
        <3>1. e.to = LatestRow + size
            BY <2>1
        <3>2. LatestRow' = episodes'[Len(episodes')].to
            BY <2>3 DEF LatestRow
        <3>. QED
            BY <2>3, <3>1, <3>2
    <2>5. pc = "commit" /\ pc' = "register"
        BY <1>9 DEF Commit
    <2>. QED
        BY <2>2, <2>4, <2>5
<1>10. CASE ReleaseOnError \/ Poison \/ CancelEpisode \/ DrainQueues \/ ClearBuffer
    BY <1>1, <1>10 DEF ReleaseOnError, Poison, CancelEpisode, DrainQueues,
                       ClearBuffer, ControlOnly
<1>11. CASE Register \/ SubmitPush \/ Teardown \/ ShutdownExecutor
    BY <1>1, <1>11 DEF Register, SubmitPush, After, Teardown, ShutdownExecutor,
                       ControlOnly
<1>12. CASE Finalize \/ FinalPush
    <2>1. /\ pc \in {"close", "final"} /\ UNCHANGED <<rows, episodes, size, poisoned>>
          /\ pc' = "done" \/ (pc' = "final" /\ ~poisoned)
        BY <1>12 DEF Finalize, FinalPush
    <2>. QED
        BY <1>1, <2>1
<1>13. CASE Worker
    BY <1>1, <1>13 DEF Worker, TakePush, LockForPush, LookAgain, Upload,
                       UploadFails, ClearNeedsPush, WorkerOnly, controlVars
<1>14. CASE Encoders
    BY <1>1, <1>14 DEF Encoders, controlVars
<1>. QED
    BY <1>3, <1>4, <1>5, <1>6, <1>7, <1>8, <1>9, <1>10, <1>11, <1>12, <1>13, <1>14
    DEF Next, Save

(* What a push uploads, and what is in memory still.                       *)
LEMMA UploadsOnDisk ==
    ASSUME DataTypes, FlagTypes, FlushInv, hub' = OnDisk
    PROVE  /\ HubType' /\ hub'.info = Len(episodes)
           /\ (hub.info - hub.episodes)' \in 0 .. MetadataBuffer - 1
           /\ hub'.footers => finalized /\ (hub.episodes = hub.info)'
<1>1. /\ Len(episodes) \in Nat /\ Len(episodes) - unflushed \in Nat
      /\ MetadataBuffer \in Nat \ {0}
    BY RecorderAssumption DEF FlushInv, DataTypes, RecorderAssumption
<1>2. HubType'
    BY <1>1, Zenon DEF HubType, OnDisk, FlagTypes
<1>3. /\ hub'.info = Len(episodes) /\ hub'.episodes = Len(episodes) - unflushed
      /\ hub'.footers = finalized
    BY DEF OnDisk
<1>. QED
    BY <1>1, <1>2, <1>3 DEF FlushInv

(* Metadata is buffered and written, and the buffer is never full.         *)
LEMMA FlushKeeps ==
    ControlTypes /\ DataTypes /\ FlagTypes /\ HubType /\ FlushInv /\ Next => FlushInv'
<1>. SUFFICES ASSUME ControlTypes, DataTypes, FlagTypes, HubType, FlushInv, Next
              PROVE  FlushInv'
    OBVIOUS
<1>. USE RecorderAssumption
     DEF RecorderAssumption, ControlTypes, FlushInv, Tick, Saving, Failing
<1>1. Len(episodes) \in Nat
    BY DEF DataTypes
<1>2. ASSUME UNCHANGED <<episodes, unflushed, finalized, hub>>,
             pc \in {"final", "done"} => pc' \in {"final", "done"}
      PROVE  FlushInv'
    BY <1>2
<1>3. CASE StartSegment \/ AddFrame \/ FeedRaises \/ FeedChecks \/ FeedFrame
    BY <1>2, <1>3 DEF StartSegment, AddFrame, FeedRaises, FeedChecks, FeedFrame,
                      ControlOnly, diskVars, pushVars
<1>4. CASE Rotate \/ LoopEnds \/ SaveTail \/ JoinTimesOut \/ SaveFails
    BY <1>2, <1>4 DEF Rotate, LoopEnds, SaveTail, JoinTimesOut, SaveFails,
                      ControlOnly, diskVars, pushVars
<1>5. CASE AcquireLock \/ BufferRefused \/ WriteRows \/ SendSentinel \/ JoinThread
    BY <1>2, <1>5 DEF AcquireLock, BufferRefused, WriteRows, SendSentinel,
                      JoinThread, ControlOnly, diskVars, pushVars
<1>6. CASE JoinRaises \/ CleanupEpisode \/ SaveVideo \/ VideoUnreadable
    <2>1. /\ UNCHANGED <<episodes, unflushed, finalized, hub>>
          /\ pc \notin {"final", "done"}
        BY <1>6 DEF JoinRaises, CleanupEpisode, SaveVideo, VideoUnreadable,
                    ControlOnly, diskVars, pushVars
    <2>. QED
        BY <1>2, <2>1
<1>7. CASE Commit
    <2>1. PICK held \in Held :
            unflushed' = IF held + 1 < MetadataBuffer THEN held + 1 ELSE 0
        BY <1>7 DEF Commit
    <2>2. held \in 0 .. unflushed
        BY <2>1 DEF Held
    <2>3. Len(episodes') = Len(episodes) + 1
        <3>1. PICK e : episodes' = Append(episodes, e)
            BY <1>7 DEF Commit
        <3>. QED
            BY <3>1 DEF DataTypes
    <2>4. ~finalized /\ UNCHANGED <<finalized, hub>>
        BY <1>7 DEF Commit, pushVars
    <2>. QED
        BY <1>1, <2>1, <2>2, <2>3, <2>4
<1>8. CASE ReleaseOnError \/ Poison \/ CancelEpisode \/ DrainQueues \/ ClearBuffer
    BY <1>2, <1>8 DEF ReleaseOnError, Poison, CancelEpisode, DrainQueues,
                      ClearBuffer, ControlOnly, diskVars, pushVars
<1>9. CASE Register \/ SubmitPush \/ Teardown \/ ShutdownExecutor
    BY <1>2, <1>9 DEF Register, SubmitPush, After, Teardown, ShutdownExecutor,
                      ControlOnly, diskVars, pushVars
<1>10. CASE Finalize
    <2>1. /\ unflushed' = 0 /\ pc' \in {"final", "done"}
          /\ UNCHANGED <<episodes, hub>>
        BY <1>10 DEF Finalize, pushVars
    <2>. QED
        BY <1>1, <2>1
<1>11. CASE FinalPush
    <2>1. pc' = "done" /\ UNCHANGED <<episodes, unflushed, finalized>>
        BY <1>11 DEF FinalPush, diskVars
    <2>2. CASE hub' = OnDisk
        BY <2>1, <2>2, UploadsOnDisk
    <2>3. CASE hub' = hub
        BY <2>1, <2>3
    <2>. QED
        BY <1>11, <2>2, <2>3 DEF FinalPush
<1>12. CASE Worker
    <2>1. UNCHANGED <<pc, episodes, unflushed, finalized>>
        BY <1>12 DEF Worker, TakePush, LockForPush, LookAgain, Upload, UploadFails,
                     ClearNeedsPush, WorkerOnly, controlVars, diskVars
    <2>2. hub' = hub \/ hub' = OnDisk
        BY <1>12 DEF Worker, TakePush, LockForPush, LookAgain, Upload, UploadFails,
                     ClearNeedsPush
    <2>3. CASE hub' = OnDisk
        BY <2>1, <2>3, UploadsOnDisk
    <2>. QED
        BY <2>1, <2>2, <2>3
<1>13. CASE Encoders
    BY <1>2, <1>13 DEF Encoders, controlVars, diskVars, pushVars
<1>. QED
    BY <1>3, <1>4, <1>5, <1>6, <1>7, <1>8, <1>9, <1>10, <1>11, <1>12, <1>13
    DEF Next, Save

(* Every episode is pushed, or known to be to push.                        *)
LEMMA PushKeeps ==
    ControlTypes /\ DataTypes /\ FlagTypes /\ HubType /\ LockInv /\ FlushInv
        /\ PushInv /\ Next => HubType' /\ PushInv'
<1>. SUFFICES ASSUME ControlTypes, DataTypes, FlagTypes, HubType, LockInv,
                     FlushInv, PushInv, Next
              PROVE  HubType' /\ PushInv'
    OBVIOUS
<1>. USE DEF ControlTypes, PushInv, LockInv, HubType,
             Tick, Saving, Failing, Written
<1>1. Len(episodes) \in Nat /\ submitted \in Nat
    BY DEF DataTypes
<1>19. ASSUME hub' = OnDisk
       PROVE  HubType' /\ hub'.info = Len(episodes)
    <2>1. hub'.info = Len(episodes)
        BY <1>19, UploadsOnDisk
    <2>2. HubType'
        BY <1>19, UploadsOnDisk
    <2>. QED
        BY <2>1, <2>2
<1>2. ASSUME UNCHANGED <<episodes, poisoned, pushVars>>,
             pc' \in {"register", "done"} <=> pc \in {"register", "done"},
             pc' = "register" <=> pc = "register",
             pc' \in {"close", "final"} => pc \in {"close", "final"}
      PROVE  HubType' /\ PushInv'
    BY <1>2 DEF pushVars
<1>3. CASE StartSegment \/ AddFrame \/ FeedRaises \/ FeedChecks \/ FeedFrame
    BY <1>2, <1>3 DEF StartSegment, AddFrame, FeedRaises, FeedChecks, FeedFrame,
                      NextKey, ControlOnly, diskVars
<1>4. CASE Rotate \/ LoopEnds \/ SaveTail \/ JoinTimesOut \/ SaveFails
    BY <1>2, <1>4 DEF Rotate, LoopEnds, SaveTail, JoinTimesOut, SaveFails,
                      NextKey, ControlOnly, diskVars
<1>5. CASE AcquireLock \/ BufferRefused \/ WriteRows \/ SendSentinel \/ JoinThread
    BY <1>2, <1>5 DEF AcquireLock, BufferRefused, WriteRows, SendSentinel,
                      JoinThread, NextKey, ControlOnly, diskVars
<1>6. CASE JoinRaises \/ CleanupEpisode \/ VideoUnreadable
    BY <1>2, <1>6 DEF JoinRaises, CleanupEpisode, VideoUnreadable, ControlOnly,
                      diskVars
<1>7. CASE SaveVideo
    <2>1. pc = "video" /\ UNCHANGED <<episodes, poisoned, pushVars>>
        BY <1>7 DEF SaveVideo
    <2>2. pc' \in {"video", "commit"}
        BY <1>7 DEF SaveVideo, NextKey
    <2>. QED
        BY <1>2, <2>1, <2>2
<1>8. CASE Commit
    <2>1. pc = "commit" /\ pc' = "register" /\ UNCHANGED <<poisoned, pushVars>>
        BY <1>8 DEF Commit
    <2>2. lock = "control" /\ worker # "clear"
        BY <2>1
    <2>. QED
        BY <2>1, <2>2 DEF pushVars
<1>9. CASE ReleaseOnError \/ CancelEpisode \/ DrainQueues \/ ClearBuffer
    BY <1>2, <1>9 DEF ReleaseOnError, CancelEpisode, DrainQueues, ClearBuffer,
                      ControlOnly, diskVars
<1>10. CASE Poison
    <2>1. pc = "latch" /\ pc' = "cancel" /\ UNCHANGED <<episodes, pushVars>>
        BY <1>10 DEF Poison, diskVars
    <2>. QED
        BY <2>1 DEF pushVars
<1>11. CASE Register
    <2>1. /\ pc = "register" /\ pc' \in {"submit", "off", "tick"} /\ needsPush'
          /\ UNCHANGED <<worker, hub, episodes>>
        BY <1>11 DEF Register, After, diskVars
    <2>. QED
        BY <2>1
<1>12. CASE SubmitPush
    <2>1. /\ pc = "submit" /\ pc' \in {"off", "tick"}
          /\ UNCHANGED <<worker, hub, episodes, needsPush>>
        BY <1>12 DEF SubmitPush, After, diskVars
    <2>. QED
        BY <2>1
<1>13. CASE Teardown
    BY <1>2, <1>13 DEF Teardown, ControlOnly, diskVars
<1>14. CASE ShutdownExecutor
    BY <1>14 DEF ShutdownExecutor, ControlOnly, diskVars, pushVars
<1>15. CASE Finalize
    <2>1. /\ pc = "close" /\ pc' = IF ~poisoned /\ needsPush THEN "final" ELSE "done"
          /\ UNCHANGED <<episodes, poisoned, pushVars>>
        BY <1>15 DEF Finalize
    <2>. QED
        BY <2>1 DEF pushVars
<1>16. CASE FinalPush
    <2>1. /\ pc = "final" /\ pc' = "done"
          /\ UNCHANGED <<episodes, poisoned, worker, submitted, needsPush>>
        BY <1>16 DEF FinalPush, diskVars
    <2>2. CASE hub' = OnDisk
        BY <1>19, <2>1, <2>2
    <2>3. CASE pushFailed' = TRUE /\ hub' = hub
        BY <2>1, <2>3
    <2>. QED
        BY <1>16, <2>2, <2>3 DEF FinalPush
<1>17. CASE Worker
    <2>1. UNCHANGED <<pc, episodes, poisoned>>
        BY <1>17 DEF Worker, TakePush, LockForPush, LookAgain, Upload, UploadFails,
                     ClearNeedsPush, WorkerOnly, controlVars, diskVars
    <2>2. CASE TakePush \/ LockForPush \/ LookAgain \/ UploadFails \/ ClearNeedsPush
        BY <1>1, <2>1, <2>2 DEF TakePush, LockForPush, LookAgain, UploadFails,
                                ClearNeedsPush
    <2>3. CASE Upload
        <3>1. /\ worker = "upload" /\ worker' = "clear" /\ hub' = OnDisk
              /\ UNCHANGED <<submitted, needsPush, pushFailed>>
            BY <2>3 DEF Upload
        <3>. QED
            BY <1>19, <2>1, <3>1
    <2>. QED
        BY <1>17, <2>2, <2>3 DEF Worker
<1>18. CASE Encoders
    BY <1>2, <1>18 DEF Encoders, controlVars, diskVars
<1>. QED
    BY <1>3, <1>4, <1>5, <1>6, <1>7, <1>8, <1>9, <1>10, <1>11, <1>12, <1>13,
       <1>14, <1>15, <1>16, <1>17, <1>18
    DEF Next, Save

(* Only the worker moves the worker.                                       *)
LEMMA OnlyWorker == Next /\ ~Worker => worker' = worker
<1>. SUFFICES ASSUME Next, ~Worker PROVE worker' = worker
    OBVIOUS
<1>. USE DEF ControlOnly, pushVars
<1>1. CASE \/ StartSegment \/ AddFrame \/ FeedRaises \/ FeedChecks \/ FeedFrame
           \/ Rotate \/ LoopEnds \/ SaveTail \/ JoinTimesOut \/ SaveFails
    BY <1>1
    DEF StartSegment, AddFrame, FeedRaises, FeedChecks, FeedFrame, Rotate,
        LoopEnds, SaveTail, JoinTimesOut, SaveFails
<1>2. CASE Save
    BY <1>2
    DEF Save, AcquireLock, BufferRefused, WriteRows, SendSentinel, JoinThread,
        JoinRaises, CleanupEpisode, SaveVideo, VideoUnreadable, Commit,
        ReleaseOnError, Poison, CancelEpisode, DrainQueues, ClearBuffer
<1>3. CASE \/ Register \/ SubmitPush \/ Teardown \/ ShutdownExecutor
           \/ Finalize \/ FinalPush \/ Encoders
    BY <1>3
    DEF Register, SubmitPush, Teardown, ShutdownExecutor, Finalize, FinalPush, Encoders
<1>. QED
    BY <1>1, <1>2, <1>3 DEF Next

-----------------------------------------------------------------------------
(* The inductive invariant.                                                *)
RecorderInv == TypeOK /\ TakeInv /\ LockInv /\ RowsInv /\ FlushInv /\ PushInv

(* It holds at first.                                                      *)
LEMMA RecorderStarts == Init => RecorderInv
<1>. SUFFICES ASSUME Init PROVE RecorderInv
    OBVIOUS
<1>. USE EncoderAssumption, RecorderAssumption
     DEF EncoderAssumption, RecorderAssumption, Init, EncoderInit
<1>1. EncoderTypeOK
    <2>1. ThreadsOK(threads)
        <3>1. Idle \in ThreadType
            BY IdleThread DEF ThreadOK
        <3>2. threads \in [Takes -> [Keys -> ThreadType]]
            BY <3>1
        <3>. QED
            BY <3>2, IdleThread DEF ThreadsOK
    <2>2. FALSE \in BOOLEAN
        BY Zenon
    <2>3. errors \in 0 .. MaxErrors /\ dropped \in [Keys -> Nat] /\ take = 0
        OBVIOUS
    <2>. QED
        BY <2>1, <2>2, <2>3, EncoderTypes
<1>2. ControlTypes
    BY DEF ControlTypes, Keys
<1>3. DataTypes
    <2>1. NoVideo \in Videos
        <3>1. FALSE \in BOOLEAN
            BY Zenon
        <3>. QED
            BY <3>1 DEF NoVideo, Videos
    <2>. QED
        BY <2>1 DEF DataTypes
<1>4. FlagTypes
    BY Zenon DEF FlagTypes
<1>5. HubType
    <2>1. FALSE \in BOOLEAN
        BY Zenon
    <2>. QED
        BY <2>1 DEF HubType
<1>6. TakeInv /\ LockInv
    BY DEF TakeInv, LockInv, Written
<1>7. RowsInv
    BY DEF RowsInv, RowsKnown, LatestRow, Written
<1>8. PushInv
    BY DEF PushInv
<1>9. FlushInv /\ BufferType
    BY DEF FlushInv, BufferType
<1>. QED
    BY <1>1, <1>2, <1>3, <1>4, <1>5, <1>6, <1>7, <1>8, <1>9, TypeParts
    DEF RecorderInv

(* And every step keeps it.                                                *)
LEMMA RecorderContinues == RecorderInv /\ [Next]_vars => RecorderInv'
<1>. SUFFICES ASSUME RecorderInv, [Next]_vars PROVE RecorderInv'
    OBVIOUS
<1>1. /\ EncoderTypeOK /\ ControlTypes /\ DataTypes /\ FlagTypes /\ HubType
      /\ TakeInv /\ LockInv /\ RowsInv /\ FlushInv /\ PushInv
    BY TypeParts DEF RecorderInv
<1>2. CASE Next
    <2>1. ControlTypes' /\ FlagTypes' /\ TakeInv' /\ LockInv'
        BY <1>1, <1>2, ControlKeeps, FlagsKeep, TakeKeeps, LockKeeps
    <2>2. DataTypes' /\ EncoderTypeOK'
        BY <1>1, <1>2, DataKeeps, EncoderKeeps
    <2>3. RowsInv' /\ HubType' /\ FlushInv' /\ PushInv'
        BY <1>1, <1>2, RowsKeep, FlushKeeps, PushKeeps
    <2>4. TypeOK'
        BY <2>1, <2>2, <2>3
        DEF TypeOK, ControlTypes, DataTypes, FlagTypes, HubType, FlushInv
    <2>. QED
        BY <2>1, <2>2, <2>3, <2>4 DEF RecorderInv
<1>3. CASE UNCHANGED vars
    <2>1. TypeOK'
        <3>1. EncoderTypeOK'
            BY <1>1, <1>3 DEF EncoderTypeOK, vars, encoderVars
        <3>2. /\ ControlTypes' /\ DataTypes' /\ FlagTypes' /\ HubType'
              /\ unflushed' \in 0 .. MetadataBuffer - 1
            BY <1>1, <1>3
            DEF ControlTypes, DataTypes, FlagTypes, HubType, FlushInv,
                vars, controlVars, diskVars, pushVars
        <3>. QED
            BY <3>1, <3>2 DEF TypeOK, ControlTypes, DataTypes, FlagTypes, HubType
    <2>2. TakeInv' /\ LockInv' /\ RowsInv' /\ FlushInv' /\ PushInv'
        BY <1>1, <1>3
        DEF TakeInv, LockInv, RowsInv, RowsKnown, LatestRow, FlushInv, PushInv,
            vars, encoderVars, controlVars, diskVars, pushVars
    <2>. QED
        BY <2>1, <2>2 DEF RecorderInv
<1>. QED
    BY <1>2, <1>3

(* The invariant of every reachable state.                                 *)
LEMMA RecorderHolds == Spec => []RecorderInv
    BY RecorderStarts, RecorderContinues, PTL DEF Spec

(* Every variable of the recorder and of its encoder keeps its type.       *)
THEOREM RecorderTypes == Spec => []TypeOK
<1>1. RecorderInv => TypeOK
    BY DEF RecorderInv
<1>. QED
    BY <1>1, RecorderHolds, PTL

(* A push begins on a dataset whose rows the metadata knows, or in the     *)
(* moment between the release of _episode_lock and the latch of a save     *)
(* that failed (_checked_save_episode of sentry.py).                       *)
THEOREM PushesAreWhole == Spec => PushesWhole
<1>1. ASSUME RecorderInv, Next, worker' = "upload", worker # "upload"
      PROVE  RowsKnown \/ pc = "latch"
    <2>1. LookAgain
        <3>1. CASE Worker
            BY <1>1, <3>1 DEF Worker, TakePush, LockForPush, LookAgain, Upload,
                              UploadFails, ClearNeedsPush
        <3>2. CASE ~Worker
            <4>1. worker' = worker
                BY <1>1, <3>2, OnlyWorker
            <4>. QED
                BY <1>1, <4>1
        <3>. QED
            BY <3>1, <3>2
    <2>2. ~poisoned /\ lock = "worker"
        BY <1>1, <2>1 DEF LookAgain, RecorderInv, LockInv
    <2>. QED
        BY <1>1, <2>2 DEF RecorderInv, RowsInv, LockInv, Written
<1>2. RecorderInv /\ [Next]_vars
        => [worker' = "upload" /\ worker # "upload" => RowsKnown \/ pc = "latch"]_vars
    BY <1>1
<1>. QED
    BY <1>2, RecorderHolds, PTL DEF Spec, PushesWhole

(* A recorder that ended without poisoned data and without a failed push   *)
(* has pushed since its last save (teardown of sentry.py), and of the      *)
(* metadata on the Hub less than one buffer is missing, nothing when the   *)
(* push came after finalize() (_save_episode_metadata of                   *)
(* dataset_metadata.py).                                                   *)
THEOREM AllPushed == Spec => []SavesPushed
<1>1. RecorderInv => SavesPushed
    BY DEF RecorderInv, FlushInv, PushInv, SavesPushed
<1>. QED
    BY <1>1, RecorderHolds, PTL
-----------------------------------------------------------------------------
(* What a thread makes of the frames it is fed.                            *)

(* Frames in the order they were recorded in, and nothing after the        *)
(* sentinel.                                                               *)
InOrder(s) ==
    \A i, j \in 1 .. Len(s) :
        i < j => s[i] # End /\ (s[j] # End => s[i].no < s[j].no)

(* Some of the first n frames of take k.                                   *)
OfTake(s, k, n) ==
    \A i \in 1 .. Len(s) : s[i] # End => s[i].take = k /\ s[i].no <= n

(* A video, and the queue of what is still to go into it.                  *)
StreamTrue(v, q, k, n) ==
    /\ InOrder(v) /\ InOrder(q)
    /\ OfTake(v, k, n) /\ OfTake(q, k, n)
    /\ \A i \in 1 .. Len(v), j \in 1 .. Len(q) : q[j] # End => v[i].no < q[j].no

(* The sentinel was not put yet.                                           *)
NoEnd(q) == \A i \in 1 .. Len(q) : q[i] # End

(* The frames in a queue.                                                  *)
Left(q) == IF q # <<>> /\ q[Len(q)] = End THEN Len(q) - 1 ELSE Len(q)

(* A thread that was fed n frames of take k, of which this many found its  *)
(* queue full, lost no other, unless it was stopped or died.               *)
ThreadTrue(t, k, n, full) ==
    /\ StreamTrue(t.video, t.queue, k, n)
    /\ t.stop \/ t.status = "error" \/ Len(t.video) + Left(t.queue) + full = n
    /\ t.status = "ok" => t.stop \/ t.queue = <<>>

(* One thread before the sentinel, and one whose join returned.            *)
Recording(t) == NoEnd(t.queue) /\ ~t.stop /\ t.status # "ok"
Joinable(t) == t.status = "ok" \/ t.stop

(* What a queue holds.                                                     *)
Entries == Frames \cup {End}

(* Frames have numbers, and are not the sentinel.                          *)
LEMMA FrameFacts ==
    ASSUME NEW f \in Frames
    PROVE  f # End /\ f.no \in Nat /\ f.take \in Takes
<1>1. f.no \in Nat \ {0} /\ f.take \in Takes
    BY DEF Frames
<1>2. End.no = 0
    BY DEF End
<1>. QED
    BY <1>1, <1>2

(* The queue without its first entry.                                      *)
LEMMA TailFacts ==
    ASSUME NEW S, NEW q \in Seq(S), q # <<>>
    PROVE  /\ Len(q) \in Nat \ {0} /\ Len(Tail(q)) = Len(q) - 1
           /\ \A i \in 1 .. Len(Tail(q)) :
                Tail(q)[i] = q[i + 1] /\ i + 1 \in 1 .. Len(q) /\ 1 < i + 1
           /\ Head(q) = q[1]
           /\ Len(Tail(q)) = 0 <=> Tail(q) = <<>>
<1>1. /\ Len(q) \in Nat \ {0} /\ Len(Tail(q)) = Len(q) - 1
      /\ Head(q) = q[1] /\ Tail(q) \in Seq(S)
    OBVIOUS
<1>2. \A i \in 1 .. Len(Tail(q)) : Tail(q)[i] = q[i + 1]
    OBVIOUS
<1>3. ASSUME NEW r \in Seq(S) PROVE Len(r) = 0 <=> r = <<>>
    OBVIOUS
<1>4. Len(Tail(q)) = 0 <=> Tail(q) = <<>>
    BY <1>1, <1>3, Zenon
<1>. QED
    BY <1>1, <1>2, <1>4

(* The next frame is put behind the others.                                *)
LEMMA StreamPut ==
    ASSUME NEW v \in Seq(Frames), NEW q \in Seq(Entries), NEW k \in Takes, NEW n \in Nat,
           StreamTrue(v, q, k, n), NoEnd(q),
           NEW f \in Frames, f.take = k, f.no = n + 1
    PROVE  /\ StreamTrue(v, Append(q, f), k, n + 1)
           /\ NoEnd(Append(q, f))
           /\ Left(q) = Len(q) /\ Left(Append(q, f)) = Len(q) + 1
<1> DEFINE r == Append(q, f)
<1>1. /\ Len(q) \in Nat /\ Len(r) = Len(q) + 1 /\ r[Len(q) + 1] = f
      /\ \A i \in 1 .. Len(q) : r[i] = q[i] /\ q[i] \in Frames
      /\ r # <<>> /\ f # End
    <2>1. f \in Entries /\ f # End
        BY FrameFacts DEF Entries
    <2>2. /\ Len(q) \in Nat /\ Len(r) = Len(q) + 1 /\ r[Len(q) + 1] = f
          /\ \A i \in 1 .. Len(q) : r[i] = q[i] /\ q[i] \in Entries
          /\ r # <<>>
        BY <2>1
    <2>. QED
        BY <2>1, <2>2 DEF NoEnd, Entries
<1>2. \A i \in 1 .. Len(v) : v[i] \in Frames
    OBVIOUS
<1>3. /\ \A i \in 1 .. Len(q) : q[i].no \in Nat /\ q[i].no <= n /\ q[i].take = k
      /\ \A i \in 1 .. Len(v) : v[i].no \in Nat /\ v[i].no <= n /\ v[i].take = k
    BY <1>1, <1>2, FrameFacts DEF StreamTrue, OfTake, NoEnd
<1> HIDE DEF r
<1>4. NoEnd(r)
    BY <1>1 DEF NoEnd
<1>5. InOrder(r)
    <2> SUFFICES ASSUME NEW i \in 1 .. Len(r), NEW j \in 1 .. Len(r), i < j
                 PROVE  r[i] # End /\ r[i].no < r[j].no
        BY DEF InOrder
    <2>1. i \in 1 .. Len(q)
        BY <1>1
    <2>2. CASE j = Len(q) + 1
        BY <1>1, <1>3, <1>4, <2>1, <2>2 DEF NoEnd
    <2>3. CASE j # Len(q) + 1
        <3>1. j \in 1 .. Len(q)
            BY <1>1, <2>3
        <3>. QED
            BY <1>1, <2>1, <3>1 DEF StreamTrue, InOrder, NoEnd
    <2>. QED
        BY <2>2, <2>3
<1>6. OfTake(r, k, n + 1) /\ OfTake(v, k, n + 1)
    <2>1. \A m \in Nat : m <= n => m <= n + 1
        OBVIOUS
    <2>2. OfTake(v, k, n + 1)
        BY <1>3, <2>1 DEF OfTake
    <2>3. ASSUME NEW i \in 1 .. Len(r) PROVE r[i].take = k /\ r[i].no <= n + 1
        <3>1. CASE i = Len(q) + 1
            BY <1>1, <3>1
        <3>2. CASE i # Len(q) + 1
            <4>1. i \in 1 .. Len(q)
                BY <1>1, <3>2
            <4>. QED
                BY <1>1, <1>3, <2>1, <4>1
        <3>. QED
            BY <3>1, <3>2
    <2>. QED
        BY <2>2, <2>3 DEF OfTake
<1>7. \A i \in 1 .. Len(v), j \in 1 .. Len(r) : v[i].no < r[j].no
    <2> SUFFICES ASSUME NEW i \in 1 .. Len(v), NEW j \in 1 .. Len(r)
                 PROVE  v[i].no < r[j].no
        OBVIOUS
    <2>1. CASE j = Len(q) + 1
        BY <1>1, <1>3, <2>1
    <2>2. CASE j # Len(q) + 1
        <3>1. j \in 1 .. Len(q)
            BY <1>1, <2>2
        <3>. QED
            BY <1>1, <3>1 DEF StreamTrue, NoEnd
    <2>. QED
        BY <2>1, <2>2
<1>8. Left(q) = Len(q)
    BY <1>1 DEF Left, NoEnd
<1>9. Left(r) = Len(q) + 1
    BY <1>1, <1>4 DEF Left, NoEnd
<1>. QED
    BY <1>4, <1>5, <1>6, <1>7, <1>8, <1>9 DEF r, StreamTrue

(* A frame that found the queue full leaves a gap.                         *)
LEMMA StreamSkip ==
    ASSUME NEW v \in Seq(Frames), NEW q \in Seq(Entries), NEW k, NEW n \in Nat,
           StreamTrue(v, q, k, n)
    PROVE  StreamTrue(v, q, k, n + 1)
<1>1. /\ \A i \in 1 .. Len(v) : v[i] \in Frames
      /\ \A i \in 1 .. Len(q) : q[i] # End => q[i] \in Frames
    BY DEF Entries
<1>2. /\ \A i \in 1 .. Len(v) : v[i].no \in Nat
      /\ \A i \in 1 .. Len(q) : q[i] # End => q[i].no \in Nat
    BY <1>1, FrameFacts
<1>3. \A m \in Nat : m <= n => m <= n + 1
    OBVIOUS
<1>4. OfTake(v, k, n + 1) /\ OfTake(q, k, n + 1)
    BY <1>1, <1>2, <1>3, FrameFacts DEF StreamTrue, OfTake
<1>. QED
    BY <1>4 DEF StreamTrue

(* The sentinel is put behind the frames.                                  *)
LEMMA StreamEnd ==
    ASSUME NEW v \in Seq(Frames), NEW q \in Seq(Entries), NEW k, NEW n \in Nat,
           StreamTrue(v, q, k, n), NoEnd(q)
    PROVE  /\ StreamTrue(v, Append(q, End), k, n)
           /\ Left(q) = Len(q) /\ Left(Append(q, End)) = Len(q)
<1> DEFINE r == Append(q, End)
<1>1. /\ Len(q) \in Nat /\ Len(r) = Len(q) + 1 /\ r[Len(q) + 1] = End
      /\ \A i \in 1 .. Len(q) : r[i] = q[i]
      /\ r # <<>>
    OBVIOUS
<1> HIDE DEF r
<1>2. \A i \in 1 .. Len(r) : r[i] # End => i \in 1 .. Len(q)
    BY <1>1
<1>3. InOrder(r)
    <2> SUFFICES ASSUME NEW i \in 1 .. Len(r), NEW j \in 1 .. Len(r), i < j
                 PROVE  r[i] # End /\ (r[j] # End => r[i].no < r[j].no)
        BY DEF InOrder
    <2>1. i \in 1 .. Len(q)
        BY <1>1
    <2>. QED
        BY <1>1, <1>2, <2>1 DEF StreamTrue, InOrder, NoEnd
<1>4. OfTake(r, k, n)
    BY <1>1, <1>2 DEF StreamTrue, OfTake
<1>5. \A i \in 1 .. Len(v), j \in 1 .. Len(r) : r[j] # End => v[i].no < r[j].no
    BY <1>1, <1>2 DEF StreamTrue
<1>6. Left(q) = Len(q)
    BY <1>1 DEF Left, NoEnd
<1>7. Left(r) = Len(q)
    BY <1>1 DEF Left
<1>. QED
    BY <1>3, <1>4, <1>5, <1>6, <1>7 DEF r, StreamTrue

(* Without its first entry, or empty, the queue still follows the video.   *)
LEMMA StreamTail ==
    ASSUME NEW v \in Seq(Frames), NEW q \in Seq(Entries), NEW k, NEW n,
           StreamTrue(v, q, k, n)
    PROVE  /\ StreamTrue(v, <<>>, k, n)
           /\ q # <<>> => StreamTrue(v, Tail(q), k, n)
           /\ q # <<>> /\ Head(q) = End => Tail(q) = <<>> /\ Left(q) = 0
           /\ q # <<>> /\ NoEnd(q) => NoEnd(Tail(q))
           /\ Left(<<>>) = 0
<1>1. StreamTrue(v, <<>>, k, n)
    BY DEF StreamTrue, InOrder, OfTake
<1>2. ASSUME q # <<>>
      PROVE  /\ StreamTrue(v, Tail(q), k, n)
             /\ Head(q) = End => Tail(q) = <<>> /\ Left(q) = 0
             /\ NoEnd(q) => NoEnd(Tail(q))
    <2> DEFINE r == Tail(q)
    <2>1. /\ Len(q) \in Nat \ {0} /\ Len(r) = Len(q) - 1
          /\ \A i \in 1 .. Len(r) : r[i] = q[i + 1] /\ i + 1 \in 1 .. Len(q)
          /\ Head(q) = q[1] /\ (Len(r) = 0 <=> r = <<>>)
        BY <1>2, TailFacts
    <2> HIDE DEF r
    <2>2. \A i, j \in 1 .. Len(r) : i < j => i + 1 < j + 1
        OBVIOUS
    <2>3. InOrder(r) /\ OfTake(r, k, n)
        <3>1. InOrder(q) /\ OfTake(q, k, n)
            BY DEF StreamTrue
        <3>2. InOrder(r)
            BY <2>1, <2>2, <3>1 DEF InOrder
        <3>3. OfTake(r, k, n)
            BY <2>1, <3>1 DEF OfTake
        <3>. QED
            BY <3>2, <3>3
    <2>4. \A i \in 1 .. Len(v), j \in 1 .. Len(r) : r[j] # End => v[i].no < r[j].no
        BY <2>1 DEF StreamTrue
    <2>5. ASSUME Head(q) = End PROVE r = <<>> /\ Left(q) = 0
        <3>1. Len(q) = 1
            <4>1. ASSUME Len(q) # 1 PROVE FALSE
                <5>1. 1 \in 1 .. Len(q) /\ 2 \in 1 .. Len(q) /\ 1 < 2
                    BY <2>1, <4>1
                <5>. QED
                    BY <2>1, <2>5, <5>1 DEF StreamTrue, InOrder
            <4>. QED
                BY <4>1
        <3>. QED
            BY <1>2, <2>1, <2>5, <3>1 DEF Left
    <2>6. NoEnd(q) => NoEnd(r)
        BY <2>1 DEF NoEnd
    <2>. QED
        BY <2>3, <2>4, <2>5, <2>6 DEF r, StreamTrue
<1>. QED
    BY <1>1, <1>2 DEF Left

(* The frame at the head of the queue goes to the end of the video.        *)
LEMMA StreamEncode ==
    ASSUME NEW v \in Seq(Frames), NEW q \in Seq(Entries), NEW k, NEW n,
           StreamTrue(v, q, k, n), q # <<>>, Head(q) # End
    PROVE  /\ StreamTrue(Append(v, Head(q)), Tail(q), k, n)
           /\ Len(Append(v, Head(q))) + Left(Tail(q)) = Len(v) + Left(q)
<1> DEFINE r == Tail(q)
           w == Append(v, Head(q))
<1>1. /\ Len(q) \in Nat \ {0} /\ Len(r) = Len(q) - 1
      /\ \A i \in 1 .. Len(r) : r[i] = q[i + 1] /\ i + 1 \in 1 .. Len(q) /\ 1 < i + 1
      /\ Head(q) = q[1] /\ (Len(r) = 0 <=> r = <<>>)
    BY TailFacts
<1>2. /\ Len(v) \in Nat /\ Len(w) = Len(v) + 1 /\ w[Len(v) + 1] = q[1]
      /\ \A i \in 1 .. Len(v) : w[i] = v[i] /\ v[i] \in Frames
    BY <1>1, FrameFacts
<1>3. StreamTrue(v, r, k, n)
    BY StreamTail
<1> HIDE DEF r, w
<1>4. \A i \in 1 .. Len(v) : v[i] # End
    BY <1>2, FrameFacts
<1>5. \A i \in 1 .. Len(w) : i \in 1 .. Len(v) \/ (i = Len(v) + 1 /\ w[i] = q[1])
    BY <1>2
<1>6. q[1] # End /\ 1 \in 1 .. Len(q)
    BY <1>1
<1>7. InOrder(w)
    <2> SUFFICES ASSUME NEW i \in 1 .. Len(w), NEW j \in 1 .. Len(w), i < j
                 PROVE  w[i] # End /\ w[i].no < w[j].no
        BY DEF InOrder
    <2>1. i \in 1 .. Len(v)
        BY <1>2
    <2>2. CASE j \in 1 .. Len(v)
        BY <1>2, <1>4, <2>1, <2>2 DEF StreamTrue, InOrder
    <2>3. CASE j = Len(v) + 1
        BY <1>2, <1>4, <1>6, <2>1, <2>3 DEF StreamTrue
    <2>. QED
        BY <1>5, <2>2, <2>3
<1>8. OfTake(w, k, n)
    BY <1>2, <1>5, <1>6 DEF StreamTrue, OfTake
<1>9. ASSUME NEW i \in 1 .. Len(w), NEW j \in 1 .. Len(r), r[j] # End
      PROVE  w[i].no < r[j].no
    <2>1. CASE i \in 1 .. Len(v)
        BY <1>2, <1>3, <1>9, <2>1 DEF StreamTrue
    <2>2. CASE i = Len(v) + 1
        BY <1>1, <1>2, <1>6, <1>9, <2>2 DEF StreamTrue, InOrder
    <2>. QED
        BY <1>5, <2>1, <2>2
<1>10. Left(q) \in Nat /\ Left(r) = Left(q) - 1
    <2>1. CASE Len(q) = 1
        BY <1>1, <1>6, <2>1 DEF Left
    <2>2. CASE Len(q) # 1
        <3>1. r # <<>> /\ r[Len(r)] = q[Len(q)]
            BY <1>1, <2>2
        <3>. QED
            BY <1>1, <2>2, <3>1 DEF Left
    <2>. QED
        BY <2>1, <2>2
<1>11. Len(w) + Left(r) = Len(v) + Left(q)
    BY <1>2, <1>10
<1>. QED
    BY <1>3, <1>7, <1>8, <1>9, <1>11 DEF StreamTrue, r, w

(* What a thread's fields are.                                             *)
LEMMA ThreadFields ==
    ASSUME NEW t \in ThreadType
    PROVE  /\ t.queue \in Seq(Entries) /\ t.video \in Seq(Frames)
           /\ t.stop \in BOOLEAN
           /\ t.status \in {"none", "running", "ok", "error"}
           /\ \A q : [t EXCEPT !.queue = q].queue = q
           /\ \A q : [t EXCEPT !.queue = q].video = t.video
           /\ \A q : [t EXCEPT !.queue = q].stop = t.stop
           /\ \A q : [t EXCEPT !.queue = q].status = t.status
           /\ [t EXCEPT !.stop = TRUE].queue = t.queue
           /\ [t EXCEPT !.stop = TRUE].video = t.video
           /\ [t EXCEPT !.stop = TRUE].stop = TRUE
           /\ [t EXCEPT !.stop = TRUE].status = t.status
    BY DEF ThreadType, Entries

(* A new thread was fed nothing.                                           *)
LEMMA ThreadNew ==
    ASSUME NEW k
    PROVE  LET t == [Idle EXCEPT !.status = "running"]
           IN  ThreadTrue(t, k, 0, 0) /\ Recording(t)
    BY DEF Idle, ThreadTrue, Recording, StreamTrue, InOrder, OfTake, NoEnd, Left

(* The put of feed_frame: the frame is in the queue, or counted.           *)
LEMMA ThreadFed ==
    ASSUME NEW t \in ThreadType, NEW k \in Takes, NEW n \in Nat, NEW full \in Nat,
           ThreadTrue(t, k, n, full), Recording(t),
           NEW f \in Frames, f.take = k, f.no = n + 1
    PROVE  /\ ThreadTrue([t EXCEPT !.queue = Append(@, f)], k, n + 1, full)
           /\ Recording([t EXCEPT !.queue = Append(@, f)])
           /\ ThreadTrue(t, k, n + 1, full + 1)
<1> DEFINE u == [t EXCEPT !.queue = Append(@, f)]
<1>1. t.queue \in Seq(Entries) /\ t.video \in Seq(Frames)
    BY ThreadFields
<1>2. /\ u.queue = Append(t.queue, f) /\ u.video = t.video
      /\ u.stop = t.stop /\ u.status = t.status
    BY ThreadFields
<1>3. StreamTrue(t.video, t.queue, k, n) /\ NoEnd(t.queue) /\ ~t.stop /\ t.status # "ok"
    BY DEF ThreadTrue, Recording
<1>4. /\ StreamTrue(t.video, Append(t.queue, f), k, n + 1)
      /\ NoEnd(Append(t.queue, f))
      /\ Left(t.queue) = Len(t.queue) /\ Left(Append(t.queue, f)) = Len(t.queue) + 1
    BY <1>1, <1>3, StreamPut
<1>5. StreamTrue(t.video, t.queue, k, n + 1)
    BY <1>1, <1>3, StreamSkip
<1>6. Len(t.video) \in Nat /\ Len(t.queue) \in Nat
    BY <1>1
<1>7. t.status = "error" \/ Len(t.video) + Left(t.queue) + full = n
    BY <1>3 DEF ThreadTrue
<1> HIDE DEF u
<1>8. \A a, b \in Nat :
        a + b + full = n => a + (b + 1) + full = n + 1 /\ a + b + (full + 1) = n + 1
    OBVIOUS
<1>9. t.status = "error" \/ /\ Len(t.video) + (Len(t.queue) + 1) + full = n + 1
                            /\ Len(t.video) + Len(t.queue) + (full + 1) = n + 1
    BY <1>4, <1>6, <1>7, <1>8
<1>10. ThreadTrue(u, k, n + 1, full) /\ Recording(u)
    BY <1>2, <1>3, <1>4, <1>9, Zenon DEF ThreadTrue, Recording
<1>11. ThreadTrue(t, k, n + 1, full + 1)
    BY <1>3, <1>4, <1>5, <1>9, Zenon DEF ThreadTrue
<1>. QED
    BY <1>10, <1>11 DEF u

(* The sentinel adds no frame.                                             *)
LEMMA ThreadSent ==
    ASSUME NEW t \in ThreadType, NEW k, NEW n \in Nat, NEW full \in Nat,
           ThreadTrue(t, k, n, full), Recording(t)
    PROVE  ThreadTrue([t EXCEPT !.queue = Append(@, End)], k, n, full)
<1> DEFINE u == [t EXCEPT !.queue = Append(@, End)]
<1>1. t.queue \in Seq(Entries) /\ t.video \in Seq(Frames)
    BY ThreadFields
<1>2. /\ u.queue = Append(t.queue, End) /\ u.video = t.video
      /\ u.stop = t.stop /\ u.status = t.status
    BY ThreadFields
<1>3. StreamTrue(t.video, t.queue, k, n) /\ NoEnd(t.queue) /\ ~t.stop /\ t.status # "ok"
    BY DEF ThreadTrue, Recording
<1>4. /\ StreamTrue(t.video, Append(t.queue, End), k, n)
      /\ Left(t.queue) = Len(t.queue) /\ Left(Append(t.queue, End)) = Len(t.queue)
    BY <1>1, <1>3, StreamEnd
<1>5. t.status = "error" \/ Len(t.video) + Left(t.queue) + full = n
    BY <1>3 DEF ThreadTrue
<1> HIDE DEF u
<1>6. ThreadTrue(u, k, n, full)
    BY <1>2, <1>3, <1>4, <1>5 DEF ThreadTrue
<1>. QED
    BY <1>6 DEF u

(* A thread that is stopped may leave frames out; one whose join returned  *)
(* may have its queue emptied.                                             *)
LEMMA ThreadStopped ==
    ASSUME NEW t \in ThreadType, NEW k, NEW n \in Nat, NEW full \in Nat,
           ThreadTrue(t, k, n, full)
    PROVE  /\ ThreadTrue([t EXCEPT !.stop = TRUE], k, n, full)
           /\ Joinable([t EXCEPT !.stop = TRUE])
           /\ Joinable(t) => /\ ThreadTrue([t EXCEPT !.queue = <<>>], k, n, full)
                             /\ Joinable([t EXCEPT !.queue = <<>>])
<1> USE ThreadFields DEF ThreadTrue, Joinable
<1>1. /\ ThreadTrue([t EXCEPT !.stop = TRUE], k, n, full)
      /\ Joinable([t EXCEPT !.stop = TRUE])
    OBVIOUS
<1>2. ASSUME Joinable(t)
      PROVE  /\ ThreadTrue([t EXCEPT !.queue = <<>>], k, n, full)
             /\ Joinable([t EXCEPT !.queue = <<>>])
    <2>1. StreamTrue(t.video, <<>>, k, n)
        BY StreamTail
    <2>2. t.stop \/ t.queue = <<>>
        BY <1>2
    <2>. QED
        BY <1>2, <2>1, <2>2
<1>. QED
    BY <1>1, <1>2

(* Whatever the thread does, encode, die or end, it keeps the frames in    *)
(* order, and loses none unless it was stopped or died.                    *)
LEMMA ThreadRuns ==
    ASSUME NEW t \in ThreadType, NEW k, NEW n \in Nat, NEW full \in Nat,
           ThreadTrue(t, k, n, full), t.status = "running",
           NEW u \in ThreadType, u.stop = t.stop,
           \/ /\ t.queue # <<>> /\ Head(t.queue) # End
              /\ u.queue = Tail(t.queue) /\ u.status = "running"
              /\ u.video = Append(t.video, Head(t.queue))
           \/ /\ t.queue # <<>>
              /\ u.queue = Tail(t.queue) /\ u.status = "error" /\ u.video = t.video
           \/ /\ t.queue # <<>> /\ Head(t.queue) = End
              /\ u.queue = Tail(t.queue) /\ u.status = "ok" /\ u.video = t.video
           \/ /\ t.queue = <<>> /\ t.stop
              /\ u.queue = t.queue /\ u.status = "ok" /\ u.video = t.video
    PROVE  /\ ThreadTrue(u, k, n, full)
           /\ Recording(t) => Recording(u)
           /\ Joinable(t) => Joinable(u)
<1>1. t.queue \in Seq(Entries) /\ t.video \in Seq(Frames)
    BY ThreadFields
<1>2. /\ StreamTrue(t.video, t.queue, k, n)
      /\ t.stop \/ Len(t.video) + Left(t.queue) + full = n
    BY DEF ThreadTrue
<1>3. /\ t.queue # <<>> => StreamTrue(t.video, Tail(t.queue), k, n)
      /\ t.queue # <<>> /\ Head(t.queue) = End =>
            Tail(t.queue) = <<>> /\ Left(t.queue) = 0
      /\ t.queue # <<>> /\ NoEnd(t.queue) => NoEnd(Tail(t.queue))
      /\ Left(<<>>) = 0
    BY <1>1, <1>2, StreamTail
<1>4. Joinable(t) => Joinable(u)
    BY DEF Joinable
<1>5. CASE /\ t.queue # <<>> /\ Head(t.queue) # End
           /\ u.queue = Tail(t.queue) /\ u.status = "running"
           /\ u.video = Append(t.video, Head(t.queue))
    <2>1. /\ StreamTrue(Append(t.video, Head(t.queue)), Tail(t.queue), k, n)
          /\ Len(Append(t.video, Head(t.queue))) + Left(Tail(t.queue))
                = Len(t.video) + Left(t.queue)
        BY <1>1, <1>2, <1>5, StreamEncode
    <2>. QED
        BY <1>2, <1>3, <1>4, <1>5, <2>1 DEF ThreadTrue, Recording
<1>6. CASE /\ t.queue # <<>>
           /\ u.queue = Tail(t.queue) /\ u.status = "error" /\ u.video = t.video
    BY <1>3, <1>4, <1>6 DEF ThreadTrue, Recording
<1>7. CASE /\ t.queue # <<>> /\ Head(t.queue) = End
           /\ u.queue = Tail(t.queue) /\ u.status = "ok" /\ u.video = t.video
    <2>1. ~NoEnd(t.queue)
        BY <1>1, <1>7, TailFacts DEF NoEnd
    <2>. QED
        BY <1>2, <1>3, <1>4, <1>7, <2>1 DEF ThreadTrue, Recording
<1>8. CASE /\ t.queue = <<>> /\ t.stop
           /\ u.queue = t.queue /\ u.status = "ok" /\ u.video = t.video
    BY <1>2, <1>4, <1>8 DEF ThreadTrue, Recording
<1>. QED
    BY <1>5, <1>6, <1>7, <1>8

-----------------------------------------------------------------------------
(* Where the control thread is in its rounds of the cameras.               *)

(* The frames a camera was fed of the episode.                             *)
Fed(c) == IF pc \in {"check", "put"} /\ c < key THEN size + 1 ELSE size

(* Its sentinel is still to be sent, its thread is joined, its video is    *)
(* with the others.                                                        *)
Unsent(c) ==
    \/ pc \in Tick \cup {"tail", "lock", "data"}
    \/ pc = "sentinel" /\ key <= c
Ended(c) == pc \in {"cleanup", "video", "commit"} \/ (pc = "join" /\ c < key)
Made(c) == pc = "commit" \/ (pc = "video" /\ c < key)

(* The rounds begin with the first camera; what is saved has frames, all   *)
(* of them whole.                                                          *)
FlowInv ==
    /\ pc \notin {"check", "put", "sentinel", "join", "video"} => key = 1
    /\ pc \in {"off", "register", "submit"} => size = 0
    /\ pc \in Written => size > 0
    /\ pc \in Tick \cup Written \cup {"register", "submit"} => ~torn

(* An episode is being recorded or saved.                                  *)
Active ==
    \/ pc \in {"check", "put"} \cup Written
    \/ size > 0 /\ ~torn /\ pc \in {"tick", "tail", "lock", "data"}

(* The thread of a camera has what it was fed, and is as far as the        *)
(* control thread takes it to be.                                          *)
CameraTrue(c) ==
    /\ ThreadTrue(Thread(c), take, Fed(c), dropped[c])
    /\ Unsent(c) => Recording(Thread(c))
    /\ Ended(c) => Joinable(Thread(c))

CamerasInv == Active => \A c \in Keys : CameraTrue(c)

(* After the first from rows come the n frames of take k.                  *)
RowsAt(s, from, k, n) ==
    /\ from + n <= Len(s)
    /\ \A i \in 1 .. n : s[from + i] = [take |-> k, no |-> i]

(* In the file s, the video v is that of n frames of take k.               *)
VideoTrue(s, v, k, n) ==
    /\ v.from <= v.to /\ v.to <= Len(s)
    /\ \A i \in v.from + 1 .. v.to : s[i].take = k
    /\ \A i, j \in v.from + 1 .. v.to : i < j => s[i].no < s[j].no
    /\ v.cut \/ (v.to - v.from) + v.lost = n

(* The rows and the videos of an episode are its own.                      *)
EpisodeTrue(e) ==
    /\ e.from <= e.to
    /\ RowsAt(rows, e.from, e.take, e.to - e.from)
    /\ \A c \in Keys : VideoTrue(videos[c], e.videos[c], e.take, e.to - e.from)

(* The video of a camera: already with the others, or these end where the  *)
(* metadata says.                                                          *)
MadeTrue(c) ==
    IF Made(c)
    THEN /\ made[c].from = LatestTo(c) /\ made[c].to = Len(videos[c])
         /\ VideoTrue(videos[c], made[c], take, size)
    ELSE episodes = <<>> \/ poisoned \/ pc \in {"failed", "latch"}
            \/ Len(videos[c]) = LatestTo(c)

(* Those saved are true, and so is as much of the next as is written.      *)
EpisodesInv ==
    /\ \A i \in 1 .. Len(episodes) : EpisodeTrue(episodes[i])
    /\ pc \in Written => RowsAt(rows, LatestRow, take, size)
    /\ \A c \in Keys : MadeTrue(c)

(* The invariant EpisodesWhole needs, beside RecorderInv.                  *)
WholeInv == FlowInv /\ CamerasInv /\ EpisodesInv

(* The rounds go on from camera to camera, and a save begins only with     *)
(* whole frames.                                                           *)
LEMMA FlowKeeps ==
    ControlTypes /\ RowsInv /\ FlowInv /\ Next => FlowInv'
<1>. SUFFICES ASSUME ControlTypes, RowsInv, FlowInv, Next PROVE FlowInv'
    OBVIOUS
<1>0. /\ size \in Nat /\ (poisoned => pc # "tail")
      /\ pc \in {"off", "tail", "register", "submit", "shutdown", "close",
                 "final", "done"} \cup Tick \cup Saving \cup Failing
    BY RecorderAssumption DEF ControlTypes, RowsInv, RecorderAssumption
<1>. USE DEF FlowInv, Written, Tick, Saving, Failing, ControlOnly
<1>1. CASE StartSegment \/ AddFrame \/ FeedRaises \/ FeedChecks
    BY <1>1 DEF StartSegment, AddFrame, FeedRaises, FeedChecks
<1>2. CASE FeedFrame
    <2>1. /\ pc = "put" /\ UNCHANGED torn
          /\ pc' = "check" \/ (pc' = "tick" /\ key' = 1)
        BY <1>2 DEF FeedFrame, NextKey
    <2>. QED
        BY <2>1
<1>3. CASE Rotate \/ LoopEnds \/ SaveTail \/ SaveFails
    BY <1>0, <1>3 DEF Rotate, LoopEnds, SaveTail, SaveFails
<1>4. CASE JoinTimesOut \/ JoinThread
    <2>1. /\ pc = "join" /\ UNCHANGED <<torn, size>>
          /\ pc' = "join" \/ (pc' = "cleanup" /\ key' = 1)
        BY <1>4 DEF JoinTimesOut, JoinThread, NextKey
    <2>. QED
        BY <2>1
<1>5. CASE AcquireLock \/ BufferRefused \/ WriteRows
    BY <1>5 DEF AcquireLock, BufferRefused, WriteRows
<1>6. CASE SendSentinel
    <2>1. /\ pc = "sentinel" /\ UNCHANGED <<torn, size>>
          /\ pc' = "sentinel" \/ (pc' = "join" /\ key' = 1)
        BY <1>6 DEF SendSentinel, NextKey
    <2>. QED
        BY <2>1
<1>7. CASE SaveVideo
    <2>1. /\ pc = "video" /\ UNCHANGED <<torn, size>>
          /\ pc' = "video" \/ (pc' = "commit" /\ key' = 1)
        BY <1>7 DEF SaveVideo, NextKey
    <2>. QED
        BY <2>1
<1>8. CASE JoinRaises \/ CleanupEpisode \/ VideoUnreadable \/ Commit
    BY <1>8 DEF JoinRaises, CleanupEpisode, VideoUnreadable, Commit
<1>9. CASE ReleaseOnError \/ Poison \/ CancelEpisode \/ DrainQueues \/ ClearBuffer
    BY <1>9 DEF ReleaseOnError, Poison, CancelEpisode, DrainQueues, ClearBuffer
<1>10. CASE \/ Register \/ SubmitPush \/ Teardown \/ ShutdownExecutor
            \/ Finalize \/ FinalPush
    BY <1>10 DEF Register, SubmitPush, After, Teardown, ShutdownExecutor,
                 Finalize, FinalPush
<1>11. CASE Worker \/ Encoders
    <2>1. UNCHANGED controlVars
        BY <1>11 DEF Worker, TakePush, LockForPush, LookAgain, Upload, UploadFails,
                     ClearNeedsPush, WorkerOnly, Encoders
    <2>. QED
        BY <2>1 DEF controlVars
<1>. QED
    BY <1>1, <1>2, <1>3, <1>4, <1>5, <1>6, <1>7, <1>8, <1>9, <1>10, <1>11
    DEF Next, Save

(* What holds of a camera goes on to hold while its thread and where the   *)
(* control thread is with it stay the same.                                *)
LEMMA CameraStays ==
    ASSUME NEW c \in Keys, CameraTrue(c),
           Thread(c)' = Thread(c), take' = take, dropped'[c] = dropped[c],
           Fed(c)' = Fed(c), Unsent(c)' => Unsent(c), Ended(c)' => Ended(c)
    PROVE  CameraTrue(c)'
    BY DEF CameraTrue

(* One thread of the take changes, the others do not.                      *)
LEMMA OneThread ==
    ASSUME ThreadsOK(threads), take \in Takes, take' = take, NEW d \in Keys, NEW t,
           threads' = [threads EXCEPT ![take][d] = t]
    PROVE  Thread(d)' = t /\ \A c \in Keys \ {d} : Thread(c)' = Thread(c)
<1>1. threads \in [Takes -> [Keys -> ThreadType]]
    BY DEF ThreadsOK
<1>. QED
    BY <1>1 DEF Thread

(* The state of one thread, with its queue, its stop flag or its status    *)
(* changed.                                                                *)
LEMMA ThreadAt ==
    ASSUME ThreadsOK(threads), NEW k \in Takes, NEW c \in Keys, NEW x
    PROVE  /\ threads[k][c] \in ThreadType
           /\ [threads EXCEPT ![k][c].queue = Append(@, x)]
                = [threads EXCEPT ![k][c] =
                        [threads[k][c] EXCEPT !.queue = Append(@, x)]]
           /\ [threads EXCEPT ![k][c].stop = x]
                = [threads EXCEPT ![k][c] = [threads[k][c] EXCEPT !.stop = x]]
<1>1. threads \in [Takes -> [Keys -> ThreadType]] /\ threads[k][c] \in ThreadType
    BY DEF ThreadsOK
<1>2. [threads EXCEPT ![k][c].queue = Append(@, x)]
        = [threads EXCEPT ![k][c] = [threads[k][c] EXCEPT !.queue = Append(@, x)]]
    BY <1>1 DEF ThreadType
<1>3. [threads EXCEPT ![k][c].stop = x]
        = [threads EXCEPT ![k][c] = [threads[k][c] EXCEPT !.stop = x]]
    BY <1>1 DEF ThreadType
<1>. QED
    BY <1>1, <1>2, <1>3

(* add_frame of the first frame makes new threads.                         *)
LEMMA CamerasStart ==
    ASSUME ControlTypes, FlowInv, CamerasInv, ThreadsOK(threads), TakeInv, AddFrame
    PROVE  CamerasInv'
<1>. SUFFICES ASSUME NEW c \in Keys PROVE CameraTrue(c)'
    BY DEF CamerasInv
<1>1. /\ pc = "tick" /\ pc' = "check" /\ UNCHANGED <<key, size, torn>>
      /\ key = 1 /\ ~torn /\ size \in Nat /\ c \in Nat \ {0}
    BY RecorderAssumption, EncoderAssumption
    DEF AddFrame, FlowInv, Tick, ControlTypes, RecorderAssumption,
        EncoderAssumption, Keys
<1>2. /\ Fed(c)' = size /\ Fed(c) = size
      /\ Unsent(c) /\ ~Ended(c)'
    <2>1. Fed(c)' = size
        BY <1>1 DEF Fed
    <2>2. Fed(c) = size
        BY <1>1 DEF Fed
    <2>. QED
        BY <1>1, <2>1, <2>2 DEF Unsent, Ended, Tick
<1>3. CASE size = 0
    <2>1. /\ take + 1 \in Takes /\ take' = take + 1
          /\ threads' = [threads EXCEPT ![take + 1] =
                            [d \in Keys |-> [Idle EXCEPT !.status = "running"]]]
          /\ dropped' = [d \in Keys |-> 0]
        BY <1>1, <1>3, EncoderAssumption
        DEF AddFrame, StartEpisode, TakeInv, Takes, EncoderAssumption
    <2>2. Thread(c)' = [Idle EXCEPT !.status = "running"] /\ dropped'[c] = 0
        BY <2>1 DEF Thread, ThreadsOK
    <2>3. ThreadTrue(Thread(c)', take', Fed(c)', dropped'[c]) /\ Recording(Thread(c)')
        BY <1>2, <1>3, <2>2, ThreadNew
    <2>. QED
        BY <1>2, <2>3 DEF CameraTrue
<1>4. CASE size # 0
    <2>1. UNCHANGED <<take, threads, dropped>> /\ CameraTrue(c)
        BY <1>1, <1>4 DEF AddFrame, encoderVars, CamerasInv, Active
    <2>2. Thread(c)' = Thread(c)
        BY <2>1 DEF Thread
    <2>. QED
        BY <1>2, <2>1, <2>2, CameraStays
<1>. QED
    BY <1>3, <1>4

(* The round of put: each camera is fed the frame.                         *)
LEMMA CamerasFed ==
    ASSUME ControlTypes, FlowInv, CamerasInv, EncoderTypeOK, TakeInv, FeedFrame
    PROVE  CamerasInv'
<1>0. PICK d : d = key
    OBVIOUS
<1> DEFINE f == [take |-> take, no |-> size + 1]
<1>1. /\ pc = "put" /\ size \in Nat /\ take \in Takes /\ take' = take
      /\ d \in Keys /\ d \in Nat
      /\ IF d < Cameras THEN key' = d + 1 /\ pc' = "check" /\ size' = size
                          ELSE key' = 1 /\ pc' = "tick" /\ size' = size + 1
      /\ PutFrame(d, f)
    BY <1>0, RecorderAssumption, EncoderAssumption
    DEF FeedFrame, NextKey, PutFrame, TakeInv, ControlTypes, RecorderAssumption,
        EncoderAssumption, Keys
<1>2. f \in Frames /\ f.take = take /\ f.no = size + 1
    BY <1>1 DEF Frames
<1>3. ThreadsOK(threads) /\ dropped \in [Keys -> Nat]
    BY EncoderTypes
<1>4. \A c \in Keys : CameraTrue(c)
    BY <1>1 DEF CamerasInv, Active
<1>5. \A c \in Keys : Unsent(c) /\ ~Ended(c)'
    BY <1>0, <1>1 DEF Unsent, Ended, Tick
<1>6. /\ \A c \in Keys \ {d} : Fed(c)' = Fed(c)
      /\ Fed(d) = size /\ Fed(d)' = size + 1
    BY <1>0, <1>1, EncoderAssumption DEF Fed, Keys, EncoderAssumption
<1>7. ThreadTrue(Thread(d), take, size, dropped[d]) /\ Recording(Thread(d))
    BY <1>1, <1>4, <1>5, <1>6 DEF CameraTrue
<1>8. Thread(d) \in ThreadType /\ dropped[d] \in Nat
    BY <1>1, <1>3, ThreadAt DEF Thread
<1> HIDE DEF f
<1>9. CASE HasRoom(d)
    <2>1. /\ threads' = [threads EXCEPT ![take][d] =
                            [threads[take][d] EXCEPT !.queue = Append(@, f)]]
          /\ dropped' = dropped
        BY <1>1, <1>3, <1>9, ThreadAt DEF PutFrame
    <2>2. PICK t : t = [Thread(d) EXCEPT !.queue = Append(@, f)]
        OBVIOUS
    <2>3. threads' = [threads EXCEPT ![take][d] = t]
        BY <2>1, <2>2 DEF Thread
    <2>4. Thread(d)' = t /\ \A c \in Keys \ {d} : Thread(c)' = Thread(c)
        BY <1>1, <1>3, <2>3, OneThread
    <2>5. ThreadTrue(t, take, size + 1, dropped[d]) /\ Recording(t)
        BY <1>1, <1>2, <1>7, <1>8, <2>2, ThreadFed
    <2>6. CameraTrue(d)'
        BY <1>1, <1>5, <1>6, <2>1, <2>4, <2>5 DEF CameraTrue
    <2>7. \A c \in Keys \ {d} : CameraTrue(c)'
        BY <1>1, <1>4, <1>5, <1>6, <2>1, <2>4, CameraStays
    <2>. QED
        BY <2>6, <2>7 DEF CamerasInv
<1>10. CASE ~HasRoom(d)
    <2>1. threads' = threads /\ dropped' = [dropped EXCEPT ![d] = @ + 1]
        BY <1>1, <1>10 DEF PutFrame, CountDropped
    <2>2. /\ \A c \in Keys : Thread(c)' = Thread(c)
          /\ dropped'[d] = dropped[d] + 1
          /\ \A c \in Keys \ {d} : dropped'[c] = dropped[c]
        BY <1>1, <1>3, <2>1 DEF Thread
    <2>3. ThreadTrue(Thread(d), take, size + 1, dropped[d] + 1)
        BY <1>1, <1>2, <1>7, <1>8, ThreadFed
    <2>4. CameraTrue(d)'
        BY <1>1, <1>5, <1>6, <1>7, <2>2, <2>3 DEF CameraTrue
    <2>5. \A c \in Keys \ {d} : CameraTrue(c)'
        BY <1>1, <1>4, <1>5, <1>6, <2>2, CameraStays
    <2>. QED
        BY <2>4, <2>5 DEF CamerasInv
<1>. QED
    BY <1>9, <1>10

(* The round of the sentinel.                                              *)
LEMMA CamerasSent ==
    ASSUME ControlTypes, FlowInv, CamerasInv, EncoderTypeOK, TakeInv, SendSentinel
    PROVE  CamerasInv'
<1>0. PICK d : d = key
    OBVIOUS
<1>1. /\ pc = "sentinel" /\ size \in Nat /\ take \in Takes /\ take' = take
      /\ d \in Keys /\ d \in Nat /\ size' = size
      /\ IF d < Cameras THEN key' = d + 1 /\ pc' = "sentinel"
                          ELSE key' = 1 /\ pc' = "join"
      /\ dropped' = dropped
      /\ threads' = [threads EXCEPT ![take][d].queue = Append(@, End)]
    BY <1>0, RecorderAssumption, EncoderAssumption
    DEF SendSentinel, NextKey, PutSentinel, TakeInv, ControlTypes, RecorderAssumption,
        EncoderAssumption, Keys, Written
<1>2. ThreadsOK(threads) /\ dropped \in [Keys -> Nat]
    BY EncoderTypes
<1>3. \A c \in Keys : CameraTrue(c)
    BY <1>1 DEF CamerasInv, Active, Written
<1>4. /\ \A c \in Keys : ~Ended(c)' /\ Fed(c) = size /\ Fed(c)' = size
      /\ \A c \in Keys \ {d} : Unsent(c)' => Unsent(c)
      /\ Unsent(d) /\ ~Unsent(d)'
    BY <1>0, <1>1, EncoderAssumption
    DEF Unsent, Ended, Fed, Tick, Keys, EncoderAssumption
<1>5. ThreadTrue(Thread(d), take, size, dropped[d]) /\ Recording(Thread(d))
    BY <1>1, <1>3, <1>4 DEF CameraTrue
<1>6. Thread(d) \in ThreadType /\ dropped[d] \in Nat
    BY <1>1, <1>2, ThreadAt DEF Thread
<1>7. PICK t : t = [Thread(d) EXCEPT !.queue = Append(@, End)]
    OBVIOUS
<1>8. threads' = [threads EXCEPT ![take][d] = t]
    BY <1>1, <1>2, <1>7, ThreadAt DEF Thread
<1>9. Thread(d)' = t /\ \A c \in Keys \ {d} : Thread(c)' = Thread(c)
    BY <1>1, <1>2, <1>8, OneThread
<1>10. ThreadTrue(t, take, size, dropped[d])
    BY <1>1, <1>5, <1>6, <1>7, ThreadSent
<1>11. CameraTrue(d)'
    BY <1>1, <1>4, <1>9, <1>10 DEF CameraTrue
<1>12. \A c \in Keys \ {d} : CameraTrue(c)'
    BY <1>1, <1>3, <1>4, <1>9, CameraStays
<1>. QED
    BY <1>11, <1>12 DEF CamerasInv

(* A join that times out stops its thread.                                 *)
LEMMA CamerasGivenUp ==
    ASSUME ControlTypes, FlowInv, CamerasInv, EncoderTypeOK, TakeInv, JoinTimesOut
    PROVE  CamerasInv'
<1>0. PICK d : d = key
    OBVIOUS
<1>1. /\ pc = "join" /\ size \in Nat /\ take \in Takes /\ take' = take
      /\ d \in Keys /\ d \in Nat /\ size' = size
      /\ IF d < Cameras THEN key' = d + 1 /\ pc' = "join"
                        ELSE key' = 1 /\ pc' = "cleanup"
      /\ dropped' = dropped
      /\ threads' = [threads EXCEPT ![take][d].stop = TRUE]
    BY <1>0, RecorderAssumption, EncoderAssumption
    DEF JoinTimesOut, NextKey, GiveUp, TakeInv, ControlTypes, RecorderAssumption,
        EncoderAssumption, Keys, Written
<1>2. ThreadsOK(threads) /\ dropped \in [Keys -> Nat]
    BY EncoderTypes
<1>3. \A c \in Keys : CameraTrue(c)
    BY <1>1 DEF CamerasInv, Active, Written
<1>4. /\ \A c \in Keys : ~Unsent(c)' /\ Fed(c) = size /\ Fed(c)' = size
      /\ \A c \in Keys \ {d} : Ended(c)' => Ended(c)
    BY <1>0, <1>1, EncoderAssumption
    DEF Unsent, Ended, Fed, Tick, Keys, EncoderAssumption
<1>5. ThreadTrue(Thread(d), take, size, dropped[d])
    BY <1>1, <1>3, <1>4 DEF CameraTrue
<1>6. Thread(d) \in ThreadType /\ dropped[d] \in Nat
    BY <1>1, <1>2, ThreadAt DEF Thread
<1>7. PICK t : t = [Thread(d) EXCEPT !.stop = TRUE]
    OBVIOUS
<1>8. threads' = [threads EXCEPT ![take][d] = t]
    BY <1>1, <1>2, <1>7, ThreadAt DEF Thread
<1>9. Thread(d)' = t /\ \A c \in Keys \ {d} : Thread(c)' = Thread(c)
    BY <1>1, <1>2, <1>8, OneThread
<1>10. ThreadTrue(t, take, size, dropped[d]) /\ Joinable(t)
    BY <1>1, <1>5, <1>6, <1>7, ThreadStopped
<1>11. CameraTrue(d)'
    BY <1>1, <1>4, <1>9, <1>10 DEF CameraTrue
<1>12. \A c \in Keys \ {d} : CameraTrue(c)'
    BY <1>1, <1>3, <1>4, <1>9, CameraStays
<1>. QED
    BY <1>11, <1>12 DEF CamerasInv

(* The queues of joined threads are emptied.                               *)
LEMMA CamerasCleaned ==
    ASSUME ControlTypes, FlowInv, CamerasInv, EncoderTypeOK, TakeInv, CleanupEpisode
    PROVE  CamerasInv'
<1>. SUFFICES ASSUME NEW c \in Keys PROVE CameraTrue(c)'
    BY DEF CamerasInv
<1>1. /\ pc = "cleanup" /\ pc' = "video" /\ take \in Takes /\ size \in Nat
      /\ UNCHANGED <<key, size, take, dropped>>
      /\ threads' = [threads EXCEPT ![take] =
                        [d \in Keys |-> [@[d] EXCEPT !.queue = <<>>]]]
    BY RecorderAssumption
    DEF CleanupEpisode, Cleanup, TakeInv, ControlTypes, RecorderAssumption, Written
<1>2. ThreadsOK(threads) /\ dropped \in [Keys -> Nat]
    BY EncoderTypes
<1>3. CameraTrue(c)
    BY <1>1 DEF CamerasInv, Active, Written
<1>4. ~Unsent(c)' /\ Fed(c)' = size /\ Fed(c) = size /\ Ended(c)
    BY <1>1 DEF Unsent, Fed, Ended, Tick
<1>5. Thread(c) \in ThreadType /\ dropped[c] \in Nat
    BY <1>1, <1>2, ThreadAt DEF Thread
<1>6. ThreadTrue(Thread(c), take, size, dropped[c]) /\ Joinable(Thread(c))
    BY <1>3, <1>4 DEF CameraTrue
<1>7. PICK t : t = [Thread(c) EXCEPT !.queue = <<>>]
    OBVIOUS
<1>8. ThreadTrue(t, take, size, dropped[c]) /\ Joinable(t)
    BY <1>1, <1>5, <1>6, <1>7, ThreadStopped
<1>9. Thread(c)' = t
    BY <1>1, <1>2, <1>7 DEF Thread, ThreadsOK
<1>. QED
    BY <1>1, <1>4, <1>8, <1>9 DEF CameraTrue

(* The threads run on their own.                                           *)
LEMMA CamerasRun ==
    ASSUME ControlTypes, FlowInv, CamerasInv, EncoderTypeOK, EncoderTypeOK', TakeInv,
           Encoders
    PROVE  CamerasInv'
<1>. SUFFICES ASSUME Active', NEW c \in Keys PROVE CameraTrue(c)'
    BY DEF CamerasInv
<1>1. /\ UNCHANGED <<pc, key, size, torn>> /\ size \in Nat
      /\ \E k \in Takes, d \in Keys : EncoderThread(k, d)
    BY RecorderAssumption DEF Encoders, controlVars, ControlTypes, RecorderAssumption
<1>2. PICK k \in Takes, d \in Keys : EncoderThread(k, d)
    BY <1>1
<1>3. take' = take /\ dropped' = dropped
    BY <1>2 DEF EncoderThread, Encode, EncodeFails, FlushAndClose
<1>4. Active /\ take \in Takes /\ key \in Nat /\ Fed(c) \in Nat
    BY <1>1, EncoderAssumption
    DEF Active, TakeInv, Fed, ControlTypes, Keys, EncoderAssumption
<1>5. /\ Fed(c)' = Fed(c) /\ Unsent(c)' = Unsent(c) /\ Ended(c)' = Ended(c)
    BY <1>1 DEF Fed, Unsent, Ended
<1>6. CameraTrue(c)
    BY <1>4 DEF CamerasInv
<1>7. ThreadsOK(threads) /\ ThreadsOK(threads') /\ dropped \in [Keys -> Nat]
    <2>1. ThreadsOK(threads')
        BY DEF EncoderTypeOK, ThreadsOK, ThreadOK, ThreadType
    <2>. QED
        BY <2>1, EncoderTypes
<1>8. PICK t : t = threads[take][c]
    OBVIOUS
<1>9. PICK u : u = threads'[take][c]
    OBVIOUS
<1>10. /\ t \in ThreadType /\ u \in ThreadType /\ dropped[c] \in Nat
       /\ Thread(c) = t /\ Thread(c)' = u
    BY <1>3, <1>4, <1>7, <1>8, <1>9 DEF Thread, ThreadsOK
<1>11. CASE k # take \/ d # c
    <2>1. u = t
        BY <1>2, <1>4, <1>7, <1>8, <1>9, <1>11
        DEF EncoderThread, Encode, EncodeFails, FlushAndClose, ThreadsOK
    <2>. QED
        BY <1>3, <1>5, <1>6, <1>10, <2>1, CameraStays
<1>12. CASE k = take /\ d = c
    <2>1. /\ t.status = "running" /\ u.stop = t.stop
          /\ \/ /\ t.queue # <<>> /\ Head(t.queue) # End
                /\ u.queue = Tail(t.queue) /\ u.status = "running"
                /\ u.video = Append(t.video, Head(t.queue))
             \/ /\ t.queue # <<>>
                /\ u.queue = Tail(t.queue) /\ u.status = "error" /\ u.video = t.video
             \/ /\ t.queue # <<>> /\ Head(t.queue) = End
                /\ u.queue = Tail(t.queue) /\ u.status = "ok" /\ u.video = t.video
             \/ /\ t.queue = <<>> /\ t.stop
                /\ u.queue = t.queue /\ u.status = "ok" /\ u.video = t.video
        <3>1. /\ take \in Takes /\ threads \in [Takes -> [Keys -> ThreadType]]
              /\ t = threads[take][c] /\ u = threads'[take][c]
            BY <1>4, <1>7, <1>8, <1>9 DEF ThreadsOK
        <3>2. CASE Encode(take, c)
            BY <3>1, <3>2 DEF Encode, ThreadType
        <3>3. CASE EncodeFails(take, c)
            BY <3>1, <3>3 DEF EncodeFails, ThreadType
        <3>4. CASE FlushAndClose(take, c)
            BY <3>1, <3>4 DEF FlushAndClose, ThreadType
        <3>. QED
            BY <1>2, <1>12, <3>2, <3>3, <3>4 DEF EncoderThread
    <2>2. /\ ThreadTrue(t, take, Fed(c), dropped[c])
          /\ Unsent(c) => Recording(t)
          /\ Ended(c) => Joinable(t)
        BY <1>6, <1>10 DEF CameraTrue
    <2>3. /\ ThreadTrue(u, take, Fed(c), dropped[c])
          /\ Recording(t) => Recording(u)
          /\ Joinable(t) => Joinable(u)
        BY <1>4, <1>10, <2>1, <2>2, ThreadRuns
    <2>. QED
        BY <1>3, <1>5, <1>10, <2>2, <2>3 DEF CameraTrue
<1>. QED
    BY <1>11, <1>12

(* Threads, and what they make of their frames, in every step.             *)
LEMMA CamerasKeep ==
    ControlTypes /\ EncoderTypeOK /\ EncoderTypeOK' /\ TakeInv /\ FlowInv /\ FlowInv'
        /\ CamerasInv /\ Next => CamerasInv'
<1>. SUFFICES ASSUME ControlTypes, EncoderTypeOK, EncoderTypeOK', TakeInv, FlowInv,
                     FlowInv', CamerasInv, Next
              PROVE  CamerasInv'
    OBVIOUS
<1>0. key \in Keys /\ size \in Nat /\ \A c \in Keys : c \in Nat \ {0}
    BY RecorderAssumption, EncoderAssumption
    DEF ControlTypes, Keys, RecorderAssumption, EncoderAssumption
<1>1. ASSUME Active' => Active, UNCHANGED <<take, threads, dropped>>,
             \A c \in Keys : Fed(c)' = Fed(c) /\ (Unsent(c)' => Unsent(c)),
             \A c \in Keys : Ended(c)' => Ended(c) \/ Joinable(Thread(c))
      PROVE  CamerasInv'
    <2>. SUFFICES ASSUME Active', NEW c \in Keys PROVE CameraTrue(c)'
        BY DEF CamerasInv
    <2>1. CameraTrue(c) /\ Thread(c)' = Thread(c)
        BY <1>1 DEF CamerasInv, Thread
    <2>. QED
        BY <1>1, <2>1 DEF CameraTrue
<1>2. CASE \/ StartSegment \/ FeedRaises \/ SaveFails \/ BufferRefused \/ JoinRaises
           \/ VideoUnreadable \/ Commit \/ ReleaseOnError \/ Poison \/ CancelEpisode
           \/ DrainQueues \/ ClearBuffer
    <2>1. ~Active'
        BY <1>0, <1>2
        DEF StartSegment, FeedRaises, SaveFails, BufferRefused, JoinRaises,
            VideoUnreadable, Commit, ReleaseOnError, Poison, CancelEpisode,
            DrainQueues, ClearBuffer, Active, Written, FlowInv
    <2>. QED
        BY <2>1 DEF CamerasInv
<1>3. CASE Register \/ SubmitPush \/ Teardown \/ ShutdownExecutor \/ Finalize \/ FinalPush
    <2>1. ~Active'
        BY <1>0, <1>3
        DEF Register, SubmitPush, After, Teardown, ShutdownExecutor, Finalize,
            FinalPush, Active, Written, FlowInv
    <2>. QED
        BY <2>1 DEF CamerasInv
<1>4. CASE FeedChecks \/ Rotate \/ LoopEnds \/ SaveTail \/ AcquireLock
    <2>1. /\ UNCHANGED <<take, threads, dropped, key, size, torn>>
          /\ \/ pc = "check" /\ pc' = "put"
             \/ pc = "tick" /\ pc' \in {"lock", "tail"}
             \/ pc = "tail" /\ pc' \in {"off", "lock"}
             \/ pc = "lock" /\ pc' = "data"
        BY <1>4
        DEF FeedChecks, Rotate, LoopEnds, SaveTail, AcquireLock, ControlOnly, encoderVars
    <2>2. Active' => Active
        BY <2>1 DEF Active, Written
    <2>3. \A c \in Keys : Fed(c)' = Fed(c)
        BY <2>1 DEF Fed
    <2>4. \A c \in Keys : (Unsent(c)' => Unsent(c)) /\ ~Ended(c)'
        BY <2>1 DEF Unsent, Ended, Tick
    <2>. QED
        BY <1>1, <2>1, <2>2, <2>3, <2>4
<1>5. CASE WriteRows
    <2>1. /\ UNCHANGED <<take, threads, dropped, key, size, torn>>
          /\ pc = "data" /\ pc' = "sentinel" /\ size > 0 /\ ~torn
        BY <1>5 DEF WriteRows, encoderVars
    <2>2. Active
        BY <2>1 DEF Active
    <2>3. \A c \in Keys : Fed(c)' = Fed(c) /\ Unsent(c) /\ ~Ended(c)'
        BY <2>1 DEF Fed, Unsent, Ended
    <2>. QED
        BY <1>1, <2>1, <2>2, <2>3
<1>6. CASE JoinThread
    <2>1. /\ UNCHANGED <<take, threads, dropped, size, torn>>
          /\ pc = "join" /\ Thread(key).status = "ok"
          /\ \/ pc' = "join" /\ key' = key + 1
             \/ pc' = "cleanup"
        BY <1>6 DEF JoinThread, NextKey, ControlOnly, encoderVars
    <2>2. Active
        BY <2>1 DEF Active, Written
    <2>3. \A c \in Keys : Fed(c)' = Fed(c) /\ ~Unsent(c)'
        BY <2>1 DEF Fed, Unsent, Tick
    <2>4. \A c \in Keys : Ended(c)' => Ended(c) \/ c = key
        <3>1. pc' = "cleanup" => ~(key < Cameras)
            BY <1>6 DEF JoinThread, NextKey
        <3>. QED
            BY <1>0, <2>1, <3>1, EncoderAssumption DEF Ended, Keys, EncoderAssumption
    <2>5. Joinable(Thread(key))
        BY <2>1 DEF Joinable
    <2>. QED
        BY <1>1, <2>1, <2>2, <2>3, <2>4, <2>5
<1>7. CASE SaveVideo
    <2>1. /\ UNCHANGED <<take, threads, dropped, size, torn>>
          /\ pc = "video" /\ pc' \in {"video", "commit"}
        BY <1>7 DEF SaveVideo, NextKey, encoderVars
    <2>2. Active
        BY <2>1 DEF Active, Written
    <2>3. \A c \in Keys : Fed(c)' = Fed(c) /\ ~Unsent(c)' /\ Ended(c)
        BY <2>1 DEF Fed, Unsent, Ended, Tick
    <2>. QED
        BY <1>1, <2>1, <2>2, <2>3
<1>8. CASE Worker
    <2>1. UNCHANGED <<take, threads, dropped, pc, key, size, torn>>
        BY <1>8 DEF Worker, TakePush, LockForPush, LookAgain, Upload, UploadFails,
                    ClearNeedsPush, WorkerOnly, CountError, encoderVars, controlVars
    <2>2. Active' => Active
        BY <2>1 DEF Active
    <2>3. \A c \in Keys : Fed(c)' = Fed(c) /\ Unsent(c)' = Unsent(c) /\ Ended(c)' = Ended(c)
        BY <2>1 DEF Fed, Unsent, Ended
    <2>. QED
        BY <1>1, <2>1, <2>2, <2>3
<1>9. CASE AddFrame
    BY <1>9, CamerasStart, EncoderTypes
<1>10. CASE FeedFrame \/ SendSentinel
    BY <1>10, CamerasFed, CamerasSent
<1>11. CASE JoinTimesOut \/ CleanupEpisode
    BY <1>11, CamerasGivenUp, CamerasCleaned
<1>12. CASE Encoders
    BY <1>12, CamerasRun
<1>. QED
    BY <1>2, <1>3, <1>4, <1>5, <1>6, <1>7, <1>8, <1>9, <1>10, <1>11, <1>12
    DEF Next, Save

(* What the metadata says of an episode.                                   *)
Episode == [take : Takes, from : Nat, to : Nat, videos : [Keys -> Videos]]

(* What was in a file stays where it was when the file grows.              *)
LEMMA FileGrows ==
    ASSUME NEW s \in Seq(Frames), NEW t \in Seq(Frames), NEW k, NEW n \in Nat
    PROVE  /\ \A from \in Nat : RowsAt(s, from, k, n) => RowsAt(s \o t, from, k, n)
           /\ \A v \in Videos : VideoTrue(s, v, k, n) => VideoTrue(s \o t, v, k, n)
<1> DEFINE r == s \o t
<1>1. /\ Len(s) \in Nat /\ Len(t) \in Nat /\ Len(r) = Len(s) + Len(t)
      /\ \A i \in 1 .. Len(s) : r[i] = s[i]
    OBVIOUS
<1> HIDE DEF r
<1>2. ASSUME NEW from \in Nat, RowsAt(s, from, k, n) PROVE RowsAt(r, from, k, n)
    BY <1>1, <1>2 DEF RowsAt
<1>3. ASSUME NEW v \in Videos, VideoTrue(s, v, k, n) PROVE VideoTrue(r, v, k, n)
    <2>1. v.from \in Nat /\ v.to \in Nat /\ v.to <= Len(s) /\ v.to <= Len(r)
        BY <1>1, <1>3 DEF Videos, VideoTrue
    <2>2. \A i \in v.from + 1 .. v.to : r[i] = s[i]
        BY <1>1, <2>1
    <2>. QED
        BY <1>3, <2>1, <2>2 DEF VideoTrue
<1>. QED
    BY <1>2, <1>3 DEF r

(* The rows of an episode, after those that are there.                     *)
LEMMA RowsAdded ==
    ASSUME NEW s \in Seq(Frames), size \in Nat, take \in Takes
    PROVE  RowsAt(s \o EpisodeRows, Len(s), take, size)
<1>1. PICK t \in Seq(Frames) : t = EpisodeRows /\ Len(t) = size
    BY RowsOfEpisode
<1>2. \A i \in 1 .. size : t[i] = [take |-> take, no |-> i]
    BY <1>1 DEF EpisodeRows
<1>3. /\ Len(s \o t) = Len(s) + size /\ Len(s) \in Nat
      /\ \A i \in 1 .. Len(t) : (s \o t)[Len(s) + i] = t[i]
    BY <1>1
<1>. QED
    BY <1>1, <1>2, <1>3 DEF RowsAt

(* A video of some of the frames, after those that are there.              *)
LEMMA VideoAdded ==
    ASSUME NEW s \in Seq(Frames), NEW f \in Seq(Frames), NEW k, NEW n \in Nat,
           InOrder(f), OfTake(f, k, n), NEW v \in Videos,
           v.from = Len(s), v.to = Len(s) + Len(f), v.cut \/ Len(f) + v.lost = n
    PROVE  VideoTrue(s \o f, v, k, n)
<1> DEFINE r == s \o f
<1>1. /\ Len(s) \in Nat /\ Len(f) \in Nat /\ Len(r) = Len(s) + Len(f)
      /\ \A i \in 1 .. Len(f) : r[Len(s) + i] = f[i]
      /\ \A i \in 1 .. Len(f) : f[i] \in Frames
    OBVIOUS
<1> HIDE DEF r
<1>2. \A i \in 1 .. Len(f) : f[i] # End
    BY <1>1, FrameFacts
<1>3. ASSUME NEW i \in Len(s) + 1 .. Len(s) + Len(f)
      PROVE  i - Len(s) \in 1 .. Len(f) /\ r[i] = f[i - Len(s)]
    <2>1. i - Len(s) \in 1 .. Len(f) /\ Len(s) + (i - Len(s)) = i
        BY <1>1
    <2>. QED
        BY <1>1, <2>1
<1>4. \A i \in Len(s) + 1 .. Len(s) + Len(f) : r[i].take = k
    BY <1>2, <1>3 DEF OfTake
<1>5. ASSUME NEW i \in Len(s) + 1 .. Len(s) + Len(f),
             NEW j \in Len(s) + 1 .. Len(s) + Len(f), i < j
      PROVE  r[i].no < r[j].no
    <2>1. i - Len(s) < j - Len(s)
        BY <1>1, <1>5
    <2>. QED
        BY <1>2, <1>3, <2>1 DEF InOrder
<1>6. (Len(s) + Len(f)) - Len(s) = Len(f) /\ Len(s) <= Len(s) + Len(f)
    BY <1>1
<1>7. v.cut \/ (v.to - v.from) + v.lost = n
    BY <1>6, Zenon
<1>8. VideoTrue(r, v, k, n)
    <2>1. v.from <= v.to /\ v.to <= Len(r)
        BY <1>1, <1>6
    <2>. QED
        BY <1>4, <1>5, <1>7, <2>1, Zenon DEF VideoTrue
<1>. QED
    BY <1>8 DEF r

(* What the metadata says of the last video of a camera are numbers.       *)
LEMMA LatestToNat ==
    ASSUME DataTypes, NEW c \in Keys
    PROVE  LatestTo(c) \in Nat
<1>1. CASE episodes = <<>>
    BY <1>1 DEF LatestTo
<1>2. CASE episodes # <<>>
    <2>1. episodes[Len(episodes)] \in Episode
        BY <1>2, LastOf DEF DataTypes, Episode
    <2>2. episodes[Len(episodes)].videos[c] \in Videos
        BY <2>1 DEF Episode
    <2>. QED
        BY <1>2, <2>2 DEF LatestTo, Videos
<1>. QED
    BY <1>1, <1>2

(* An episode stays true when its files grow.                              *)
LEMMA EpisodeStays ==
    ASSUME DataTypes, NEW e \in Episode, EpisodeTrue(e),
           rows' = rows \/ \E t \in Seq(Frames) : rows' = rows \o t,
           \A c \in Keys : \/ videos'[c] = videos[c]
                           \/ \E t \in Seq(Frames) : videos'[c] = videos[c] \o t
    PROVE  EpisodeTrue(e)'
<1>1. /\ e.from \in Nat /\ e.to \in Nat /\ e.from <= e.to /\ e.to - e.from \in Nat
      /\ \A c \in Keys : e.videos[c] \in Videos
    BY DEF Episode, EpisodeTrue
<1>2. PICK n \in Nat : n = e.to - e.from
    BY <1>1
<1>3. RowsAt(rows', e.from, e.take, n)
    BY <1>1, <1>2, FileGrows DEF DataTypes, EpisodeTrue
<1>4. ASSUME NEW c \in Keys PROVE VideoTrue(videos'[c], e.videos[c], e.take, n)
    <2>1. VideoTrue(videos[c], e.videos[c], e.take, n) /\ videos[c] \in Seq(Frames)
        BY <1>2 DEF DataTypes, EpisodeTrue
    <2>. QED
        BY <1>1, <1>2, <2>1, FileGrows
<1>. QED
    BY <1>1, <1>2, <1>3, <1>4 DEF EpisodeTrue

(* The rows of the episode are written.                                    *)
LEMMA EpisodesWritten ==
    ASSUME ControlTypes, DataTypes, TakeInv, RowsInv, EpisodesInv, WriteRows
    PROVE  EpisodesInv'
<1>1. /\ pc = "data" /\ pc' = "sentinel" /\ size > 0 /\ size \in Nat /\ take \in Takes
      /\ rows' = rows \o EpisodeRows
      /\ UNCHANGED <<take, size, key, videos, episodes, made, poisoned>>
    BY RecorderAssumption
    DEF WriteRows, encoderVars, ControlTypes, TakeInv, RecorderAssumption
<1>2. EpisodeRows \in Seq(Frames) /\ rows \in Seq(Frames)
    BY <1>1, RowsOfEpisode DEF DataTypes
<1>3. ASSUME NEW i \in 1 .. Len(episodes) PROVE EpisodeTrue(episodes[i])'
    <2>1. PICK e \in Episode : e = episodes[i] /\ EpisodeTrue(e)
        <3>1. episodes[i] \in Episode
            <4>1. episodes \in Seq(Episode)
                BY DEF DataTypes, Episode
            <4>. QED
                BY <4>1
        <3>2. EpisodeTrue(episodes[i])
            BY DEF EpisodesInv
        <3>. QED
            BY <3>1, <3>2
    <2>2. EpisodeTrue(e)'
        BY <1>1, <1>2, <2>1, EpisodeStays
    <2>. QED
        BY <1>1, <2>1, <2>2
<1>4. RowsAt(rows, LatestRow, take, size)'
    <2>1. Len(rows) = LatestRow /\ LatestRow' = LatestRow
        BY <1>1 DEF RowsInv, RowsKnown, Written, LatestRow
    <2>. QED
        BY <1>1, <1>2, <2>1, RowsAdded
<1>5. ASSUME NEW c \in Keys PROVE MadeTrue(c)'
    <2>1. ~Made(c) /\ ~Made(c)' /\ LatestTo(c)' = LatestTo(c) /\ MadeTrue(c)
        BY <1>1 DEF Made, LatestTo, EpisodesInv
    <2>. QED
        BY <1>1, <2>1 DEF MadeTrue
<1>. QED
    BY <1>1, <1>3, <1>4, <1>5 DEF EpisodesInv

(* A thread's video joins those of its camera.                             *)
LEMMA VideoJoins ==
    ASSUME ControlTypes, EncoderTypeOK, DataTypes, TakeInv, RowsInv, CamerasInv,
           EpisodesInv, SaveVideo, NEW d \in Keys, d = key
    PROVE  /\ \E t \in Seq(Frames) :
                /\ videos' = [videos EXCEPT ![d] = IF episodes = <<>> THEN t
                                                   ELSE videos[d] \o t]
           /\ \A c \in Keys \ {d} : made'[c] = made[c]
           /\ made'[d].from = LatestTo(d) /\ made'[d].to = Len(videos'[d])
           /\ VideoTrue(videos'[d], made'[d], take, size)
<1>1. /\ pc = "video" /\ size \in Nat /\ take \in Takes
      /\ Thread(d).status # "running"
    BY RecorderAssumption
    DEF SaveVideo, VideoReadable, ControlTypes, TakeInv, Written, RecorderAssumption
<1>2. ThreadTrue(Thread(d), take, size, dropped[d]) /\ Joinable(Thread(d))
    BY <1>1 DEF CamerasInv, Active, Written, CameraTrue, Fed, Ended
<1>3. PICK t \in ThreadType : t = Thread(d)
    BY <1>1, EncoderTypes, ThreadAt DEF Thread
<1>4. PICK f \in Seq(Frames) : f = t.video
    BY <1>3, ThreadFields
<1>5. /\ InOrder(f) /\ OfTake(f, take, size)
      /\ t.stop \/ Len(f) + dropped[d] = size
    <2>1. /\ StreamTrue(f, t.queue, take, size)
          /\ t.stop \/ t.status = "error" \/ Len(f) + Left(t.queue) + dropped[d] = size
          /\ t.status = "ok" => t.stop \/ t.queue = <<>>
          /\ t.status = "ok" \/ t.stop
        BY <1>2, <1>3, <1>4 DEF ThreadTrue, Joinable
    <2>2. ~t.stop => Len(f) + dropped[d] = size
        <3>1. ASSUME ~t.stop PROVE Len(f) + 0 + dropped[d] = size
            <4>1. t.status = "ok" /\ t.queue = <<>>
                BY <2>1, <3>1
            <4>2. Left(t.queue) = 0
                BY <4>1 DEF Left
            <4>. QED
                BY <2>1, <3>1, <4>1, <4>2
        <3>2. Len(f) + 0 = Len(f)
            OBVIOUS
        <3>. QED
            BY <3>1, <3>2
    <2>. QED
        BY <2>1, <2>2 DEF StreamTrue
<1>6. LatestTo(d) \in Nat /\ dropped[d] \in Nat /\ t.stop \in BOOLEAN /\ Len(f) \in Nat
    BY <1>4, LatestToNat, EncoderTypes, ThreadFields
<1>7. PICK v : v = [from |-> LatestTo(d), to |-> LatestTo(d) + Len(f),
                    lost |-> dropped[d], cut |-> t.stop]
    OBVIOUS
<1>8. /\ v.from = LatestTo(d) /\ v.to = LatestTo(d) + Len(f)
      /\ v.lost = dropped[d] /\ v.cut = t.stop
    BY <1>7
<1>9. v \in Videos
    <2>1. LatestTo(d) + Len(f) \in Nat
        BY <1>6
    <2>. QED
        BY <1>6, <1>7, <2>1, Zenon DEF Videos
<1>10. /\ videos' = [videos EXCEPT ![d] = IF episodes = <<>> THEN f ELSE @ \o f]
       /\ made' = [made EXCEPT ![d] = v]
    BY <1>3, <1>4, <1>7 DEF SaveVideo
<1>11. /\ videos'[d] = IF episodes = <<>> THEN f ELSE videos[d] \o f
       /\ made'[d] = v /\ \A c \in Keys \ {d} : made'[c] = made[c]
       /\ videos[d] \in Seq(Frames)
    BY <1>10 DEF DataTypes
<1>12. PICK s \in Seq(Frames) : videos'[d] = s \o f /\ Len(s) = LatestTo(d)
    <2>1. CASE episodes = <<>>
        <3>1. <<>> \in Seq(Frames) /\ <<>> \o f = f /\ Len(<<>>) = 0
            OBVIOUS
        <3>2. LatestTo(d) = 0 /\ videos'[d] = f
            BY <1>11, <2>1 DEF LatestTo
        <3>. QED
            BY <3>1, <3>2
    <2>2. CASE episodes # <<>>
        <3>1. MadeTrue(d) /\ ~Made(d)
            BY <1>1 DEF EpisodesInv, Made, ControlTypes, Keys
        <3>2. ~poisoned
            BY <1>1 DEF RowsInv
        <3>3. Len(videos[d]) = LatestTo(d)
            BY <1>1, <2>2, <3>1, <3>2 DEF MadeTrue
        <3>. QED
            BY <1>11, <2>2, <3>3
    <2>. QED
        BY <2>1, <2>2
<1>13. VideoTrue(s \o f, v, take, size)
    BY <1>1, <1>5, <1>8, <1>9, <1>12, VideoAdded
<1>14. v.to = Len(videos'[d])
    <2>1. Len(s \o f) = Len(s) + Len(f)
        OBVIOUS
    <2>. QED
        BY <1>8, <1>12, <2>1
<1>. QED
    BY <1>8, <1>10, <1>11, <1>12, <1>13, <1>14

(* The video of a camera is saved.                                         *)
LEMMA EpisodesFilmed ==
    ASSUME ControlTypes, EncoderTypeOK, DataTypes, TakeInv, RowsInv, CamerasInv,
           EpisodesInv, SaveVideo
    PROVE  EpisodesInv'
<1>0. PICK d : d = key
    OBVIOUS
<1>1. /\ pc = "video" /\ d \in Keys /\ d \in Nat
      /\ UNCHANGED <<take, size, rows, episodes, poisoned>>
      /\ IF d < Cameras THEN key' = d + 1 /\ pc' = "video"
                        ELSE key' = 1 /\ pc' = "commit"
    BY <1>0, EncoderAssumption
    DEF SaveVideo, NextKey, encoderVars, ControlTypes, EncoderAssumption, Keys
<1>2. PICK t \in Seq(Frames) : videos' = [videos EXCEPT ![d] =
                                    IF episodes = <<>> THEN t ELSE videos[d] \o t]
    BY <1>0, <1>1, VideoJoins
<1>3. /\ \A c \in Keys \ {d} : made'[c] = made[c]
      /\ made'[d].from = LatestTo(d) /\ made'[d].to = Len(videos'[d])
      /\ VideoTrue(videos'[d], made'[d], take, size)
    BY <1>0, <1>1, VideoJoins
<1>4. /\ \A c \in Keys \ {d} : videos'[c] = videos[c]
      /\ videos'[d] = IF episodes = <<>> THEN t ELSE videos[d] \o t
    BY <1>1, <1>2 DEF DataTypes
<1>5. ASSUME NEW i \in 1 .. Len(episodes) PROVE EpisodeTrue(episodes[i])'
    <2>1. episodes[i] \in Episode /\ episodes # <<>>
        <3>1. episodes \in Seq(Episode)
            BY DEF DataTypes, Episode
        <3>. QED
            BY <3>1
    <2>2. PICK e \in Episode : e = episodes[i] /\ EpisodeTrue(e)
        BY <2>1 DEF EpisodesInv
    <2>3. \A c \in Keys : \/ videos'[c] = videos[c]
                          \/ \E f \in Seq(Frames) : videos'[c] = videos[c] \o f
        BY <1>4, <2>1
    <2>4. EpisodeTrue(e)'
        BY <1>1, <2>2, <2>3, EpisodeStays
    <2>. QED
        BY <1>1, <2>2, <2>4
<1>6. RowsAt(rows, LatestRow, take, size)'
    <2>1. RowsAt(rows, LatestRow, take, size) /\ LatestRow' = LatestRow
        BY <1>1 DEF EpisodesInv, Written, LatestRow
    <2>. QED
        BY <1>1, <2>1
<1>7. ASSUME NEW c \in Keys PROVE MadeTrue(c)'
    <2>1. LatestTo(c)' = LatestTo(c) /\ MadeTrue(c)
        BY <1>1 DEF LatestTo, EpisodesInv
    <2>2. CASE c = d
        <3>1. Made(c)'
            BY <1>1, <2>2 DEF Made
        <3>. QED
            BY <1>1, <1>3, <2>1, <2>2, <3>1 DEF MadeTrue
    <2>3. CASE c # d
        <3>1. Made(c)' = Made(c)
            BY <1>0, <1>1, <2>3, EncoderAssumption DEF Made, Keys, EncoderAssumption
        <3>. QED
            BY <1>1, <1>3, <1>4, <2>1, <2>3, <3>1 DEF MadeTrue
    <2>. QED
        BY <2>2, <2>3
<1>. QED
    BY <1>1, <1>5, <1>6, <1>7 DEF EpisodesInv

(* The episode's metadata joins that of the others.                        *)
LEMMA EpisodesCommitted ==
    ASSUME ControlTypes, DataTypes, TakeInv, EpisodesInv, Commit
    PROVE  EpisodesInv'
<1>1. PICK e : e = [take |-> take, from |-> LatestRow, to |-> LatestRow + size,
                    videos |-> made]
    OBVIOUS
<1>2. /\ pc = "commit" /\ pc' = "register" /\ size \in Nat /\ take \in Takes
      /\ episodes' = Append(episodes, e)
      /\ UNCHANGED <<rows, videos, take>>
    BY <1>1, RecorderAssumption
    DEF Commit, encoderVars, ControlTypes, TakeInv, Written, RecorderAssumption
<1>3. LatestRow \in Nat /\ LatestRow + size \in Nat /\ (LatestRow + size) - LatestRow = size
    BY <1>2, LatestRowNat
<1>4. e \in Episode
    BY <1>1, <1>2, <1>3 DEF Episode, DataTypes
<1>5. \A c \in Keys : /\ made[c].to = Len(videos[c])
                      /\ VideoTrue(videos[c], made[c], take, size)
    BY <1>2 DEF EpisodesInv, MadeTrue, Made
<1>6. EpisodeTrue(e)
    <2>1. /\ e.from = LatestRow /\ e.to = LatestRow + size /\ e.take = take
          /\ e.videos = made /\ e.from <= e.to /\ e.to - e.from = size
        BY <1>1, <1>2, <1>3
    <2>2. RowsAt(rows, LatestRow, take, size)
        BY <1>2 DEF EpisodesInv, Written
    <2>. QED
        BY <1>5, <2>1, <2>2, Zenon DEF EpisodeTrue
<1>7. EpisodeTrue(e)'
    <2>1. \A c \in Keys : videos'[c] = videos[c]
        BY <1>2
    <2>. QED
        BY <1>2, <1>4, <1>6, <2>1, EpisodeStays
<1>8. episodes \in Seq(Episode)
    BY DEF DataTypes, Episode
<1>9. /\ Len(episodes') = Len(episodes) + 1 /\ Len(episodes) \in Nat
      /\ episodes'[Len(episodes) + 1] = e /\ episodes' # <<>>
      /\ \A i \in 1 .. Len(episodes) : episodes'[i] = episodes[i]
    BY <1>2, <1>8, Appended
<1>10. ASSUME NEW i \in 1 .. Len(episodes') PROVE EpisodeTrue(episodes[i])'
    <2>1. CASE i = Len(episodes) + 1
        BY <1>7, <1>9, <2>1
    <2>2. CASE i # Len(episodes) + 1
        <3>1. i \in 1 .. Len(episodes)
            BY <1>9, <2>2
        <3>2. episodes[i] \in Episode
            BY <1>8, <3>1
        <3>3. PICK g \in Episode : g = episodes[i] /\ EpisodeTrue(g)
            BY <3>1, <3>2 DEF EpisodesInv
        <3>4. EpisodeTrue(g)'
            <4>1. \A c \in Keys : videos'[c] = videos[c]
                BY <1>2
            <4>. QED
                BY <1>2, <3>3, <4>1, EpisodeStays
        <3>5. g = episodes'[i]
            BY <1>9, <3>1, <3>3
        <3>. QED
            BY <3>4, <3>5
    <2>. QED
        BY <2>1, <2>2
<1>11. ASSUME NEW c \in Keys PROVE MadeTrue(c)'
    <2>1. ~Made(c)'
        BY <1>2 DEF Made
    <2>2. LatestTo(c)' = Len(videos[c])
        <3>1. LatestTo(c)' = e.videos[c].to
            BY <1>9 DEF LatestTo
        <3>. QED
            BY <1>1, <1>5, <3>1
    <2>. QED
        BY <1>2, <2>1, <2>2 DEF MadeTrue
<1>. QED
    BY <1>2, <1>10, <1>11 DEF EpisodesInv, Written

(* What is on disk, in every step.                                         *)
LEMMA EpisodesKeep ==
    ControlTypes /\ EncoderTypeOK /\ DataTypes /\ TakeInv /\ RowsInv /\ FlowInv
        /\ CamerasInv /\ EpisodesInv /\ Next => EpisodesInv'
<1>. SUFFICES ASSUME ControlTypes, EncoderTypeOK, DataTypes, TakeInv, RowsInv, FlowInv,
                     CamerasInv, EpisodesInv, Next
              PROVE  EpisodesInv'
    OBVIOUS
<1>0. \A c \in Keys : c \in Nat \ {0}
    BY EncoderAssumption DEF Keys, EncoderAssumption
<1>1. ASSUME UNCHANGED <<rows, videos, episodes, made>>,
             pc' \in Written => pc \in Written /\ take' = take /\ size' = size,
             poisoned => poisoned',
             pc \in {"failed", "latch"} => pc' \in {"failed", "latch"} \/ poisoned',
             \A c \in Keys : /\ Made(c)' => Made(c)
                             /\ Made(c) => Made(c)' \/ pc' = "failed"
      PROVE  EpisodesInv'
    <2>1. \A i \in 1 .. Len(episodes) : EpisodeTrue(episodes[i])'
        BY <1>1 DEF EpisodesInv, EpisodeTrue
    <2>2. LatestRow' = LatestRow /\ \A c \in Keys : LatestTo(c)' = LatestTo(c)
        BY <1>1 DEF LatestRow, LatestTo
    <2>3. pc' \in Written => RowsAt(rows, LatestRow, take, size)'
        BY <1>1, <2>2 DEF EpisodesInv
    <2>4. ASSUME NEW c \in Keys PROVE MadeTrue(c)'
        <3>1. MadeTrue(c)
            BY DEF EpisodesInv
        <3>2. Made(c)' => pc' \in Written
            BY DEF Made, Written
        <3>3. CASE Made(c)'
            BY <1>1, <2>2, <3>1, <3>2, <3>3 DEF MadeTrue
        <3>4. CASE ~Made(c)'
            BY <1>1, <2>2, <3>1, <3>4 DEF MadeTrue
        <3>. QED
            BY <3>3, <3>4
    <2>. QED
        BY <1>1, <2>1, <2>3, <2>4 DEF EpisodesInv
<1>2. CASE \/ StartSegment \/ AddFrame \/ FeedRaises \/ FeedChecks \/ Rotate
           \/ LoopEnds \/ SaveTail \/ SaveFails
    <2>1. /\ UNCHANGED <<rows, videos, episodes, made, poisoned>>
          /\ pc' \notin Written /\ pc \notin {"failed", "latch"}
          /\ pc \in {"video", "commit"} => pc' = "failed"
        BY <1>2
        DEF StartSegment, AddFrame, FeedRaises, FeedChecks, Rotate, LoopEnds,
            SaveTail, SaveFails, ControlOnly, diskVars, Written
    <2>. QED
        BY <1>1, <2>1 DEF Made, Written
<1>3. CASE FeedFrame
    <2>1. /\ UNCHANGED <<rows, videos, episodes, made, poisoned>>
          /\ pc = "put" /\ pc' \in {"check", "tick"}
        BY <1>3 DEF FeedFrame, NextKey, diskVars
    <2>. QED
        BY <1>1, <2>1 DEF Made, Written
<1>4. CASE AcquireLock \/ BufferRefused \/ JoinRaises \/ VideoUnreadable
    <2>1. /\ UNCHANGED <<rows, videos, episodes, made, poisoned>>
          /\ pc' \notin Written /\ pc \notin {"failed", "latch"}
          /\ pc \in {"video", "commit"} => pc' = "failed"
        BY <1>4
        DEF AcquireLock, BufferRefused, JoinRaises, VideoUnreadable, ControlOnly,
            diskVars, Written
    <2>. QED
        BY <1>1, <2>1 DEF Made, Written
<1>5. CASE SendSentinel \/ JoinThread \/ JoinTimesOut
    <2>1. /\ UNCHANGED <<rows, videos, episodes, made, poisoned, take, size>>
          /\ pc \in {"sentinel", "join"} /\ pc' \in {"sentinel", "join", "cleanup"}
        BY <1>5
        DEF SendSentinel, JoinThread, JoinTimesOut, PutSentinel, GiveUp, NextKey,
            ControlOnly, diskVars, encoderVars
    <2>. QED
        BY <1>1, <2>1 DEF Made, Written
<1>6. CASE CleanupEpisode
    <2>1. /\ UNCHANGED <<rows, videos, episodes, made, poisoned, take, size, key>>
          /\ pc = "cleanup" /\ pc' = "video" /\ key = 1
        BY <1>6 DEF CleanupEpisode, Cleanup, diskVars, FlowInv
    <2>2. \A c \in Keys : ~Made(c) /\ ~Made(c)'
        BY <1>0, <2>1 DEF Made
    <2>. QED
        BY <1>1, <2>1, <2>2 DEF Written
<1>7. CASE ReleaseOnError \/ Poison \/ CancelEpisode \/ DrainQueues \/ ClearBuffer
    <2>1. /\ UNCHANGED <<rows, videos, episodes, made>>
          /\ poisoned => poisoned'
          /\ pc \in {"failed", "latch", "cancel", "drain"}
          /\ pc = "failed" => pc' = "latch"
          /\ pc = "latch" => poisoned' = TRUE
          /\ pc' \notin Written
        BY <1>7
        DEF ReleaseOnError, Poison, CancelEpisode, DrainQueues, ClearBuffer,
            ControlOnly, diskVars, Written
    <2>. QED
        BY <1>1, <2>1 DEF Made, Written
<1>8. CASE \/ Register \/ SubmitPush \/ Teardown \/ ShutdownExecutor
           \/ Finalize \/ FinalPush
    <2>1. /\ UNCHANGED <<rows, videos, episodes, made, poisoned>>
          /\ pc \in {"register", "submit", "off", "shutdown", "close", "final"}
          /\ pc' \notin Written
        BY <1>8
        DEF Register, SubmitPush, After, Teardown, ShutdownExecutor, Finalize,
            FinalPush, ControlOnly, diskVars, Written
    <2>. QED
        BY <1>1, <2>1 DEF Made, Written
<1>9. CASE Worker \/ Encoders
    <2>1. UNCHANGED <<rows, videos, episodes, made, poisoned, take, size, key, pc>>
        <3>1. CASE Worker
            BY <3>1
            DEF Worker, TakePush, LockForPush, LookAgain, Upload, UploadFails,
                ClearNeedsPush, WorkerOnly, CountError, encoderVars, controlVars, diskVars
        <3>2. CASE Encoders
            BY <3>2
            DEF Encoders, EncoderThread, Encode, EncodeFails, FlushAndClose,
                controlVars, diskVars
        <3>. QED
            BY <1>9, <3>1, <3>2
    <2>. QED
        BY <1>1, <2>1 DEF Made
<1>10. CASE WriteRows
    BY <1>10, EpisodesWritten
<1>11. CASE SaveVideo
    BY <1>11, EpisodesFilmed
<1>12. CASE Commit
    BY <1>12, EpisodesCommitted
<1>. QED
    BY <1>2, <1>3, <1>4, <1>5, <1>6, <1>7, <1>8, <1>9, <1>10, <1>11, <1>12
    DEF Next, Save

(* The invariant holds at first, with no frame and no file.                *)
LEMMA WholeStarts == Init => WholeInv
<1>. SUFFICES ASSUME Init PROVE WholeInv
    OBVIOUS
<1>1. /\ pc = "off" /\ key = 1 /\ size = 0 /\ torn = FALSE /\ episodes = <<>>
    BY DEF Init
<1>2. FlowInv
    BY <1>1 DEF FlowInv, Tick, Written
<1>3. CamerasInv
    BY <1>1 DEF CamerasInv, Active, Written
<1>4. EpisodesInv
    BY <1>1 DEF EpisodesInv, MadeTrue, Made, Written
<1>. QED
    BY <1>2, <1>3, <1>4 DEF WholeInv

(* And every step keeps it, whatever fails.                                *)
LEMMA WholeContinues ==
    RecorderInv /\ RecorderInv' /\ WholeInv /\ [Next]_vars => WholeInv'
<1>. SUFFICES ASSUME RecorderInv, RecorderInv', WholeInv, [Next]_vars PROVE WholeInv'
    OBVIOUS
<1>1. /\ EncoderTypeOK /\ ControlTypes /\ DataTypes /\ TakeInv /\ RowsInv
      /\ FlowInv /\ CamerasInv /\ EpisodesInv
    BY TypeParts DEF RecorderInv, WholeInv
<1>2. EncoderTypeOK'
    BY DEF RecorderInv, TypeOK
<1>3. CASE Next
    BY <1>1, <1>2, <1>3, FlowKeeps, CamerasKeep, EpisodesKeep DEF WholeInv
<1>4. CASE UNCHANGED vars
    <2>1. UNCHANGED <<pc, key, size, torn, take, threads, dropped, rows, videos,
                      episodes, made, poisoned>>
        BY <1>4 DEF vars, encoderVars, controlVars, diskVars
    <2>2. FlowInv'
        BY <1>1, <2>1 DEF FlowInv
    <2>3. CamerasInv'
        BY <1>1, <2>1 DEF CamerasInv, Active, CameraTrue, Thread, Fed, Unsent, Ended
    <2>4. EpisodesInv'
        BY <1>1, <2>1 DEF EpisodesInv, EpisodeTrue, MadeTrue, Made, LatestRow, LatestTo
    <2>. QED
        BY <2>2, <2>3, <2>4 DEF WholeInv
<1>. QED
    BY <1>3, <1>4

(* A part of a sequence.                                                   *)
LEMMA PartOf ==
    ASSUME NEW S, NEW f \in Seq(S), NEW a \in Nat, NEW n \in Nat, a + n <= Len(f)
    PROVE  /\ SubSeq(f, a + 1, a + n) \in Seq(S)
           /\ Len(SubSeq(f, a + 1, a + n)) = n
           /\ DOMAIN SubSeq(f, a + 1, a + n) = 1 .. n
           /\ \A i \in 1 .. n : SubSeq(f, a + 1, a + n)[i] = f[a + i]
    OBVIOUS

(* Sequences with the same elements are the same.                          *)
LEMMA SameSequence ==
    ASSUME NEW S, NEW s \in Seq(S), NEW t \in Seq(S), Len(s) = Len(t),
           \A i \in 1 .. Len(s) : s[i] = t[i]
    PROVE  s = t
    OBVIOUS

(* What the invariant says of the rows of an episode is what RowsTrue asks.*)
LEMMA RowsWhole ==
    ASSUME DataTypes, NEW e \in Episode, EpisodeTrue(e)
    PROVE  RowsTrue(e)
<1>1. PICK a \in Nat, n \in Nat : a = e.from /\ n = e.to - e.from /\ e.to = a + n
    BY DEF Episode, EpisodeTrue
<1>2. /\ a + n <= Len(rows) /\ rows \in Seq(Frames)
      /\ \A i \in 1 .. n : rows[a + i] = [take |-> e.take, no |-> i]
    BY <1>1 DEF EpisodeTrue, RowsAt, DataTypes
<1>3. PICK s : /\ s = SubSeq(rows, a + 1, a + n)
               /\ s \in Seq(Frames) /\ Len(s) = n
               /\ \A i \in 1 .. n : s[i] = rows[a + i]
    <2>1. a + n <= Len(rows) /\ rows \in Seq(Frames)
        BY <1>2
    <2>2. /\ SubSeq(rows, a + 1, a + n) \in Seq(Frames)
          /\ Len(SubSeq(rows, a + 1, a + n)) = n
          /\ \A i \in 1 .. n : SubSeq(rows, a + 1, a + n)[i] = rows[a + i]
        BY <2>1, PartOf
    <2>. QED
        BY <2>2
<1>4. s = [i \in 1 .. n |-> [take |-> e.take, no |-> i]]
    <2>1. PICK t : t = [i \in 1 .. n |-> [take |-> e.take, no |-> i]]
        OBVIOUS
    <2>2. \A i \in 1 .. n : [take |-> e.take, no |-> i] \in Frames
        BY DEF Episode, Frames
    <2>3. t \in Seq(Frames) /\ Len(t) = n
        BY <2>1, <2>2
    <2>4. \A i \in 1 .. n : s[i] = t[i]
        BY <1>2, <1>3, <2>1
    <2>. QED
        BY <1>3, <2>1, <2>3, <2>4, SameSequence
<1>. QED
    BY <1>1, <1>3, <1>4 DEF RowsTrue, FramesOf

(* And so of its videos.                                                   *)
LEMMA VideosWhole ==
    ASSUME DataTypes, NEW e \in Episode, EpisodeTrue(e)
    PROVE  VideosTrue(e)
<1>. SUFFICES ASSUME NEW c \in Keys
              PROVE  LET v == e.videos[c]
                         video == SubSeq(videos[c], v.from + 1, v.to)
                     IN  /\ \A i \in DOMAIN video : video[i].take = e.take
                         /\ \A i, j \in DOMAIN video : i < j => video[i].no < video[j].no
                         /\ v.cut \/ Len(video) + v.lost = e.to - e.from
    BY DEF VideosTrue
<1>1. PICK v \in Videos : v = e.videos[c]
    BY DEF Episode
<1>2. VideoTrue(videos[c], v, e.take, e.to - e.from)
    BY <1>1 DEF EpisodeTrue
<1>3. PICK a \in Nat, n \in Nat : a = v.from /\ n = v.to - v.from /\ v.to = a + n
    BY <1>2 DEF Videos, VideoTrue
<1>4. PICK f \in Seq(Frames) : f = videos[c]
    BY DEF DataTypes
<1>5. a + n <= Len(f)
    BY <1>2, <1>3, <1>4 DEF VideoTrue
<1>6. PICK s : /\ s = SubSeq(f, a + 1, a + n)
               /\ Len(s) = n /\ DOMAIN s = 1 .. n
               /\ \A i \in 1 .. n : s[i] = f[a + i]
    <2>1. /\ Len(SubSeq(f, a + 1, a + n)) = n
          /\ DOMAIN SubSeq(f, a + 1, a + n) = 1 .. n
          /\ \A i \in 1 .. n : SubSeq(f, a + 1, a + n)[i] = f[a + i]
        BY <1>5, PartOf
    <2>. QED
        BY <2>1
<1>7. /\ Len(s) = n /\ DOMAIN s = 1 .. n
      /\ \A i \in 1 .. n : s[i] = f[a + i] /\ a + i \in v.from + 1 .. v.to
    <2>1. \A i \in 1 .. n : a + i \in a + 1 .. a + n
        OBVIOUS
    <2>2. \A i \in 1 .. n : a + i \in v.from + 1 .. v.to
        BY <1>3, <2>1, Zenon
    <2>. QED
        BY <1>6, <2>2
<1>8. \A i \in 1 .. n : s[i].take = e.take
    BY <1>2, <1>4, <1>7 DEF VideoTrue
<1>9. ASSUME NEW i \in 1 .. n, NEW j \in 1 .. n, i < j PROVE s[i].no < s[j].no
    <2>1. a + i < a + j
        BY <1>9
    <2>. QED
        BY <1>2, <1>4, <1>7, <2>1 DEF VideoTrue
<1>10. v.cut \/ Len(s) + v.lost = e.to - e.from
    <2>1. Len(s) = v.to - v.from
        BY <1>3, <1>7
    <2>. QED
        BY <1>2, <2>1, Zenon DEF VideoTrue
<1>11. s = SubSeq(videos[c], v.from + 1, v.to)
    BY <1>3, <1>4, <1>6
<1>. QED
    BY <1>1, <1>7, <1>8, <1>9, <1>10, <1>11

(* What the metadata says of an episode is so, whatever failed and whoever *)
(* pushed meanwhile: its rows are the frames of its take, all and in order,*)
(* and its videos miss only the frames that feed_frame counted as dropped, *)
(* unless finish_episode had to give their thread up (save_episode of      *)
(* dataset_writer.py).                                                     *)
THEOREM EpisodesAreWhole == Spec => []EpisodesWhole
<1>1. RecorderInv /\ WholeInv => EpisodesWhole
    <2>. SUFFICES ASSUME RecorderInv, WholeInv, NEW i \in DOMAIN episodes
                  PROVE  RowsTrue(episodes[i]) /\ VideosTrue(episodes[i])
        BY DEF EpisodesWhole
    <2>1. DataTypes /\ EpisodesInv
        BY TypeParts DEF RecorderInv, WholeInv
    <2>2. episodes[i] \in Episode /\ i \in 1 .. Len(episodes)
        <3>1. episodes \in Seq(Episode)
            BY <2>1 DEF DataTypes, Episode
        <3>. QED
            BY <3>1
    <2>3. EpisodeTrue(episodes[i])
        BY <2>1, <2>2 DEF EpisodesInv
    <2>. QED
        BY <2>1, <2>2, <2>3, RowsWhole, VideosWhole
<1>. QED
    BY <1>1, WholeStarts, WholeContinues, RecorderHolds, PTL DEF Spec
=============================================================================
