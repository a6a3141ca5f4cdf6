--------------------------- MODULE RtcEngineProofs ----------------------------
(***************************************************************************)
(* What the run of RtcEngine shows of short chunks and few resets, proved  *)
(* for any of them: the actions a robot performs are of its session and    *)
(* carry their task, and the engine supplies them as ActionSupply says.    *)
(***************************************************************************)
EXTENDS RtcEngine, SequenceTheorems, TLAPS

-----------------------------------------------------------------------------
(* The queue.                                                              *)

WellFormed(q) ==
    /\ q \in [actions : Seq(Actions), labels : Seq(Tasks), lastIndex : Nat]
    /\ q.lastIndex <= Len(q.actions)
    /\ Len(q.labels) = Len(q.actions)
    /\ \A i \in 1 .. Len(q.actions) : q.labels[i] = q.actions[i].task

OfSession(list, s) == \A i \in 1 .. Len(list) : list[i].session = s

(* What is left of a sequence after its first k elements.                  *)
Behind(s, k) == SubSeq(s, k + 1, Len(s))

LEMMA Suffix ==
    ASSUME NEW S, NEW s \in Seq(S), NEW k \in Nat, k <= Len(s)
    PROVE  /\ Behind(s, k) \in Seq(S)
           /\ Len(Behind(s, k)) = Len(s) - k
           /\ \A i \in 1 .. Len(s) - k : Behind(s, k)[i] = s[k + i]
    BY DEF Behind

(* The labels of a chunk.                                                  *)
LEMMA LabelsOfChunk ==
    ASSUME NEW t \in Tasks, NEW n \in Nat
    PROVE  /\ Labels(t, n) \in Seq(Tasks)
           /\ Len(Labels(t, n)) = n
           /\ \A i \in 1 .. n : Labels(t, n)[i] = t
    BY DEF Labels

(* A queue without actions is well formed.                                 *)
LEMMA NoActionsWellFormed == WellFormed(NoActions) /\ LeftOver(NoActions) = <<>>
<1>1. <<>> \in Seq(Actions) /\ <<>> \in Seq(Tasks) /\ Len(<<>>) = 0
    OBVIOUS
<1>2. WellFormed(NoActions)
    BY <1>1 DEF NoActions, WellFormed
<1>3. SubSeq(<<>>, 0 + 1, Len(<<>>)) = <<>>
    BY <1>1, SubSeqEmpty
<1>. QED
    BY <1>2, <1>3 DEF LeftOver, Rest, NoActions

(* What is left of a well-formed queue.                                    *)
LEMMA LeftOverOfQueue ==
    ASSUME NEW q, WellFormed(q)
    PROVE  /\ LeftOver(q) \in Seq(Actions)
           /\ Len(LeftOver(q)) = QSize(q)
           /\ QSize(q) \in Nat
           /\ \A i \in 1 .. QSize(q) : LeftOver(q)[i] = q.actions[q.lastIndex + i]
<1>1. /\ q.actions \in Seq(Actions) /\ q.lastIndex \in Nat
      /\ q.lastIndex <= Len(q.actions) /\ Len(q.actions) \in Nat
    BY DEF WellFormed
<1>2. PICK list \in Seq(Actions), k \in Nat : list = q.actions /\ k = q.lastIndex
    BY <1>1
<1>3. LeftOver(q) = Behind(list, k) /\ k <= Len(list) /\ QSize(q) = Len(list) - k
    BY <1>1, <1>2 DEF LeftOver, Rest, Behind, QSize
<1>4. /\ Behind(list, k) \in Seq(Actions)
      /\ Len(Behind(list, k)) = Len(list) - k
      /\ \A i \in 1 .. Len(list) - k : Behind(list, k)[i] = list[k + i]
    BY <1>3, Suffix
<1>5. Len(list) - k \in Nat
    BY <1>1, <1>2, <1>3
<1>. QED
    BY <1>2, <1>3, <1>4, <1>5

(* Taking an action.                                                       *)
LEMMA Taken ==
    ASSUME NEW q, WellFormed(q), QSize(q) > 0
    PROVE  /\ WellFormed(Consumed(q))
           /\ Consumed(q).actions = q.actions
           /\ NextAction(q) \in [action : Actions, label : Tasks]
           /\ NextAction(q).label = NextAction(q).action.task
           /\ NextAction(q).action = q.actions[q.lastIndex + 1]
           /\ q.lastIndex + 1 \in 1 .. Len(q.actions)
           /\ LeftOver(q) # <<>>
           /\ NextAction(q).action = Head(LeftOver(q))
           /\ LeftOver(Consumed(q)) = Tail(LeftOver(q))
<1>1. /\ q \in [actions : Seq(Actions), labels : Seq(Tasks), lastIndex : Nat]
      /\ Len(q.actions) \in Nat
      /\ q.lastIndex + 1 \in 1 .. Len(q.actions)
      /\ q.lastIndex + 1 \in 1 .. Len(q.labels)
      /\ q.labels[q.lastIndex + 1] = q.actions[q.lastIndex + 1].task
    BY DEF WellFormed, QSize
<1>2. q.actions \in Seq(Actions) /\ q.labels \in Seq(Tasks) /\ q.lastIndex \in Nat
    BY <1>1
<1>3. /\ q.actions[q.lastIndex + 1] \in Actions
      /\ q.labels[q.lastIndex + 1] \in Tasks
    BY <1>1, <1>2, ElementOfSeq
<1>4. /\ Consumed(q) \in [actions : Seq(Actions), labels : Seq(Tasks),
                          lastIndex : Nat]
      /\ Consumed(q).actions = q.actions
      /\ Consumed(q).labels = q.labels
      /\ Consumed(q).lastIndex = q.lastIndex + 1
    BY <1>1, <1>2 DEF Consumed
<1>5. WellFormed(Consumed(q))
    BY <1>1, <1>4 DEF WellFormed
<1>6. /\ NextAction(q) \in [action : Actions, label : Tasks]
      /\ NextAction(q).label = NextAction(q).action.task
      /\ NextAction(q).action = q.actions[q.lastIndex + 1]
    BY <1>1, <1>3 DEF NextAction
<1>7. Len(q.actions) \in q.lastIndex + 1 .. Len(q.actions)
    BY <1>1, <1>2
<1>8. /\ Head(LeftOver(q)) = q.actions[q.lastIndex + 1]
      /\ Tail(LeftOver(q)) =
            SubSeq(q.actions, (q.lastIndex + 1) + 1, Len(q.actions))
    BY <1>1, <1>2, <1>7, HeadTailOfSubSeq DEF LeftOver, Rest
<1>9. LeftOver(Consumed(q)) = Tail(LeftOver(q))
    BY <1>4, <1>8 DEF LeftOver, Rest
<1>10. LeftOver(q) # <<>>
    <2>1. Len(LeftOver(q)) = QSize(q)
        BY LeftOverOfQueue
    <2>. QED
        BY <2>1, EmptySeq
<1>. QED
    BY <1>1, <1>4, <1>5, <1>6, <1>8, <1>9, <1>10

(* A chunk in place of the queue.                                          *)
LEMMA Replaced ==
    ASSUME NEW c \in Seq(Actions), NEW t \in Tasks,
           NEW d \in Nat, d <= Len(c),
           \A i \in 1 .. Len(c) : c[i].task = t
    PROVE  /\ WellFormed(ReplaceActions(c, d, t))
           /\ ReplaceActions(c, d, t).lastIndex = 0
           /\ \A i \in 1 .. Len(ReplaceActions(c, d, t).actions) :
                \E j \in 1 .. Len(c) :
                    ReplaceActions(c, d, t).actions[i] = c[j]
<1>. DEFINE kept == Behind(c, d)
            q == ReplaceActions(c, d, t)
<1>1. Len(c) \in Nat
    BY LenProperties
<1>2. /\ kept \in Seq(Actions)
      /\ Len(kept) = Len(c) - d
      /\ \A i \in 1 .. Len(c) - d : kept[i] = c[d + i]
    BY Suffix
<1>3. Len(kept) \in Nat
    BY <1>1, <1>2
<1>4. /\ Labels(t, Len(kept)) \in Seq(Tasks)
      /\ Len(Labels(t, Len(kept))) = Len(kept)
      /\ \A i \in 1 .. Len(kept) : Labels(t, Len(kept))[i] = t
    BY <1>3, LabelsOfChunk
<1>5. /\ q.actions = kept
      /\ q.labels = Labels(t, Len(kept))
      /\ q.lastIndex = 0
      /\ q = [actions |-> kept, labels |-> Labels(t, Len(kept)), lastIndex |-> 0]
    BY DEF ReplaceActions, Behind
<1>6. \A i \in 1 .. Len(kept) : d + i \in 1 .. Len(c) /\ kept[i] = c[d + i]
    BY <1>1, <1>2
<1>7. q \in [actions : Seq(Actions), labels : Seq(Tasks), lastIndex : Nat]
    BY <1>2, <1>4, <1>5
<1>8. WellFormed(q)
    <2>. HIDE DEF kept, q
    <2>. QED
        BY <1>3, <1>4, <1>5, <1>6, <1>7 DEF WellFormed
<1>. HIDE DEF kept, q
<1>9. \A i \in 1 .. Len(q.actions) : \E j \in 1 .. Len(c) : q.actions[i] = c[j]
    BY <1>5, <1>6
<1>. QED
    BY <1>5, <1>8, <1>9 DEF q

(* A chunk behind what is left of the queue.                               *)
LEMMA Appended ==
    ASSUME NEW q, WellFormed(q), NEW c \in Seq(Actions), NEW t \in Tasks
    PROVE  /\ AppendActions(q, c, t).lastIndex = 0
           /\ Len(AppendActions(q, c, t).actions) = QSize(q) + Len(c)
           /\ \A i \in 1 .. QSize(q) :
                AppendActions(q, c, t).actions[i] = q.actions[q.lastIndex + i]
           /\ \A i \in 1 .. Len(c) :
                AppendActions(q, c, t).actions[QSize(q) + i] = c[i]
           /\ (\A i \in 1 .. Len(c) : c[i].task = t)
                => WellFormed(AppendActions(q, c, t))
<1>1. PICK s \in Seq(Actions), labs \in Seq(Tasks), k \in Nat :
        q = [actions |-> s, labels |-> labs, lastIndex |-> k]
    BY DEF WellFormed
<1>2. /\ k <= Len(s) /\ Len(labs) = Len(s)
    BY <1>1 DEF WellFormed
<1>3. PICK a : a = Behind(s \o c, k)
    OBVIOUS
<1>4. PICK l : l = Behind(labs, k) \o Labels(t, Len(c))
    OBVIOUS
<1>5. PICK n : n = Len(s) - k
    OBVIOUS
<1>6. Len(s) \in Nat /\ Len(c) \in Nat
    BY LenProperties
<1>7. /\ a \in Seq(Actions)
      /\ Len(a) = (Len(s) - k) + Len(c)
      /\ \A i \in 1 .. Len(s) - k : a[i] = s[k + i]
      /\ \A i \in 1 .. Len(c) : a[(Len(s) - k) + i] = c[i]
    BY <1>2, <1>3 DEF Behind
<1>8. /\ l \in Seq(Tasks)
      /\ Len(l) = (Len(labs) - k) + Len(c)
      /\ \A i \in 1 .. Len(labs) - k : l[i] = labs[k + i]
      /\ \A i \in 1 .. Len(c) : l[(Len(labs) - k) + i] = t
    <2>1. PICK old : old = Behind(labs, k)
        OBVIOUS
    <2>2. /\ old \in Seq(Tasks)
          /\ Len(old) = Len(labs) - k
          /\ \A i \in 1 .. Len(labs) - k : old[i] = labs[k + i]
        BY <1>2, <2>1 DEF Behind
    <2>3. PICK new : new = Labels(t, Len(c))
        OBVIOUS
    <2>4. /\ new \in Seq(Tasks)
          /\ Len(new) = Len(c)
          /\ \A i \in 1 .. Len(c) : new[i] = t
        BY <1>6, <2>3 DEF Labels
    <2>5. l = old \o new
        BY <1>4, <2>1, <2>3
    <2>6. old \in Seq(Tasks) /\ new \in Seq(Tasks)
        BY <2>2, <2>4
    <2>7. /\ l \in Seq(Tasks)
          /\ Len(l) = Len(old) + Len(new)
          /\ \A i \in 1 .. Len(old) : l[i] = old[i]
          /\ \A i \in 1 .. Len(new) : l[Len(old) + i] = new[i]
        BY <2>5, <2>6
    <2>. QED
        BY <2>2, <2>4, <2>7
<1>9. AppendActions(q, c, t) = [actions |-> a, labels |-> l, lastIndex |-> 0]
    BY <1>1, <1>3, <1>4 DEF AppendActions, Rest, Behind
<1>10. QSize(q) = n /\ n \in Nat /\ k + n = Len(s) /\ Len(labs) - k = n
    BY <1>1, <1>2, <1>5, <1>6 DEF QSize
<1>11. /\ Len(a) = n + Len(c) /\ Len(l) = Len(a) /\ 0 <= Len(a)
       /\ \A i \in 1 .. n : a[i] = s[k + i] /\ l[i] = labs[k + i]
       /\ \A i \in 1 .. Len(c) : a[n + i] = c[i] /\ l[n + i] = t
    <2>1. Len(s) - k = n
        BY <1>5
    <2>2. Len(a) = n + Len(c) /\ Len(l) = n + Len(c)
        BY <1>7, <1>8, <1>10, <2>1
    <2>3. \A i \in 1 .. n : a[i] = s[k + i] /\ l[i] = labs[k + i]
        BY <1>7, <1>8, <1>10, <2>1
    <2>4. \A i \in 1 .. Len(c) : a[n + i] = c[i] /\ l[n + i] = t
        BY <1>7, <1>8, <1>10, <2>1
    <2>. QED
        BY <1>6, <1>10, <2>2, <2>3, <2>4
<1>12. ASSUME \A i \in 1 .. Len(c) : c[i].task = t
       PROVE  WellFormed(AppendActions(q, c, t))
    <2>1. \A i \in 1 .. k + n : labs[i] = s[i].task
        BY <1>1, <1>10 DEF WellFormed
    <2>2. ASSUME NEW i \in 1 .. n PROVE l[i] = a[i].task
        <3>1. k + i \in 1 .. k + n
            BY <1>10
        <3>. QED
            BY <2>1, <3>1, <1>11
    <2>3. ASSUME NEW i \in 1 .. n + Len(c), i \notin 1 .. n
          PROVE  l[i] = a[i].task
        <3>1. i - n \in 1 .. Len(c) /\ n + (i - n) = i
            BY <2>3, <1>6, <1>10
        <3>2. /\ a[n + (i - n)] = c[i - n]
              /\ l[n + (i - n)] = t
              /\ c[i - n].task = t
            BY <3>1, <1>11, <1>12
        <3>. QED
            BY <3>1, <3>2
    <2>4. \A i \in 1 .. Len(a) : l[i] = a[i].task
        BY <2>2, <2>3, <1>11
    <2>. QED
        BY <2>4, <1>7, <1>8, <1>9, <1>11 DEF WellFormed
<1>13. /\ AppendActions(q, c, t).lastIndex = 0
       /\ AppendActions(q, c, t).actions = a
       /\ q.actions = s /\ q.lastIndex = k
    BY <1>1, <1>9
<1>. QED
    BY <1>10, <1>11, <1>12, <1>13

-----------------------------------------------------------------------------
(* The engine.                                                             *)

(* How often the engine is reset: once before every segment, and once when *)
(* the policy is warm.                                                     *)
ResetsBounded ==
    /\ ctl = "reset" =>
        (session <= MaxSessions \/ (flushed /\ session <= MaxSessions + 1))
    /\ session <= MaxSessions + 1 \/ (flushed /\ session <= MaxSessions + 2)

(* A thread that goes on has not reached its limits.                       *)
LimitsNotReached ==
    rtc \notin {"fatal", "signal", "exited"} =>
        counts.errors < MaxErrors /\ counts.discards < MaxDiscards

(* The epoch tells a session from the ones before it.                      *)
SnapshotKnown ==
    /\ resetEpoch = session
    /\ obs \in {0, session}
    /\ seen.epoch <= session
    /\ seen.epoch = session => seen.obs \in {0, session}
    /\ rtc \in {"service", "refill", "infer"} => seen.obs # 0

(* Consumed actions too are of the session.                                *)
ActionsFresh ==
    /\ \A i \in 1 .. Len(queue.actions) : queue.actions[i].session = session
    /\ returned.action.session \in {0, session}

(* From get_action on, the label is that of the action.                    *)
LabelFollows ==
    \/ returned.action = NoAction
    \/ /\ returned.label = returned.action.task
       /\ ctl # "prime"
       /\ ctl # "label" => dispatched = returned.action.task

EngineInv ==
    /\ TypeOK
    /\ WellFormed(queue)
    /\ ResetsBounded
    /\ LimitsNotReached
    /\ SnapshotKnown
    /\ ActionsFresh
    /\ LabelFollows

(* The engine was reset once and its thread has done nothing.              *)
LEMMA EngineInit == Init => EngineInv
<1>. SUFFICES ASSUME Init PROVE EngineInv
    OBVIOUS
<1>. USE RtcAssumption DEF RtcAssumption
<1>1. WellFormed(queue) /\ queue.actions = <<>>
    BY NoActionsWellFormed DEF Init, NoActions
<1>2. 1 \in Sessions /\ Launch \in Tasks
    BY DEF Sessions
<1>3. TypeOK
    <2>1. /\ queue \in [actions : Seq(Actions), labels : Seq(Tasks), lastIndex : Nat]
          /\ queue.lastIndex <= Len(queue.actions)
          /\ Len(queue.labels) = Len(queue.actions)
        BY <1>1 DEF WellFormed
    <2>2. counts \in [inferences : 0 .. Warmups, errors : 0 .. MaxErrors,
                      discards : 0 .. MaxDiscards]
        BY DEF Init
    <2>3. taskChanges \in 0 .. MaxTaskChanges
        BY DEF Init
    <2>4. /\ returned \in [action : Actions \cup {NoAction}, label : Tasks]
          /\ job \in [task : Tasks, hadPrevious : BOOLEAN]
          /\ seen \in [obs : Sessions \cup {0}, epoch : Sessions]
        BY <1>2 DEF Init
    <2>5. warm \in BOOLEAN /\ flushed \in BOOLEAN
        BY DEF Init
    <2>. QED
        BY <1>2, <2>1, <2>2, <2>3, <2>4, <2>5 DEF Init, TypeOK, Running
<1>4. ResetsBounded /\ LimitsNotReached
    BY DEF Init, ResetsBounded, LimitsNotReached
<1>5. SnapshotKnown
    BY DEF Init, SnapshotKnown
<1>6. ActionsFresh
    BY <1>1 DEF Init, ActionsFresh, NoAction
<1>7. LabelFollows
    BY DEF Init, LabelFollows
<1>. QED
    BY <1>1, <1>3, <1>4, <1>5, <1>6, <1>7 DEF EngineInv

-----------------------------------------------------------------------------
(* The control thread's steps that leave the queue alone.                  *)
ControlMoves ==
    \/ StartRun \/ StartSegment \/ FlushWarmup \/ Resume \/ Observe
    \/ WaitForWarmup \/ GetNothing \/ SetDispatched \/ Pause \/ Stop \/ Join
    \/ SetTask

LEMMA MovesKeep == EngineInv /\ ControlMoves => EngineInv'
<1>. SUFFICES ASSUME EngineInv, ControlMoves PROVE EngineInv'
    OBVIOUS
<1>1. /\ UNCHANGED <<mode, queue, resetEpoch, rtc, seen, job, counts, returned,
                     session>>
      /\ obs' \in {obs, session}
    BY DEF ControlMoves, StartRun, StartSegment, FlushWarmup, Resume, Observe,
           WaitForWarmup, GetNothing, SetDispatched, Pause, Stop, Join, SetTask,
           rtcVars, ctlVars
<1>2. TypeOK'
    <2>1. session \in Sessions
        BY DEF EngineInv, TypeOK
    <2>2. /\ active' \in BOOLEAN /\ shutdown' \in BOOLEAN /\ warm' \in BOOLEAN
          /\ rtcError' \in BOOLEAN /\ stopEvent' \in BOOLEAN
          /\ flushed' \in BOOLEAN
        BY DEF EngineInv, TypeOK, ControlMoves, StartRun, StartSegment,
               FlushWarmup, Resume, Observe, WaitForWarmup, GetNothing,
               SetDispatched, Pause, Stop, Join, SetTask, ctlVars, eventVars
    <2>3. task' \in Tasks /\ dispatched' \in Tasks
        BY DEF EngineInv, TypeOK, ControlMoves, StartRun, StartSegment,
               FlushWarmup, Resume, Observe, WaitForWarmup, GetNothing,
               SetDispatched, Pause, Stop, Join, SetTask, taskVars, ReturnedLabel
    <2>4. taskChanges' \in 0 .. MaxTaskChanges
        BY RtcAssumption
        DEF RtcAssumption, EngineInv, TypeOK, ControlMoves, StartRun,
            StartSegment, FlushWarmup, Resume, Observe, WaitForWarmup, GetNothing,
            SetDispatched, Pause, Stop, Join, SetTask, taskVars
    <2>5. ctl' \in {"idle", "reset", "prime", "stopping", "done"} \cup Running
        BY DEF EngineInv, TypeOK, ControlMoves, StartRun, StartSegment,
               FlushWarmup, Resume, Observe, WaitForWarmup, GetNothing,
               SetDispatched, Pause, Stop, Join, SetTask, ctlVars, Running
    <2>6. obs' \in Sessions \cup {0}
        BY <1>1, <2>1 DEF EngineInv, TypeOK
    <2>. QED
        BY <1>1, <2>2, <2>3, <2>4, <2>5, <2>6 DEF EngineInv, TypeOK
<1>3. ResetsBounded'
    BY <1>1
    DEF EngineInv, TypeOK, Sessions, ResetsBounded, ControlMoves, StartRun,
        StartSegment, FlushWarmup, Resume, Observe, WaitForWarmup, GetNothing,
        SetDispatched, Pause, Stop, Join, SetTask, ctlVars
<1>4. LimitsNotReached'
    BY <1>1 DEF EngineInv, LimitsNotReached
<1>5. SnapshotKnown'
    BY <1>1 DEF EngineInv, SnapshotKnown
<1>6. ActionsFresh' /\ WellFormed(queue)'
    BY <1>1 DEF EngineInv, ActionsFresh, WellFormed
<1>7. LabelFollows'
    <2>1. NoAction' = NoAction
        BY DEF NoAction
    <2>2. CASE SetDispatched
        BY <1>1, <2>1, <2>2 DEF EngineInv, LabelFollows, SetDispatched, ReturnedLabel
    <2>3. CASE ~SetDispatched
        BY <1>1, <2>1, <2>3
        DEF EngineInv, LabelFollows, ControlMoves, StartRun, StartSegment,
            FlushWarmup, Resume, Observe, WaitForWarmup, GetNothing, Pause, Stop,
            Join, SetTask, taskVars, ctlVars
    <2>. QED
        BY <2>2, <2>3
<1>. QED
    BY <1>2, <1>3, <1>4, <1>5, <1>6, <1>7 DEF EngineInv

(* A reset: the queue and the observation go, and the epoch with them.     *)
LEMMA ResetKeeps == EngineInv /\ ClearAndBump => EngineInv'
<1>. SUFFICES ASSUME EngineInv, ClearAndBump PROVE EngineInv'
    OBVIOUS
<1>. USE DEF ClearAndBump, NextEpoch
<1>1. WellFormed(queue') /\ queue'.actions = <<>>
    BY NoActionsWellFormed DEF NoActions
<1>2. session \in Sessions /\ session' = session + 1 /\ resetEpoch' = session'
    BY DEF EngineInv, TypeOK, SnapshotKnown
<1>3. session' \in Sessions
    BY <1>2, RtcAssumption DEF RtcAssumption, EngineInv, ResetsBounded, Sessions
<1>4. returned'.action = NoAction
    OBVIOUS
<1>5. TypeOK'
    <2>1. /\ queue' \in [actions : Seq(Actions), labels : Seq(Tasks),
                         lastIndex : Nat]
          /\ queue'.lastIndex <= Len(queue'.actions)
          /\ Len(queue'.labels) = Len(queue'.actions)
        BY <1>1 DEF WellFormed
    <2>2. returned' \in [action : Actions \cup {NoAction}, label : Tasks]
        BY DEF EngineInv, TypeOK
    <2>. QED
        BY <1>2, <1>3, <2>1, <2>2
        DEF EngineInv, TypeOK, eventVars, taskVars, rtcVars
<1>6. ResetsBounded'
    BY <1>2, RtcAssumption
    DEF RtcAssumption, EngineInv, ResetsBounded, Sessions
<1>7. LimitsNotReached'
    BY DEF EngineInv, LimitsNotReached, rtcVars
<1>8. SnapshotKnown'
    <2>1. seen \in [obs : Sessions \cup {0}, epoch : Sessions]
        BY DEF EngineInv, TypeOK
    <2>2. seen.epoch \in Int /\ session \in Int
        BY <1>2, <2>1 DEF Sessions
    <2>3. seen' = seen /\ rtc' = rtc /\ obs' = 0
        BY DEF rtcVars
    <2>. QED
        BY <1>2, <2>2, <2>3 DEF EngineInv, SnapshotKnown
<1>9. ActionsFresh'
    BY <1>1, <1>4 DEF ActionsFresh, NoAction
<1>10. LabelFollows'
    BY <1>4 DEF LabelFollows
<1>. QED
    BY <1>1, <1>5, <1>6, <1>7, <1>8, <1>9, <1>10 DEF EngineInv

(* get_action: the first action that is left, with its label.              *)
LEMMA GetKeeps == EngineInv /\ GetAction => EngineInv'
<1>. SUFFICES ASSUME EngineInv, GetAction PROVE EngineInv'
    OBVIOUS
<1>1. /\ QSize(queue) > 0 /\ WellFormed(queue)
      /\ returned' = NextAction(queue) /\ queue' = Consumed(queue)
      /\ ctl' = "label"
      /\ UNCHANGED <<mode, obs, resetEpoch, eventVars, taskVars, rtcVars,
                     flushed, session>>
    BY DEF GetAction, EngineInv
<1>2. /\ WellFormed(queue')
      /\ queue'.actions = queue.actions
      /\ returned' \in [action : Actions, label : Tasks]
      /\ returned'.label = returned'.action.task
      /\ returned'.action = queue.actions[queue.lastIndex + 1]
      /\ queue.lastIndex + 1 \in 1 .. Len(queue.actions)
    BY <1>1, Taken
<1>3. TypeOK'
    <2>1. /\ queue' \in [actions : Seq(Actions), labels : Seq(Tasks),
                         lastIndex : Nat]
          /\ queue'.lastIndex <= Len(queue'.actions)
          /\ Len(queue'.labels) = Len(queue'.actions)
        BY <1>2 DEF WellFormed
    <2>2. returned' \in [action : Actions \cup {NoAction}, label : Tasks]
        BY <1>2
    <2>3. ctl' \in Running
        BY <1>1 DEF Running
    <2>. QED
        BY <1>1, <2>1, <2>2, <2>3
        DEF EngineInv, TypeOK, eventVars, taskVars, rtcVars
<1>4. ResetsBounded' /\ LimitsNotReached'
    BY <1>1 DEF EngineInv, ResetsBounded, LimitsNotReached, rtcVars
<1>5. SnapshotKnown'
    BY <1>1 DEF EngineInv, SnapshotKnown, rtcVars
<1>6. ActionsFresh'
    BY <1>1, <1>2 DEF EngineInv, ActionsFresh
<1>7. LabelFollows'
    BY <1>1, <1>2 DEF LabelFollows
<1>. QED
    BY <1>2, <1>3, <1>4, <1>5, <1>6, <1>7 DEF EngineInv

-----------------------------------------------------------------------------
(* The chunk of an inference whose observation is there.                   *)
LEMMA ChunkOfJob ==
    ASSUME seen.obs \in Sessions, job.task \in Tasks
    PROVE  /\ Chunk \in Seq(Actions)
           /\ Len(Chunk) = ChunkLength
           /\ \A i \in 1 .. ChunkLength :
                Chunk[i].session = seen.obs /\ Chunk[i].task = job.task
<1>1. ChunkLength \in Nat
    BY RtcAssumption DEF RtcAssumption
<1>2. PICK a : a = [session |-> seen.obs, task |-> job.task]
    OBVIOUS
<1>3. a \in Actions /\ a.session = seen.obs /\ a.task = job.task
    BY <1>2 DEF Actions
<1>4. Chunk = [i \in 1 .. ChunkLength |-> a]
    BY <1>2 DEF Chunk
<1>. HIDE DEF Actions
<1>5. Chunk \in Seq(Actions) /\ Len(Chunk) = ChunkLength
    BY <1>1, <1>3, <1>4
<1>6. \A i \in 1 .. ChunkLength : Chunk[i] = a
    BY <1>4
<1>. QED
    BY <1>3, <1>5, <1>6

(* What a merge may do: nothing, when the epoch is another; or the chunk,  *)
(* which then is of this session, in place of or behind what was left.     *)
KeptOf(q) == IF Appends THEN QSize(q) ELSE 0

MergeAdds(q, r) ==
    /\ WellFormed(r)
    /\ r.lastIndex = 0
    /\ Len(r.actions) >= KeptOf(q)
    /\ \A i \in 1 .. KeptOf(q) : r.actions[i] = q.actions[q.lastIndex + i]
    /\ \A i \in KeptOf(q) + 1 .. Len(r.actions) :
            r.actions[i].session = session /\ r.actions[i].task = job.task

LEMMA MergedQueue ==
    ASSUME EngineInv, rtc = "infer", NEW d \in 0 .. MaxDelay
    PROVE  \/ Merged(Chunk, d) = queue
           \/ MergeAdds(queue, Merged(Chunk, d))
<1>1. CASE seen.epoch # resetEpoch
    BY <1>1 DEF Merged
<1>2. CASE seen.epoch = resetEpoch
    <2>1. seen.obs \in Sessions /\ seen.obs = session /\ job.task \in Tasks
        BY <1>2 DEF EngineInv, TypeOK, SnapshotKnown
    <2>2. PICK c \in Seq(Actions), t \in Tasks :
            /\ c = Chunk /\ t = job.task
            /\ Len(c) = ChunkLength
            /\ \A i \in 1 .. ChunkLength : c[i].session = session /\ c[i].task = t
        BY <2>1, ChunkOfJob
    <2>3. d \in Nat /\ d <= Len(c) /\ Len(c) \in Nat
        BY <2>2, RtcAssumption DEF RtcAssumption
    <2>4. \A i \in 1 .. Len(c) : c[i].task = t /\ c[i].session = session
        BY <2>2
    <2>5. WellFormed(queue) /\ QSize(queue) \in Nat
        BY LeftOverOfQueue DEF EngineInv
    <2>6. CASE Appends
        <3>1. PICK r : r = AppendActions(queue, c, t)
            OBVIOUS
        <3>2. Merged(Chunk, d) = r
            BY <1>2, <2>2, <2>6, <3>1 DEF Merged
        <3>3. /\ WellFormed(r)
              /\ r.lastIndex = 0
              /\ Len(r.actions) = QSize(queue) + Len(c)
              /\ \A i \in 1 .. QSize(queue) :
                    r.actions[i] = queue.actions[queue.lastIndex + i]
              /\ \A i \in 1 .. Len(c) : r.actions[QSize(queue) + i] = c[i]
            BY <2>4, <2>5, <3>1, Appended
        <3>4. ASSUME NEW i \in QSize(queue) + 1 .. Len(r.actions)
              PROVE  r.actions[i].session = session /\ r.actions[i].task = t
            <4>1. /\ i - QSize(queue) \in 1 .. Len(c)
                  /\ QSize(queue) + (i - QSize(queue)) = i
                BY <2>3, <2>5, <3>3
            <4>2. r.actions[QSize(queue) + (i - QSize(queue))] = c[i - QSize(queue)]
                BY <3>3, <4>1
            <4>. QED
                BY <2>4, <4>1, <4>2
        <3>5. KeptOf(queue) = QSize(queue) /\ Len(r.actions) >= QSize(queue)
            BY <2>3, <2>5, <2>6, <3>3 DEF KeptOf
        <3>. QED
            BY <2>2, <3>2, <3>3, <3>4, <3>5 DEF MergeAdds
    <2>7. CASE ~Appends
        <3>1. PICK r : r = ReplaceActions(c, d, t)
            OBVIOUS
        <3>2. Merged(Chunk, d) = r
            BY <1>2, <2>2, <2>7, <3>1 DEF Merged
        <3>3. /\ WellFormed(r)
              /\ r.lastIndex = 0
              /\ \A i \in 1 .. Len(r.actions) :
                    \E j \in 1 .. Len(c) : r.actions[i] = c[j]
            BY <2>3, <2>4, <3>1, Replaced
        <3>4. \A i \in 1 .. Len(r.actions) :
                r.actions[i].session = session /\ r.actions[i].task = t
            BY <2>4, <3>3
        <3>5. Len(r.actions) \in Nat
            BY <3>3 DEF WellFormed
        <3>6. KeptOf(queue) = 0
            BY <2>7 DEF KeptOf
        <3>. QED
            BY <2>2, <3>2, <3>3, <3>4, <3>5, <3>6 DEF MergeAdds
    <2>. QED
        BY <2>6, <2>7
<1>. QED
    BY <1>1, <1>2

(* The actions of a session stay those of the session.                     *)
LEMMA MergedFresh ==
    ASSUME EngineInv, NEW r, MergeAdds(queue, r)
    PROVE  \A i \in 1 .. Len(r.actions) : r.actions[i].session = session
<1>1. /\ WellFormed(queue) /\ QSize(queue) \in Nat
      /\ QSize(queue) = Len(queue.actions) - queue.lastIndex
      /\ queue.lastIndex \in Nat
      /\ \A i \in 1 .. Len(queue.actions) : queue.actions[i].session = session
    BY LeftOverOfQueue DEF EngineInv, ActionsFresh, QSize, WellFormed
<1>2. KeptOf(queue) \in 0 .. QSize(queue)
    BY <1>1 DEF KeptOf
<1>3. ASSUME NEW i \in 1 .. KeptOf(queue) PROVE r.actions[i].session = session
    <2>1. queue.lastIndex + i \in 1 .. Len(queue.actions)
        BY <1>1, <1>2, LenProperties DEF WellFormed
    <2>2. r.actions[i] = queue.actions[queue.lastIndex + i]
        BY <1>3 DEF MergeAdds
    <2>. QED
        BY <1>1, <2>1, <2>2
<1>4. ASSUME NEW i \in KeptOf(queue) + 1 .. Len(r.actions)
      PROVE  r.actions[i].session = session
    BY <1>4 DEF MergeAdds
<1>5. Len(r.actions) \in Nat
    BY LenProperties DEF MergeAdds, WellFormed
<1>. QED
    BY <1>2, <1>3, <1>4, <1>5

(* A step of the RTC thread.                                               *)
LEMMA RtcKeeps == EngineInv /\ RtcLoop => EngineInv'
<1>. SUFFICES ASSUME EngineInv, RtcLoop PROVE EngineInv'
    OBVIOUS
<1>1. UNCHANGED <<mode, obs, resetEpoch, active, shutdown, taskVars, ctlVars>>
    BY DEF RtcLoop, ExitLoop, Snapshot, ServiceQuery, ReadAgain, QueueFull,
           BeginInference, DiscardChunk, MergeChunk, InferenceFails, Fail,
           SignalShutdown, RtcOnly
<1>2. \/ queue' = queue
      \/ MergeAdds(queue, queue')
    <2>1. CASE MergeChunk
        BY <2>1, MergedQueue DEF MergeChunk
    <2>2. CASE ~MergeChunk
        BY <2>2
        DEF RtcLoop, ExitLoop, Snapshot, ServiceQuery, ReadAgain, QueueFull,
            BeginInference, DiscardChunk, InferenceFails, Fail, SignalShutdown
    <2>. QED
        BY <2>1, <2>2
<1>3. WellFormed(queue')
    BY <1>2 DEF EngineInv, MergeAdds
<1>4. TypeOK'
    <2>. USE RtcAssumption DEF RtcAssumption
    <2>1. /\ queue' \in [actions : Seq(Actions), labels : Seq(Tasks),
                         lastIndex : Nat]
          /\ queue'.lastIndex <= Len(queue'.actions)
          /\ Len(queue'.labels) = Len(queue'.actions)
        BY <1>3 DEF WellFormed
    <2>2. warm' \in BOOLEAN /\ rtcError' \in BOOLEAN /\ stopEvent' \in BOOLEAN
        BY DEF EngineInv, TypeOK, RtcLoop, ExitLoop, Snapshot, ServiceQuery,
               ReadAgain, QueueFull, BeginInference, DiscardChunk, MergeChunk,
               InferenceFails, Fail, SignalShutdown, RtcOnly
    <2>3. rtc' \in {"top", "service", "generate", "refill", "infer",
                    "fatal", "signal", "exited"}
        BY DEF RtcLoop, ExitLoop, Snapshot, ServiceQuery, ReadAgain, QueueFull,
               BeginInference, DiscardChunk, MergeChunk, InferenceFails, Fail,
               SignalShutdown
    <2>4. seen' \in [obs : Sessions \cup {0}, epoch : Sessions]
        BY DEF EngineInv, TypeOK, RtcLoop, ExitLoop, Snapshot, ServiceQuery,
               ReadAgain, QueueFull, BeginInference, DiscardChunk, MergeChunk,
               InferenceFails, Fail, SignalShutdown
    <2>5. job' \in [task : Tasks, hadPrevious : BOOLEAN]
        <3>1. task \in Tasks /\ job \in [task : Tasks, hadPrevious : BOOLEAN]
            BY DEF EngineInv, TypeOK
        <3>2. CASE BeginInference
            BY <3>1, <3>2 DEF BeginInference, TakeTask
        <3>3. CASE ~BeginInference
            BY <3>1, <3>3
            DEF RtcLoop, ExitLoop, Snapshot, ServiceQuery, ReadAgain, QueueFull,
                DiscardChunk, MergeChunk, InferenceFails, Fail, SignalShutdown
        <3>. QED
            BY <3>2, <3>3
    <2>6. counts' \in [inferences : 0 .. Warmups, errors : 0 .. MaxErrors,
                       discards : 0 .. MaxDiscards]
        <3>1. counts \in [inferences : 0 .. Warmups, errors : 0 .. MaxErrors,
                          discards : 0 .. MaxDiscards]
            BY DEF EngineInv, TypeOK
        <3>2. Inferred \in 0 .. Warmups
            BY <3>1 DEF Inferred, IsWarmup
        <3>3. rtc = "infer" =>
                counts.errors + 1 \in 0 .. MaxErrors
                /\ counts.discards + 1 \in 0 .. MaxDiscards
            BY <3>1 DEF EngineInv, LimitsNotReached
        <3>4. CASE DiscardChunk
            BY <3>2, <3>3, <3>4 DEF DiscardChunk
        <3>5. CASE MergeChunk
            BY <3>2, <3>5 DEF MergeChunk
        <3>6. CASE InferenceFails
            BY <3>1, <3>3, <3>6 DEF InferenceFails, ErrorsNow
        <3>7. CASE UNCHANGED counts
            BY <3>1, <3>7
        <3>. QED
            BY <3>4, <3>5, <3>6, <3>7
            DEF RtcLoop, ExitLoop, Snapshot, ServiceQuery, ReadAgain, QueueFull,
                BeginInference, Fail, SignalShutdown
    <2>. QED
        BY <1>1, <2>1, <2>2, <2>3, <2>4, <2>5, <2>6
        DEF EngineInv, TypeOK, taskVars, ctlVars
<1>5. ResetsBounded'
    BY <1>1 DEF EngineInv, ResetsBounded, ctlVars
<1>6. LimitsNotReached'
    <2>. USE RtcAssumption DEF RtcAssumption
    <2>1. /\ counts.errors \in Nat /\ counts.discards \in Nat
          /\ MaxErrors \in Nat \ {0} /\ MaxDiscards \in Nat \ {0}
        BY DEF EngineInv, TypeOK
    <2>2. CASE DiscardChunk
        BY <2>1, <2>2 DEF DiscardChunk, LimitsNotReached
    <2>3. CASE MergeChunk
        BY <2>1, <2>3 DEF MergeChunk, LimitsNotReached
    <2>4. CASE InferenceFails
        <3>1. /\ counts'.errors = counts.errors + 1
              /\ counts'.discards = counts.discards
              /\ rtc = "infer"
              /\ rtc' = IF counts.errors + 1 >= MaxErrors THEN "fatal" ELSE "top"
            BY <2>4 DEF InferenceFails, ErrorsNow, EngineInv, TypeOK
        <3>. QED
            BY <2>1, <3>1 DEF EngineInv, LimitsNotReached
    <2>5. CASE ~(DiscardChunk \/ MergeChunk \/ InferenceFails)
        BY <2>5
        DEF EngineInv, LimitsNotReached, RtcLoop, ExitLoop, Snapshot,
            ServiceQuery, ReadAgain, QueueFull, BeginInference, Fail,
            SignalShutdown
    <2>. QED
        BY <2>2, <2>3, <2>4, <2>5
<1>7. SnapshotKnown'
    <2>1. session \in Int /\ session' = session
        BY <1>1 DEF EngineInv, TypeOK, Sessions, ctlVars
    <2>2. CASE Snapshot
        BY <1>1, <2>1, <2>2 DEF Snapshot, EngineInv, SnapshotKnown
    <2>3. CASE ReadAgain
        BY <1>1, <2>1, <2>3 DEF ReadAgain, EngineInv, SnapshotKnown
    <2>4. CASE ServiceQuery
        BY <1>1, <2>1, <2>4 DEF ServiceQuery, EngineInv, SnapshotKnown
    <2>5. CASE ~(Snapshot \/ ReadAgain \/ ServiceQuery)
        <3>1. /\ seen' = seen
              /\ rtc' \in {"service", "refill", "infer"} => rtc = "refill"
            BY <2>5
            DEF RtcLoop, ExitLoop, QueueFull, BeginInference, DiscardChunk,
                MergeChunk, InferenceFails, Fail, SignalShutdown
        <3>. QED
            BY <1>1, <2>1, <3>1 DEF EngineInv, SnapshotKnown
    <2>. QED
        BY <2>2, <2>3, <2>4, <2>5
<1>8. ActionsFresh'
    <2>1. \A i \in 1 .. Len(queue'.actions) : queue'.actions[i].session = session
        BY <1>2, MergedFresh DEF EngineInv, ActionsFresh
    <2>. QED
        BY <1>1, <2>1 DEF EngineInv, ActionsFresh, ctlVars
<1>9. LabelFollows'
    BY <1>1 DEF EngineInv, LabelFollows, ctlVars, taskVars
<1>. QED
    BY <1>3, <1>4, <1>5, <1>6, <1>7, <1>8, <1>9 DEF EngineInv

-----------------------------------------------------------------------------
(* A step of either thread or of the operator, or none.                    *)
LEMMA EngineStep == EngineInv /\ [Next]_vars => EngineInv'
<1>1. EngineInv /\ UNCHANGED vars => EngineInv'
    BY DEF EngineInv, TypeOK, WellFormed, ResetsBounded, LimitsNotReached,
           SnapshotKnown, ActionsFresh, LabelFollows, vars, eventVars, taskVars,
           rtcVars, ctlVars
<1>2. Next => RtcLoop \/ ClearAndBump \/ GetAction \/ ControlMoves
    BY DEF Next, ControlLoop, ControlMoves
<1>. QED
    BY <1>1, <1>2, RtcKeeps, ResetKeeps, GetKeeps, MovesKeep

(* The invariant holds of every behaviour.                                 *)
LEMMA EngineSafe == Spec => []EngineInv
    BY EngineInit, EngineStep, PTL DEF Spec

(* The queue, the counters and both threads keep their types.              *)
THEOREM EngineTypes == Spec => []TypeOK
    BY EngineSafe, PTL DEF EngineInv

(* After a reset no action computed from an observation of before it is    *)
(* performed, however long an inference lasts.                             *)
THEOREM ActionsStayFresh == Spec => []FreshActions
<1>1. EngineInv => FreshActions
    BY DEF EngineInv, ActionsFresh, FreshActions, TypeOK
<1>. QED
    BY <1>1, EngineSafe, PTL

(* Every action is recorded with the task it was computed from.            *)
THEOREM LabelsStayTrue == Spec => []LabelsTrue
<1>1. EngineInv => LabelsTrue
    BY DEF EngineInv, WellFormed, LabelFollows, LabelsTrue
<1>. QED
    BY <1>1, EngineSafe, PTL

-----------------------------------------------------------------------------
(* The engine implements ActionSupply.                                     *)

(* A sequence whose elements are of a set is a sequence over it.           *)
LEMMA SequenceOver ==
    ASSUME NEW S, NEW T, NEW s \in Seq(S), \A i \in 1 .. Len(s) : s[i] \in T
    PROVE  s \in Seq(T)
    OBVIOUS

(* What is left of the queue after a chunk was merged.                     *)
LEMMA MergeSupplies ==
    ASSUME EngineInv, NEW r, MergeAdds(queue, r)
    PROVE  /\ LeftOver(r) \in Seq([session : {session}, task : Tasks])
           /\ Len(LeftOver(queue)) = QSize(queue)
           /\ Len(LeftOver(r)) >= KeptOf(queue)
           /\ \A i \in 1 .. KeptOf(queue) : LeftOver(r)[i] = LeftOver(queue)[i]
           /\ \A i, j \in KeptOf(queue) + 1 .. Len(LeftOver(r)) :
                LeftOver(r)[i].task = LeftOver(r)[j].task
<1>0. PICK new, old : new = LeftOver(r) /\ old = LeftOver(queue)
    OBVIOUS
<1>1. WellFormed(queue) /\ WellFormed(r) /\ r.lastIndex = 0
    BY DEF EngineInv, MergeAdds
<1>2. /\ Len(old) = QSize(queue) /\ QSize(queue) \in Nat
      /\ \A i \in 1 .. QSize(queue) : old[i] = queue.actions[queue.lastIndex + i]
    BY <1>0, <1>1, LeftOverOfQueue
<1>3. /\ new \in Seq(Actions) /\ Len(new) = QSize(r) /\ QSize(r) \in Nat
      /\ \A i \in 1 .. QSize(r) : new[i] = r.actions[r.lastIndex + i]
    BY <1>0, <1>1, LeftOverOfQueue
<1>4. QSize(r) = Len(r.actions)
    BY <1>1, <1>3 DEF QSize, WellFormed
<1>5. \A i \in 1 .. Len(new) : new[i] = r.actions[i]
    <2>1. \A i \in 1 .. QSize(r) : 0 + i = i
        BY <1>3
    <2>. QED
        BY <2>1, <1>1, <1>3
<1>6. KeptOf(queue) \in 0 .. QSize(queue)
    BY <1>2 DEF KeptOf
<1>7. Len(new) >= KeptOf(queue)
    BY <1>3, <1>4 DEF MergeAdds
<1>8. ASSUME NEW i \in 1 .. KeptOf(queue) PROVE new[i] = old[i]
    <2>1. i \in 1 .. QSize(queue) /\ i \in 1 .. Len(new)
        BY <1>2, <1>3, <1>6, <1>7
    <2>2. r.actions[i] = queue.actions[queue.lastIndex + i]
        BY <1>8 DEF MergeAdds
    <2>. QED
        BY <2>1, <2>2, <1>2, <1>5
<1>9. \A i \in KeptOf(queue) + 1 .. Len(new) : new[i].task = job.task
    <2>1. ASSUME NEW i \in KeptOf(queue) + 1 .. Len(new) PROVE i \in 1 .. Len(new)
        BY <1>2, <1>3, <1>6
    <2>2. \A i \in KeptOf(queue) + 1 .. Len(new) : r.actions[i].task = job.task
        BY <1>3, <1>4 DEF MergeAdds
    <2>. QED
        BY <2>1, <2>2, <1>5
<1>10. new \in Seq([session : {session}, task : Tasks])
    <2>1. ASSUME NEW i \in 1 .. Len(new)
          PROVE  new[i] \in [session : {session}, task : Tasks]
        <3>1. new[i] \in Actions
            BY <1>3, ElementOfSeq
        <3>2. r.actions[i].session = session
            BY <1>3, <1>4, MergedFresh
        <3>3. new[i].session = session
            BY <3>2, <1>5
        <3>. QED
            BY <3>1, <3>3 DEF Actions
    <2>. QED
        BY <2>1, <1>3, SequenceOver
<1>. QED
    BY <1>0, <1>2, <1>7, <1>8, <1>9, <1>10

(* The initial state of the one is an initial state of the other.          *)
LEMMA SupplyInit == Init => Supply!Init
<1>1. Init => LeftOver(queue) = <<>>
    BY NoActionsWellFormed DEF Init
<1>2. Appends \in BOOLEAN
    BY DEF Appends
<1>3. Init => session = 1 /\ returned.action = NoAction
    BY DEF Init
<1>. QED
    BY <1>1, <1>2, <1>3, Zenon DEF Supply!Init

(* Every step of the engine is a reset, an action taken, a chunk supplied, *)
(* or nothing to the control loop.                                         *)
LEMMA SupplyStep == EngineInv /\ [Next]_vars => [Supply!Next]_Supply!vars
<1>. SUFFICES ASSUME EngineInv, [Next]_vars PROVE [Supply!Next]_Supply!vars
    OBVIOUS
<1>1. CASE ClearAndBump
    <2>1. LeftOver(queue') = <<>>
        BY <1>1, NoActionsWellFormed DEF ClearAndBump
    <2>2. LeftOver(queue)' = <<>>
        BY <2>1 DEF LeftOver, Rest
    <2>3. /\ session' = session + 1 /\ mode' = mode
          /\ returned'.action = NoAction
        BY <1>1 DEF ClearAndBump
    <2>4. Supply!Reset
        BY <2>2, <2>3 DEF Supply!Reset, Appends
    <2>. QED
        BY <2>4 DEF Supply!Next
<1>2. CASE GetAction
    <2>1. /\ QSize(queue) > 0 /\ WellFormed(queue)
          /\ returned' = NextAction(queue) /\ queue' = Consumed(queue)
          /\ mode' = mode /\ session' = session
        BY <1>2 DEF GetAction, EngineInv
    <2>2. /\ LeftOver(queue) # <<>>
          /\ NextAction(queue).action = Head(LeftOver(queue))
          /\ LeftOver(Consumed(queue)) = Tail(LeftOver(queue))
        BY <2>1, Taken
    <2>3. LeftOver(queue)' = LeftOver(queue')
        BY DEF LeftOver, Rest
    <2>4. Supply!Take
        BY <2>1, <2>2, <2>3 DEF Supply!Take, Appends
    <2>. QED
        BY <2>4 DEF Supply!Next
<1>3. CASE MergeChunk /\ queue' # queue
    <2>1. MergeAdds(queue, queue')
        BY <1>3, MergedQueue DEF MergeChunk
    <2>2. PICK new, old : new = LeftOver(queue') /\ old = LeftOver(queue)
        OBVIOUS
    <2>3. /\ new \in Seq([session : {session}, task : Tasks])
          /\ Len(old) = QSize(queue)
          /\ Len(new) >= KeptOf(queue)
          /\ \A i \in 1 .. KeptOf(queue) : new[i] = old[i]
          /\ \A i, j \in KeptOf(queue) + 1 .. Len(new) :
                new[i].task = new[j].task
        <3>1. /\ LeftOver(queue') \in Seq([session : {session}, task : Tasks])
              /\ Len(LeftOver(queue)) = QSize(queue)
              /\ Len(LeftOver(queue')) >= KeptOf(queue)
              /\ \A i \in 1 .. KeptOf(queue) :
                    LeftOver(queue')[i] = LeftOver(queue)[i]
              /\ \A i, j \in KeptOf(queue) + 1 .. Len(LeftOver(queue')) :
                    LeftOver(queue')[i].task = LeftOver(queue')[j].task
            BY <2>1, MergeSupplies
        <3>. QED
            BY <2>2, <3>1
    <2>4. KeptOf(queue) = IF Appends THEN Len(old) ELSE 0
        BY <2>3 DEF KeptOf
    <2>5. LeftOver(queue)' = LeftOver(queue')
        BY DEF LeftOver, Rest
    <2>6. mode' = mode /\ session' = session /\ returned' = returned
        BY <1>3 DEF MergeChunk, RtcOnly, ctlVars
    <2>7. Supply!Supply
        BY <2>2, <2>3, <2>4, <2>5, <2>6 DEF Supply!Supply, Appends
    <2>. QED
        BY <2>7 DEF Supply!Next
<1>4. CASE ~ClearAndBump /\ ~GetAction /\ ~(MergeChunk /\ queue' # queue)
    <2>1. UNCHANGED <<mode, queue, session, returned>>
        <3>1. CASE ControlMoves
            BY <3>1
            DEF ControlMoves, StartRun, StartSegment, FlushWarmup, Resume, Observe,
                WaitForWarmup, GetNothing, SetDispatched, Pause, Stop, Join,
                SetTask, ctlVars
        <3>2. CASE RtcLoop
            BY <1>4, <3>2
            DEF RtcLoop, ExitLoop, Snapshot, ServiceQuery, ReadAgain, QueueFull,
                BeginInference, DiscardChunk, MergeChunk, InferenceFails, Fail,
                SignalShutdown, RtcOnly, ctlVars
        <3>3. CASE UNCHANGED vars
            BY <3>3 DEF vars, ctlVars
        <3>. QED
            BY <1>4, <3>1, <3>2, <3>3 DEF Next, ControlLoop, ControlMoves
    <2>. QED
        BY <2>1 DEF Supply!vars, LeftOver, Rest, Appends
<1>. QED
    BY <1>1, <1>2, <1>3, <1>4

(* The engine supplies actions as ActionSupply says: in order, each once,  *)
(* none of before the last reset, and none dropped between two resets when *)
(* chunks are appended.                                                    *)
THEOREM EngineSupplies == Spec => SuppliesActions
    BY EngineSafe, SupplyInit, SupplyStep, PTL DEF Spec, SuppliesActions, Supply!Spec
=============================================================================
