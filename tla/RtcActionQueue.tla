--------------------------- MODULE RtcActionQueue ----------------------------
(***************************************************************************)
(* lerobot/policies/rtc/action_queue.py: the chunk of actions the control  *)
(* loop takes from, one index for the next action, and a label beside each *)
(* action.  Every operation holds the queue's lock, so it is one step; the *)
(* queue None of the code is the queue without actions.                    *)
(***************************************************************************)
EXTENDS Integers, Sequences

NoActions == [actions |-> <<>>, labels |-> <<>>, lastIndex |-> 0]

QSize(q) == Len(q.actions) - q.lastIndex

Rest(q, list) == SubSeq(list, q.lastIndex + 1, Len(list))

LeftOver(q) == Rest(q, q.actions)

(* get_with_task, when an action is left.                                  *)
NextAction(q) == [action |-> q.actions[q.lastIndex + 1],
                  label |-> q.labels[q.lastIndex + 1]]

Consumed(q) == [q EXCEPT !.lastIndex = @ + 1]

Labels(task, n) == [i \in 1 .. n |-> task]

(* Blending: what the robot did during the inference is cut off the chunk, *)
(* and the rest takes the place of the queue.                              *)
ReplaceActions(chunk, delay, task) ==
    LET kept == SubSeq(chunk, delay + 1, Len(chunk))
    IN  [actions |-> kept, labels |-> Labels(task, Len(kept)), lastIndex |-> 0]

(* Mutant: the labels of the consumed actions stay.                        *)
AppendKeepingLabels(q, chunk, task) ==
    [actions |-> Rest(q, q.actions \o chunk),
     labels |-> q.labels \o Labels(task, Len(chunk)),
     lastIndex |-> 0]

(* No blending: the chunk goes behind the actions that are left.           *)
AppendActions(q, chunk, task) ==
    [actions |-> Rest(q, q.actions \o chunk),
     labels |-> Rest(q, q.labels) \o Labels(task, Len(chunk)),
     lastIndex |-> 0]
=============================================================================
