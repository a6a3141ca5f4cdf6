---------------------------- MODULE ActionSupply -----------------------------
(***************************************************************************)
(* What an asynchronous inference engine promises the control loop: the    *)
(* actions it takes come in the order of their chunks, each once, and were *)
(* all computed since the last reset; when chunks are appended, none is    *)
(* dropped between two resets.                                             *)
(***************************************************************************)
EXTENDS Integers, Sequences

CONSTANTS Tasks, NoAction

VARIABLES
    appends,    \* whether a chunk goes behind what is left
    session,    \* counts the resets
    ready,      \* the actions to come
    taken       \* the last action taken in this session

vars == <<appends, session, ready, taken>>

Init ==
    /\ appends \in BOOLEAN
    /\ session = 1
    /\ ready = <<>>
    /\ taken = NoAction

Reset ==
    /\ session' = session + 1
    /\ ready' = <<>>
    /\ taken' = NoAction
    /\ UNCHANGED appends

Take ==
    /\ ready # <<>>
    /\ taken' = Head(ready)
    /\ ready' = Tail(ready)
    /\ UNCHANGED <<appends, session>>

(* One chunk, of one task, in place of what was left or behind it.         *)
Supply ==
    /\ ready' \in Seq([session : {session}, task : Tasks])
    /\ LET kept == IF appends THEN Len(ready) ELSE 0
       IN  /\ Len(ready') >= kept
           /\ \A i \in 1 .. kept : ready'[i] = ready[i]
           /\ \A i, j \in kept + 1 .. Len(ready') :
                    ready'[i].task = ready'[j].task
    /\ UNCHANGED <<appends, session, taken>>

Next == Reset \/ Take \/ Supply

Spec == Init /\ [][Next]_vars
=============================================================================
