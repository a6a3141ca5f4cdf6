--------------------------- MODULE MessageChannel ----------------------------
(***************************************************************************)
(* What a stream of chunked messages promises the two queues it connects:  *)
(* every message that has bytes comes out whole, in the order the messages *)
(* went in, until the call ends.  gRPC may start the call again; then the  *)
(* messages come out again from the first, and those of the attempt before *)
(* may go on coming out between them.                                      *)
(***************************************************************************)
EXTENDS Integers, Sequences

CONSTANT Sizes

VARIABLES
    sent,       \* the size of each message that went in, in order
    attempts,   \* how often the call was started
    received    \* the messages that came out, and the attempt of each

vars == <<sent, attempts, received>>

Init ==
    /\ sent = <<>>
    /\ attempts = 1
    /\ received = <<>>

Send(n) ==
    /\ sent' = Append(sent, n)
    /\ UNCHANGED <<attempts, received>>

(* The messages that came out in an attempt.                               *)
Came(a) == {received[i].msg : i \in {j \in 1 .. Len(received) : received[j].by = a}}

(* In each attempt, the next message with bytes.  Messages without send no *)
(* chunk and never come out.                                               *)
Receive(a, m) ==
    /\ sent[m] > 0
    /\ Came(a) = {k \in 1 .. m - 1 : sent[k] > 0}
    /\ received' = Append(received, [by |-> a, msg |-> m])
    /\ UNCHANGED <<sent, attempts>>

Replay ==
    /\ attempts' = attempts + 1
    /\ UNCHANGED <<sent, received>>

Next ==
    \/ \E n \in Sizes : Send(n)
    \/ \E a \in 1 .. attempts, m \in 1 .. Len(sent) : Receive(a, m)
    \/ Replay

Spec == Init /\ [][Next]_vars
=============================================================================
