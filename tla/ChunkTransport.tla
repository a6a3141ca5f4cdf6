--------------------------- MODULE ChunkTransport ----------------------------
(***************************************************************************)
(* lerobot/transport/utils.py: send_bytes_in_chunks and                    *)
(* receive_bytes_in_chunks at the two ends of one gRPC stream, driven the  *)
(* way rl/actor.py's transitions_stream and rl/learner_service.py drive    *)
(* them: many messages through one call, the receiver putting each on a    *)
(* queue.  The channel retries a call that breaks early: it sends the same *)
(* chunks again, to a new handler with a buffer of its own.  The handler   *)
(* of the broken attempt runs on, on what it was given, and puts what it   *)
(* completes on the same queue.  When the channel gives up, the call is    *)
(* over.                                                                   *)
(*                                                                         *)
(* Bytes are not modelled, their places are: a chunk says which bytes of   *)
(* which message it carries, and a buffer which prefix of which message it *)
(* holds, or that it holds anything else.                                  *)
(***************************************************************************)
EXTENDS Integers, Sequences

CONSTANTS
    ChunkSize,      \* CHUNK_SIZE
    Sizes,          \* sizes of messages, in bytes
    MaxMessages,    \* bound: messages the sender takes
    MaxAttempts     \* max_attempts of the channel's retry policy

ASSUME ChunkAssumption ==
    /\ ChunkSize \in Nat \ {0}
    /\ Sizes \subseteq Nat
    /\ MaxMessages \in Nat
    /\ MaxAttempts \in Nat \ {0}

VARIABLES
    sizes,      \* the size of each message the sender took, in order
    sending,    \* send_bytes_in_chunks is running, on the last of them
    sentBytes,  \* sent_bytes
    stopping,   \* the sender's shutdown_event
    stream,     \* every chunk yielded, which gRPC keeps for a retry
    attempt,    \* the attempts at the call, this one included
    open,       \* the call has not ended
    given,      \* how many chunks the handler of an ended attempt can have
    read,       \* how many chunks the handler of each attempt took
    buffer,     \* its bytes_buffer
    queue       \* what the handlers put on the receiver's queue

sendVars == <<sizes, sending, sentBytes, stopping, stream>>
recvVars == <<read, buffer, queue>>
callVars == <<attempt, open, given>>
vars == <<sendVars, recvVars, callVars>>

Handlers == 1 .. MaxAttempts

Begin == "TRANSFER_BEGIN"
Middle == "TRANSFER_MIDDLE"
End == "TRANSFER_END"

Chunks == [state : {Begin, Middle, End}, msg : Nat, from : Nat, len : Nat]

(* The first len bytes of message msg; no bytes; any other bytes.          *)
Empty == [msg |-> 0, len |-> 0]
Garbled == [msg |-> -1, len |-> -1]
Contents == [msg : Nat, len : Nat] \union {Garbled}

TypeOK ==
    /\ sizes \in Seq(Nat)
    /\ sending \in BOOLEAN
    /\ sending => sizes # <<>>
    /\ sentBytes \in Nat
    /\ stopping \in BOOLEAN
    /\ stream \in Seq(Chunks)
    /\ attempt \in 1 .. MaxAttempts
    /\ open \in BOOLEAN
    /\ given \in [Handlers -> 0 .. Len(stream)]
    /\ read \in [Handlers -> 0 .. Len(stream)]
    /\ buffer \in [Handlers -> Contents]
    /\ queue \in Seq([by : Handlers, data : Contents])

Init ==
    /\ sizes = <<>>
    /\ sending = FALSE
    /\ sentBytes = 0
    /\ stopping = FALSE
    /\ stream = <<>>
    /\ attempt = 1
    /\ open = TRUE
    /\ given = [h \in Handlers |-> 0]
    /\ read = [h \in Handlers |-> 0]
    /\ buffer = [h \in Handlers |-> Empty]
    /\ queue = <<>>

-----------------------------------------------------------------------------
(* The sender: transitions_stream around send_bytes_in_chunks.             *)

Current == Len(sizes)
Size == sizes[Current]

TakeMessage ==
    /\ open /\ ~sending /\ ~stopping
    /\ Current < MaxMessages
    /\ \E n \in Sizes : sizes' = Append(sizes, n)
    /\ sending' = TRUE
    /\ sentBytes' = 0
    /\ UNCHANGED <<stopping, stream, recvVars, callVars>>

(* Mutant: a message of a whole number of chunks has no last chunk.        *)
StateOfStrict == IF sentBytes + ChunkSize > Size THEN End
                 ELSE IF sentBytes = 0 THEN Begin
                 ELSE Middle

(* A message of one chunk is all end.                                      *)
StateOf == IF sentBytes + ChunkSize >= Size THEN End
           ELSE IF sentBytes = 0 THEN Begin
           ELSE Middle

SizeToRead == IF ChunkSize <= Size - sentBytes THEN ChunkSize
                                               ELSE Size - sentBytes

YieldChunk ==
    /\ open /\ sending
    /\ sentBytes < Size
    /\ stream' = Append(stream, [state |-> StateOf, msg |-> Current,
                                 from |-> sentBytes, len |-> SizeToRead])
    /\ sentBytes' = sentBytes + SizeToRead
    /\ UNCHANGED <<sizes, sending, stopping, recvVars, callVars>>

(* The generator is exhausted; at once for a message without bytes.        *)
MessageSent ==
    /\ open /\ sending
    /\ sentBytes >= Size
    /\ sending' = FALSE
    /\ UNCHANGED <<sizes, sentBytes, stopping, stream, recvVars, callVars>>

(* The sender finishes the message in hand before it looks at the event.   *)
SenderShutdown ==
    /\ open /\ ~stopping
    /\ stopping' = TRUE
    /\ UNCHANGED <<sizes, sending, sentBytes, stream, recvVars, callVars>>

-----------------------------------------------------------------------------
(* receive_bytes_in_chunks.                                                *)

(* bytes_buffer.write                                                      *)
Write(b, c) ==
    IF \/ b = Empty /\ c.from = 0
       \/ b.msg = c.msg /\ b.len = c.from
    THEN [msg |-> c.msg, len |-> c.from + c.len]
    ELSE Garbled

(* The attempt under way is given all that is sent; the handler of one     *)
(* that ended may still take what it had been given.                       *)
Available(h) == IF h = attempt /\ open THEN Len(stream) ELSE given[h]

Item(h) == stream[read[h] + 1]

(* The loop's next item.                                                   *)
Receive(h) ==
    /\ h <= attempt
    /\ read[h] < Available(h)
    /\ read' = [read EXCEPT ![h] = @ + 1]
    /\ UNCHANGED <<sendVars, callVars>>

ReceiveBegin(h) ==
    /\ Receive(h)
    /\ Item(h).state = Begin
    /\ buffer' = [buffer EXCEPT ![h] = Write(Empty, Item(h))]
    /\ UNCHANGED queue

ReceiveMiddle(h) ==
    /\ Receive(h)
    /\ Item(h).state = Middle
    /\ buffer' = [buffer EXCEPT ![h] = Write(@, Item(h))]
    /\ UNCHANGED queue

Put(h, b) == queue' = Append(queue, [by |-> h, data |-> b])

(* Mutant: the buffer is not emptied for the next message.                 *)
ReceiveEndKeeping(h) ==
    /\ Receive(h)
    /\ Item(h).state = End
    /\ Put(h, Write(buffer[h], Item(h)))
    /\ buffer' = [buffer EXCEPT ![h] = Write(@, Item(h))]

ReceiveEnd(h) ==
    /\ Receive(h)
    /\ Item(h).state = End
    /\ Put(h, Write(buffer[h], Item(h)))
    /\ buffer' = [buffer EXCEPT ![h] = Empty]

(* The stream ends, or the receiver's shutdown_event is set and it drops   *)
(* the item it was given.                                                  *)
ReceiverReturns ==
    /\ open
    /\ \/ read[attempt] < Len(stream)
       \/ stopping /\ ~sending
    /\ open' = FALSE
    /\ given' = [given EXCEPT ![attempt] = read[attempt]]
    /\ UNCHANGED <<sendVars, recvVars, attempt>>

-----------------------------------------------------------------------------
(* The connection breaks, under whatever was on its way.                   *)
Broken == given' = [given EXCEPT ![attempt] = Len(stream)]

(* Mutant: one attempt too many.                                           *)
RetryOnceMore ==
    /\ open
    /\ attempt <= MaxAttempts
    /\ attempt' = attempt + 1
    /\ Broken
    /\ UNCHANGED <<sendVars, recvVars, open>>

(* Mutant: the new attempt goes on where the last one broke.               *)
RetryResuming ==
    /\ open
    /\ attempt < MaxAttempts
    /\ attempt' = attempt + 1
    /\ Broken
    /\ read' = [read EXCEPT ![attempt + 1] = read[attempt]]
    /\ buffer' = [buffer EXCEPT ![attempt + 1] = buffer[attempt]]
    /\ UNCHANGED <<sendVars, queue, open>>

(* The channel retries: a new handler, which is given the chunks again     *)
(* from the first.                                                         *)
Retry ==
    /\ open
    /\ attempt < MaxAttempts
    /\ attempt' = attempt + 1
    /\ Broken
    /\ UNCHANGED <<sendVars, recvVars, open>>

(* The RpcError reaches send_transitions, which logs it and returns.       *)
Break ==
    /\ open
    /\ open' = FALSE
    /\ Broken
    /\ UNCHANGED <<sendVars, recvVars, attempt>>

Done == ~open /\ UNCHANGED vars

Next ==
    \/ TakeMessage \/ YieldChunk \/ MessageSent \/ SenderShutdown
    \/ \E h \in Handlers : ReceiveBegin(h) \/ ReceiveMiddle(h) \/ ReceiveEnd(h)
    \/ ReceiverReturns \/ Retry \/ Break
    \/ Done

Spec == Init /\ [][Next]_vars

-----------------------------------------------------------------------------
(* What the handler of an attempt put on the queue.                        *)
Came(h) == {queue[i].data.msg : i \in {j \in 1 .. Len(queue) : queue[j].by = h}}

(* Whatever is put on the queue is a message the sender was given, whole:  *)
(* the bytes that reach transitions_to_bytes' inverse are never a part of  *)
(* one message or parts of two, whatever the sizes, the retries, and the   *)
(* handlers of broken attempts that run on.                                *)
WholeMessages ==
    \A i \in 1 .. Len(queue) :
        /\ queue[i].data.msg \in 1 .. Len(sizes)
        /\ queue[i].data.len = sizes[queue[i].data.msg]

(* Once the receiver has read all that was sent, every message that has    *)
(* bytes came out in this attempt: the last chunk of each is marked as the *)
(* end also when the message fills its chunks exactly.                     *)
NothingLost ==
    ~sending /\ read[attempt] = Len(stream) =>
        \A m \in 1 .. Len(sizes) : sizes[m] > 0 => m \in Came(attempt)

(* The chunks, the buffers and the retries implement MessageChannel: in    *)
(* each attempt the messages with bytes come out in order and none twice,  *)
(* also beside those the handler of an earlier attempt still puts.         *)
Channel == INSTANCE MessageChannel WITH
    sent <- sizes,
    attempts <- attempt,
    received <- [i \in 1 .. Len(queue) |->
                    [by |-> queue[i].by, msg |-> queue[i].data.msg]]

ImplementsChannel == Channel!Spec

(* The queue is one sequence of messages, in the order they were sent, and *)
(* from the first again where an attempt began.                            *)
InOrderAcrossAttempts ==
    \A i, j \in 1 .. Len(queue) : i < j => queue[i].by <= queue[j].by
=============================================================================
