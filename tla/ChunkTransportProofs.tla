------------------------- MODULE ChunkTransportProofs -------------------------
(***************************************************************************)
(* What ChunkTransport's runs show of a few sizes of messages, proved for  *)
(* every chunk size, every size and number of messages and any number of   *)
(* attempts: messages come out whole, in order and all of them, and        *)
(* send_bytes_in_chunks and receive_bytes_in_chunks implement              *)
(* MessageChannel.                                                         *)
(***************************************************************************)
EXTENDS ChunkTransport, TLAPS

(* Appending keeps what a sequence held.                                   *)
LEMMA AppendKeeps ==
    ASSUME NEW S, NEW s \in Seq(S), NEW e \in S
    PROVE  /\ Append(s, e) \in Seq(S)
           /\ Len(Append(s, e)) = Len(s) + 1
           /\ Append(s, e)[Len(s) + 1] = e
           /\ \A i \in 1 .. Len(s) : Append(s, e)[i] = s[i]
    OBVIOUS

(* The messages of a longer queue are those of the queue and one more.     *)
Entries == [by : Handlers, data : Contents]
LEMMA AppendMessage ==
    ASSUME NEW q \in Seq(Entries), NEW e \in Entries
    PROVE  [i \in 1 .. Len(Append(q, e)) |->
                [by |-> Append(q, e)[i].by, msg |-> Append(q, e)[i].data.msg]]
              = Append([i \in 1 .. Len(q) |-> [by |-> q[i].by, msg |-> q[i].data.msg]],
                       [by |-> e.by, msg |-> e.data.msg])
    OBVIOUS

(* What a handler put on a longer queue.                                   *)
LEMMA CameAppend ==
    ASSUME queue \in Seq(Entries), NEW e \in Entries, queue' = Append(queue, e),
           NEW h \in Handlers
    PROVE  Came(h)' = Came(h) \cup (IF e.by = h THEN {e.data.msg} ELSE {})
<1>1. /\ Len(queue') = Len(queue) + 1
      /\ queue'[Len(queue) + 1] = e
      /\ \A i \in 1 .. Len(queue) : queue'[i] = queue[i]
    BY AppendKeeps
<1>2. 1 .. Len(queue') = 1 .. Len(queue) \cup {Len(queue) + 1}
    BY <1>1
<1>. QED
    BY <1>1, <1>2 DEF Came

-----------------------------------------------------------------------------
(* What the receiver holds, and which message it saw last, once it read    *)
(* the first i chunks of the stream.                                       *)
Held(i) == IF i = 0 \/ stream[i].state = End THEN Empty
           ELSE [msg |-> stream[i].msg, len |-> stream[i].from + stream[i].len]
Seen(i) == IF i = 0 THEN 0 ELSE stream[i].msg

(* A chunk carries bytes of a message the sender took; its state says      *)
(* whether they are the first, and whether they are the last.              *)
WellFormed(c) ==
    /\ c.msg \in 1 .. Len(sizes)
    /\ c.len > 0
    /\ c.from + c.len <= sizes[c.msg]
    /\ c.state = End <=> c.from + c.len = sizes[c.msg]
    /\ c.state = Begin => c.from = 0
    /\ c.state = Middle => c.from > 0

ChunksWellFormed == \A i \in 1 .. Len(stream) : WellFormed(stream[i])

(* A chunk goes on where the one before it ended, or starts the next       *)
(* message that has bytes.                                                 *)
Follows(i) ==
    IF Held(i - 1) = Empty
    THEN /\ stream[i].from = 0
         /\ Seen(i - 1) < stream[i].msg
         /\ \A k \in Seen(i - 1) + 1 .. stream[i].msg - 1 : sizes[k] = 0
    ELSE Held(i - 1) = [msg |-> stream[i].msg, len |-> stream[i].from]

ChunksFollow == \A i \in 1 .. Len(stream) : Follows(i)

(* The sender is where the last chunk of the stream says.                  *)
SentHeld == Held(Len(stream))
SentSeen == Seen(Len(stream))
Midway == sending /\ 0 < sentBytes /\ sentBytes < Size
SenderPlace ==
    /\ sending => sentBytes <= Size
    /\ Midway => SentHeld = [msg |-> Current, len |-> sentBytes]
    /\ ~Midway => SentHeld = Empty
    /\ SentSeen <= Current
    /\ sending /\ sentBytes = 0 => SentSeen < Current
    /\ \A k \in SentSeen + 1 .. Current :
          sizes[k] = 0 \/ (k = Current /\ sending /\ sentBytes < Size)

(* A handler is where the chunks it read say, and put all the messages with *)
(* bytes that ended among them, and no other.                              *)
Before(h) == IF buffer[h] = Empty THEN Seen(read[h]) ELSE Seen(read[h]) - 1
ReceiverPlace(h) ==
    /\ buffer[h] = Held(read[h])
    /\ Came(h) = {k \in 1 .. Before(h) : sizes[k] > 0}

ReceiverPlaces == \A h \in Handlers : ReceiverPlace(h)

ChunkInv ==
    /\ TypeOK
    /\ ChunksWellFormed
    /\ ChunksFollow
    /\ SenderPlace
    /\ WholeMessages
    /\ ReceiverPlaces

(* Nothing was sent, nothing was received.                                 *)
LEMMA ChunkInit == Init => ChunkInv
<1>. SUFFICES ASSUME Init PROVE ChunkInv
    OBVIOUS
<1>. USE ChunkAssumption DEF Init
<1>1. TypeOK
    <2>1. Empty \in Contents
        BY DEF Contents, Empty
    <2>2. attempt \in 1 .. MaxAttempts /\ 0 \in 0 .. Len(stream)
        OBVIOUS
    <2>3. sizes \in Seq(Nat) /\ stream \in Seq(Chunks)
          /\ queue \in Seq([by : Handlers, data : Contents])
        OBVIOUS
    <2>. QED
        BY <2>1, <2>2, <2>3 DEF TypeOK
<1>2. ChunksWellFormed /\ ChunksFollow /\ WholeMessages
    BY DEF ChunksWellFormed, ChunksFollow, WholeMessages
<1>3. Held(0) = Empty /\ Seen(0) = 0
    BY DEF Held, Seen
<1>4. SenderPlace
    BY <1>3 DEF SenderPlace, Midway, SentHeld, SentSeen, Current
<1>5. ReceiverPlaces
    <2>. SUFFICES ASSUME NEW h \in Handlers PROVE ReceiverPlace(h)
        BY DEF ReceiverPlaces
    <2>1. Came(h) = {}
        BY DEF Came
    <2>. QED
        BY <1>3, <2>1 DEF ReceiverPlace, Before
<1>. QED
    BY <1>1, <1>2, <1>4, <1>5 DEF ChunkInv

(* A message the sender took: what was said of the others still holds.     *)
LEMMA TakeStep == ChunkInv /\ TakeMessage => ChunkInv'
<1>. SUFFICES ASSUME ChunkInv, TakeMessage PROVE ChunkInv'
    OBVIOUS
<1>. USE DEF ChunkInv, TakeMessage, recvVars, callVars
<1>1. PICK n \in Sizes : sizes' = Append(sizes, n)
    OBVIOUS
<1>2. /\ sizes' \in Seq(Nat)
      /\ Len(sizes') = Len(sizes) + 1
      /\ \A k \in 1 .. Len(sizes) : sizes'[k] = sizes[k]
      /\ sizes'[Len(sizes')] = n
      /\ n \in Nat
    BY <1>1, AppendKeeps, ChunkAssumption DEF TypeOK
<1>3. TypeOK'
    BY <1>2 DEF TypeOK
<1>4. ChunksWellFormed'
    <2>. SUFFICES ASSUME NEW i \in 1 .. Len(stream)
                  PROVE  WellFormed(stream[i])'
        BY DEF ChunksWellFormed
    <2>. QED
        BY <1>2 DEF ChunksWellFormed, WellFormed, TypeOK
<1>5. \A i \in 0 .. Len(stream) :
          /\ Held(i)' = Held(i) /\ Seen(i)' = Seen(i)
          /\ Seen(i) \in 0 .. Len(sizes)
    BY DEF Held, Seen, TypeOK, ChunksWellFormed, WellFormed
<1>6. ChunksFollow'
    <2>. SUFFICES ASSUME NEW i \in 1 .. Len(stream)
                  PROVE  Follows(i)'
        BY DEF ChunksFollow
    <2>1. /\ Follows(i)
          /\ i - 1 \in 0 .. Len(stream)
          /\ stream[i].msg \in 1 .. Len(sizes)
        <3>1. Len(stream) \in Nat
            BY DEF TypeOK
        <3>. QED
            BY <3>1 DEF ChunksWellFormed, WellFormed, ChunksFollow
    <2>2. /\ Held(i - 1)' = Held(i - 1) /\ Seen(i - 1)' = Seen(i - 1)
          /\ Seen(i - 1) \in 0 .. Len(sizes)
        BY <1>5, <2>1
    <2>3. \A k \in Seen(i - 1) + 1 .. stream[i].msg - 1 : sizes'[k] = sizes[k]
        BY <1>2, <2>1, <2>2 DEF TypeOK
    <2>. QED
        BY <2>1, <2>2, <2>3 DEF Follows, Empty
<1>7. SenderPlace'
    <2>1. SentHeld' = SentHeld /\ SentSeen' = SentSeen /\ SentSeen \in Nat
        BY <1>5 DEF SentHeld, SentSeen, TypeOK
    <2>2. /\ sending' /\ ~sending
          /\ Current' = Current + 1 /\ Current \in Nat /\ Size' = sizes'[Current + 1]
        BY <1>2 DEF Current, Size, TypeOK
    <2>3. Size' \in Nat /\ sentBytes' = 0
        BY <1>2 DEF Size, Current
    <2>4. SentHeld = Empty /\ SentSeen <= Current /\ ~Midway'
        BY <2>2, <2>3 DEF SenderPlace, Midway
    <2>5. ASSUME NEW k \in SentSeen + 1 .. Current + 1
          PROVE  sizes'[k] = 0 \/ (k = Current + 1 /\ sentBytes' < Size')
        <3>1. CASE k = Current + 1
            <4>1. sizes'[k] = Size'
                BY <2>2, <3>1
            <4>2. Size' = 0 \/ sentBytes' < Size'
                BY <2>3
            <4>. QED
                BY <3>1, <4>1, <4>2
        <3>2. CASE k # Current + 1
            <4>1. k \in SentSeen + 1 .. Current /\ k \in 1 .. Len(sizes)
                BY <2>1, <2>2, <3>2 DEF Current
            <4>. QED
                BY <1>2, <2>2, <4>1 DEF SenderPlace
        <3>. QED
            BY <3>1, <3>2
    <2>6. SentHeld' = Empty /\ SentSeen' <= Current' /\ SentSeen' < Current'
        BY <2>1, <2>2, <2>4
    <2>7. sentBytes' <= Size'
        BY <2>3
    <2>8. \A k \in SentSeen' + 1 .. Current' :
              sizes'[k] = 0 \/ (k = Current' /\ sending' /\ sentBytes' < Size')
        BY <2>1, <2>2, <2>5
    <2>. QED
        BY <2>2, <2>4, <2>6, <2>7, <2>8 DEF SenderPlace, Empty
<1>8. WholeMessages'
    <2>1. Len(sizes) \in Nat
        BY DEF TypeOK
    <2>. QED
        BY <1>2, <2>1 DEF WholeMessages
<1>9. ReceiverPlaces'
    <2>. SUFFICES ASSUME NEW h \in Handlers PROVE ReceiverPlace(h)'
        BY DEF ReceiverPlaces
    <2>1. /\ read' = read /\ buffer' = buffer /\ Came(h)' = Came(h)
          /\ read[h] \in 0 .. Len(stream)
        BY DEF TypeOK, Came
    <2>2. Seen(read[h])' = Seen(read[h]) /\ Held(read[h])' = Held(read[h])
          /\ Seen(read[h]) \in 0 .. Len(sizes)
        BY <1>5, <2>1
    <2>3. Before(h)' = Before(h) /\ Before(h) \in Int /\ Before(h) <= Len(sizes)
        BY <2>1, <2>2 DEF Before, Empty, TypeOK
    <2>4. \A k \in 1 .. Before(h) : sizes'[k] = sizes[k]
        BY <1>2, <2>3 DEF TypeOK
    <2>. QED
        BY <2>1, <2>2, <2>3, <2>4 DEF ReceiverPlace, ReceiverPlaces
<1>. QED
    BY <1>3, <1>4, <1>6, <1>7, <1>8, <1>9

(* A chunk joins the stream: the next bytes of the message in hand.        *)
LEMMA YieldStep == ChunkInv /\ YieldChunk => ChunkInv'
<1>. SUFFICES ASSUME ChunkInv, YieldChunk PROVE ChunkInv'
    OBVIOUS
<1>. USE ChunkAssumption DEF ChunkInv, YieldChunk, recvVars, callVars
<1>. DEFINE n == Len(stream)
            c == [state |-> StateOf, msg |-> Current,
                  from |-> sentBytes, len |-> SizeToRead]
<1>1. /\ Current \in Nat \ {0} /\ Size \in Nat /\ sentBytes \in Nat
      /\ n \in Nat /\ sentBytes < Size
    BY DEF TypeOK, Current, Size
<1>2. /\ SizeToRead \in Nat \ {0}
      /\ sentBytes + SizeToRead <= Size
      /\ StateOf = End <=> sentBytes + SizeToRead = Size
      /\ StateOf = Begin => sentBytes = 0
      /\ StateOf = Middle => sentBytes > 0
      /\ StateOf \in {Begin, Middle, End}
    BY <1>1 DEF SizeToRead, StateOf, Begin, Middle, End
<1>3. c \in Chunks
    BY <1>1, <1>2 DEF Chunks
<1>4. /\ stream' \in Seq(Chunks)
      /\ Len(stream') = n + 1
      /\ \A i \in 1 .. n : stream'[i] = stream[i]
      /\ stream'[n + 1] = c
    BY <1>3, AppendKeeps DEF TypeOK
<1>5. TypeOK'
    BY <1>1, <1>2, <1>4 DEF TypeOK
<1>6. /\ c.msg = Current /\ c.from = sentBytes /\ c.len = SizeToRead
      /\ c.state = StateOf
    OBVIOUS
<1>7. ChunksWellFormed'
    <2>. SUFFICES ASSUME NEW i \in 1 .. n + 1
                  PROVE  WellFormed(stream[i])'
        BY <1>4 DEF ChunksWellFormed
    <2>1. CASE i = n + 1
        BY <1>1, <1>2, <1>4, <1>6, <2>1 DEF Current, Size, WellFormed
    <2>2. CASE i \in 1 .. n
        BY <1>4, <2>2 DEF ChunksWellFormed, WellFormed
    <2>. QED
        BY <1>1, <2>1, <2>2
<1>8. \A i \in 0 .. n : Held(i)' = Held(i) /\ Seen(i)' = Seen(i)
    BY <1>1, <1>4 DEF Held, Seen, Empty
<1>9. /\ SentHeld' = IF c.state = End THEN Empty
                     ELSE [msg |-> c.msg, len |-> c.from + c.len]
      /\ SentSeen' = Current
    <2>1. Len(stream') # 0 /\ stream'[Len(stream')] = c
        BY <1>1, <1>4
    <2>. QED
        BY <2>1 DEF SentHeld, SentSeen, Held, Seen, Empty, End
<1>10. Seen(n) \in Nat
    BY <1>1 DEF Seen, TypeOK, ChunksWellFormed, WellFormed
<1>11. ChunksFollow'
    <2>. SUFFICES ASSUME NEW i \in 1 .. n + 1
                  PROVE  Follows(i)'
        BY <1>4 DEF ChunksFollow
    <2>1. i - 1 \in 0 .. n /\ Held(i - 1)' = Held(i - 1) /\ Seen(i - 1)' = Seen(i - 1)
        BY <1>1, <1>8
    <2>2. CASE i = n + 1
        <3>1. i - 1 = n /\ stream'[i] = c
            BY <1>1, <1>4, <2>2
        <3>2. CASE sentBytes = 0
            <4>1. Held(n) = Empty /\ Seen(n) < Current
                BY <1>1, <3>2 DEF SenderPlace, Midway, SentHeld, SentSeen
            <4>2. \A k \in Seen(n) + 1 .. Current - 1 : sizes[k] = 0
                BY <1>1, <1>10, <3>2 DEF SenderPlace, SentSeen
            <4>. QED
                BY <1>6, <2>1, <3>1, <3>2, <4>1, <4>2 DEF Follows, Empty
        <3>3. CASE sentBytes > 0
            <4>1. Held(n) = [msg |-> Current, len |-> sentBytes]
                BY <1>1, <3>3 DEF SenderPlace, Midway, SentHeld
            <4>2. Held(n) # Empty
                BY <1>1, <3>3, <4>1 DEF Empty
            <4>. QED
                BY <1>6, <2>1, <3>1, <4>1, <4>2 DEF Follows, Empty
        <3>. QED
            BY <1>1, <3>2, <3>3
    <2>3. CASE i \in 1 .. n
        BY <1>4, <2>1, <2>3 DEF ChunksFollow, Follows, Empty
    <2>. QED
        BY <1>1, <2>2, <2>3
<1>12. SenderPlace'
    <2>1. /\ SentSeen' = Current
          /\ sentBytes + SizeToRead = Size => SentHeld' = Empty
          /\ sentBytes + SizeToRead # Size =>
                SentHeld' = [msg |-> Current, len |-> sentBytes + SizeToRead]
        BY <1>2, <1>6, <1>9
    <2>2. /\ Current' = Current /\ Size' = Size /\ sending' = sending
          /\ sentBytes' = sentBytes + SizeToRead /\ sentBytes' > 0 /\ sentBytes' <= Size
        BY <1>1, <1>2 DEF Current, Size
    <2>3. Midway' <=> sentBytes + SizeToRead # Size
        BY <1>1, <1>2, <2>2 DEF Midway
    <2>4. \A k \in Current + 1 .. Current : FALSE
        BY <1>1
    <2>. QED
        BY <1>1, <2>1, <2>2, <2>3, <2>4 DEF SenderPlace, Empty
<1>13. WholeMessages'
    BY DEF WholeMessages
<1>14. ReceiverPlaces'
    <2>. SUFFICES ASSUME NEW h \in Handlers PROVE ReceiverPlace(h)'
        BY DEF ReceiverPlaces
    <2>1. read[h] \in 0 .. n /\ Came(h)' = Came(h)
        BY DEF TypeOK, Came
    <2>. QED
        BY <1>8, <2>1 DEF ReceiverPlace, ReceiverPlaces, Before, Empty
<1>. QED
    BY <1>5, <1>7, <1>11, <1>13, <1>14, <1>12

(* The generator is exhausted: all of the message is in the stream.        *)
LEMMA SentStep == ChunkInv /\ MessageSent => ChunkInv'
<1>. SUFFICES ASSUME ChunkInv, MessageSent PROVE ChunkInv'
    OBVIOUS
<1>. USE DEF ChunkInv, MessageSent, recvVars, callVars
<1>1. TypeOK'
    BY DEF TypeOK
<1>2. ChunksWellFormed' /\ ChunksFollow'
    BY DEF ChunksWellFormed, WellFormed, ChunksFollow, Follows, Held, Seen,
           Empty, End, Begin, Middle
<1>3. SenderPlace'
    <2>1. /\ Current' = Current /\ SentHeld' = SentHeld /\ SentSeen' = SentSeen
          /\ sizes' = sizes /\ ~sending'
        BY DEF Current, SentHeld, SentSeen, Held, Seen, Empty, End
    <2>2. Size \in Nat /\ sentBytes \in Nat /\ sentBytes >= Size
        BY DEF TypeOK, Size, Current
    <2>3. ~Midway /\ ~Midway'
        BY <2>1, <2>2 DEF Midway
    <2>4. \A k \in SentSeen + 1 .. Current : sizes[k] = 0
        BY <2>2 DEF SenderPlace
    <2>. QED
        BY <2>1, <2>3, <2>4 DEF SenderPlace, Empty
<1>4. WholeMessages' /\ ReceiverPlaces'
    BY DEF WholeMessages, ReceiverPlaces, ReceiverPlace, Before, Came, Held, Seen,
           Empty, End
<1>. QED
    BY <1>1, <1>2, <1>3, <1>4

-----------------------------------------------------------------------------
(* Which chunk follows the first i.                                        *)
LEMMA FollowsNext ==
    ASSUME NEW i, NEW j, j - 1 = i, Follows(j)
    PROVE  IF Held(i) = Empty
           THEN /\ stream[j].from = 0
                /\ Seen(i) < stream[j].msg
                /\ \A k \in Seen(i) + 1 .. stream[j].msg - 1 : sizes[k] = 0
           ELSE Held(i) = [msg |-> stream[j].msg, len |-> stream[j].from]
    BY DEF Follows

(* The next chunk, where a handler stands: what it will hold, and that all *)
(* before the chunk's message came out.                                    *)
LEMMA NextChunk ==
    ASSUME ChunkInv, NEW h \in Handlers, read[h] < Len(stream)
    PROVE  /\ read[h] \in Nat /\ read[h] + 1 \in 1 .. Len(stream)
           /\ Item(h) \in Chunks /\ WellFormed(Item(h))
           /\ Item(h).msg \in 1 .. Len(sizes)
           /\ Came(h) = {k \in 1 .. Item(h).msg - 1 : sizes[k] > 0}
           /\ Seen(read[h] + 1) = Item(h).msg
           /\ Item(h).state # Begin => Write(buffer[h], Item(h)) =
                  [msg |-> Item(h).msg, len |-> Item(h).from + Item(h).len]
           /\ Held(read[h] + 1) = IF Item(h).state = End THEN Empty
                  ELSE [msg |-> Item(h).msg, len |-> Item(h).from + Item(h).len]
<1>. USE DEF ChunkInv
<1>. DEFINE i == read[h]
            item == stream[i + 1]
<1>0. Item(h) = item
    BY DEF Item
<1>1. i \in Nat /\ i + 1 \in 1 .. Len(stream) /\ i + 1 # 0
    BY DEF TypeOK
<1>2. item \in Chunks
    BY <1>1 DEF TypeOK
<1>3. WellFormed(item) /\ Follows(i + 1)
    BY <1>1 DEF ChunksWellFormed, ChunksFollow
<1>4. item.msg \in 1 .. Len(sizes) /\ Len(sizes) \in Nat
    BY <1>3 DEF WellFormed, TypeOK
<1>6. Seen(i) \in Nat
    BY <1>1 DEF Seen, TypeOK, ChunksWellFormed, WellFormed
<1>7. Seen(i + 1) = item.msg
    BY <1>1 DEF Seen
<1>8. Held(i + 1) = IF item.state = End THEN Empty
          ELSE [msg |-> item.msg, len |-> item.from + item.len]
    BY <1>1 DEF Held
<1>9. /\ (i + 1) - 1 = i
      /\ item.from \in Nat /\ item.len \in Nat /\ item.len > 0
    BY <1>1, <1>2, <1>3 DEF Chunks, WellFormed
<1>10. /\ buffer[h] = Held(i)
       /\ Came(h) = {k \in 1 .. Before(h) : sizes[k] > 0}
    BY DEF ReceiverPlaces, ReceiverPlace
<1>11. IF Held(i) = Empty
       THEN /\ item.from = 0
            /\ Seen(i) < item.msg
            /\ \A k \in Seen(i) + 1 .. item.msg - 1 : sizes[k] = 0
       ELSE Held(i) = [msg |-> item.msg, len |-> item.from]
    BY <1>3, <1>9, FollowsNext
<1>. HIDE DEF i, item
<1>12. CASE buffer[h] = Empty
    <2>1. /\ item.from = 0
          /\ Seen(i) < item.msg
          /\ \A k \in Seen(i) + 1 .. item.msg - 1 : sizes[k] = 0
        BY <1>10, <1>12, <1>11
    <2>2. Came(h) = {k \in 1 .. Seen(i) : sizes[k] > 0}
        BY <1>10, <1>12 DEF Before, i
    <2>3. {k \in 1 .. Seen(i) : sizes[k] > 0} = {k \in 1 .. item.msg - 1 : sizes[k] > 0}
        BY <1>4, <1>6, <2>1
    <2>4. Write(buffer[h], item) = [msg |-> item.msg, len |-> item.from + item.len]
        BY <1>12, <2>1 DEF Write
    <2>. QED
        BY <1>0, <1>1, <1>2, <1>3, <1>4, <1>7, <1>8, <2>2, <2>3, <2>4 DEF i
<1>13. CASE buffer[h] # Empty
    <2>1. buffer[h] = [msg |-> item.msg, len |-> item.from]
        BY <1>10, <1>13, <1>11
    <2>2. Seen(i) = item.msg
        BY <1>10, <1>13, <2>1 DEF Held, Seen
    <2>3. Came(h) = {k \in 1 .. item.msg - 1 : sizes[k] > 0}
        BY <1>10, <1>13, <2>2 DEF Before, i
    <2>4. Write(buffer[h], item) = [msg |-> item.msg, len |-> item.from + item.len]
        BY <2>1 DEF Write
    <2>. QED
        BY <1>0, <1>1, <1>2, <1>3, <1>4, <1>7, <1>8, <2>3, <2>4 DEF i
<1>. QED
    BY <1>12, <1>13

(* A handler reads no further than the stream.                             *)
LEMMA AvailableInStream ==
    ASSUME TypeOK, NEW h \in Handlers, read[h] < Available(h)
    PROVE  read[h] < Len(stream)
    BY DEF TypeOK, Available

(* The other handlers stay where they are.                                 *)
LEMMA OthersStay ==
    ASSUME ChunkInv, NEW g \in Handlers, read'[g] = read[g], buffer'[g] = buffer[g],
           Came(g)' = Came(g), UNCHANGED sendVars
    PROVE  ReceiverPlace(g)'
    BY DEF ChunkInv, ReceiverPlaces, ReceiverPlace, Before, Held, Seen, sendVars,
           Empty, End

(* What the sender did is not touched by the receiver or the call.         *)
LEMMA SenderFrame ==
    ASSUME ChunkInv, UNCHANGED sendVars
    PROVE  ChunksWellFormed' /\ ChunksFollow' /\ SenderPlace'
<1>. USE DEF ChunkInv, sendVars, End, Begin, Middle, Empty
<1>1. ChunksWellFormed' /\ ChunksFollow'
    BY DEF ChunksWellFormed, WellFormed, ChunksFollow, Follows, Held, Seen
<1>2. SenderPlace'
    BY DEF SenderPlace, SentHeld, SentSeen, Held, Seen, Midway, Current, Size
<1>. QED
    BY <1>1, <1>2

(* The first or a middle chunk of a message: nothing comes out.            *)
LEMMA FillStep ==
    ASSUME ChunkInv, NEW h \in Handlers, ReceiveBegin(h) \/ ReceiveMiddle(h)
    PROVE  ChunkInv'
<1>. DEFINE held == [msg |-> Item(h).msg, len |-> Item(h).from + Item(h).len]
<1>1. /\ read[h] < Len(stream) /\ read' = [read EXCEPT ![h] = @ + 1]
      /\ UNCHANGED <<sendVars, callVars, queue>>
      /\ Item(h).state # End
    BY AvailableInStream
    DEF ChunkInv, ReceiveBegin, ReceiveMiddle, Receive, Begin, Middle, End
<1>2. ChunksWellFormed' /\ ChunksFollow' /\ SenderPlace'
    BY <1>1, SenderFrame
<1>3. /\ read[h] + 1 \in 1 .. Len(stream) /\ Item(h) \in Chunks
      /\ Item(h).msg \in 1 .. Len(sizes) /\ WellFormed(Item(h))
      /\ Came(h) = {k \in 1 .. Item(h).msg - 1 : sizes[k] > 0}
      /\ Seen(read[h] + 1) = Item(h).msg
      /\ Held(read[h] + 1) = held
    BY <1>1, NextChunk
<1>4. buffer' = [buffer EXCEPT ![h] = held]
    <2>1. CASE ReceiveBegin(h)
        BY <1>3, <2>1 DEF ReceiveBegin, WellFormed, Write
    <2>2. CASE ReceiveMiddle(h)
        BY <1>1, NextChunk, <2>2 DEF ReceiveMiddle, Middle, Begin
    <2>. QED
        BY <2>1, <2>2
<1>5. held \in Contents /\ held # Empty
    BY <1>3 DEF Contents, Chunks, Empty
<1>6. TypeOK'
    <2>1. buffer' \in [Handlers -> Contents]
        BY <1>4, <1>5 DEF ChunkInv, TypeOK
    <2>2. read' \in [Handlers -> 0 .. Len(stream')]
        BY <1>1, <1>3 DEF ChunkInv, TypeOK, sendVars
    <2>. QED
        BY <1>1, <2>1, <2>2 DEF TypeOK, ChunkInv, sendVars, callVars
<1>7. ReceiverPlaces'
    <2>. SUFFICES ASSUME NEW g \in Handlers PROVE ReceiverPlace(g)'
        BY DEF ReceiverPlaces
    <2>1. Came(g)' = Came(g)
        BY <1>1 DEF Came
    <2>2. CASE g = h
        <3>1. read'[h] = read[h] + 1 /\ buffer'[h] = held
            BY <1>1, <1>4 DEF ChunkInv, TypeOK
        <3>2. Seen(read[h])' = Item(h).msg /\ Held(read[h])' = held
            BY <1>1, <1>3, <3>1 DEF Seen, Held, sendVars, Empty, End
        <3>3. Before(h)' = Item(h).msg - 1
            BY <1>5, <3>1, <3>2 DEF Before, Empty
        <3>. QED
            BY <1>1, <1>3, <2>1, <2>2, <3>1, <3>2, <3>3 DEF ReceiverPlace, sendVars
    <2>3. CASE g # h
        <3>1. read'[g] = read[g] /\ buffer'[g] = buffer[g]
            BY <1>1, <1>4, <2>3 DEF ChunkInv, TypeOK
        <3>. QED
            BY <1>1, <2>1, <3>1, OthersStay
    <2>. QED
        BY <2>2, <2>3
<1>8. WholeMessages'
    BY <1>1 DEF WholeMessages, ChunkInv, sendVars
<1>. QED
    BY <1>2, <1>6, <1>7, <1>8 DEF ChunkInv

(* The last chunk of a message: it comes out whole.                        *)
LEMMA EndStep ==
    ASSUME ChunkInv, NEW h \in Handlers, ReceiveEnd(h)
    PROVE  /\ ChunkInv'
           /\ queue' = Append(queue, [by |-> h, data |-> [msg |-> Item(h).msg,
                                                         len |-> sizes[Item(h).msg]]])
<1>. DEFINE message == [msg |-> Item(h).msg, len |-> sizes[Item(h).msg]]
            entry == [by |-> h, data |-> message]
<1>1. /\ read[h] < Len(stream) /\ read' = [read EXCEPT ![h] = @ + 1]
      /\ UNCHANGED <<sendVars, callVars>>
      /\ Item(h).state = End /\ Item(h).state # Begin
      /\ queue' = Append(queue, [by |-> h, data |-> Write(buffer[h], Item(h))])
      /\ buffer' = [buffer EXCEPT ![h] = Empty]
    BY AvailableInStream DEF ChunkInv, ReceiveEnd, Receive, Put, Begin, End
<1>2. ChunksWellFormed' /\ ChunksFollow' /\ SenderPlace'
    BY <1>1, SenderFrame
<1>3. /\ read[h] + 1 \in 1 .. Len(stream) /\ Item(h) \in Chunks
      /\ Item(h).msg \in 1 .. Len(sizes) /\ WellFormed(Item(h))
      /\ Came(h) = {k \in 1 .. Item(h).msg - 1 : sizes[k] > 0}
      /\ Seen(read[h] + 1) = Item(h).msg
      /\ Held(read[h] + 1) = Empty
      /\ Write(buffer[h], Item(h)) = [msg |-> Item(h).msg, len |-> Item(h).from + Item(h).len]
    BY <1>1, NextChunk
<1>4. entry \in Entries /\ message \in Contents /\ queue' = Append(queue, entry)
    BY <1>1, <1>3 DEF WellFormed, Entries, Contents, ChunkInv, TypeOK
<1>5. /\ queue \in Seq(Entries)
      /\ queue' \in Seq(Entries)
      /\ Len(queue') = Len(queue) + 1
      /\ queue'[Len(queue')] = entry
      /\ \A i \in 1 .. Len(queue) : queue'[i] = queue[i]
    BY <1>4, AppendKeeps DEF ChunkInv, TypeOK, Entries
<1>6. TypeOK'
    <2>1. buffer' \in [Handlers -> Contents]
        BY <1>1 DEF Contents, Empty, ChunkInv, TypeOK
    <2>2. read' \in [Handlers -> 0 .. Len(stream')]
        BY <1>1, <1>3 DEF ChunkInv, TypeOK, sendVars
    <2>. QED
        BY <1>1, <1>5, <2>1, <2>2 DEF TypeOK, ChunkInv, sendVars, callVars, Entries
<1>7. WholeMessages'
    <2>. SUFFICES ASSUME NEW i \in 1 .. Len(queue) + 1
                  PROVE  /\ queue'[i].data.msg \in 1 .. Len(sizes)
                         /\ queue'[i].data.len = sizes[queue'[i].data.msg]
        BY <1>1, <1>5 DEF WholeMessages, sendVars
    <2>1. CASE i = Len(queue) + 1
        BY <1>3, <1>5, <2>1
    <2>2. CASE i \in 1 .. Len(queue)
        BY <1>5, <2>2 DEF ChunkInv, WholeMessages
    <2>. QED
        BY <1>5, <2>1, <2>2
<1>8. ReceiverPlaces'
    <2>. SUFFICES ASSUME NEW g \in Handlers PROVE ReceiverPlace(g)'
        BY DEF ReceiverPlaces
    <2>1. Came(g)' = Came(g) \cup (IF h = g THEN {Item(h).msg} ELSE {})
        BY <1>4, <1>5, CameAppend
    <2>2. CASE g = h
        <3>1. read'[h] = read[h] + 1 /\ buffer'[h] = Empty
            BY <1>1 DEF ChunkInv, TypeOK
        <3>2. Seen(read[h])' = Item(h).msg /\ Held(read[h])' = Empty
            BY <1>1, <1>3, <3>1 DEF Seen, Held, sendVars, Empty, End
        <3>3. Before(h)' = Item(h).msg
            <4>1. (buffer[h] = Empty)'
                BY <3>1 DEF Empty
            <4>. QED
                BY <3>2, <4>1 DEF Before
        <3>4. sizes[Item(h).msg] > 0
            <4>0. sizes \in Seq(Nat)
                BY DEF ChunkInv, TypeOK
            <4>1. Item(h).from \in Nat /\ Item(h).len \in Nat /\ sizes[Item(h).msg] \in Nat
                BY <1>3, <4>0 DEF Chunks
            <4>. QED
                BY <1>3, <4>1 DEF WellFormed
        <3>5. Came(h)' = {k \in 1 .. Item(h).msg : sizes[k] > 0}
            BY <1>3, <2>1, <2>2, <3>4
        <3>. QED
            BY <1>1, <2>2, <3>1, <3>2, <3>3, <3>5 DEF ReceiverPlace, sendVars, Empty
    <2>3. CASE g # h
        <3>1. read'[g] = read[g] /\ buffer'[g] = buffer[g] /\ Came(g)' = Came(g)
            BY <1>1, <2>1, <2>3 DEF ChunkInv, TypeOK
        <3>. QED
            BY <1>1, <3>1, OthersStay
    <2>. QED
        BY <2>2, <2>3
<1>. QED
    BY <1>2, <1>4, <1>6, <1>7, <1>8 DEF ChunkInv

(* A call that ends, or begins again, leaves its handler where it is.      *)
LEMMA CallStep == ChunkInv /\ (Retry \/ Break \/ ReceiverReturns) => ChunkInv'
<1>. SUFFICES ASSUME ChunkInv, Retry \/ Break \/ ReceiverReturns PROVE ChunkInv'
    OBVIOUS
<1>. USE DEF Retry, Break, ReceiverReturns, Broken
<1>1. UNCHANGED <<sendVars, recvVars>>
    OBVIOUS
<1>2. ChunksWellFormed' /\ ChunksFollow' /\ SenderPlace'
    BY <1>1, SenderFrame
<1>3. TypeOK'
    <2>0. attempt \in 1 .. MaxAttempts /\ open \in BOOLEAN
        BY DEF ChunkInv, TypeOK
    <2>1. attempt \in Handlers /\ attempt' \in 1 .. MaxAttempts /\ open' \in BOOLEAN
        <3>1. CASE Retry
            BY <2>0, <3>1, ChunkAssumption DEF Handlers
        <3>2. CASE Break \/ ReceiverReturns
            BY <2>0, <3>2 DEF Handlers
        <3>. QED
            BY <3>1, <3>2
    <2>2. given' \in [Handlers -> 0 .. Len(stream')]
        BY <1>1, <2>1 DEF ChunkInv, TypeOK, sendVars
    <2>. QED
        BY <1>1, <2>1, <2>2 DEF TypeOK, ChunkInv, sendVars, recvVars
<1>4. ReceiverPlaces' /\ WholeMessages'
    BY <1>1 DEF ChunkInv, ReceiverPlaces, ReceiverPlace, WholeMessages, Before, Came,
                Held, Seen, sendVars, recvVars, Empty, End
<1>. QED
    BY <1>2, <1>3, <1>4 DEF ChunkInv

(* The other steps move nothing the invariant looks at.                    *)
LEMMA RestStep == ChunkInv /\ (SenderShutdown \/ UNCHANGED vars) => ChunkInv'
<1>. SUFFICES ASSUME ChunkInv, SenderShutdown \/ UNCHANGED vars PROVE ChunkInv'
    OBVIOUS
<1>1. /\ UNCHANGED <<sizes, sending, sentBytes, stream, recvVars, callVars>>
      /\ stopping' \in BOOLEAN
    BY DEF SenderShutdown, vars, sendVars, recvVars, callVars, ChunkInv, TypeOK
<1>2. TypeOK'
    BY <1>1 DEF ChunkInv, TypeOK, recvVars, callVars
<1>3. ChunksWellFormed' /\ ChunksFollow'
    BY <1>1 DEF ChunkInv, ChunksWellFormed, WellFormed, ChunksFollow, Follows,
                Held, Seen, Empty, End, Begin, Middle
<1>4. SenderPlace'
    BY <1>1 DEF ChunkInv, SenderPlace, SentHeld, SentSeen, Held, Seen, Midway,
                Current, Size, Empty, End
<1>5. WholeMessages' /\ ReceiverPlaces'
    BY <1>1 DEF ChunkInv, WholeMessages, ReceiverPlaces, ReceiverPlace, Before, Came,
                Held, Seen, recvVars, Empty, End
<1>. QED
    BY <1>2, <1>3, <1>4, <1>5 DEF ChunkInv

(* Every step keeps the invariant.                                         *)
LEMMA ChunkStep == ChunkInv /\ [Next]_vars => ChunkInv'
    BY TakeStep, YieldStep, SentStep, FillStep, EndStep, CallStep, RestStep
    DEF Next, Done

(* Whatever the sizes and the retries, the invariant holds.                *)
LEMMA ChunkInvariant == Spec => []ChunkInv
<1>. QED
    BY ChunkInit, ChunkStep, PTL DEF Spec

(* Every variable of the two ends of a stream keeps its type: no more      *)
(* attempts than the channel's policy allows, and a buffer that holds the  *)
(* beginning of one message or nothing known.                              *)
THEOREM ChunkTypes == Spec => []TypeOK
<1>1. ChunkInv => TypeOK
    BY DEF ChunkInv
<1>. QED
    BY <1>1, ChunkInvariant, PTL

(* receive_bytes_in_chunks puts whole messages on its queue, for every     *)
(* size of messages and wherever a stream breaks and starts again.         *)
THEOREM MessagesAreWhole == Spec => []WholeMessages
<1>1. ChunkInv => WholeMessages
    BY DEF ChunkInv
<1>. QED
    BY <1>1, ChunkInvariant, PTL

(* send_bytes_in_chunks marks the end of every message that has bytes: a   *)
(* receiver that read all that was sent has put all of them on its queue.  *)
THEOREM MessagesAllCome == Spec => []NothingLost
<1>1. ASSUME ChunkInv, ~sending, read[attempt] = Len(stream)
      PROVE  \A m \in 1 .. Len(sizes) : sizes[m] > 0 => m \in Came(attempt)
    <2>1. attempt \in Handlers
        BY <1>1 DEF ChunkInv, TypeOK, Handlers
    <2>2. buffer[attempt] = Empty /\ Before(attempt) = SentSeen
        BY <1>1, <2>1 DEF ChunkInv, SenderPlace, Midway, ReceiverPlaces, ReceiverPlace,
                          Before, SentHeld, SentSeen
    <2>3. Came(attempt) = {k \in 1 .. SentSeen : sizes[k] > 0}
        BY <1>1, <2>1, <2>2 DEF ChunkInv, ReceiverPlaces, ReceiverPlace
    <2>4. /\ \A k \in SentSeen + 1 .. Len(sizes) : sizes[k] = 0
          /\ SentSeen \in Nat
        BY <1>1 DEF ChunkInv, SenderPlace, Current, SentSeen, Seen, TypeOK,
                    ChunksWellFormed, WellFormed
    <2>. QED
        BY <2>3, <2>4
<1>2. ChunkInv => NothingLost
    BY <1>1 DEF NothingLost
<1>. QED
    BY <1>2, ChunkInvariant, PTL

-----------------------------------------------------------------------------
(* The chunks implement MessageChannel.                                    *)
ChannelReceived ==
    [i \in 1 .. Len(queue) |-> [by |-> queue[i].by, msg |-> queue[i].data.msg]]

(* Where nothing was sent, nothing went in or came out.                    *)
LEMMA ChannelInit == Init => Channel!Init
<1>. SUFFICES ASSUME Init PROVE Channel!Init
    OBVIOUS
<1>1. ChannelReceived = <<>>
    BY DEF Init, ChannelReceived
<1>. QED
    BY <1>1 DEF Init, Channel!Init, ChannelReceived

(* What came out of the channel in an attempt is what its handler put.     *)
LEMMA ChannelCame ==
    ASSUME queue \in Seq(Entries), NEW a
    PROVE  Channel!Came(a) = Came(a)
<1>1. Len(ChannelReceived) = Len(queue)
    BY DEF ChannelReceived
<1>2. \A i \in 1 .. Len(queue) : /\ ChannelReceived[i].by = queue[i].by
                                 /\ ChannelReceived[i].msg = queue[i].data.msg
    BY DEF ChannelReceived
<1>3. Channel!Came(a) = {ChannelReceived[i].msg :
          i \in {j \in 1 .. Len(ChannelReceived) : ChannelReceived[j].by = a}}
    BY DEF Channel!Came, ChannelReceived
<1>. QED
    BY <1>1, <1>2, <1>3 DEF Came

(* A step that takes no message, completes none and starts no new attempt  *)
(* is not seen by the channel.                                             *)
LEMMA ChannelStutter ==
    UNCHANGED <<sizes, queue, attempt>> => UNCHANGED Channel!vars
    BY DEF Channel!vars

(* Each step of the detailed transport is a step of the channel or none.   *)
LEMMA ChannelStep == ChunkInv /\ [Next]_vars => [Channel!Next]_(Channel!vars)
<1>. SUFFICES ASSUME ChunkInv, [Next]_vars
              PROVE  Channel!Next \/ UNCHANGED Channel!vars
    OBVIOUS
<1>1. CASE TakeMessage
    <2>1. PICK n \in Sizes : sizes' = Append(sizes, n)
        BY <1>1 DEF TakeMessage
    <2>2. Channel!Send(n)
        BY <1>1, <2>1 DEF Channel!Send, TakeMessage, recvVars, callVars
    <2>. QED
        BY <2>2 DEF Channel!Next
<1>2. ASSUME NEW h \in Handlers, ReceiveEnd(h) PROVE Channel!Next
    <2>. DEFINE m == Item(h).msg
                entry == [by |-> h, data |-> [msg |-> m, len |-> sizes[m]]]
    <2>1. queue' = Append(queue, entry)
        BY <1>2, EndStep
    <2>2. /\ read[h] < Len(stream) /\ UNCHANGED <<sizes, attempt>>
          /\ h \in 1 .. attempt
        BY <1>2, AvailableInStream
        DEF ChunkInv, TypeOK, ReceiveEnd, Receive, sendVars, callVars, Handlers
    <2>3. /\ m \in 1 .. Len(sizes) /\ Item(h) \in Chunks /\ WellFormed(Item(h))
          /\ Came(h) = {k \in 1 .. m - 1 : sizes[k] > 0}
        BY <2>2, NextChunk
    <2>4. sizes[m] > 0
        BY <2>3 DEF WellFormed, Chunks, ChunkInv, TypeOK
    <2>5. ChannelReceived' = Append(ChannelReceived, [by |-> h, msg |-> m])
        <3>1. queue \in Seq(Entries)
            BY DEF ChunkInv, TypeOK, Entries
        <3>2. entry \in Entries
            BY <2>3 DEF Entries, Contents, ChunkInv, TypeOK
        <3>3. entry.by = h /\ entry.data.msg = m
            OBVIOUS
        <3>. QED
            BY <2>1, <3>1, <3>2, <3>3, AppendMessage DEF ChannelReceived
    <2>6. Channel!Came(h) = {k \in 1 .. m - 1 : sizes[k] > 0}
        BY <2>3, ChannelCame DEF ChunkInv, TypeOK, Entries
    <2>. HIDE DEF m, entry
    <2>8. PICK a \in 1 .. attempt, k \in 1 .. Len(sizes) : a = h /\ k = m
        BY <2>2, <2>3
    <2>7. Channel!Receive(a, k)
        BY <2>2, <2>4, <2>5, <2>6, <2>8 DEF Channel!Receive, ChannelReceived
    <2>. QED
        BY <2>7, <2>8 DEF Channel!Next
<1>3. CASE Retry
    BY <1>3 DEF Retry, sendVars, recvVars, Channel!Replay, Channel!Next
<1>4. ASSUME \/ YieldChunk \/ MessageSent \/ SenderShutdown \/ ReceiverReturns
             \/ Break \/ UNCHANGED vars
             \/ \E h \in Handlers : ReceiveBegin(h) \/ ReceiveMiddle(h)
      PROVE  UNCHANGED Channel!vars
    <2>1. UNCHANGED <<sizes, queue, attempt>>
        BY <1>4 DEF YieldChunk, MessageSent, SenderShutdown, ReceiveBegin,
                    ReceiveMiddle, Receive, ReceiverReturns, Break, vars,
                    sendVars, recvVars, callVars
    <2>. QED
        BY <2>1, ChannelStutter
<1>. QED
    BY <1>1, <1>2, <1>3, <1>4 DEF Next, Done

(* send_bytes_in_chunks and receive_bytes_in_chunks, with the channel's    *)
(* retries between them and the handlers of broken attempts beside,        *)
(* implement the abstract channel of messages.                             *)
THEOREM ChunksImplementChannel == Spec => ImplementsChannel
<1>. QED
    BY ChannelInit, ChannelStep, ChunkInvariant, PTL
    DEF Spec, ImplementsChannel, Channel!Spec
=============================================================================
