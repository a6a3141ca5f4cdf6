----------------------- MODULE HighlightStrategyProofs -----------------------
(***************************************************************************)
(* Proofs about HighlightStrategy, for every ring, every size of frame,    *)
(* every press of a key and any number of calls that raise: an episode is  *)
(* one stretch of the rollout, no frame is recorded twice and none is      *)
(* skipped, and the ring's memory cap is honoured by the frames it holds.  *)
(***************************************************************************)
EXTENDS HighlightStrategy, SumLemmas

(* The loop has not been left.                                             *)
Looping == loop \in {"tick", "frame", "requested", "toggled"}

(* A frame was built and is neither recorded nor buffered yet.             *)
Holding == loop \in {"frame", "requested", "toggled"}

(* The number of the last frame that was dealt with.                       *)
Handled == IF Holding THEN frame.no - 1 ELSE frame.no

(* Frames that end with number n, and that end by it.                      *)
EndsAt(frames, n) == frames # <<>> => frames[Len(frames)].no = n
UpTo(frames, n) == \A i \in 1 .. Len(frames) : frames[i].no <= n
Before(a, b) == \A i \in 1 .. Len(a), j \in 1 .. Len(b) : a[i].no < b[j].no

(* TypeOK, and what it leaves out.                                         *)
TypeInv ==
    /\ TypeOK
    /\ Holding => frame \in Frames /\ frame.no > 0

(* The counter may run ahead of the frames, as a full deque drops one that *)
(* it goes on counting, but it never falls behind them.                    *)
CapInv ==
    /\ Bytes(buffer) <= currentBytes
    /\ CapHonoured

(* Frames are kept in one place at a time, and there up to the last one.   *)
PlaceInv ==
    Looping =>
        /\ IF recordingLive THEN buffer = <<>> ELSE episode = <<>>
        /\ EndsAt(buffer, Handled)
        /\ EndsAt(episode, Handled)
        /\ Handled > 0 =>
               IF recordingLive THEN episode # <<>>
               ELSE \/ buffer # <<>>
                    \/ /\ saved # <<>>
                       /\ saved[Len(saved)] # <<>>
                       /\ EndsAt(saved[Len(saved)], Handled)

(* Each stretch of frames is unbroken.                                     *)
StretchInv ==
    /\ Consecutive(buffer)
    /\ EpisodesUnbroken

(* Episodes come before the one under way, and that before the ring.       *)
OrderInv ==
    /\ UpTo(episode, Handled) /\ UpTo(buffer, Handled)
    /\ \A i \in 1 .. Len(saved) : UpTo(saved[i], Handled)
    /\ Before(episode, buffer)
    /\ \A i \in 1 .. Len(saved) :
           Before(saved[i], episode) /\ Before(saved[i], buffer)
    /\ \A i, j \in 1 .. Len(saved) : i < j => Before(saved[i], saved[j])

(* The inductive invariant.                                                *)
HighlightInv == TypeInv /\ CapInv /\ PlaceInv /\ StretchInv /\ OrderInv

-----------------------------------------------------------------------------
(* Sequences of frames.                                                    *)

(* The end of a sequence, from position k.                                 *)
Suffix(frames, k) == SubSeq(frames, k, Len(frames))

(* The end of a sequence, from its k-th element on.                        *)
LEMMA SuffixFacts ==
    ASSUME NEW S, NEW s \in Seq(S), NEW k \in 1 .. Len(s) + 1
    PROVE  /\ Suffix(s, k) \in Seq(S)
           /\ Len(Suffix(s, k)) = Len(s) - k + 1
           /\ \A i \in 1 .. Len(s) - k + 1 : Suffix(s, k)[i] = s[i + k - 1]
BY DEF Suffix

(* What follows the first n elements.                                      *)
LEMMA RestFacts ==
    ASSUME NEW S, NEW s \in Seq(S), NEW n \in 0 .. Len(s)
    PROVE  /\ Suffix(s, n + 1) \in Seq(S)
           /\ Len(Suffix(s, n + 1)) = Len(s) - n
           /\ \A i \in 1 .. Len(s) - n : Suffix(s, n + 1)[i] = s[i + n]
BY DEF Suffix

(* Sequences with the same elements are the same.                          *)
LEMMA SeqsEqual ==
    ASSUME NEW S, NEW s \in Seq(S), NEW t \in Seq(S), Len(s) = Len(t),
           \A i \in 1 .. Len(s) : s[i] = t[i]
    PROVE  s = t
OBVIOUS

(* A sequence that is the one and then the other.                          *)
LEMMA ConcatIs ==
    ASSUME NEW S, NEW p \in Seq(S), NEW q \in Seq(S), NEW r \in Seq(S),
           Len(r) = Len(p) + Len(q),
           \A i \in 1 .. Len(p) : r[i] = p[i],
           \A i \in 1 .. Len(q) : r[i + Len(p)] = q[i]
    PROVE  r = p \o q
<1>1. \A i \in 1 .. Len(r) : (p \o q)[i] = r[i]
    <2>1. ASSUME NEW i \in 1 .. Len(r)
          PROVE  (p \o q)[i] = r[i]
        <3>1. CASE i <= Len(p)
            BY <3>1
        <3>2. CASE i > Len(p)
            <4>1. i - Len(p) \in 1 .. Len(q) /\ (i - Len(p)) + Len(p) = i
                BY <3>2
            <4>2. (p \o q)[i] = q[i - Len(p)]
                BY <3>2
            <4>3. r[(i - Len(p)) + Len(p)] = q[i - Len(p)]
                BY <4>1
            <4>4. QED
                BY <4>1, <4>2, <4>3
        <3>3. QED
            BY <3>1, <3>2
    <2>2. QED
        BY <2>1
<1>2. p \o q \in Seq(S) /\ Len(p \o q) = Len(r)
    OBVIOUS
<1>3. QED
    BY <1>1, <1>2

(* What Append does.                                                       *)
LEMMA AppendFacts ==
    ASSUME NEW S, NEW s \in Seq(S), NEW e \in S
    PROVE  /\ Append(s, e) \in Seq(S)
           /\ Len(Append(s, e)) = Len(s) + 1
           /\ Append(s, e)[Len(s) + 1] = e
           /\ \A i \in 1 .. Len(s) : Append(s, e)[i] = s[i]
OBVIOUS

(* The first n elements.                                                   *)
LEMMA PrefixFacts ==
    ASSUME NEW S, NEW s \in Seq(S), NEW n \in 0 .. Len(s)
    PROVE  /\ SubSeq(s, 1, n) \in Seq(S)
           /\ Len(SubSeq(s, 1, n)) = n
           /\ \A i \in 1 .. n : SubSeq(s, 1, n)[i] = s[i]
OBVIOUS

(* The bytes of a sequence of frames are a sum.                            *)
LEMMA BytesIsSum ==
    ASSUME NEW s \in Seq(Frames)
    PROVE  /\ [i \in 1 .. Len(s) |-> s[i].bytes] \in Seq(Nat)
           /\ Bytes(s) \in Nat
<1>1. ASSUME NEW i \in 1 .. Len(s)
      PROVE  s[i].bytes \in Nat
    <2>1. s[i] \in Frames
        OBVIOUS
    <2>2. QED
        BY <2>1, RingAssumption DEF Frames
<1>2. [i \in 1 .. Len(s) |-> s[i].bytes] \in Seq(Nat)
    BY <1>1
<1>3. QED
    BY <1>2, SeqSumIsNat DEF Bytes

(* No frames have no bytes.                                                *)
LEMMA BytesOfNone == Bytes(<<>>) = 0
<1>1. [i \in 1 .. Len(<<>>) |-> <<>>[i].bytes] = <<>>
    OBVIOUS
<1>2. QED
    BY <1>1, SeqSumOfNone, Zenon DEF Bytes

(* A frame that is appended adds its bytes.                                *)
LEMMA BytesOfAppend ==
    ASSUME NEW s \in Seq(Frames), NEW e \in Frames
    PROVE  Bytes(Append(s, e)) = Bytes(s) + e.bytes
<1> DEFINE Sizes(t) == [i \in 1 .. Len(t) |-> t[i].bytes]
<1>1. Sizes(s) \in Seq(Nat) /\ e.bytes \in Nat
    BY BytesIsSum, RingAssumption DEF Frames
<1>2. Sizes(Append(s, e)) = Append(Sizes(s), e.bytes)
    <2>1. /\ Len(Append(s, e)) = Len(s) + 1
          /\ Append(s, e)[Len(s) + 1] = e
          /\ \A i \in 1 .. Len(s) : Append(s, e)[i] = s[i]
        BY AppendFacts
    <2>2. Len(s) \in Nat /\ Len(Sizes(s)) = Len(s)
        OBVIOUS
    <2>3. QED
        BY <1>1, <2>1, <2>2
<1>3. SumFunction(Append(Sizes(s), e.bytes)) = SumFunction(Sizes(s)) + e.bytes
    <2> HIDE DEF Sizes
    <2>1. QED
        BY <1>1, SeqSumOfAppend
<1>4. QED
    BY <1>2, <1>3 DEF Bytes

(* The frames a prefix holds and those the suffix after it holds add up.   *)
LEMMA BytesSplit ==
    ASSUME NEW s \in Seq(Frames), NEW n \in 0 .. Len(s)
    PROVE  Bytes(s) = Bytes(SubSeq(s, 1, n)) + Bytes(Suffix(s, n + 1))
<1> DEFINE Sizes(t) == [i \in 1 .. Len(t) |-> t[i].bytes]
<1> DEFINE a == SubSeq(s, 1, n)
<1> DEFINE b == Suffix(s, n + 1)
<1>1. /\ a \in Seq(Frames) /\ Len(a) = n
      /\ \A i \in 1 .. n : a[i] = s[i]
    BY PrefixFacts
<1>2. /\ b \in Seq(Frames) /\ Len(b) = Len(s) - n
      /\ \A i \in 1 .. Len(s) - n : b[i] = s[i + n]
    BY RestFacts
<1> HIDE DEF a, b
<1>3. Sizes(a) \in Seq(Nat) /\ Sizes(b) \in Seq(Nat)
    BY <1>1, <1>2, BytesIsSum
<1>4. Sizes(s) = Sizes(a) \o Sizes(b)
    <2>1. Sizes(s) \in Seq(Nat)
        BY BytesIsSum
    <2>2. /\ Len(Sizes(a)) = n /\ Len(Sizes(b)) = Len(s) - n
          /\ Len(Sizes(s)) = Len(s)
        BY <1>1, <1>2
    <2>3. \A i \in 1 .. n : Sizes(s)[i] = Sizes(a)[i]
        BY <1>1
    <2>4. \A i \in 1 .. Len(s) - n : Sizes(s)[i + n] = Sizes(b)[i]
        BY <1>2
    <2> HIDE DEF Sizes
    <2>5. Len(Sizes(s)) = Len(Sizes(a)) + Len(Sizes(b))
        BY <2>2
    <2>6. /\ \A i \in 1 .. Len(Sizes(a)) : Sizes(s)[i] = Sizes(a)[i]
          /\ \A i \in 1 .. Len(Sizes(b)) :
                 Sizes(s)[i + Len(Sizes(a))] = Sizes(b)[i]
        BY <2>2, <2>3, <2>4
    <2>7. QED
        BY <1>3, <2>1, <2>5, <2>6, ConcatIs
<1>5. SumFunction(Sizes(a) \o Sizes(b)) = SumFunction(Sizes(a)) + SumFunction(Sizes(b))
    <2> HIDE DEF Sizes
    <2>1. QED
        BY <1>3, SeqSumOfConcat
<1>6. Bytes(s) = Bytes(a) + Bytes(b)
    BY <1>4, <1>5 DEF Bytes
<1>7. QED
    BY <1>6 DEF a, b

-----------------------------------------------------------------------------
(* The ring.                                                               *)

(* The while loop ends: for want of frames, or because there is room.      *)
LEMMA EvictionEnds ==
    ASSUME RingTypeOK, NEW b
    PROVE  /\ Evicted(b) \in 0 .. Len(buffer)
           /\ \/ Evicted(b) = Len(buffer)
              \/ currentBytes - Bytes(First(Evicted(b))) + b <= MaxBytes
<1> DEFINE T == {n \in 0 .. Len(buffer) :
                    \/ n = Len(buffer)
                    \/ currentBytes - Bytes(First(n)) + b <= MaxBytes}
<1>1. T \subseteq Nat /\ Len(buffer) \in T
    BY DEF RingTypeOK
<1>2. Evicted(b) = Min(T)
    BY DEF Evicted
<1>3. Min(T) \in T
    <2> HIDE DEF T
    <2>1. PICK m \in T : \A k \in T : m <= k
        BY <1>1, LeastElement
    <2>2. QED
        BY <2>1 DEF Min
<1>4. QED
    BY <1>2, <1>3

(* What the full deque drops is not the frame that was appended.           *)
LEMMA DequeKeepsEnd ==
    ASSUME NEW s \in Seq(Frames), Len(s) <= MaxFrames, NEW f \in Frames
    PROVE  /\ Len(DequeAppend(s, f)) <= MaxFrames
           /\ \E k \in 1 .. Len(s) + 1 : DequeAppend(s, f) = Append(Suffix(s, k), f)
<1>1. MaxFrames \in Nat \ {0}
    BY RingAssumption
<1>2. CASE Len(s) = MaxFrames
    <2>1. s # <<>> /\ Tail(s) = Suffix(s, 2)
        BY <1>1, <1>2 DEF Suffix
    <2>2. Len(Tail(s)) = Len(s) - 1 /\ Tail(s) \in Seq(Frames)
        BY <2>1
    <2>3. DequeAppend(s, f) = Append(Tail(s), f)
        BY <1>2 DEF DequeAppend
    <2>4. 2 \in 1 .. Len(s) + 1
        BY <1>1, <1>2
    <2>5. QED
        BY <1>1, <1>2, <2>1, <2>2, <2>3, <2>4
<1>3. CASE Len(s) # MaxFrames
    <2>1. s = Suffix(s, 1)
        BY DEF Suffix
    <2>2. DequeAppend(s, f) = Append(s, f) /\ 1 \in 1 .. Len(s) + 1
        BY <1>3 DEF DequeAppend
    <2>3. QED
        BY <1>1, <1>3, <2>1, <2>2
<1>4. QED
    BY <1>2, <1>3

(* Frames are never of negative size.                                      *)
LEMMA SuffixIsSmaller ==
    ASSUME NEW s \in Seq(Frames), NEW k \in 1 .. Len(s) + 1
    PROVE  Bytes(Suffix(s, k)) <= Bytes(s)
<1>1. k - 1 \in 0 .. Len(s) /\ (k - 1) + 1 = k
    OBVIOUS
<1>2. Bytes(s) = Bytes(SubSeq(s, 1, k - 1)) + Bytes(Suffix(s, k))
    BY <1>1, BytesSplit
<1>3. Bytes(SubSeq(s, 1, k - 1)) \in Nat
    BY <1>1, PrefixFacts, BytesIsSum
<1>4. Bytes(Suffix(s, k)) \in Nat /\ Bytes(s) \in Nat
    BY SuffixFacts, BytesIsSum
<1>5. QED
    BY <1>2, <1>3, <1>4

(* The end of an end is an end.                                            *)
LEMMA SuffixOfSuffix ==
    ASSUME NEW S, NEW s \in Seq(S), NEW j \in 1 .. Len(s) + 1,
           NEW k \in 1 .. Len(Suffix(s, j)) + 1
    PROVE  /\ j + k - 1 \in 1 .. Len(s) + 1
           /\ Suffix(Suffix(s, j), k) = Suffix(s, j + k - 1)
<1> DEFINE t == Suffix(s, j)
<1>1. /\ t \in Seq(S) /\ Len(t) = Len(s) - j + 1
      /\ \A i \in 1 .. Len(s) - j + 1 : t[i] = s[i + j - 1]
    BY SuffixFacts
<1> HIDE DEF t
<1>2. j + k - 1 \in 1 .. Len(s) + 1
    BY <1>1 DEF t
<1>3. /\ Suffix(t, k) \in Seq(S) /\ Len(Suffix(t, k)) = Len(t) - k + 1
      /\ \A i \in 1 .. Len(t) - k + 1 : Suffix(t, k)[i] = t[i + k - 1]
    BY <1>1, SuffixFacts DEF t
<1>4. /\ Suffix(s, j + k - 1) \in Seq(S)
      /\ Len(Suffix(s, j + k - 1)) = Len(s) - (j + k - 1) + 1
      /\ \A i \in 1 .. Len(s) - (j + k - 1) + 1 :
             Suffix(s, j + k - 1)[i] = s[i + (j + k - 1) - 1]
    BY <1>2, SuffixFacts
<1>5. Len(Suffix(t, k)) = Len(Suffix(s, j + k - 1))
    BY <1>1, <1>3, <1>4
<1>6. ASSUME NEW i \in 1 .. Len(Suffix(t, k))
      PROVE  Suffix(t, k)[i] = Suffix(s, j + k - 1)[i]
    <2>1. i + k - 1 \in 1 .. Len(s) - j + 1
        BY <1>1, <1>3
    <2>2. (i + k - 1) + j - 1 = i + (j + k - 1) - 1
        OBVIOUS
    <2>3. QED
        BY <1>1, <1>3, <1>4, <1>5, <2>1, <2>2
<1>7. Suffix(t, k) = Suffix(s, j + k - 1)
    BY <1>3, <1>4, <1>5, <1>6, SeqsEqual
<1>8. QED
    BY <1>2, <1>7 DEF t

(* Appending keeps the end of the ring and honours both of its bounds.     *)
LEMMA RingGrows ==
    ASSUME RingTypeOK, Bytes(buffer) <= currentBytes, NEW f \in Frames,
           RingAppend(f)
    PROVE  /\ RingTypeOK' /\ CapInv'
           /\ \E k \in 1 .. Len(buffer) + 1 : buffer' = Append(Suffix(buffer, k), f)
<1> DEFINE n == Evicted(f.bytes)
<1> DEFINE r == Suffix(buffer, n + 1)
<1>1. buffer \in Seq(Frames) /\ Len(buffer) <= MaxFrames /\ currentBytes \in Nat
    BY DEF RingTypeOK
<1>2. /\ n \in 0 .. Len(buffer)
      /\ n = Len(buffer) \/ currentBytes - Bytes(First(n)) + f.bytes <= MaxBytes
    BY EvictionEnds
<1>3. /\ buffer' = DequeAppend(r, f)
      /\ currentBytes' = currentBytes - Bytes(First(n)) + f.bytes
    BY DEF RingAppend, From, Suffix
<1> HIDE DEF n
<1>4. r \in Seq(Frames) /\ Len(r) = Len(buffer) - n
    BY <1>1, <1>2, RestFacts
<1>5. Bytes(buffer) = Bytes(First(n)) + Bytes(r)
    BY <1>1, <1>2, BytesSplit DEF First
<1> HIDE DEF r
<1>6. Len(r) <= MaxFrames
    <2>1. MaxFrames \in Nat /\ n \in Nat /\ Len(buffer) \in Nat
        BY <1>1, <1>2, RingAssumption
    <2>2. QED
        BY <1>1, <1>4, <2>1
<1>7. PICK k \in 1 .. Len(r) + 1 : buffer' = Append(Suffix(r, k), f)
    BY <1>3, <1>4, <1>6, DequeKeepsEnd
<1>8. Len(buffer') <= MaxFrames
    BY <1>3, <1>4, <1>6, DequeKeepsEnd
<1>9. /\ Suffix(r, k) \in Seq(Frames)
      /\ Bytes(Suffix(r, k)) <= Bytes(r)
    BY <1>4, <1>7, SuffixFacts, SuffixIsSmaller
<1>10. buffer' \in Seq(Frames) /\ Bytes(buffer') = Bytes(Suffix(r, k)) + f.bytes
    BY <1>7, <1>9, BytesOfAppend
<1>11. /\ Bytes(r) \in Nat /\ Bytes(First(n)) \in Nat /\ Bytes(buffer) \in Nat
       /\ Bytes(Suffix(r, k)) \in Nat /\ f.bytes \in Nat /\ MaxBytes \in Nat
    <2>1. First(n) \in Seq(Frames)
        BY <1>1, <1>2, PrefixFacts DEF First
    <2>2. QED
        BY <1>1, <1>4, <1>9, <2>1, BytesIsSum, RingAssumption DEF Frames
<1>12. currentBytes' \in Nat /\ Bytes(buffer') <= currentBytes'
    BY <1>1, <1>3, <1>5, <1>9, <1>10, <1>11
<1>13. CapHonoured'
    <2>1. CASE n = Len(buffer)
        <3>1. Len(r) = 0
            BY <1>1, <1>2, <1>4, <2>1
        <3>2. k = 1
            BY <1>7, <3>1
        <3>3. Len(Suffix(r, k)) = 0
            <4>1. Len(Suffix(r, k)) = Len(r) - k + 1
                BY <1>4, <1>7, SuffixFacts
            <4>2. QED
                BY <3>1, <3>2, <4>1
        <3>4. Len(buffer') = 1
            BY <1>7, <1>9, <3>3
        <3>5. QED
            BY <3>4 DEF CapHonoured
    <2>2. CASE currentBytes - Bytes(First(n)) + f.bytes <= MaxBytes
        <3>1. Bytes(buffer') <= MaxBytes
            BY <1>1, <1>3, <1>10, <1>11, <1>12, <2>2
        <3>2. QED
            BY <3>1 DEF CapHonoured, Bytes
    <2>3. QED
        BY <1>2, <2>1, <2>2
<1>14. \E j \in 1 .. Len(buffer) + 1 : buffer' = Append(Suffix(buffer, j), f)
    <2>1. n + 1 \in 1 .. Len(buffer) + 1
        BY <1>1, <1>2
    <2>2. /\ (n + 1) + k - 1 \in 1 .. Len(buffer) + 1
          /\ Suffix(r, k) = Suffix(buffer, (n + 1) + k - 1)
        BY <1>1, <1>7, <2>1, SuffixOfSuffix DEF r
    <2>3. QED
        BY <1>7, <2>2
<1>15. RingTypeOK'
    BY <1>8, <1>10, <1>12 DEF RingTypeOK
<1>16. CapInv'
    BY <1>12, <1>13 DEF CapInv, Bytes
<1>17. QED
    BY <1>14, <1>15, <1>16

-----------------------------------------------------------------------------
(* What the parts of the invariant say is kept by the ways a sequence of   *)
(* frames changes.                                                         *)

(* Frames are numbered.                                                    *)
LEMMA FrameNo == \A f \in Frames : f.no \in Nat
BY DEF Frames

(* No frames satisfy every part of the invariant.                          *)
LEMMA EmptyIs ==
    /\ Consecutive(<<>>)
    /\ \A n : EndsAt(<<>>, n) /\ UpTo(<<>>, n)
    /\ \A s : Before(<<>>, s) /\ Before(s, <<>>)
BY DEF Consecutive, EndsAt, UpTo, Before

(* A frame that follows the last one is appended.                          *)
LEMMA AppendKeeps ==
    ASSUME NEW s \in Seq(Frames), NEW e \in Frames, NEW n \in Nat,
           e.no = n + 1, Consecutive(s), EndsAt(s, n), UpTo(s, n)
    PROVE  /\ Append(s, e) \in Seq(Frames) /\ Append(s, e) # <<>>
           /\ Consecutive(Append(s, e))
           /\ EndsAt(Append(s, e), n + 1)
           /\ UpTo(Append(s, e), n + 1)
           /\ \A t \in Seq(Frames) :
                  Before(t, s) /\ UpTo(t, n) => Before(t, Append(s, e))
<1> DEFINE a == Append(s, e)
<1>1. /\ a \in Seq(Frames) /\ Len(a) = Len(s) + 1 /\ a[Len(s) + 1] = e
      /\ \A i \in 1 .. Len(s) : a[i] = s[i]
    BY AppendFacts
<1>2. Len(s) \in Nat /\ \A i \in 1 .. Len(s) : s[i].no \in Nat
    <2>1. \A i \in 1 .. Len(s) : s[i] \in Frames
        OBVIOUS
    <2>2. QED
        BY <2>1, FrameNo
<1> HIDE DEF a
<1>3. a # <<>>
    BY <1>1, <1>2
<1>4. Consecutive(a)
    <2>1. ASSUME NEW i \in 1 .. Len(a) - 1
          PROVE  a[i + 1].no = a[i].no + 1
        <3>1. CASE i = Len(s)
            <4>1. s # <<>>
                BY <1>1, <1>2, <3>1
            <4>2. s[Len(s)].no = n
                BY <4>1 DEF EndsAt
            <4>3. QED
                BY <1>1, <1>2, <3>1, <4>2
        <3>2. CASE i # Len(s)
            <4>1. i \in 1 .. Len(s) - 1 /\ i \in 1 .. Len(s) /\ i + 1 \in 1 .. Len(s)
                BY <1>1, <1>2, <3>2
            <4>2. QED
                BY <1>1, <4>1 DEF Consecutive
        <3>3. QED
            BY <3>1, <3>2
    <2>2. QED
        BY <2>1 DEF Consecutive
<1>5. EndsAt(a, n + 1)
    BY <1>1 DEF EndsAt
<1>6. UpTo(a, n + 1)
    <2>1. ASSUME NEW i \in 1 .. Len(a)
          PROVE  a[i].no <= n + 1
        <3>1. CASE i = Len(s) + 1
            BY <1>1, <3>1
        <3>2. CASE i # Len(s) + 1
            <4>1. i \in 1 .. Len(s)
                BY <1>1, <1>2, <3>2
            <4>2. s[i].no <= n /\ s[i].no \in Nat
                BY <1>2, <4>1 DEF UpTo
            <4>3. QED
                BY <1>1, <4>1, <4>2
        <3>3. QED
            BY <3>1, <3>2
    <2>2. QED
        BY <2>1 DEF UpTo
<1>7. ASSUME NEW t \in Seq(Frames), Before(t, s), UpTo(t, n),
             NEW i \in 1 .. Len(t), NEW j \in 1 .. Len(a)
      PROVE  t[i].no < a[j].no
    <2>1. CASE j = Len(s) + 1
        <3>1. t[i].no <= n /\ t[i].no \in Nat
            <4>1. t[i] \in Frames
                OBVIOUS
            <4>2. QED
                BY <1>7, <4>1, FrameNo DEF UpTo
        <3>2. QED
            BY <1>1, <2>1, <3>1
    <2>2. CASE j # Len(s) + 1
        <3>1. j \in 1 .. Len(s)
            BY <1>1, <1>2, <2>2
        <3>2. QED
            BY <1>1, <1>7, <3>1 DEF Before
    <2>3. QED
        BY <2>1, <2>2
<1>8. QED
    BY <1>1, <1>3, <1>4, <1>5, <1>6, <1>7 DEF a, Before

(* The end of a sequence that is kept.                                     *)
LEMMA SuffixKeeps ==
    ASSUME NEW s \in Seq(Frames), NEW k \in 1 .. Len(s) + 1, NEW n \in Nat,
           Consecutive(s), EndsAt(s, n), UpTo(s, n)
    PROVE  /\ Suffix(s, k) \in Seq(Frames)
           /\ Consecutive(Suffix(s, k))
           /\ EndsAt(Suffix(s, k), n)
           /\ UpTo(Suffix(s, k), n)
           /\ \A t : Before(t, s) => Before(t, Suffix(s, k))
<1> DEFINE b == Suffix(s, k)
<1>1. /\ b \in Seq(Frames) /\ Len(b) = Len(s) - k + 1
      /\ \A i \in 1 .. Len(b) : b[i] = s[i + k - 1]
    BY SuffixFacts
<1>2. Len(s) \in Nat /\ k \in Nat
    OBVIOUS
<1> HIDE DEF b
<1>3. \A i \in 1 .. Len(b) : i + k - 1 \in 1 .. Len(s)
    BY <1>1, <1>2
<1>4. Consecutive(b)
    <2>1. ASSUME NEW i \in 1 .. Len(b) - 1
          PROVE  b[i + 1].no = b[i].no + 1
        <3>1. /\ i \in 1 .. Len(b) /\ i + 1 \in 1 .. Len(b)
              /\ i + k - 1 \in 1 .. Len(s) - 1
              /\ (i + 1) + k - 1 = (i + k - 1) + 1
            BY <1>1, <1>2
        <3>2. b[i] = s[i + k - 1] /\ b[i + 1] = s[(i + k - 1) + 1]
            BY <1>1, <3>1
        <3>3. QED
            BY <3>1, <3>2 DEF Consecutive
    <2>2. QED
        BY <2>1 DEF Consecutive
<1>5. EndsAt(b, n)
    <2>1. SUFFICES ASSUME b # <<>>
                   PROVE  b[Len(b)].no = n
        BY DEF EndsAt
    <2>2. Len(b) \in 1 .. Len(b) /\ Len(b) + k - 1 = Len(s) /\ s # <<>>
        BY <1>1, <1>2, <2>1
    <2>3. QED
        BY <1>1, <2>2 DEF EndsAt
<1>6. UpTo(b, n)
    BY <1>1, <1>3 DEF UpTo
<1>7. \A t : Before(t, s) => Before(t, b)
    BY <1>1, <1>3 DEF Before
<1>8. QED
    BY <1>1, <1>4, <1>5, <1>6, <1>7 DEF b

(* The beginning of a sequence that is kept.                               *)
LEMMA PrefixKeeps ==
    ASSUME NEW s \in Seq(Frames), NEW m \in 0 .. Len(s), NEW n \in Nat,
           Consecutive(s), UpTo(s, n)
    PROVE  /\ SubSeq(s, 1, m) \in Seq(Frames)
           /\ Consecutive(SubSeq(s, 1, m))
           /\ UpTo(SubSeq(s, 1, m), n)
           /\ \A t : Before(t, s) => Before(t, SubSeq(s, 1, m))
<1> DEFINE b == SubSeq(s, 1, m)
<1>1. /\ b \in Seq(Frames) /\ Len(b) = m /\ m \in Nat /\ m <= Len(s)
      /\ \A i \in 1 .. m : b[i] = s[i]
    BY PrefixFacts
<1>2. Len(s) \in Nat
    OBVIOUS
<1> HIDE DEF b
<1>3. Consecutive(b)
    BY <1>1, <1>2 DEF Consecutive
<1>4. UpTo(b, n) /\ \A t : Before(t, s) => Before(t, b)
    BY <1>1, <1>2 DEF UpTo, Before
<1>5. QED
    BY <1>1, <1>3, <1>4 DEF b

(* Frame numbers only grow, so bounds on them stay.                        *)
LEMMA UpToMore ==
    ASSUME NEW s \in Seq(Frames), NEW m \in Nat, NEW n \in Nat, m <= n, UpTo(s, m)
    PROVE  UpTo(s, n)
<1>1. ASSUME NEW i \in 1 .. Len(s)
      PROVE  s[i].no <= n
    <2>1. s[i] \in Frames
        OBVIOUS
    <2>2. s[i].no \in Nat /\ s[i].no <= m
        BY <2>1, FrameNo DEF UpTo
    <2>3. QED
        BY <2>2
<1>2. QED
    BY <1>1 DEF UpTo

-----------------------------------------------------------------------------
(* Every step, in four kinds.                                              *)

(* The steps that touch neither the ring nor an episode.                   *)
Quiet ==
    \/ BuildFrame \/ SeeRequest \/ ClearRequest \/ LeaveLoop
    \/ PressSave \/ PressEsc \/ UNCHANGED vars

(* The steps of a tick that goes well.                                     *)
Tick == BufferFrame \/ RecordFrame \/ StartLive \/ FinishLive

(* The steps that leave the loop by an exception, and what follows.        *)
Fails == FlushFails \/ FirstLiveFails \/ RecordFails \/ SaveFails \/ Finally

(* There is no other step.                                                 *)
LEMMA StepKinds == [Next]_vars => Quiet \/ Tick \/ Fails
BY DEF Next, Quiet, Tick, Fails, Done

(* The types hold at first.                                                *)
LEMMA TypeInit == Init => TypeInv
<1>1. ASSUME Init
      PROVE  TypeInv
    <2>1. buffer \in Seq(Frames) /\ Len(buffer) = 0 /\ currentBytes \in Nat
        BY <1>1 DEF Init, RingInit
    <2>2. RingTypeOK
        BY <2>1, RingAssumption DEF RingTypeOK
    <2>3. /\ saveRequested \in BOOLEAN /\ recordingLive \in BOOLEAN
          /\ shutdown \in BOOLEAN
        BY <1>1, Zenon DEF Init
    <2>4. /\ loop \in Places /\ frame \in [no : Nat, bytes : FrameBytes \union {0}]
          /\ errors \in 0 .. MaxErrors
        BY <1>1, HighlightAssumption DEF Init, Places
    <2>5. episode \in Seq(Frames) /\ saved \in Seq(Seq(Frames))
        BY <1>1 DEF Init
    <2>6. ~Holding
        BY <1>1 DEF Init, Holding
    <2>7. QED
        BY <2>2, <2>3, <2>4, <2>5, <2>6 DEF TypeInv, TypeOK
<1>2. QED
    BY <1>1

(* The keys, and the ends of the loop, keep the types.                     *)
LEMMA TypeQuiet == TypeInv /\ Quiet => TypeInv'
<1>1. SUFFICES ASSUME TypeInv, Quiet
               PROVE  TypeInv'
    OBVIOUS
<1>2. UNCHANGED ringVars /\ UNCHANGED dataVars /\ UNCHANGED errors
    BY <1>1 DEF Quiet, BuildFrame, SeeRequest, ClearRequest, LeaveLoop,
                PressSave, PressEsc, vars, keyVars
<1>3. RingTypeOK'
    BY <1>1, <1>2 DEF TypeInv, TypeOK, RingTypeOK, ringVars
<1>4. saveRequested' \in BOOLEAN /\ shutdown' \in BOOLEAN
    <2>1. /\ saveRequested' = saveRequested \/ saveRequested' = TRUE
             \/ saveRequested' = FALSE
          /\ shutdown' = shutdown \/ shutdown' = TRUE
        BY <1>1, Zenon DEF Quiet, BuildFrame, SeeRequest, ClearRequest,
               LeaveLoop, PressSave, PressEsc, vars, keyVars
    <2>2. saveRequested \in BOOLEAN /\ shutdown \in BOOLEAN
        BY <1>1 DEF TypeInv, TypeOK
    <2>3. QED
        BY <2>1, <2>2, Zenon
<1>5. recordingLive' \in BOOLEAN /\ episode' \in Seq(Frames)
      /\ saved' \in Seq(Seq(Frames)) /\ errors' \in 0 .. MaxErrors
    BY <1>1, <1>2 DEF TypeInv, TypeOK, dataVars
<1>6. CASE BuildFrame
    <2>1. PICK b \in FrameBytes : frame' = [no |-> frame.no + 1, bytes |-> b]
        BY <1>6 DEF BuildFrame
    <2>2. frame.no \in Nat
        BY <1>1 DEF TypeInv, TypeOK
    <2>3. frame' \in Frames /\ frame'.no > 0
        BY <2>1, <2>2 DEF Frames
    <2>4. frame' \in [no : Nat, bytes : FrameBytes \union {0}]
        BY <2>1, <2>2
    <2>5. loop' \in Places
        BY <1>6 DEF BuildFrame, Places
    <2>6. QED
        BY <1>3, <1>4, <1>5, <2>3, <2>4, <2>5 DEF TypeInv, TypeOK
<1>7. CASE ~BuildFrame
    <2>1. /\ UNCHANGED frame
          /\ loop' \in Places
          /\ Holding' => Holding
        BY <1>1, <1>7 DEF Quiet, SeeRequest, ClearRequest, LeaveLoop, PressSave,
               PressEsc, vars, Holding, TypeInv, TypeOK, Places
    <2>2. QED
        BY <1>1, <1>3, <1>4, <1>5, <2>1 DEF TypeInv, TypeOK
<1>8. QED
    BY <1>6, <1>7

(* The drained ring is empty.                                              *)
LEMMA DrainType == RingDrain => RingTypeOK' /\ Bytes(buffer') = 0
<1>1. ASSUME RingDrain
      PROVE  RingTypeOK' /\ Bytes(buffer') = 0
    <2>1. buffer' \in Seq(Frames) /\ Len(buffer') = 0 /\ currentBytes' \in Nat
        BY <1>1 DEF RingDrain
    <2>2. buffer' = <<>>
        BY <1>1 DEF RingDrain
    <2>3. QED
        BY <2>1, <2>2, RingAssumption, BytesOfNone DEF RingTypeOK
<1>2. QED
    BY <1>1

(* A tick that goes well keeps them.                                       *)
LEMMA TypeTick == TypeInv /\ CapInv /\ Tick => TypeInv'
<1>1. SUFFICES ASSUME TypeInv, CapInv, Tick
               PROVE  TypeInv'
    OBVIOUS
<1>2. /\ loop' = "tick"
      /\ UNCHANGED <<frame, keyVars, errors>>
      /\ Holding
    BY <1>1 DEF Tick, BufferFrame, RecordFrame, StartLive, FinishLive, Holding,
                keyVars
<1>3. /\ loop' \in Places /\ ~Holding'
      /\ frame' \in [no : Nat, bytes : FrameBytes \union {0}]
      /\ saveRequested' \in BOOLEAN /\ shutdown' \in BOOLEAN
      /\ errors' \in 0 .. MaxErrors
    BY <1>1, <1>2 DEF TypeInv, TypeOK, Places, Holding, keyVars
<1>4. /\ RingTypeOK /\ frame \in Frames /\ episode \in Seq(Frames)
      /\ saved \in Seq(Seq(Frames)) /\ Bytes(buffer) <= currentBytes
      /\ buffer \in Seq(Frames) /\ recordingLive \in BOOLEAN
    BY <1>1, <1>2 DEF TypeInv, TypeOK, CapInv, RingTypeOK
<1>5. Append(episode, frame) \in Seq(Frames) /\ Append(buffer, frame) \in Seq(Frames)
    BY <1>4, AppendFacts
<1>6. RingTypeOK'
    <2>1. CASE BufferFrame
        BY <1>4, <2>1, RingGrows DEF BufferFrame
    <2>2. CASE StartLive
        BY <2>2, DrainType DEF StartLive
    <2>3. CASE RecordFrame \/ FinishLive
        BY <1>4, <2>3 DEF RecordFrame, FinishLive, ringVars, RingTypeOK
    <2>4. QED
        BY <1>1, <2>1, <2>2, <2>3 DEF Tick
<1>7. recordingLive' \in BOOLEAN
    <2>1. \/ recordingLive' = recordingLive
          \/ recordingLive' = TRUE
          \/ recordingLive' = FALSE
        BY <1>1 DEF Tick, BufferFrame, RecordFrame, StartLive, FinishLive,
                    dataVars
    <2>2. QED
        BY <1>4, <2>1, Zenon
<1>8. episode' \in Seq(Frames) /\ saved' \in Seq(Seq(Frames))
    <2>1. CASE BufferFrame
        BY <1>4, <2>1 DEF BufferFrame, dataVars
    <2>2. CASE RecordFrame
        BY <1>4, <1>5, <2>2 DEF RecordFrame
    <2>3. CASE StartLive
        <3>1. episode' = episode \o Append(buffer, frame) /\ saved' = saved
            BY <2>3 DEF StartLive
        <3>2. QED
            BY <1>4, <1>5, <3>1
    <2>4. CASE FinishLive
        <3>1. episode' = <<>> /\ saved' = Append(saved, Append(episode, frame))
            BY <2>4 DEF FinishLive
        <3>2. saved' \in Seq(Seq(Frames))
            BY <1>4, <1>5, <3>1, AppendFacts
        <3>3. QED
            BY <3>1, <3>2
    <2>5. QED
        BY <1>1, <2>1, <2>2, <2>3, <2>4 DEF Tick
<1>9. QED
    BY <1>3, <1>6, <1>7, <1>8 DEF TypeInv, TypeOK

(* So does an exception.                                                   *)
LEMMA TypeFails == TypeInv /\ Fails => TypeInv'
<1>1. SUFFICES ASSUME TypeInv, Fails
               PROVE  TypeInv'
    OBVIOUS
<1>2. /\ loop' \in {"finally", "done"}
      /\ UNCHANGED <<frame, keyVars>>
    BY <1>1 DEF Fails, FlushFails, FirstLiveFails, RecordFails, SaveFails,
                Finally, Raise, keyVars
<1>3. /\ loop' \in Places /\ ~Holding'
      /\ frame' \in [no : Nat, bytes : FrameBytes \union {0}]
      /\ saveRequested' \in BOOLEAN /\ shutdown' \in BOOLEAN
    BY <1>1, <1>2 DEF TypeInv, TypeOK, Places, Holding, keyVars
<1>4. /\ RingTypeOK /\ episode \in Seq(Frames) /\ saved \in Seq(Seq(Frames))
      /\ buffer \in Seq(Frames) /\ recordingLive \in BOOLEAN
    BY <1>1 DEF TypeInv, TypeOK, RingTypeOK
<1>5. errors' \in 0 .. MaxErrors
    <2>1. errors' = errors \/ (errors < MaxErrors /\ errors' = errors + 1)
        BY <1>1 DEF Fails, FlushFails, FirstLiveFails, RecordFails, SaveFails,
                    Finally, Raise
    <2>2. errors \in 0 .. MaxErrors /\ MaxErrors \in Nat
        BY <1>1, HighlightAssumption DEF TypeInv, TypeOK
    <2>3. QED
        BY <2>1, <2>2
<1>6. RingTypeOK'
    <2>1. CASE FlushFails \/ FirstLiveFails
        BY <2>1, DrainType DEF FlushFails, FirstLiveFails
    <2>2. CASE RecordFails \/ SaveFails \/ Finally
        BY <1>4, <2>2 DEF RecordFails, SaveFails, Finally, ringVars, RingTypeOK
    <2>3. QED
        BY <1>1, <2>1, <2>2 DEF Fails
<1>7. recordingLive' \in BOOLEAN
    <2>1. recordingLive' = recordingLive \/ recordingLive' = TRUE
        BY <1>1 DEF Fails, FlushFails, FirstLiveFails, RecordFails, SaveFails,
                    Finally, Raise
    <2>2. QED
        BY <1>4, <2>1, Zenon
<1>8. episode' \in Seq(Frames) /\ saved' \in Seq(Seq(Frames))
    <2>1. CASE FlushFails
        <3>1. PICK n \in 0 .. Len(buffer) - 1 : episode' = episode \o First(n)
            BY <2>1 DEF FlushFails
        <3>2. First(n) \in Seq(Frames)
            BY <1>4 DEF First
        <3>3. saved' = saved
            BY <2>1 DEF FlushFails, Raise
        <3>4. QED
            BY <1>4, <3>1, <3>2, <3>3
    <2>2. CASE FirstLiveFails
        BY <1>4, <2>2 DEF FirstLiveFails
    <2>3. CASE RecordFails \/ SaveFails
        <3>1. (episode' = <<>> \/ episode' = episode) /\ saved' = saved
            BY <2>3 DEF RecordFails, SaveFails, Raise
        <3>2. CASE episode' = <<>>
            BY <1>4, <3>1, <3>2
        <3>3. CASE episode' = episode
            BY <1>4, <3>1, <3>3
        <3>4. QED
            BY <3>1, <3>2, <3>3
    <2>4. CASE Finally
        <3>1. \/ episode' = <<>> /\ saved' = Append(saved, episode)
              \/ UNCHANGED <<episode, saved>>
            BY <2>4 DEF Finally
        <3>2. Append(saved, episode) \in Seq(Seq(Frames))
            BY <1>4, AppendFacts
        <3>3. CASE episode' = <<>> /\ saved' = Append(saved, episode)
            BY <3>2, <3>3
        <3>4. CASE UNCHANGED <<episode, saved>>
            BY <1>4, <3>4
        <3>5. QED
            BY <3>1, <3>3, <3>4
    <2>5. QED
        BY <1>1, <2>1, <2>2, <2>3, <2>4 DEF Fails
<1>9. QED
    BY <1>3, <1>5, <1>6, <1>7, <1>8 DEF TypeInv, TypeOK

(* Every step keeps the ring within its cap.                               *)
LEMMA CapStep == TypeInv /\ CapInv /\ [Next]_vars => CapInv'
<1>1. SUFFICES ASSUME TypeInv, CapInv, [Next]_vars
               PROVE  CapInv'
    OBVIOUS
<1>2. CASE BufferFrame
    <2>1. RingTypeOK /\ frame \in Frames /\ Bytes(buffer) <= currentBytes
        BY <1>1, <1>2 DEF TypeInv, TypeOK, CapInv, BufferFrame, Holding
    <2>2. QED
        BY <1>2, <2>1, RingGrows DEF BufferFrame
<1>3. CASE RingDrain
    <2>1. Bytes(buffer') = 0 /\ currentBytes' = 0
        BY <1>3, DrainType DEF RingDrain
    <2>2. Bytes(buffer)' = 0
        BY <2>1 DEF Bytes
    <2>3. QED
        BY <2>1, <2>2, RingAssumption DEF CapInv, CapHonoured
<1>4. CASE UNCHANGED ringVars
    BY <1>1, <1>4 DEF CapInv, CapHonoured, Bytes, ringVars
<1>5. BufferFrame \/ RingDrain \/ UNCHANGED ringVars
    BY <1>1 DEF Next, BuildFrame, SeeRequest, ClearRequest, RecordFrame,
       StartLive, FinishLive, FlushFails, FirstLiveFails, RecordFails, SaveFails,
       LeaveLoop, Finally, PressSave, PressEsc, Done, vars
<1>6. QED
    BY <1>2, <1>3, <1>4, <1>5

-----------------------------------------------------------------------------
(* The frames.                                                             *)

(* What the invariant says of frames and episodes.                         *)
DataInv == PlaceInv /\ StretchInv /\ OrderInv

(* It holds at first, without frames.                                      *)
LEMMA DataInit == Init => DataInv
<1>1. ASSUME Init
      PROVE  DataInv
    <2>1. /\ buffer = <<>> /\ episode = <<>> /\ saved = <<>>
          /\ loop = "tick" /\ frame.no = 0 /\ recordingLive = FALSE
        BY <1>1 DEF Init, RingInit
    <2>2. Handled = 0
        BY <2>1 DEF Handled, Holding
    <2>3. PlaceInv
        BY <2>1, <2>2, EmptyIs DEF PlaceInv
    <2>4. StretchInv
        BY <2>1, EmptyIs DEF StretchInv, EpisodesUnbroken
    <2>5. OrderInv
        BY <2>1, EmptyIs DEF OrderInv
    <2>6. QED
        BY <2>3, <2>4, <2>5 DEF DataInv
<1>2. QED
    BY <1>1

(* It is kept by the steps that touch no frame.                            *)
LEMMA DataQuiet == TypeInv /\ DataInv /\ Quiet => DataInv'
<1>1. SUFFICES ASSUME TypeInv, DataInv, Quiet
               PROVE  DataInv'
    OBVIOUS
<1>2. UNCHANGED <<buffer, episode, saved, recordingLive>>
    BY <1>1 DEF Quiet, BuildFrame, SeeRequest, ClearRequest, LeaveLoop,
                PressSave, PressEsc, vars, ringVars, dataVars
<1>3. Handled' = Handled
    <2>1. CASE BuildFrame
        <3>1. frame.no \in Nat /\ frame'.no = frame.no + 1
            BY <1>1, <2>1 DEF TypeInv, TypeOK, BuildFrame
        <3>2. ~Holding /\ Holding'
            BY <2>1 DEF BuildFrame, Holding
        <3>3. QED
            BY <3>1, <3>2 DEF Handled
    <2>2. CASE ~BuildFrame
        BY <1>1, <2>2 DEF Quiet, SeeRequest, ClearRequest, LeaveLoop, PressSave,
            PressEsc, vars, Handled, Holding
    <2>3. QED
        BY <2>1, <2>2
<1>4. Looping' => Looping
    BY <1>1 DEF Quiet, BuildFrame, SeeRequest, ClearRequest, LeaveLoop,
                PressSave, PressEsc, vars, Looping
<1>5. PlaceInv'
    BY <1>1, <1>2, <1>3, <1>4 DEF DataInv, PlaceInv, EndsAt
<1>6. StretchInv'
    BY <1>1, <1>2 DEF DataInv, StretchInv, EpisodesUnbroken, Consecutive
<1>7. OrderInv'
    BY <1>1, <1>2, <1>3 DEF DataInv, OrderInv, UpTo, Before
<1>8. QED
    BY <1>5, <1>6, <1>7 DEF DataInv

(* What every step of a tick finds and leaves.                             *)
LEMMA TickFacts ==
    ASSUME TypeInv, DataInv, Tick
    PROVE  /\ Handled \in Nat /\ frame.no = Handled + 1 /\ Handled' = Handled + 1
           /\ frame \in Frames /\ buffer \in Seq(Frames)
           /\ episode \in Seq(Frames) /\ saved \in Seq(Seq(Frames))
           /\ Looping
           /\ \A i \in 1 .. Len(saved) : UpTo(saved[i], Handled + 1)
<1>1. Holding /\ ~Holding' /\ frame' = frame
    BY DEF Tick, BufferFrame, RecordFrame, StartLive, FinishLive, Holding
<1>2. /\ frame \in Frames /\ frame.no > 0 /\ buffer \in Seq(Frames)
      /\ episode \in Seq(Frames) /\ saved \in Seq(Seq(Frames))
    BY <1>1 DEF TypeInv, TypeOK, RingTypeOK
<1>3. /\ Handled \in Nat /\ frame.no = Handled + 1 /\ Handled' = Handled + 1
    BY <1>1, <1>2, FrameNo DEF Handled
<1>4. \A i \in 1 .. Len(saved) : UpTo(saved[i], Handled + 1)
    <2>1. ASSUME NEW i \in 1 .. Len(saved)
          PROVE  UpTo(saved[i], Handled + 1)
        <3>1. saved[i] \in Seq(Frames) /\ UpTo(saved[i], Handled)
            BY <1>2 DEF DataInv, OrderInv
        <3>2. Handled + 1 \in Nat /\ Handled <= Handled + 1
            BY <1>3
        <3>3. QED
            BY <1>3, <3>1, <3>2, UpToMore
    <2>2. QED
        BY <2>1
<1>5. QED
    BY <1>1, <1>2, <1>3, <1>4 DEF Looping, Holding

(* A frame goes into the ring, from which others may be dropped.           *)
LEMMA DataBuffer == TypeInv /\ CapInv /\ DataInv /\ BufferFrame => DataInv'
<1>1. SUFFICES ASSUME TypeInv, CapInv, DataInv, BufferFrame
               PROVE  DataInv'
    OBVIOUS
<1> DEFINE n == Handled
<1>2. /\ n \in Nat /\ frame.no = n + 1 /\ Handled' = n + 1
      /\ frame \in Frames /\ buffer \in Seq(Frames)
      /\ saved \in Seq(Seq(Frames)) /\ Looping
      /\ \A i \in 1 .. Len(saved) : UpTo(saved[i], n + 1)
    BY <1>1, TickFacts DEF Tick
<1> HIDE DEF n
<1>3. /\ ~recordingLive /\ loop' = "tick"
      /\ UNCHANGED <<episode, saved, recordingLive>>
    BY <1>1 DEF BufferFrame, dataVars
<1>4. episode = <<>>
    BY <1>1, <1>2, <1>3 DEF DataInv, PlaceInv
<1>5. /\ Consecutive(buffer) /\ EndsAt(buffer, n) /\ UpTo(buffer, n)
      /\ \A i \in 1 .. Len(saved) : Before(saved[i], buffer) /\ UpTo(saved[i], n)
    BY <1>1, <1>2 DEF DataInv, PlaceInv, StretchInv, OrderInv, n
<1>6. PICK k \in 1 .. Len(buffer) + 1 : buffer' = Append(Suffix(buffer, k), frame)
    <2>1. RingTypeOK /\ Bytes(buffer) <= currentBytes /\ RingAppend(frame)
        BY <1>1 DEF TypeInv, TypeOK, CapInv, BufferFrame
    <2>2. QED
        BY <1>2, <2>1, RingGrows
<1> DEFINE r == Suffix(buffer, k)
<1>7. /\ r \in Seq(Frames) /\ Consecutive(r) /\ EndsAt(r, n) /\ UpTo(r, n)
      /\ \A t : Before(t, buffer) => Before(t, r)
    BY <1>2, <1>5, <1>6, SuffixKeeps
<1> HIDE DEF r
<1>8. /\ buffer' # <<>> /\ Consecutive(buffer')
      /\ EndsAt(buffer', n + 1) /\ UpTo(buffer', n + 1)
      /\ \A t \in Seq(Frames) : Before(t, r) /\ UpTo(t, n) => Before(t, buffer')
    <2>1. buffer' = Append(r, frame)
        BY <1>6 DEF r
    <2>2. QED
        BY <1>2, <1>7, <2>1, AppendKeeps
<1>9. \A i \in 1 .. Len(saved) : Before(saved[i], buffer')
    <2>1. \A i \in 1 .. Len(saved) : saved[i] \in Seq(Frames)
        BY <1>2
    <2>2. QED
        BY <1>5, <1>7, <1>8, <2>1
<1>10. PlaceInv'
    <2>1. ~recordingLive' /\ episode' = <<>>
        BY <1>3, <1>4
    <2>2. EndsAt(episode', n + 1)
        BY <2>1, EmptyIs
    <2>3. QED
        BY <1>2, <1>8, <2>1, <2>2 DEF PlaceInv, EndsAt
<1>11. StretchInv'
    BY <1>1, <1>3, <1>8 DEF DataInv, StretchInv, EpisodesUnbroken, Consecutive
<1>12. OrderInv'
    <2>1. /\ UpTo(episode', n + 1) /\ Before(episode', buffer')
          /\ \A i \in 1 .. Len(saved) : Before(saved[i], episode')
        BY <1>3, <1>4, EmptyIs
    <2>2. \A i, j \in 1 .. Len(saved) : i < j => Before(saved[i], saved[j])
        BY <1>1 DEF DataInv, OrderInv
    <2>3. QED
        BY <1>2, <1>3, <1>8, <1>9, <2>1, <2>2 DEF OrderInv, UpTo, Before
<1>13. QED
    BY <1>10, <1>11, <1>12 DEF DataInv

(* A frame goes into the episode, alone or behind what the ring held.      *)
LEMMA DataRecord == TypeInv /\ DataInv /\ (RecordFrame \/ StartLive) => DataInv'
<1>1. SUFFICES ASSUME TypeInv, DataInv, RecordFrame \/ StartLive
               PROVE  DataInv'
    OBVIOUS
<1> DEFINE n == Handled
<1> DEFINE r == IF recordingLive THEN episode ELSE buffer
<1>2. /\ n \in Nat /\ frame.no = n + 1 /\ Handled' = n + 1
      /\ frame \in Frames /\ buffer \in Seq(Frames) /\ episode \in Seq(Frames)
      /\ saved \in Seq(Seq(Frames)) /\ Looping
      /\ \A i \in 1 .. Len(saved) : UpTo(saved[i], n + 1)
    BY <1>1, TickFacts DEF Tick
<1> HIDE DEF n
<1>3. /\ r \in Seq(Frames) /\ Consecutive(r) /\ EndsAt(r, n) /\ UpTo(r, n)
      /\ \A i \in 1 .. Len(saved) : Before(saved[i], r) /\ UpTo(saved[i], n)
    BY <1>1, <1>2 DEF DataInv, PlaceInv, StretchInv, OrderInv, EpisodesUnbroken, n
<1>4. /\ episode' = Append(r, frame) /\ buffer' = <<>>
      /\ recordingLive' = TRUE /\ UNCHANGED saved
    <2>1. CASE RecordFrame
        <3>1. recordingLive /\ buffer = <<>>
            BY <1>1, <1>2, <2>1 DEF RecordFrame, DataInv, PlaceInv
        <3>2. /\ episode' = Append(episode, frame)
              /\ UNCHANGED <<buffer, recordingLive, saved>>
            BY <2>1 DEF RecordFrame, ringVars
        <3>3. recordingLive' = TRUE
            <4>1. recordingLive \in BOOLEAN
                BY <1>1 DEF TypeInv, TypeOK
            <4>2. QED
                BY <3>1, <3>2, <4>1, Zenon
        <3>4. QED
            BY <3>1, <3>2, <3>3
    <2>2. CASE StartLive
        <3>1. ~recordingLive /\ episode = <<>>
            BY <1>1, <1>2, <2>2 DEF StartLive, DataInv, PlaceInv
        <3>2. /\ episode' = episode \o Append(buffer, frame)
              /\ buffer' = <<>> /\ recordingLive' = TRUE /\ UNCHANGED saved
            BY <2>2 DEF StartLive, RingDrain
        <3>3. Append(buffer, frame) \in Seq(Frames)
            BY <1>2
        <3>4. episode' = Append(buffer, frame)
            BY <3>1, <3>2, <3>3
        <3>5. QED
            BY <3>1, <3>2, <3>4
    <2>3. QED
        BY <1>1, <2>1, <2>2
<1> HIDE DEF r
<1>5. /\ episode' # <<>> /\ Consecutive(episode')
      /\ EndsAt(episode', n + 1) /\ UpTo(episode', n + 1)
      /\ \A t \in Seq(Frames) : Before(t, r) /\ UpTo(t, n) => Before(t, episode')
    BY <1>2, <1>3, <1>4, AppendKeeps
<1>6. \A i \in 1 .. Len(saved) : Before(saved[i], episode')
    <2>1. \A i \in 1 .. Len(saved) : saved[i] \in Seq(Frames)
        BY <1>2
    <2>2. QED
        BY <1>3, <1>5, <2>1
<1>7. /\ Consecutive(buffer') /\ EndsAt(buffer', n + 1) /\ UpTo(buffer', n + 1)
      /\ \A t : Before(t, buffer')
    BY <1>4, EmptyIs
<1>8. PlaceInv'
    BY <1>2, <1>4, <1>5, <1>7 DEF PlaceInv, EndsAt
<1>9. StretchInv'
    BY <1>1, <1>4, <1>5, <1>7 DEF DataInv, StretchInv, EpisodesUnbroken, Consecutive
<1>10. OrderInv'
    <2>1. \A i, j \in 1 .. Len(saved) : i < j => Before(saved[i], saved[j])
        BY <1>1 DEF DataInv, OrderInv
    <2>2. QED
        BY <1>2, <1>4, <1>5, <1>6, <1>7, <2>1 DEF OrderInv, UpTo, Before
<1>11. QED
    BY <1>8, <1>9, <1>10 DEF DataInv

(* The episodes saved, on their own.                                       *)
SavedOK(ss, m) ==
    /\ \A i \in 1 .. Len(ss) : Consecutive(ss[i]) /\ UpTo(ss[i], m)
    /\ \A i, j \in 1 .. Len(ss) : i < j => Before(ss[i], ss[j])

(* An episode of later frames joins those saved.                           *)
LEMMA SavedGrows ==
    ASSUME NEW ss \in Seq(Seq(Frames)), NEW e \in Seq(Frames), NEW m \in Nat,
           SavedOK(ss, m), Consecutive(e), UpTo(e, m),
           \A i \in 1 .. Len(ss) : Before(ss[i], e)
    PROVE  SavedOK(Append(ss, e), m)
<1> DEFINE t == Append(ss, e)
<1>1. /\ Len(t) = Len(ss) + 1 /\ t[Len(ss) + 1] = e /\ Len(ss) \in Nat
      /\ \A i \in 1 .. Len(ss) : t[i] = ss[i]
    BY AppendFacts
<1> HIDE DEF t
<1>2. \A i \in 1 .. Len(t) : i = Len(ss) + 1 \/ i \in 1 .. Len(ss)
    BY <1>1
<1>3. \A i \in 1 .. Len(t) : Consecutive(t[i]) /\ UpTo(t[i], m)
    BY <1>1, <1>2 DEF SavedOK
<1>4. ASSUME NEW i \in 1 .. Len(t), NEW j \in 1 .. Len(t), i < j
      PROVE  Before(t[i], t[j])
    <2>1. i \in 1 .. Len(ss)
        BY <1>1, <1>4
    <2>2. CASE j = Len(ss) + 1
        BY <1>1, <2>1, <2>2
    <2>3. CASE j \in 1 .. Len(ss)
        BY <1>1, <1>4, <2>1, <2>3 DEF SavedOK
    <2>4. QED
        BY <1>2, <2>2, <2>3
<1>5. SavedOK(t, m)
    BY <1>3, <1>4 DEF SavedOK
<1>6. QED
    BY <1>5 DEF t

(* The frame ends the episode, which is saved.                             *)
LEMMA DataFinish == TypeInv /\ DataInv /\ FinishLive => DataInv'
<1>1. SUFFICES ASSUME TypeInv, DataInv, FinishLive
               PROVE  DataInv'
    OBVIOUS
<1> DEFINE n == Handled
<1> DEFINE e == Append(episode, frame)
<1>2. /\ n \in Nat /\ frame.no = n + 1 /\ Handled' = n + 1
      /\ frame \in Frames /\ episode \in Seq(Frames)
      /\ saved \in Seq(Seq(Frames)) /\ Looping
      /\ \A i \in 1 .. Len(saved) : UpTo(saved[i], n + 1)
    BY <1>1, TickFacts DEF Tick
<1> HIDE DEF n
<1>3. /\ recordingLive /\ recordingLive' = FALSE
      /\ episode' = <<>> /\ saved' = Append(saved, e) /\ UNCHANGED buffer
    BY <1>1 DEF FinishLive, ringVars
<1>4. buffer' = <<>>
    BY <1>1, <1>2, <1>3 DEF DataInv, PlaceInv
<1>5. /\ Consecutive(episode) /\ EndsAt(episode, n) /\ UpTo(episode, n)
      /\ \A i \in 1 .. Len(saved) : Before(saved[i], episode) /\ UpTo(saved[i], n)
    BY <1>1, <1>2 DEF DataInv, PlaceInv, StretchInv, OrderInv, EpisodesUnbroken, n
<1>6. /\ e \in Seq(Frames) /\ e # <<>> /\ Consecutive(e)
      /\ EndsAt(e, n + 1) /\ UpTo(e, n + 1)
      /\ \A t \in Seq(Frames) : Before(t, episode) /\ UpTo(t, n) => Before(t, e)
    BY <1>2, <1>5, AppendKeeps
<1> HIDE DEF e
<1>7. \A i \in 1 .. Len(saved) : Before(saved[i], e)
    <2>1. \A i \in 1 .. Len(saved) : saved[i] \in Seq(Frames)
        BY <1>2
    <2>2. QED
        BY <1>5, <1>6, <2>1
<1>8. SavedOK(saved', n + 1)
    <2>1. SavedOK(saved, n + 1)
        BY <1>1, <1>2 DEF DataInv, OrderInv, StretchInv, EpisodesUnbroken, SavedOK
    <2>2. n + 1 \in Nat
        BY <1>2
    <2>3. SavedOK(Append(saved, e), n + 1)
        BY <1>2, <1>6, <1>7, <2>1, <2>2, SavedGrows
    <2>4. QED
        BY <1>3, <2>3
<1>9. /\ \A t : Before(t, episode') /\ Before(t, buffer')
      /\ Before(episode', buffer')
      /\ \A m : /\ UpTo(episode', m) /\ UpTo(buffer', m)
                /\ EndsAt(episode', m) /\ EndsAt(buffer', m)
      /\ Consecutive(episode') /\ Consecutive(buffer')
    BY <1>3, <1>4, EmptyIs
<1>10. PlaceInv'
    <2>1. saved' # <<>> /\ saved'[Len(saved')] = e
        BY <1>2, <1>3, <1>6, AppendFacts
    <2>2. \/ saved' # <<>> /\ saved'[Len(saved')] # <<>>
             /\ EndsAt(saved'[Len(saved')], n + 1)
        BY <1>6, <2>1
    <2>3. QED
        BY <1>2, <1>3, <1>4, <1>9, <2>2 DEF PlaceInv, EndsAt
<1>11. StretchInv'
    BY <1>8, <1>9 DEF StretchInv, EpisodesUnbroken, Consecutive, SavedOK
<1>12. OrderInv'
    BY <1>2, <1>8, <1>9 DEF OrderInv, UpTo, Before, SavedOK
<1>13. QED
    BY <1>10, <1>11, <1>12 DEF DataInv

(* An exception, and the finally that follows it.                          *)
LEMMA DataFails == TypeInv /\ DataInv /\ Fails => DataInv'
<1>1. SUFFICES ASSUME TypeInv, DataInv, Fails
               PROVE  DataInv'
    OBVIOUS
<1> DEFINE m == frame.no
<1>2. /\ m \in Nat /\ Handled \in Nat /\ Handled <= m /\ Handled' = m
      /\ ~Looping'
    <2>1. /\ loop' \in {"finally", "done"} /\ frame' = frame
        BY <1>1 DEF Fails, FlushFails, FirstLiveFails, RecordFails, SaveFails,
                    Finally, Raise
    <2>2. m \in Nat /\ (Holding => m > 0)
        BY <1>1, FrameNo DEF TypeInv, TypeOK
    <2>3. QED
        BY <2>1, <2>2 DEF Handled, Holding, Looping
<1> HIDE DEF m
<1>3. /\ buffer \in Seq(Frames) /\ episode \in Seq(Frames)
      /\ saved \in Seq(Seq(Frames))
    BY <1>1 DEF TypeInv, TypeOK, RingTypeOK
<1>4. /\ Consecutive(buffer) /\ UpTo(buffer, m)
      /\ Consecutive(episode) /\ UpTo(episode, m)
      /\ Before(episode, buffer)
    <2>1. UpTo(buffer, Handled) /\ UpTo(episode, Handled)
        BY <1>1 DEF DataInv, OrderInv
    <2>2. UpTo(buffer, m) /\ UpTo(episode, m)
        BY <1>2, <1>3, <2>1, UpToMore
    <2>3. QED
        BY <1>1, <2>2 DEF DataInv, StretchInv, OrderInv, EpisodesUnbroken
<1>5. SavedOK(saved, m)
    <2>1. ASSUME NEW i \in 1 .. Len(saved)
          PROVE  UpTo(saved[i], m)
        <3>1. saved[i] \in Seq(Frames) /\ UpTo(saved[i], Handled)
            BY <1>1, <1>3 DEF DataInv, OrderInv
        <3>2. QED
            BY <1>2, <3>1, UpToMore
    <2>2. QED
        BY <1>1, <2>1 DEF DataInv, OrderInv, StretchInv, EpisodesUnbroken, SavedOK
<1>6. \A i \in 1 .. Len(saved) :
          Before(saved[i], episode) /\ Before(saved[i], buffer)
    BY <1>1 DEF DataInv, OrderInv
\* Whatever the step did, it left this.
<1>7. /\ SavedOK(saved', m)
      /\ Consecutive(episode') /\ UpTo(episode', m)
      /\ Consecutive(buffer') /\ UpTo(buffer', m)
      /\ Before(episode', buffer')
      /\ \A i \in 1 .. Len(saved') :
             Before(saved'[i], episode') /\ Before(saved'[i], buffer')
    <2>1. CASE FlushFails
        <3>1. /\ ~recordingLive /\ Looping /\ saved' = saved /\ buffer' = <<>>
            BY <2>1 DEF FlushFails, Raise, RingDrain, Looping
        <3>2. PICK n \in 0 .. Len(buffer) - 1 : episode' = episode \o First(n)
            BY <2>1 DEF FlushFails
        <3>3. n \in 0 .. Len(buffer) /\ First(n) = SubSeq(buffer, 1, n)
            BY <1>3, <3>2 DEF First
        <3>4. /\ First(n) \in Seq(Frames) /\ Consecutive(First(n))
              /\ UpTo(First(n), m)
              /\ \A t : Before(t, buffer) => Before(t, First(n))
            BY <1>2, <1>3, <1>4, <3>3, PrefixKeeps
        <3>5. episode = <<>>
            BY <1>1, <3>1 DEF DataInv, PlaceInv
        <3>6. episode' = First(n)
            BY <3>2, <3>4, <3>5
        <3>7. QED
            BY <1>5, <1>6, <3>1, <3>4, <3>6, EmptyIs
    <2>2. CASE FirstLiveFails
        <3>1. /\ ~recordingLive /\ Looping /\ saved' = saved /\ buffer' = <<>>
              /\ episode' = episode \o buffer
            BY <2>2 DEF FirstLiveFails, RingDrain, Looping
        <3>2. episode = <<>>
            BY <1>1, <3>1 DEF DataInv, PlaceInv
        <3>3. episode' = buffer
            BY <1>3, <3>1, <3>2
        <3>4. QED
            BY <1>4, <1>5, <1>6, <3>1, <3>3, EmptyIs
    <2>3. CASE RecordFails
        <3>1. UNCHANGED <<saved, buffer, episode>>
            BY <2>3 DEF RecordFails, Raise, ringVars
        <3>2. QED
            BY <1>4, <1>5, <1>6, <3>1
    <2>4. CASE SaveFails
        <3>1. UNCHANGED <<saved, buffer>> /\ episode' = <<>>
            BY <2>4 DEF SaveFails, ringVars
        <3>2. QED
            BY <1>4, <1>5, <1>6, <3>1, EmptyIs
    <2>5. CASE Finally
        <3>1. /\ UNCHANGED buffer
              /\ \/ saved' = Append(saved, episode) /\ episode' = <<>>
                 \/ UNCHANGED <<saved, episode>>
            BY <2>5 DEF Finally, ringVars
        <3>2. CASE saved' = Append(saved, episode) /\ episode' = <<>>
            <4>1. SavedOK(saved', m)
                BY <1>2, <1>3, <1>4, <1>5, <1>6, <3>2, SavedGrows
            <4>2. ASSUME NEW i \in 1 .. Len(saved')
                  PROVE  Before(saved'[i], buffer)
                <5>1. /\ Len(saved') = Len(saved) + 1
                      /\ saved'[Len(saved) + 1] = episode
                      /\ \A j \in 1 .. Len(saved) : saved'[j] = saved[j]
                    BY <1>3, <3>2, AppendFacts
                <5>2. i = Len(saved) + 1 \/ i \in 1 .. Len(saved)
                    BY <1>3, <5>1
                <5>3. QED
                    BY <1>4, <1>6, <5>1, <5>2
            <4>3. QED
                BY <1>4, <3>1, <3>2, <4>1, <4>2, EmptyIs
        <3>3. CASE UNCHANGED <<saved, episode>>
            BY <1>4, <1>5, <1>6, <3>1, <3>3
        <3>4. QED
            BY <3>1, <3>2, <3>3
    <2>6. QED
        BY <1>1, <2>1, <2>2, <2>3, <2>4, <2>5 DEF Fails
<1>8. PlaceInv'
    BY <1>2 DEF PlaceInv, Looping
<1>9. StretchInv'
    BY <1>7 DEF StretchInv, EpisodesUnbroken, Consecutive, SavedOK
<1>10. OrderInv'
    BY <1>2, <1>7 DEF OrderInv, UpTo, Before, SavedOK
<1>11. QED
    BY <1>8, <1>9, <1>10 DEF DataInv

-----------------------------------------------------------------------------
(* Every step keeps the inductive invariant.                               *)
LEMMA HighlightStep == HighlightInv /\ [Next]_vars => HighlightInv'
<1>1. SUFFICES ASSUME TypeInv, CapInv, DataInv, [Next]_vars
               PROVE  TypeInv' /\ CapInv' /\ DataInv'
    BY DEF HighlightInv, DataInv
<1>2. CapInv'
    BY <1>1, CapStep
<1>3. CASE Quiet
    BY <1>1, <1>2, <1>3, TypeQuiet, DataQuiet
<1>4. CASE Tick
    BY <1>1, <1>2, <1>4, TypeTick, DataBuffer, DataRecord, DataFinish DEF Tick
<1>5. CASE Fails
    BY <1>1, <1>2, <1>5, TypeFails, DataFails
<1>6. QED
    BY <1>1, <1>3, <1>4, <1>5, StepKinds

(* It holds in every reachable state.                                      *)
LEMMA HighlightInvariant == Spec => []HighlightInv
<1>1. Init => HighlightInv
    <2>1. ASSUME Init
          PROVE  CapInv
        <3>1. buffer = <<>> /\ currentBytes = 0
            BY <2>1 DEF Init, RingInit
        <3>2. Bytes(buffer) = 0
            BY <3>1, BytesOfNone, Zenon
        <3>3. QED
            BY <3>1, <3>2, RingAssumption DEF CapInv, CapHonoured
    <2>2. QED
        BY <2>1, TypeInit, DataInit DEF HighlightInv, DataInv
<1>2. HighlightInv /\ [Next]_vars => HighlightInv'
    BY HighlightStep
<1>3. QED
    BY <1>1, <1>2, PTL DEF Spec

(* The variables of the strategy and of its ring keep to their types; the  *)
(* deque never grows past its maxlen, nor the byte counter below zero.     *)
THEOREM HighlightTypeCorrect == Spec => []TypeOK
<1>1. HighlightInv => TypeOK
    BY DEF HighlightInv, TypeInv
<1>2. QED
    BY <1>1, HighlightInvariant, PTL

(* The frames in the ring never take more than the cap, unless one frame   *)
(* is larger than the cap: RolloutRingBuffer.append evicts by a counter    *)
(* that may be ahead of them, and never behind.                            *)
THEOREM RingCapHonoured == Spec => []CapHonoured
<1>1. HighlightInv => CapHonoured
    BY DEF HighlightInv, CapInv
<1>2. QED
    BY <1>1, HighlightInvariant, PTL

(* Every episode is one unbroken stretch of the rollout, whenever the key  *)
(* is pressed, whatever the ring evicted and whichever call raised.        *)
THEOREM EpisodesAreUnbroken == Spec => []EpisodesUnbroken
<1>1. HighlightInv => EpisodesUnbroken
    BY DEF HighlightInv, StretchInv
<1>2. QED
    BY <1>1, HighlightInvariant, PTL

(* No frame is in two episodes, nor in an episode and still in the ring.   *)
THEOREM FramesRecordedOnce == Spec => []FramesOnce
<1>1. ASSUME HighlightInv
      PROVE  FramesOnce
    <2> DEFINE all == saved \o <<episode, buffer>>
    <2>1. /\ saved \in Seq(Seq(Frames)) /\ episode \in Seq(Frames)
          /\ buffer \in Seq(Frames)
        BY <1>1 DEF HighlightInv, TypeInv, TypeOK, RingTypeOK
    <2>2. /\ Len(all) = Len(saved) + 2 /\ Len(saved) \in Nat
          /\ all[Len(saved) + 1] = episode
          /\ all[Len(saved) + 2] = buffer
          /\ \A i \in 1 .. Len(saved) : all[i] = saved[i]
        BY <2>1
    <2> HIDE DEF all
    <2>3. ASSUME NEW i \in 1 .. Len(all), NEW j \in 1 .. Len(all), i < j
          PROVE  all[i] \in Seq(Frames) /\ all[j] \in Seq(Frames)
                 /\ Before(all[i], all[j])
        <3>1. /\ i \in 1 .. Len(saved) \/ i = Len(saved) + 1
              /\ \/ j \in 1 .. Len(saved)
                 \/ j = Len(saved) + 1
                 \/ j = Len(saved) + 2
            BY <2>2, <2>3
        <3>2. all[i] \in Seq(Frames) /\ all[j] \in Seq(Frames)
            <4>1. \A k \in 1 .. Len(saved) : saved[k] \in Seq(Frames)
                BY <2>1
            <4>2. QED
                BY <2>1, <2>2, <3>1, <4>1
        <3>3. CASE i \in 1 .. Len(saved)
            <4>1. /\ all[i] = saved[i]
                  /\ Before(saved[i], episode) /\ Before(saved[i], buffer)
                BY <1>1, <2>2, <3>3 DEF HighlightInv, OrderInv
            <4>2. CASE j \in 1 .. Len(saved)
                <5>1. Before(saved[i], saved[j]) /\ all[j] = saved[j]
                    BY <1>1, <2>2, <2>3, <3>3, <4>2 DEF HighlightInv, OrderInv
                <5>2. QED
                    BY <3>2, <4>1, <5>1
            <4>3. CASE j = Len(saved) + 1 \/ j = Len(saved) + 2
                BY <2>2, <3>2, <4>1, <4>3
            <4>4. QED
                BY <3>1, <4>2, <4>3
        <3>4. CASE i = Len(saved) + 1
            <4>1. j = Len(saved) + 2
                BY <2>2, <2>3, <3>1, <3>4
            <4>2. QED
                BY <1>1, <2>2, <3>2, <3>4, <4>1 DEF HighlightInv, OrderInv
        <3>5. QED
            BY <3>1, <3>2, <3>3, <3>4
    <2>4. ASSUME NEW i \in 1 .. Len(all), NEW j \in 1 .. Len(all), i < j,
                 NEW f \in Range(all[i]), NEW g \in Range(all[j])
          PROVE  f.no < g.no
        <3>1. PICK a \in 1 .. Len(all[i]) : f = all[i][a]
            BY <2>3, <2>4 DEF Range
        <3>2. PICK b \in 1 .. Len(all[j]) : g = all[j][b]
            BY <2>3, <2>4 DEF Range
        <3>3. QED
            BY <2>3, <2>4, <3>1, <3>2 DEF Before
    <2>5. QED
        BY <2>4 DEF FramesOnce, all
<1>2. QED
    BY <1>1, HighlightInvariant, PTL

(* At the top of the loop the last frame of the rollout is where the next  *)
(* one will follow it: none is skipped by a flush, a save or an eviction.  *)
THEOREM FramesNotSkipped == Spec => []NothingSkipped
<1>1. ASSUME HighlightInv
      PROVE  NothingSkipped
    <2>1. SUFFICES ASSUME loop = "tick", frame.no > 0
                   PROVE  LET last == IF recordingLive THEN episode
                                      ELSE IF buffer # <<>> THEN buffer
                                      ELSE saved[Len(saved)]
                          IN  last[Len(last)].no = frame.no
        BY DEF NothingSkipped
    <2>2. Handled = frame.no /\ Looping
        BY <2>1 DEF Handled, Holding, Looping
    <2>3. QED
        BY <1>1, <2>1, <2>2 DEF HighlightInv, PlaceInv, EndsAt
<1>2. QED
    BY <1>1, HighlightInvariant, PTL

=============================================================================
