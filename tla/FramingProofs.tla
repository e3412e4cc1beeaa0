--------------------------- MODULE FramingProofs ---------------------------
(***************************************************************************)
(* Proofs about the bytes of a connection: that the server gets those of   *)
(* the requests as they were encoded, for any requests, any size of the    *)
(* send buffer and any number of writes and closings; and that the packets *)
(* a server sends with tars or json are found whole, for any number and    *)
(* length of packets and any pieces they come in.                          *)
(***************************************************************************)
EXTENDS Framing, SequenceTheorems, SumsProofs
LOCAL INSTANCE SequencesExt

(* What has to do with sending is bytes, and nothing of it is lost. *)
WireInv ==
    /\ asked \in Nat
    /\ encoded \in Seq(Nat) /\ _sendBuffer \in Seq(Nat) /\ wire \in Seq(Nat)
    /\ WireWhole

LEMMA BytesInARow ==
  \A s, t, u \in Seq(Nat) : (s \o t) \o u = s \o (t \o u)
<1> TAKE s, t, u \in Seq(Nat)
<1>1. (s \o t) \o u \in Seq(Nat) /\ s \o (t \o u) \in Seq(Nat)
  OBVIOUS
<1>2. QED
  BY <1>1, SMTT(60)

(* Bytes taken off the front of a buffer and put behind others. *)
LEMMA MovedBytes ==
  ASSUME NEW w \in Seq(Nat), NEW buf \in Seq(Nat), NEW k \in 0 .. Len(buf)
  PROVE  /\ w \o SubSeq(buf, 1, k) \in Seq(Nat)
         /\ SubSeq(buf, k + 1, Len(buf)) \in Seq(Nat)
         /\ (w \o SubSeq(buf, 1, k)) \o SubSeq(buf, k + 1, Len(buf)) = w \o buf
<1> DEFINE front == SubSeq(buf, 1, k)
           back == SubSeq(buf, k + 1, Len(buf))
<1>1. front \in Seq(Nat) /\ back \in Seq(Nat)
  OBVIOUS
<1>2. front \o back = buf
  <2>1. front \o back = SubSeq(buf, 1, Len(buf))
    <3>1. /\ 1 \in 1 .. Len(buf) + 1 /\ k \in 1 - 1 .. Len(buf)
          /\ Len(buf) \in k .. Len(buf)
      OBVIOUS
    <3>2. QED
      BY <3>1, ConcatAdjacentSubSeq, Zenon
  <2>2. QED
    BY <2>1, SubSeqFull
<1> HIDE DEF front, back
<1>3. (w \o front) \o back = w \o buf
  <2>1. (w \o front) \o back = w \o (front \o back)
    BY <1>1, BytesInARow
  <2>2. QED
    BY <1>2, <2>1
<1>4. w \o front \in Seq(Nat)
  BY <1>1
<1>5. QED
  BY <1>1, <1>3, <1>4 DEF front, back

(* A packet is bytes, if numbers and lengths are. *)
LEMMA EncodedBytes ==
  ASSUME NEW id \in Nat, NEW n \in Nat, NEW len \in Nat
  PROVE  encode(id, n, len).buf \in Seq(Nat)
<1>1. [k \in 1 .. n |-> 1] \in Seq(Nat) /\ [k \in 1 .. 1 + n |-> id] \in Seq(Nat)
  OBVIOUS
<1>2. <<0, 0, 0, 5 + n>> \in Seq(Nat)
  OBVIOUS
<1>3. Packet(id, n) \in Seq(Nat)
  BY <1>1, <1>2 DEF Packet
<1>4. QED
  BY <1>1, <1>3 DEF encode
-----------------------------------------------------------------------------
(* What is written is what was there, whatever the socket takes. *)
LEMMA WrittenKeepsBytes ==
  ASSUME NEW buf \in Seq(Nat), wire \in Seq(Nat), Written(buf)
  PROVE  wire' \in Seq(Nat) /\ _sendBuffer' \in Seq(Nat)
         /\ wire' \o _sendBuffer' = wire \o buf
<1>1. PICK k \in 0 .. Len(buf) : /\ wire' = wire \o SubSeq(buf, 1, k)
                                 /\ _sendBuffer' = SubSeq(buf, k + 1, Len(buf))
  BY DEF Written
<1>2. QED
  BY <1>1, MovedBytes

LEMMA InitWireInv == Init => WireInv
  BY DEF Init, WireInv, WireWhole

LEMMA NextKeepsWireInv == WireInv /\ [Next]_framingVars => WireInv'
<1> SUFFICES ASSUME WireInv, [Next]_framingVars PROVE WireInv'
  OBVIOUS
<1> USE DEF WireInv
<1>1. CASE trySend
  <2>1. PICK n \in Requests :
            LET out == encode(asked + 1, n, MAX_SENDBUF_SIZE)
            IN  encoded' = encoded \o out.buf /\ Written(_sendBuffer \o out.buf)
    BY <1>1 DEF trySend
  <2> DEFINE out == encode(asked + 1, n, MAX_SENDBUF_SIZE).buf
  <2>2. out \in Seq(Nat)
    BY EncodedBytes, FramingAssumption
  <2>3. encoded' = encoded \o out /\ Written(_sendBuffer \o out)
    BY <2>1
  <2>4. asked' \in Nat
    BY <1>1 DEF trySend
  <2> HIDE DEF out
  <2>5. /\ wire' \in Seq(Nat) /\ _sendBuffer' \in Seq(Nat)
        /\ wire' \o _sendBuffer' = wire \o (_sendBuffer \o out)
    <3>1. _sendBuffer \o out \in Seq(Nat) /\ wire \in Seq(Nat)
      BY <2>2
    <3>2. QED
      BY <2>3, <3>1, WrittenKeepsBytes
  <2>6. wire \o (_sendBuffer \o out) = (wire \o _sendBuffer) \o out
    <3>1. wire \in Seq(Nat) /\ _sendBuffer \in Seq(Nat)
      OBVIOUS
    <3>2. QED
      BY <2>2, <3>1, BytesInARow, Zenon
  <2>7. QED
    BY <2>2, <2>3, <2>4, <2>5, <2>6 DEF WireWhole
<1>2. CASE handleWrite
  BY <1>2, WrittenKeepsBytes DEF handleWrite, WireWhole
<1>3. CASE close
  BY <1>3 DEF close, WireWhole
<1>4. CASE handleRead \/ Frame \/ FramesEnd \/ UNCHANGED framingVars
  <2>1. UNCHANGED outVars
    BY <1>4 DEF handleRead, Frame, FramesEnd, framingVars
  <2>2. QED
    BY <2>1 DEF outVars, WireWhole
<1>5. QED
  BY <1>1, <1>2, <1>3, <1>4 DEF Next

(* The bytes a server gets on a connection and those that still wait are   *)
(* the requests as encoded, without a gap or a repetition (trySend,        *)
(* handleWrite and close of transport.cpp).                                *)
THEOREM WireStaysWhole == Spec => []WireWhole
<1>1. WireInv => WireWhole
  BY DEF WireInv
<1>2. QED
  BY InitWireInv, NextKeepsWireInv, <1>1, PTL DEF Spec
-----------------------------------------------------------------------------
(* FlattenSeq is defined by recursion over the places of a sequence.       *)
Joins(a, n, h) ==
    h = [i \in 1 .. n |-> IF i = 1 THEN a[i] ELSE h[i - 1] \o a[i]]

LEMMA JoinsExist ==
  ASSUME NEW a, NEW n \in Nat
  PROVE  \E h : Joins(a, n, h)
<1> DEFINE Has == {m \in Nat : \E h : Joins(a, m, h)}
<1>1. 0 \in Has
  <2> DEFINE h == [i \in 1 .. 0 |-> a[i]]
  <2>1. Joins(a, 0, h)
    BY DEF Joins
  <2>2. QED
    BY <2>1
<1>2. ASSUME NEW m \in Nat, m \in Has PROVE m + 1 \in Has
  <2>1. PICK g : Joins(a, m, g)
    BY <1>2
  <2> DEFINE h == [i \in 1 .. m + 1 |-> IF i = 1 THEN a[i] ELSE g[i - 1] \o a[i]]
  <2>2. \A i \in 1 .. m : h[i] = g[i]
    <3>1. \A i \in 1 .. m : g[i] = IF i = 1 THEN a[i] ELSE g[i - 1] \o a[i]
      <4> DEFINE f == [i \in 1 .. m |-> IF i = 1 THEN a[i] ELSE g[i - 1] \o a[i]]
      <4>1. g = f
        BY <2>1, Zenon DEF Joins
      <4>2. \A i \in 1 .. m : f[i] = IF i = 1 THEN a[i] ELSE g[i - 1] \o a[i]
        OBVIOUS
      <4> HIDE DEF f
      <4>3. QED
        BY <4>1, <4>2
    <3>2. \A i \in 1 .. m : i \in 1 .. m + 1
      OBVIOUS
    <3>3. QED
      BY <3>1, <3>2
  <2>3. \A i \in 1 .. m + 1 : i # 1 => i - 1 \in 1 .. m
    OBVIOUS
  <2>4. Joins(a, m + 1, h)
    BY <2>2, <2>3 DEF Joins
  <2>5. QED
    BY <2>4
<1> HIDE DEF Has
<1>3. n \in Has
  BY <1>1, <1>2, SetInduction
<1>4. QED
  BY <1>3 DEF Has

Joined(a, n) == CHOOSE h : Joins(a, n, h)

LEMMA JoinedStep ==
  ASSUME NEW a, NEW n \in Nat, NEW i \in 1 .. n
  PROVE  Joined(a, n)[i] = IF i = 1 THEN a[i] ELSE Joined(a, n)[i - 1] \o a[i]
<1>1. Joins(a, n, Joined(a, n))
  BY JoinsExist DEF Joined
<1>2. QED
  BY <1>1 DEF Joins

LEMMA FlattenJoined ==
  ASSUME NEW a, Len(a) # 0
  PROVE  FlattenSeq(a) = Joined(a, Len(a))[Len(a)]
BY DEF FlattenSeq, Joined, Joins


(* What is joined depends on the sequences that are, not on how far it is  *)
(* gone on with.                                                           *)
LEMMA JoinedAgree ==
  ASSUME NEW a, NEW b, NEW n \in Nat, NEW m \in Nat, m <= n,
         \A i \in 1 .. m : a[i] = b[i]
  PROVE  \A i \in 1 .. m : Joined(a, n)[i] = Joined(b, m)[i]
<1> DEFINE Has == {k \in Nat : k \in 1 .. m => Joined(a, n)[k] = Joined(b, m)[k]}
<1>1. 0 \in Has
  OBVIOUS
<1>2. ASSUME NEW k \in Nat, k \in Has PROVE k + 1 \in Has
  <2>1. SUFFICES ASSUME k + 1 \in 1 .. m
                 PROVE  Joined(a, n)[k + 1] = Joined(b, m)[k + 1]
    OBVIOUS
  <2>2. /\ Joined(a, n)[k + 1] = IF k + 1 = 1 THEN a[k + 1]
                                 ELSE Joined(a, n)[(k + 1) - 1] \o a[k + 1]
        /\ Joined(b, m)[k + 1] = IF k + 1 = 1 THEN b[k + 1]
                                 ELSE Joined(b, m)[(k + 1) - 1] \o b[k + 1]
    BY <2>1, JoinedStep
  <2>3. k + 1 # 1 => Joined(a, n)[k] = Joined(b, m)[k]
    BY <1>2, <2>1
  <2>4. (k + 1) - 1 = k /\ a[k + 1] = b[k + 1]
    BY <2>1
  <2>5. QED
    BY <2>2, <2>3, <2>4
<1> HIDE DEF Has
<1>3. Nat \subseteq Has
  BY <1>1, <1>2, SetInduction
<1>4. QED
  BY <1>3 DEF Has

(* The first k packets in a row.                                           *)
Leading(a, k) == FlattenSeq(SubSeq(a, 1, k))

LEMMA FrontJoined ==
  ASSUME NEW S, NEW a \in Seq(S), NEW k \in 1 .. Len(a)
  PROVE  Leading(a, k) = Joined(a, Len(a))[k]
<1> DEFINE b == SubSeq(a, 1, k)
<1>1. Len(b) = k /\ \A i \in 1 .. k : a[i] = b[i]
  OBVIOUS
<1> HIDE DEF b
<1>2. FlattenSeq(b) = Joined(b, k)[k]
  BY <1>1, FlattenJoined
<1>3. Joined(a, Len(a))[k] = Joined(b, k)[k]
  BY <1>1, JoinedAgree
<1>4. QED
  BY <1>2, <1>3 DEF b, Leading

LEMMA FrontStep ==
  ASSUME NEW S, NEW a \in Seq(Seq(S))
  PROVE  /\ Leading(a, 0) = << >>
         /\ Leading(a, Len(a)) = FlattenSeq(a)
         /\ \A k \in 0 .. Len(a) - 1 : Leading(a, k + 1) = Leading(a, k) \o a[k + 1]
<1>1. Leading(a, 0) = << >>
  <2>1. SubSeq(a, 1, 0) = << >>
    OBVIOUS
  <2>2. QED
    BY <2>1 DEF Leading, FlattenSeq
<1>2. Leading(a, Len(a)) = FlattenSeq(a)
  BY SubSeqFull DEF Leading
<1>3. ASSUME NEW k \in 0 .. Len(a) - 1
      PROVE  Leading(a, k + 1) = Leading(a, k) \o a[k + 1]
  <2>1. Leading(a, k + 1) = Joined(a, Len(a))[k + 1]
    BY FrontJoined
  <2>2. /\ Joined(a, Len(a))[k + 1] =
              IF k + 1 = 1 THEN a[k + 1]
              ELSE Joined(a, Len(a))[(k + 1) - 1] \o a[k + 1]
    BY JoinedStep
  <2>3. CASE k = 0
    <3>1. a[k + 1] \in Seq(S)
      BY ElementOfSeq
    <3>2. << >> \o a[k + 1] = a[k + 1]
      BY <3>1
    <3>3. QED
      BY <1>1, <2>1, <2>2, <2>3, <3>2
  <2>4. CASE k # 0
    <3>1. Leading(a, k) = Joined(a, Len(a))[k]
      BY <2>4, FrontJoined
    <3>2. k + 1 # 1 /\ (k + 1) - 1 = k
      BY <2>4
    <3>3. QED
      BY <2>1, <2>2, <3>1, <3>2
  <2>5. QED
    BY <2>3, <2>4
<1>4. QED
  BY <1>1, <1>2, <1>3

(* Where the packets begin and end. *)
Off(a, k) == Len(Leading(a, k))

LEMMA FrontType ==
  ASSUME NEW S, NEW a \in Seq(Seq(S))
  PROVE  \A k \in 0 .. Len(a) : Leading(a, k) \in Seq(S)
<1> DEFINE Has == {k \in Nat : k <= Len(a) => Leading(a, k) \in Seq(S)}
<1>1. 0 \in Has
  <2>1. << >> \in Seq(S)
    OBVIOUS
  <2>2. Leading(a, 0) = << >>
    BY FrontStep
  <2>3. QED
    BY <2>1, <2>2
<1>2. ASSUME NEW k \in Nat, k \in Has PROVE k + 1 \in Has
  <2>1. SUFFICES ASSUME k + 1 <= Len(a) PROVE Leading(a, k + 1) \in Seq(S)
    OBVIOUS
  <2>2. Leading(a, k) \in Seq(S) /\ a[k + 1] \in Seq(S)
    BY <1>2, <2>1, ElementOfSeq
  <2>3. Leading(a, k + 1) = Leading(a, k) \o a[k + 1]
    BY <2>1, FrontStep
  <2>4. Leading(a, k) \o a[k + 1] \in Seq(S)
    BY <2>2, ConcatProperties, Zenon
  <2>5. QED
    BY <2>3, <2>4
<1> HIDE DEF Has
<1>3. Nat \subseteq Has
  BY <1>1, <1>2, SetInduction
<1>4. QED
  BY <1>3 DEF Has

LEMMA FrontOf ==
  ASSUME NEW S, NEW a \in Seq(Seq(S)), NEW j \in 0 .. Len(a)
  PROVE  \A k \in j .. Len(a) :
            /\ Off(a, j) <= Off(a, k)
            /\ \A i \in 1 .. Off(a, j) : Leading(a, k)[i] = Leading(a, j)[i]
<1> DEFINE Has == {n \in Nat : j + n <= Len(a) =>
                       /\ Off(a, j) <= Off(a, j + n)
                       /\ \A i \in 1 .. Off(a, j) : Leading(a, j + n)[i] = Leading(a, j)[i]}
<1>1. 0 \in Has
  <2>1. j + 0 = j /\ Off(a, j) \in Nat
    BY FrontType DEF Off
  <2>2. QED
    BY <2>1
<1>2. ASSUME NEW n \in Nat, n \in Has PROVE n + 1 \in Has
  <2>1. SUFFICES ASSUME j + (n + 1) <= Len(a)
                 PROVE  /\ Off(a, j) <= Off(a, j + (n + 1))
                        /\ \A i \in 1 .. Off(a, j) :
                              Leading(a, j + (n + 1))[i] = Leading(a, j)[i]
    OBVIOUS
  <2> DEFINE k == j + n
  <2>2. k \in 0 .. Len(a) - 1 /\ j + (n + 1) = k + 1
    BY <2>1
  <2>3. Leading(a, j + (n + 1)) = Leading(a, k) \o a[k + 1]
    BY <2>2, FrontStep
  <2>4. Leading(a, k) \in Seq(S) /\ a[k + 1] \in Seq(S) /\ Off(a, j) \in Nat
    BY <2>2, FrontType, ElementOfSeq DEF Off
  <2>5. /\ Off(a, j) <= Off(a, k)
        /\ \A i \in 1 .. Off(a, j) : Leading(a, k)[i] = Leading(a, j)[i]
    BY <1>2, <2>2
  <2> HIDE DEF k
  <2>6. QED
    BY <2>3, <2>4, <2>5 DEF Off
<1> HIDE DEF Has
<1>3. Nat \subseteq Has
  BY <1>1, <1>2, SetInduction
<1>4. ASSUME NEW k \in j .. Len(a)
      PROVE  /\ Off(a, j) <= Off(a, k)
             /\ \A i \in 1 .. Off(a, j) : Leading(a, k)[i] = Leading(a, j)[i]
  <2>1. k - j \in Has /\ j + (k - j) = k
    BY <1>3
  <2>2. QED
    BY <2>1 DEF Has
<1>5. QED
  BY <1>4

(* A packet's place in the stream. *)
LEMMA PacketPlace ==
  ASSUME NEW S, NEW a \in Seq(Seq(S)), NEW k \in 0 .. Len(a) - 1
  PROVE  /\ a[k + 1] \in Seq(S)
         /\ Off(a, k) \in Nat
         /\ Off(a, k + 1) = Off(a, k) + Len(a[k + 1])
         /\ Off(a, k + 1) <= Len(FlattenSeq(a))
         /\ \A i \in 1 .. Len(a[k + 1]) :
                FlattenSeq(a)[Off(a, k) + i] = a[k + 1][i]
<1>1. Leading(a, k) \in Seq(S) /\ a[k + 1] \in Seq(S)
  BY FrontType, ElementOfSeq
<1>2. Leading(a, k + 1) = Leading(a, k) \o a[k + 1]
  BY FrontStep
<1>3. /\ Off(a, k) \in Nat
      /\ Off(a, k + 1) = Off(a, k) + Len(a[k + 1])
      /\ \A i \in 1 .. Len(a[k + 1]) : Leading(a, k + 1)[Off(a, k) + i] = a[k + 1][i]
  BY <1>1, <1>2 DEF Off
<1>4. /\ Off(a, k + 1) <= Len(FlattenSeq(a))
      /\ \A i \in 1 .. Off(a, k + 1) : FlattenSeq(a)[i] = Leading(a, k + 1)[i]
  <2>1. k + 1 \in 0 .. Len(a) /\ Len(a) \in k + 1 .. Len(a)
    OBVIOUS
  <2>2. QED
    BY <2>1, FrontOf, FrontStep DEF Off
<1>5. QED
  <2>1. \A i \in 1 .. Len(a[k + 1]) : Off(a, k) + i \in 1 .. Off(a, k + 1)
    BY <1>1, <1>3
  <2>2. QED
    BY <1>1, <1>3, <1>4, <2>1
-----------------------------------------------------------------------------
(* A packet says how long it is, and is longer than that takes. *)
Packets == {q \in Seq(Nat) : Len(q) > 4 /\ head_len(q) = Len(q)}

Packeted ==
    /\ "http" \notin Protocols
    /\ \A p \in Protocols : AnswerLists[p] \subseteq Seq(Packets)

Frames == [frame : Seq(Nat), got : [uniqId : Int, ret : Int]]

FrameType ==
    /\ proto \in Protocols /\ answers \in AnswerLists[proto]
    /\ received \in 0 .. Len(Stream)
    /\ handed \in Seq(Frames)
    /\ processing \in BOOLEAN /\ overrun = FALSE

(* The buffer is the stream from the first packet on that is not taken.    *)
BufferInv ==
    /\ Len(handed) <= Len(answers)
    /\ Off(answers, Len(handed)) <= received
    /\ _recvBuffer = SubSeq(Stream, Off(answers, Len(handed)) + 1, received)

HandedInv ==
    \A k \in 1 .. Len(handed) :
        handed[k].frame = answers[k] /\ handed[k].got.ret = 0

(* After the loop that packet has not come as a whole. *)
LoopInv ==
    ~ processing => \/ Len(handed) = Len(answers)
                    \/ received < Off(answers, Len(handed) + 1)

FrameInv == FrameType /\ BufferInv /\ HandedInv /\ LoopInv

LEMMA PacketsOfBytes ==
  /\ Seq(Packets) \subseteq Seq(Seq(Nat))
  /\ \A a \in Seq(Packets) : \A k \in 1 .. Len(a) : a[k] \in Packets
<1>1. Packets \subseteq Seq(Nat)
  BY DEF Packets
<1>2. Seq(Packets) \subseteq Seq(Seq(Nat))
  <2>1. ASSUME NEW a \in Seq(Packets) PROVE a \in Seq(Seq(Nat))
    <3>1. \A i \in 1 .. Len(a) : a[i] \in Seq(Nat)
      BY <1>1, ElementOfSeq
    <3>2. QED
      BY <3>1, SeqMonotonic
  <2>2. QED
    BY <2>1
<1>3. QED
  BY <1>2, ElementOfSeq

(* encode of tars makes such packets. *)
LEMMA PacketIsOne ==
  ASSUME NEW id \in Nat, NEW n \in Nat
  PROVE  Packet(id, n) \in Packets
<1> DEFINE tail == [k \in 1 .. 1 + n |-> id]
<1>1. tail \in Seq(Nat) /\ Len(tail) = 1 + n
  OBVIOUS
<1> HIDE DEF tail
<1>2. /\ Packet(id, n) = <<0, 0, 0, 5 + n>> \o tail
      /\ Packet(id, n) \in Seq(Nat) /\ Len(Packet(id, n)) = 5 + n
  BY <1>1 DEF Packet, tail
<1>3. /\ Packet(id, n)[1] = 0 /\ Packet(id, n)[2] = 0 /\ Packet(id, n)[3] = 0
      /\ Packet(id, n)[4] = 5 + n
  BY <1>1, <1>2
<1>4. head_len(Packet(id, n)) = 5 + n
  BY <1>3 DEF head_len
<1>5. QED
  BY <1>2, <1>4 DEF Packets

(* As many packets have arrived as end within what was received.           *)
LEMMA ArrivedIs ==
  ASSUME NEW S, answers \in Seq(Seq(S)), NEW n \in 0 .. Len(answers),
         received \in Nat, Off(answers, n) <= received,
         n = Len(answers) \/ received < Off(answers, n + 1)
  PROVE  Arrived = n
<1> DEFINE T == {k \in 1 .. Len(answers) : Off(answers, k) <= received}
<1>1. Arrived = Cardinality(T)
  BY DEF Arrived, Off, Leading
<1>2. \A k \in 0 .. Len(answers) : Off(answers, k) \in Nat
  BY FrontType DEF Off
<1>3. ASSUME NEW k \in 1 .. n PROVE Off(answers, k) <= received
  <2>1. k \in 0 .. Len(answers) /\ n \in k .. Len(answers)
    OBVIOUS
  <2>2. Off(answers, k) <= Off(answers, n)
    BY <2>1, FrontOf
  <2>3. QED
    BY <1>2, <2>1, <2>2
<1>4. ASSUME NEW k \in 1 .. Len(answers), Off(answers, k) <= received
      PROVE  k <= n
  <2>1. SUFFICES ASSUME k > n PROVE FALSE
    OBVIOUS
  <2>2. n + 1 \in 0 .. Len(answers) /\ k \in n + 1 .. Len(answers)
    BY <2>1
  <2>3. Off(answers, n + 1) <= Off(answers, k)
    BY <2>2, FrontOf
  <2>4. QED
    BY <1>2, <1>4, <2>2, <2>3
<1>5. T = 1 .. n
  BY <1>3, <1>4
<1> HIDE DEF T
<1>6. Cardinality(1 .. n) = n
  BY FS_Interval
<1>7. QED
  BY <1>1, <1>5, <1>6
-----------------------------------------------------------------------------
LEMMA NothingYet ==
  ASSUME NEW a \in Seq(Packets)
  PROVE  /\ FlattenSeq(a) \in Seq(Nat)
         /\ Off(a, 0) = 0 /\ Len(a) \in Nat
         /\ 0 = Len(a) \/ 0 < Off(a, 1)
         /\ SubSeq(FlattenSeq(a), 1, 0) = << >>
<1>1. a \in Seq(Seq(Nat))
  BY PacketsOfBytes
<1>2. FlattenSeq(a) \in Seq(Nat)
  <2>1. Len(a) \in 0 .. Len(a)
    BY <1>1
  <2>2. QED
    BY <1>1, <2>1, FrontType, FrontStep
<1>3. Off(a, 0) = 0
  BY <1>1, FrontStep DEF Off
<1>4. 0 = Len(a) \/ 0 < Off(a, 1)
  <2>1. SUFFICES ASSUME Len(a) # 0 PROVE 0 < Off(a, 1)
    OBVIOUS
  <2>2. 0 \in 0 .. Len(a) - 1 /\ 1 \in 1 .. Len(a)
    BY <1>1, <2>1
  <2>3. Off(a, 0 + 1) = Off(a, 0) + Len(a[0 + 1]) /\ a[0 + 1] \in Seq(Nat)
    BY <1>1, <2>2, PacketPlace
  <2>4. Len(a[1]) > 4
    BY <2>2, PacketsOfBytes DEF Packets
  <2>5. QED
    BY <1>3, <2>3, <2>4
<1>5. SubSeq(FlattenSeq(a), 1, 0) = << >>
  BY <1>2
<1>6. QED
  BY <1>1, <1>2, <1>3, <1>4, <1>5

LEMMA PieceOf ==
  ASSUME NEW s \in Seq(Nat), NEW o \in Nat, NEW r \in o .. Len(s)
  PROVE  /\ SubSeq(s, o + 1, r) \in Seq(Nat)
         /\ Len(SubSeq(s, o + 1, r)) = r - o
         /\ \A i \in 1 .. r - o : SubSeq(s, o + 1, r)[i] = s[o + i]
<1>1. /\ o + 1 \in Int /\ r \in Int /\ o + 1 <= r + 1
      /\ \A i \in o + 1 .. r : i \in 1 .. Len(s)
  OBVIOUS
<1>2. \A i \in o + 1 .. r : s[i] \in Nat
  BY <1>1
<1>3. Len(SubSeq(s, o + 1, r)) = r - o
  BY <1>1
<1>4. SubSeq(s, o + 1, r) \in Seq(Nat)
  BY <1>1, <1>2
<1>5. \A i \in 1 .. r - o : SubSeq(s, o + 1, r)[i] = s[o + i]
  <2> TAKE i \in 1 .. r - o
  <2>1. i \in 1 .. (r + 1) - (o + 1) /\ (o + 1 + i) - 1 = o + i
    BY <1>1
  <2>2. QED
    BY <1>1, <2>1
<1>6. QED
  BY <1>3, <1>4, <1>5

(* A packet at a place of the stream; a buffer that begins with a packet,  *)
(* which input finds, and goes on with something.                          *)
HasAt(s, o, q) == \A i \in 1 .. Len(q) : s[o + i] = q[i]

BeginsWith(buf, q, rest) ==
    /\ tarsInput(buf) = Len(q) /\ Len(q) <= Len(buf)
    /\ SubSeq(buf, 1, Len(q)) = q
    /\ SubSeq(buf, Len(q) + 1, Len(buf)) = rest

LEMMA InputOfPiece ==
  ASSUME NEW s \in Seq(Nat), NEW o \in Nat, NEW r \in o .. Len(s),
         NEW q \in Packets, HasAt(s, o, q)
  PROVE  /\ r < o + Len(q) => tarsInput(SubSeq(s, o + 1, r)) = 0
         /\ o + Len(q) <= r =>
              BeginsWith(SubSeq(s, o + 1, r), q, SubSeq(s, o + Len(q) + 1, r))
<1> DEFINE buf == SubSeq(s, o + 1, r)
<1>1. q \in Seq(Nat) /\ Len(q) \in Nat /\ Len(q) > 4 /\ head_len(q) = Len(q)
  BY DEF Packets
<1>2. r \in Nat /\ o <= r /\ r <= Len(s) /\ Len(s) \in Nat
  OBVIOUS
<1>3. buf \in Seq(Nat) /\ Len(buf) = r - o
  BY PieceOf
<1>4. \A i \in 1 .. r - o : buf[i] = s[o + i]
  BY PieceOf
<1> HIDE DEF buf
<1>5. Len(buf) >= 4 => head_len(buf) = Len(q)
  <2>1. SUFFICES ASSUME Len(buf) >= 4 PROVE head_len(buf) = Len(q)
    OBVIOUS
  <2>2. 4 <= r - o /\ 4 <= Len(q) /\ r - o \in Nat
    BY <1>1, <1>3, <2>1
  <2>3. \A i \in 1 .. 4 : i \in 1 .. r - o /\ i \in 1 .. Len(q)
    BY <1>1, <2>2
  <2>4. \A i \in 1 .. 4 : buf[i] = q[i]
    BY <1>4, <2>3 DEF HasAt
  <2>5. QED
    <3>1. /\ buf[1] = q[1] /\ buf[2] = q[2]
          /\ buf[3] = q[3] /\ buf[4] = q[4]
      <4>1. 1 \in 1 .. 4 /\ 2 \in 1 .. 4 /\ 3 \in 1 .. 4 /\ 4 \in 1 .. 4
        OBVIOUS
      <4>2. QED
        BY <2>4, <4>1, Zenon
    <3>2. head_len(buf) = head_len(q)
      BY <3>1 DEF head_len
    <3>3. QED
      BY <1>1, <3>2
<1>6. ASSUME r < o + Len(q)
      PROVE  tarsInput(buf) = 0 /\ ~ (o + Len(q) <= r)
  <2>1. Len(buf) < Len(q) /\ Len(buf) \in Nat
    BY <1>1, <1>2, <1>3, <1>6
  <2>2. Len(buf) < 4 \/ Len(buf) < head_len(buf)
    BY <1>1, <1>5, <2>1
  <2>3. tarsInput(buf) = 0
    BY <2>2, Zenon DEF tarsInput
  <2>4. QED
    BY <1>1, <1>2, <1>6, <2>3
<1>7. ASSUME o + Len(q) <= r
      PROVE  /\ BeginsWith(buf, q, SubSeq(s, o + Len(q) + 1, r))
             /\ ~ (r < o + Len(q))
  <2>1. Len(q) <= Len(buf) /\ Len(q) \in 0 .. Len(buf)
    BY <1>1, <1>2, <1>3, <1>7
  <2>2. tarsInput(buf) = Len(q)
    <3>1. head_len(buf) = Len(q) /\ ~ (Len(buf) < 4)
      BY <1>1, <1>3, <1>5, <2>1
    <3>2. ~ (head_len(buf) < 4) /\ ~ (Len(buf) < head_len(buf))
      BY <1>1, <2>1, <3>1
    <3>3. QED
      BY <3>1, <3>2, Zenon DEF tarsInput
  <2>3. SubSeq(buf, 1, Len(q)) = q
    <3>1. /\ SubSeq(buf, 0 + 1, Len(q)) \in Seq(Nat)
          /\ Len(SubSeq(buf, 0 + 1, Len(q))) = Len(q) - 0
          /\ \A i \in 1 .. Len(q) - 0 : SubSeq(buf, 0 + 1, Len(q))[i] = buf[0 + i]
      BY <1>3, <2>1, PieceOf
    <3>2. \A i \in 1 .. Len(q) : i \in 1 .. r - o /\ buf[i] = q[i]
      <4>1. \A i \in 1 .. Len(q) : i \in 1 .. r - o
        BY <1>1, <1>2, <1>7
      <4>2. QED
        BY <1>4, <4>1 DEF HasAt
    <3>3. /\ SubSeq(buf, 1, Len(q)) \in Seq(Nat) /\ Len(SubSeq(buf, 1, Len(q))) = Len(q)
          /\ \A i \in 1 .. Len(q) : SubSeq(buf, 1, Len(q))[i] = q[i]
      BY <1>1, <3>1, <3>2
    <3>4. QED
      BY <1>1, <3>3, SeqEqual, Zenon
  <2>4. SubSeq(buf, Len(q) + 1, Len(buf)) = SubSeq(s, o + Len(q) + 1, r)
    <3> DEFINE u == SubSeq(buf, Len(q) + 1, Len(buf))
               v == SubSeq(s, o + Len(q) + 1, r)
    <3>1. /\ Len(buf) \in Len(q) .. Len(buf) /\ r \in o + Len(q) .. Len(s)
          /\ o + Len(q) \in Nat
      BY <1>1, <1>2, <1>3, <1>7
    <3>2. /\ u \in Seq(Nat) /\ Len(u) = Len(buf) - Len(q)
          /\ \A i \in 1 .. Len(buf) - Len(q) : u[i] = buf[Len(q) + i]
      BY <1>1, <1>3, <3>1, PieceOf, Zenon
    <3>3. /\ v \in Seq(Nat) /\ Len(v) = r - (o + Len(q))
          /\ \A i \in 1 .. r - (o + Len(q)) : v[i] = s[o + Len(q) + i]
      BY <3>1, PieceOf
    <3> HIDE DEF u, v
    <3>4. Len(u) = Len(v)
      BY <1>1, <1>2, <1>3, <3>2, <3>3
    <3>5. \A i \in 1 .. Len(u) : u[i] = v[i]
      <4>1. /\ Len(buf) = r - o /\ Len(u) = Len(buf) - Len(q)
            /\ Len(q) \in Nat /\ r \in Nat
        BY <1>1, <1>2, <1>3, <3>2
      <4> TAKE i \in 1 .. Len(u)
      <4>2. /\ i \in 1 .. Len(buf) - Len(q) /\ i \in 1 .. r - (o + Len(q))
            /\ Len(q) + i \in 1 .. r - o /\ o + (Len(q) + i) = o + Len(q) + i
        BY <4>1
      <4>3. QED
        BY <1>4, <3>2, <3>3, <4>2
    <3>6. u = v
      BY <3>2, <3>3, <3>4, <3>5, SeqEqual, Zenon
    <3>7. QED
      BY <3>6 DEF u, v
  <2>5. ~ (r < o + Len(q))
    BY <1>1, <1>2, <1>7
  <2>6. QED
    BY <2>1, <2>2, <2>3, <2>4, <2>5 DEF BeginsWith
<1>8. r < o + Len(q) \/ o + Len(q) <= r
  BY <1>1, <1>2
<1>9. QED
  BY <1>6, <1>7, <1>8 DEF buf

LEMMA NoInput ==
  ASSUME NEW buf, Len(buf) = 0
  PROVE  tarsInput(buf) = 0
<1>1. Len(buf) < 4
  OBVIOUS
<1>2. QED
  BY <1>1, Zenon DEF tarsInput

(* input on what is left of a stream from the end of a packet on: the next *)
(* packet if it is there, else 0.                                          *)
LEMMA InputFinds ==
  ASSUME NEW a \in Seq(Packets), NEW n \in 0 .. Len(a),
         NEW r \in 0 .. Len(FlattenSeq(a)), Off(a, n) <= r,
         NEW buf, buf = SubSeq(FlattenSeq(a), Off(a, n) + 1, r)
  PROVE  \/ /\ tarsInput(buf) = 0
            /\ n = Len(a) \/ r < Off(a, n + 1)
         \/ /\ n < Len(a) /\ a[n + 1] \in Packets /\ Off(a, n + 1) <= r
            /\ BeginsWith(buf, a[n + 1],
                          SubSeq(FlattenSeq(a), Off(a, n + 1) + 1, r))
<1>1. a \in Seq(Seq(Nat)) /\ FlattenSeq(a) \in Seq(Nat) /\ Len(a) \in Nat
  BY PacketsOfBytes, NothingYet
<1>2. Off(a, n) \in Nat /\ r \in Off(a, n) .. Len(FlattenSeq(a))
  <2>1. Off(a, n) \in Nat
    BY <1>1, FrontType DEF Off
  <2>2. QED
    BY <2>1
<1>3. CASE n = Len(a)
  <2>1. Off(a, n) = Len(FlattenSeq(a))
    BY <1>1, <1>3, FrontStep DEF Off
  <2>2. Len(buf) = 0
    <3>1. Len(buf) = r - Off(a, n)
      BY <1>1, <1>2, PieceOf
    <3>2. QED
      BY <1>2, <2>1, <3>1
  <2>3. tarsInput(buf) = 0
    BY <2>2, NoInput
  <2>4. QED
    BY <1>3, <2>3
<1>4. CASE n < Len(a)
  <2> DEFINE s == FlattenSeq(a)
             o == Off(a, n)
             q == a[n + 1]
  <2>1. n \in 0 .. Len(a) - 1 /\ n + 1 \in 1 .. Len(a)
    BY <1>1, <1>4
  <2>2. q \in Packets
    BY <2>1, PacketsOfBytes
  <2>3. q \in Seq(Nat) /\ Off(a, n + 1) = o + Len(q) /\ HasAt(s, o, q)
    BY <1>1, <2>1, PacketPlace DEF HasAt
  <2>4. s \in Seq(Nat) /\ o \in Nat /\ r \in o .. Len(s) /\ buf = SubSeq(s, o + 1, r)
    BY <1>1, <1>2
  <2>5. n < Len(a) /\ n # Len(a)
    BY <1>1, <1>4
  <2>6. SUFFICES \/ tarsInput(buf) = 0 /\ r < o + Len(q)
                 \/ o + Len(q) <= r /\ BeginsWith(buf, q, SubSeq(s, o + Len(q) + 1, r))
    BY <2>2, <2>3, <2>5, Zenon
  <2> HIDE DEF s, o, q
  <2>7. r < o + Len(q) \/ o + Len(q) <= r
    <3>1. Len(q) \in Nat /\ r \in Nat
      BY <2>3, <2>4
    <3>2. QED
      BY <2>4, <3>1
  <2>8. /\ r < o + Len(q) => tarsInput(buf) = 0
        /\ o + Len(q) <= r => BeginsWith(buf, q, SubSeq(s, o + Len(q) + 1, r))
    BY <2>2, <2>3, <2>4, InputOfPiece
  <2>9. QED
    BY <2>7, <2>8
<1>5. n = Len(a) \/ n < Len(a)
  BY <1>1
<1>6. QED
  BY <1>3, <1>4, <1>5
-----------------------------------------------------------------------------
LEMMA InitFrameInv ==
  ASSUME Packeted
  PROVE  Init => FrameInv
<1> SUFFICES ASSUME Init PROVE FrameInv
  OBVIOUS
<1>1. proto \in Protocols /\ answers \in AnswerLists[proto] /\ answers \in Seq(Packets)
  BY DEF Init, Packeted
<1>2. /\ Stream \in Seq(Nat) /\ Off(answers, 0) = 0 /\ Len(answers) \in Nat
      /\ 0 = Len(answers) \/ 0 < Off(answers, 1)
      /\ SubSeq(Stream, 1, 0) = << >>
  BY <1>1, NothingYet DEF Stream
<1>3. /\ received = 0 /\ handed = << >> /\ _recvBuffer = << >>
      /\ processing = FALSE /\ overrun = FALSE /\ Len(handed) = 0
  BY DEF Init
<1>4. FrameType
  <2>1. << >> \in Seq(Frames) /\ 0 \in 0 .. Len(Stream)
    BY <1>2
  <2>2. QED
    BY <1>1, <1>3, <2>1 DEF FrameType
<1>5. BufferInv
  BY <1>2, <1>3 DEF BufferInv
<1>6. HandedInv /\ LoopInv
  BY <1>2, <1>3 DEF HandedInv, LoopInv
<1>7. QED
  BY <1>4, <1>5, <1>6 DEF FrameInv

LEMMA NextKeepsFrameInv ==
  ASSUME Packeted
  PROVE  FrameInv /\ [Next]_framingVars => FrameInv'
<1> SUFFICES ASSUME FrameInv, [Next]_framingVars PROVE FrameInv'
  OBVIOUS
<1> DEFINE n == Len(handed)
           o == Off(answers, n)
<1>1. /\ proto \in Protocols /\ answers \in AnswerLists[proto]
      /\ answers \in Seq(Packets) /\ proto # "http"
  BY DEF FrameInv, FrameType, Packeted
<1>2. /\ answers \in Seq(Seq(Nat)) /\ Len(answers) \in Nat
      /\ Stream \in Seq(Nat) /\ n \in 0 .. Len(answers) /\ o \in Nat
      /\ received \in 0 .. Len(Stream) /\ o <= received
  <2>1. answers \in Seq(Seq(Nat)) /\ Len(answers) \in Nat /\ Stream \in Seq(Nat)
    BY <1>1, PacketsOfBytes, NothingYet DEF Stream
  <2>2. n \in 0 .. Len(answers)
    BY <2>1 DEF FrameInv, FrameType, BufferInv
  <2>3. o \in Nat
    BY <2>1, <2>2, FrontType DEF Off
  <2>4. QED
    BY <2>1, <2>2, <2>3 DEF FrameInv, FrameType, BufferInv
<1>3. CASE handleRead
  <2>1. PICK m \in 1 .. Len(Stream) - received :
            /\ _recvBuffer' = _recvBuffer \o SubSeq(Stream, received + 1, received + m)
            /\ received' = received + m
    BY <1>3 DEF handleRead
  <2>2. /\ processing' = TRUE
        /\ UNCHANGED <<proto, answers, handed, overrun>>
    BY <1>3 DEF handleRead
  <2>3. Stream' = Stream
    BY <2>2 DEF Stream
  <2>4. received' \in 0 .. Len(Stream) /\ o <= received'
    BY <1>2, <2>1
  <2>5. _recvBuffer' = SubSeq(Stream, o + 1, received')
    <3>1. /\ o + 1 \in 1 .. Len(Stream) + 1 /\ received \in (o + 1) - 1 .. Len(Stream)
          /\ received + m \in received .. Len(Stream)
      BY <1>2, <2>1
    <3>2. _recvBuffer = SubSeq(Stream, o + 1, received)
      BY DEF FrameInv, BufferInv
    <3>3. QED
      BY <1>2, <2>1, <3>1, <3>2, ConcatAdjacentSubSeq, Zenon
  <2>6. QED
    BY <2>2, <2>3, <2>4, <2>5 DEF FrameInv, FrameType, BufferInv, HandedInv, LoopInv
<1>4. CASE Frame \/ FramesEnd
  <2>1. input(_recvBuffer) = tarsInput(_recvBuffer) /\ processing
    BY <1>1, <1>4 DEF input, Frame, FramesEnd
  <2>2. _recvBuffer = SubSeq(Stream, o + 1, received)
    BY DEF FrameInv, BufferInv
  <2>3. UNCHANGED <<proto, answers, received>> /\ Stream' = Stream
    BY <1>4 DEF Frame, FramesEnd, Stream
  <2>4. \/ /\ tarsInput(_recvBuffer) = 0
           /\ n = Len(answers) \/ received < Off(answers, n + 1)
        \/ /\ n < Len(answers) /\ answers[n + 1] \in Packets
           /\ Off(answers, n + 1) <= received
           /\ BeginsWith(_recvBuffer, answers[n + 1],
                         SubSeq(Stream, Off(answers, n + 1) + 1, received))
    BY <1>1, <1>2, <2>2, InputFinds DEF Stream
  <2>5. CASE /\ tarsInput(_recvBuffer) = 0
             /\ n = Len(answers) \/ received < Off(answers, n + 1)
    <3>1. FramesEnd
      BY <1>4, <2>1, <2>5 DEF Frame
    <3>2. processing' = FALSE /\ UNCHANGED <<_recvBuffer, handed, overrun>>
      BY <3>1 DEF FramesEnd
    <3>3. QED
      BY <2>3, <2>5, <3>2 DEF FrameInv, FrameType, BufferInv, HandedInv, LoopInv
  <2>6. CASE /\ n < Len(answers) /\ answers[n + 1] \in Packets
             /\ Off(answers, n + 1) <= received
             /\ BeginsWith(_recvBuffer, answers[n + 1],
                           SubSeq(Stream, Off(answers, n + 1) + 1, received))
    <3> DEFINE q == answers[n + 1]
    <3>1. q \in Seq(Nat) /\ Len(q) \in Nat /\ Len(q) > 4 /\ Len(q) = head_len(q)
      BY <2>6 DEF Packets
    <3>2. /\ tarsInput(_recvBuffer) = Len(q) /\ Len(q) <= Len(_recvBuffer)
          /\ SubSeq(_recvBuffer, 1, Len(q)) = q
          /\ SubSeq(_recvBuffer, Len(q) + 1, Len(_recvBuffer))
               = SubSeq(Stream, Off(answers, n + 1) + 1, received)
      BY <2>6 DEF BeginsWith
    <3>3. Frame /\ Len(q) > 0
      <4>1. Len(q) > 0 /\ ~ (Len(q) <= 0)
        BY <3>1
      <4>2. ~ FramesEnd
        BY <2>1, <3>2, <4>1, Zenon DEF FramesEnd
      <4>3. QED
        BY <1>4, <4>1, <4>2
    <3>4. /\ handed' = Append(handed, [frame |-> q, got |-> decode(q)])
          /\ _recvBuffer' = SubSeq(Stream, Off(answers, n + 1) + 1, received)
          /\ UNCHANGED <<processing, overrun>>
      BY <2>1, <3>2, <3>3 DEF Frame
    <3>5. decode(q) = [uniqId |-> q[5], ret |-> 0] /\ q[5] \in Nat
      BY <1>1, <3>1 DEF decode, tarsDecode
    <3> HIDE DEF q
    <3>6. [frame |-> q, got |-> decode(q)] \in Frames
      BY <3>1, <3>5 DEF Frames
    <3>7. /\ handed' \in Seq(Frames)
          /\ Len(handed') = n + 1
          /\ \A k \in 1 .. n : handed'[k] = handed[k]
          /\ handed'[n + 1] = [frame |-> q, got |-> decode(q)]
      BY <3>4, <3>6, AppendProperties DEF FrameInv, FrameType
    <3>8. \A k \in 1 .. n + 1 :
              handed'[k].frame = answers[k] /\ handed'[k].got.ret = 0
      <4>1. ASSUME NEW k \in 1 .. n
            PROVE  handed'[k].frame = answers[k] /\ handed'[k].got.ret = 0
        BY <3>7 DEF FrameInv, HandedInv
      <4>2. /\ handed'[n + 1].frame = answers[n + 1]
            /\ handed'[n + 1].got.ret = 0
        BY <3>5, <3>7 DEF q
      <4>3. QED
        <5>1. \A k \in 1 .. n + 1 : k \in 1 .. n \/ k = n + 1
          BY <1>2
        <5>2. QED
          BY <4>1, <4>2, <5>1
    <3>9. QED
      <4>1. FrameType'
        BY <2>3, <3>4, <3>7 DEF FrameInv, FrameType
      <4>2. BufferInv'
        <5>1. n + 1 <= Len(answers)
          BY <1>2, <2>6
        <5>2. Len(handed') <= Len(answers') /\ Off(answers', Len(handed')) <= received'
          BY <2>3, <2>6, <3>7, <5>1
        <5>3. _recvBuffer' = SubSeq(Stream', Off(answers', Len(handed')) + 1, received')
          BY <2>3, <3>4, <3>7
        <5>4. QED
          BY <5>2, <5>3 DEF BufferInv
      <4>3. HandedInv'
        BY <2>3, <3>7, <3>8 DEF HandedInv
      <4>4. LoopInv'
        BY <2>1, <3>4 DEF LoopInv
      <4>5. QED
        BY <4>1, <4>2, <4>3, <4>4 DEF FrameInv
  <2>7. QED
    BY <2>4, <2>5, <2>6
<1>5. CASE close
  <2>1. /\ answers' \in AnswerLists[proto] /\ proto' = proto
        /\ received' = 0 /\ _recvBuffer' = << >> /\ handed' = << >>
        /\ UNCHANGED <<processing, overrun>>
    BY <1>5 DEF close
  <2>2. answers' \in Seq(Packets)
    BY <1>1, <2>1 DEF Packeted
  <2>3. /\ Stream' \in Seq(Nat) /\ Off(answers', 0) = 0 /\ Len(answers') \in Nat
        /\ 0 = Len(answers') \/ 0 < Off(answers', 1)
        /\ SubSeq(Stream', 1, 0) = << >>
    BY <2>2, NothingYet DEF Stream
  <2>4. Len(handed') = 0
    BY <2>1
  <2>5. QED
    <3>1. FrameType'
      <4>1. << >> \in Seq(Frames) /\ 0 \in 0 .. Len(Stream')
        BY <2>3
      <4>2. QED
        BY <1>1, <2>1, <4>1 DEF FrameInv, FrameType
    <3>2. BufferInv'
      BY <2>1, <2>3, <2>4 DEF BufferInv
    <3>3. HandedInv' /\ LoopInv'
      BY <2>1, <2>3, <2>4 DEF HandedInv, LoopInv
    <3>4. QED
      BY <3>1, <3>2, <3>3 DEF FrameInv
<1>6. CASE trySend \/ handleWrite \/ UNCHANGED framingVars
  <2>1. UNCHANGED <<proto, answers, received, _recvBuffer, handed, processing, overrun>>
    BY <1>6 DEF trySend, handleWrite, framingVars, inVars
  <2>2. QED
    BY <2>1 DEF FrameInv, FrameType, BufferInv, HandedInv, LoopInv, Stream
<1>7. QED
  BY <1>3, <1>4, <1>5, <1>6 DEF Next

(* Whatever the pieces in which packets arrive, of any number and length,  *)
(* each is decoded when it has arrived, as a whole, in order and for what  *)
(* it is, and never sooner; nothing is taken off the buffer that is not in *)
(* it (handleRead and handleProcess of transport.cpp, input and decode of  *)
(* tars_protocol.cpp and json_protocol.cpp).                               *)
THEOREM FramesStayWhole ==
  ASSUME Packeted
  PROVE  Spec => []WholeFrames
<1>1. FrameInv => WholeFrames
  <2> SUFFICES ASSUME FrameInv PROVE WholeFrames
    OBVIOUS
  <2>1. answers \in Seq(Seq(Nat)) /\ Len(handed) \in 0 .. Len(answers) /\ received \in Nat
    <3>1. answers \in Seq(Packets)
      BY DEF FrameInv, FrameType, Packeted
    <3>2. answers \in Seq(Seq(Nat)) /\ Len(handed) \in Nat /\ received \in Nat
      BY <3>1, PacketsOfBytes, NothingYet DEF FrameInv, FrameType, Stream
    <3>3. QED
      BY <3>2 DEF FrameInv, BufferInv
  <2>2. ~ processing => Len(handed) = Arrived
    <3>1. SUFFICES ASSUME ~ processing PROVE Len(handed) = Arrived
      OBVIOUS
    <3>2. QED
      BY <2>1, <3>1, ArrivedIs DEF FrameInv, BufferInv, LoopInv
  <2>3. QED
    BY <2>2 DEF FrameInv, FrameType, HandedInv, WholeFrames, BM_PACKET_DECODE
<1>2. Init => FrameInv
  BY InitFrameInv
<1>3. FrameInv /\ [Next]_framingVars => FrameInv'
  BY NextKeepsFrameInv
<1>4. QED
  BY <1>1, <1>2, <1>3, PTL DEF Spec
=============================================================================
