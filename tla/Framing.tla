------------------------------ MODULE Framing ------------------------------
(***************************************************************************)
(* The bytes of one connection (src/src/comm/transport.cpp and transport.h)*)
(* and how a protocol finds the packets in them (input, encode and decode  *)
(* of src/src/comm/proto).  Transport.tla takes requests and answers as    *)
(* wholes; this module is about the pieces in which they come and go.      *)
(*                                                                         *)
(* With tars and json a packet is a sequence of bytes.  With http it is a  *)
(* sequence of marks: a head (status line and headers together), ends of   *)
(* lines, sizes of chunks and data.                                        *)
(***************************************************************************)
EXTENDS Integers, Sequences, FiniteSets
LOCAL INSTANCE SequencesExt

CONSTANTS
    Protocols,      \* of "tars", "json" and "http"
    AnswerLists,    \* AnswerLists[p]: what a server may answer on a connection
    Requests,       \* lengths of the bodies that are encoded
    MAX_SENDBUF_SIZE,
    MaxAsked, MaxClosed     \* bounds: requests on a connection, closings

ASSUME FramingAssumption ==
    Requests \subseteq Nat /\ MAX_SENDBUF_SIZE \in Nat /\ MaxAsked \in Nat

BM_PACKET_ERROR == -1000
BM_PACKET_DECODE == -1002

VARIABLES
    proto,
    answers,        \* what the server answers on this connection
    received,       \* how much of it has arrived
    _recvBuffer, handed,            \* unprocessed, and frames given to decode
    processing,     \* handleProcess is in its loop
    overrun,        \* erase was called with more than the buffer holds
    asked, encoded, \* requests encoded on this connection: number and bytes
    _sendBuffer, wire,              \* unsent, and what the server has got
    closed          \* how often the connection was closed

inVars == <<answers, received, _recvBuffer, handed, processing, overrun>>
outVars == <<asked, encoded, _sendBuffer, wire>>
framingVars == <<proto, inVars, outVars, closed>>
-----------------------------------------------------------------------------
(* Packets *)

(* A tars or json packet: four bytes that say how long it is, the number   *)
(* of the request, and what else there is.                                 *)
Packet(id, n) == <<0, 0, 0, 5 + n>> \o [k \in 1 .. 1 + n |-> id]

(* encode: a packet, or the text of a request that http was set up with.   *)
(* When the buffer is too small, what it would need is returned.           *)
encode(id, n, len) ==
    LET packet == IF proto = "http" THEN [k \in 1 .. n |-> 1] ELSE Packet(id, n)
    IN  IF len < Len(packet) THEN [ret |-> Len(packet), buf |-> << >>]
                             ELSE [ret |-> 0, buf |-> packet]

Line == [t |-> "crlf", v |-> 0]
Data(n) == [k \in 1 .. n |-> [t |-> "data", v |-> 0]]
Head_(status, length, chunked) ==
    << [t |-> "head", v |-> [status |-> status, length |-> length,
                             chunked |-> chunked]],
       Line, Line >>

(* Answers of a web server, with a length, in chunks, and without a body.  *)
Sized(status, n) == Head_(status, n, FALSE) \o Data(n)
Chunked(n) ==
    Head_(200, 0, TRUE)
        \o << [t |-> "size", v |-> n], Line >> \o Data(n) \o << Line >>
        \o << [t |-> "size", v |-> 0], Line, Line >>
-----------------------------------------------------------------------------
(* input: 0 for a packet that is not complete, its length when it is, and  *)
(* something negative for an error.                                        *)

(* The length is read before it is known that four bytes have come.        *)
head_len(buf) == ((buf[1] * 256 + buf[2]) * 256 + buf[3]) * 256 + buf[4]

(* Mutant of tarsInput: a packet is taken as soon as its length is known.  *)
tarsInputEarly(buf) ==
    IF Len(buf) < 4 \/ head_len(buf) < 4 THEN 0 ELSE head_len(buf)

tarsInput(buf) ==
    IF Len(buf) < 4 \/ head_len(buf) < 4 \/ Len(buf) < head_len(buf)
    THEN 0
    ELSE head_len(buf)

LineEnds(buf) == {i \in 1 .. Len(buf) : buf[i].t = "crlf"}
First(S) == CHOOSE i \in S : \A j \in S : i <= j

(* TC_HttpResponse: what does not begin with a head has no status and no   *)
(* headers.                                                                *)
ParsedHead(buf) ==
    IF buf[1].t = "head" THEN buf[1].v
                         ELSE [status |-> 0, length |-> 0, chunked |-> FALSE]

(* strtol of a line; the text of data is no number. *)
ChunkSize(buf, from, to) == IF from < to /\ buf[from].t = "size" THEN buf[from].v
                                                                ELSE 0

(* The loop over the chunks: after the line with a chunk's size the next   *)
(* line is looked for at once, in the data of the chunk.                   *)
chunks(buf) ==
    LET next[pos \in 1 .. Len(buf) + 1] ==
            LET ends == {i \in LineEnds(buf) : i >= pos}
                lenBody == First(ends)
                lenChunk == ChunkSize(buf, pos, lenBody)
            IN  CASE ends = {} -> 0
                  [] ends # {} /\ lenChunk <= 0 -> lenBody
                  [] ends # {} /\ lenChunk > 0 /\ lenBody + lenChunk + 1 > Len(buf)
                       -> BM_PACKET_ERROR
                  [] OTHER -> next[lenBody + 1]
    IN  next

(* The ends of blank lines; the first ends the head.                       *)
Blank(buf) == {i \in LineEnds(buf) : i - 1 \in LineEnds(buf)}

httpInput(buf) ==
    LET blank == Blank(buf)
        lenHead == First(blank)
        rsp == ParsedHead(buf)
    IN  CASE blank = {} -> 0
          [] blank # {} /\ rsp.status \in {204, 301, 302} -> lenHead
          [] blank # {} /\ rsp.status \notin {204, 301, 302} /\ rsp.chunked
               -> chunks(buf)[lenHead + 1]
          [] OTHER -> lenHead + rsp.length

input(buf) == IF proto = "http" THEN httpInput(buf) ELSE tarsInput(buf)

(* decode: the number and the result a frame is taken for.                 *)
tarsDecode(frame) ==
    IF Len(frame) > 4 /\ Len(frame) = head_len(frame)
    THEN [uniqId |-> frame[5], ret |-> 0]
    ELSE [uniqId |-> -1, ret |-> BM_PACKET_DECODE]

(* TC_HttpResponse::decode: all of the data that the head speaks of is     *)
(* there.                                                                  *)
Complete(frame) ==
    ParsedHead(frame).chunked
        \/ First(Blank(frame)) + ParsedHead(frame).length <= Len(frame)

httpDecode(frame) ==
    LET status == ParsedHead(frame).status
    IN  CASE ~ Complete(frame) -> [uniqId |-> -1, ret |-> BM_PACKET_DECODE]
          [] Complete(frame) /\ status = 0 -> [uniqId |-> -1, ret |-> 0]
          [] OTHER -> [uniqId |-> 1, ret |-> IF status = 200 THEN 0 ELSE status]

decode(frame) == IF proto = "http" THEN httpDecode(frame) ELSE tarsDecode(frame)
-----------------------------------------------------------------------------
Init ==
    /\ proto \in Protocols
    /\ answers \in AnswerLists[proto]
    /\ received = 0
    /\ _recvBuffer = << >> /\ handed = << >>
    /\ processing = FALSE /\ overrun = FALSE
    /\ asked = 0 /\ encoded = << >> /\ _sendBuffer = << >> /\ wire = << >>
    /\ closed = 0

Stream == FlattenSeq(answers)

(* handleRead: what has come is appended, piece by piece until recv has no *)
(* more.                                                                   *)
handleRead ==
    /\ ~ processing /\ ~ overrun
    /\ \E n \in 1 .. Len(Stream) - received :
        /\ _recvBuffer' = _recvBuffer \o SubSeq(Stream, received + 1, received + n)
        /\ received' = received + n
    /\ processing' = TRUE
    /\ UNCHANGED <<proto, answers, handed, overrun, outVars, closed>>

(* The loop of handleProcess: a frame is decoded and taken off the buffer. *)
Frame ==
    /\ processing
    /\ LET iRecvLen == input(_recvBuffer)
       IN  /\ iRecvLen > 0
           /\ IF iRecvLen <= Len(_recvBuffer)
              THEN /\ LET frame == SubSeq(_recvBuffer, 1, iRecvLen)
                      IN  handed' = Append(handed,
                                           [frame |-> frame, got |-> decode(frame)])
                   /\ _recvBuffer' = SubSeq(_recvBuffer, iRecvLen + 1,
                                            Len(_recvBuffer))
                   /\ UNCHANGED <<processing, overrun>>
              ELSE /\ overrun' = TRUE /\ processing' = FALSE
                   /\ UNCHANGED <<handed, _recvBuffer>>
    /\ UNCHANGED <<proto, answers, received, outVars, closed>>

FramesEnd ==
    /\ processing
    /\ input(_recvBuffer) <= 0
    /\ processing' = FALSE
    /\ UNCHANGED <<proto, answers, received, _recvBuffer, handed, overrun,
                   outVars, closed>>

(* Mutant of Written: what was not taken by the socket is forgotten.       *)
WrittenOnce(buf) ==
    \E sndLen \in 0 .. Len(buf) :
        /\ wire' = wire \o SubSeq(buf, 1, sndLen)
        /\ _sendBuffer' = << >>

(* handleWrite: the socket takes as much as it has room for.               *)
Written(buf) ==
    \E sndLen \in 0 .. Len(buf) :
        /\ wire' = wire \o SubSeq(buf, 1, sndLen)
        /\ _sendBuffer' = SubSeq(buf, sndLen + 1, Len(buf))

(* trySend: a request that does not fit is reported, not sent; one that    *)
(* does is written behind what is left of the ones before.                 *)
trySend ==
    /\ ~ processing /\ asked < MaxAsked
    /\ \E n \in Requests :
        LET out == encode(asked + 1, n, MAX_SENDBUF_SIZE)
        IN  /\ out.ret = 0
            /\ encoded' = encoded \o out.buf
            /\ Written(_sendBuffer \o out.buf)
    /\ asked' = asked + 1
    /\ UNCHANGED <<proto, inVars, closed>>

handleWrite ==
    /\ ~ processing
    /\ Written(_sendBuffer)
    /\ UNCHANGED <<proto, inVars, asked, encoded, closed>>

(* close, for an error of recv or send or an attempt to connect that takes *)
(* too long; what is opened next begins with both buffers empty.           *)
close ==
    /\ ~ processing /\ ~ overrun /\ closed < MaxClosed
    /\ closed' = closed + 1
    /\ answers' \in AnswerLists[proto]
    /\ received' = 0
    /\ _recvBuffer' = << >> /\ _sendBuffer' = << >>
    /\ handed' = << >> /\ asked' = 0 /\ encoded' = << >> /\ wire' = << >>
    /\ UNCHANGED <<proto, processing, overrun>>

Next == handleRead \/ Frame \/ FramesEnd \/ trySend \/ handleWrite \/ close

Spec == Init /\ [][Next]_framingVars
-----------------------------------------------------------------------------
(* How many answers have arrived with their last byte. *)
Arrived ==
    Cardinality({k \in 1 .. Len(answers) :
                    Len(FlattenSeq(SubSeq(answers, 1, k))) <= received})

(* Whatever the pieces in which the answers of a server arrive, each is    *)
(* decoded when it has arrived, as a whole, in order and for what it is,   *)
(* and never sooner (handleRead and handleProcess of transport.cpp and     *)
(* input, of which http_protocol.h says: 0 for a packet that is not        *)
(* complete, else its length).                                             *)
WholeFrames ==
    /\ ~ overrun
    /\ ~ processing =>
        /\ Len(handed) = Arrived
        /\ \A k \in 1 .. Len(handed) :
            /\ handed[k].frame = answers[k]
            /\ handed[k].got.ret # BM_PACKET_DECODE

(* The server gets the bytes of the requests without a gap or a repetition,*)
(* however little the socket takes at a time, and a new connection begins  *)
(* with a new request (handleWrite, trySend and close of transport.cpp).   *)
WireWhole == wire \o _sendBuffer = encoded
=============================================================================
