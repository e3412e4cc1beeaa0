----------------------------- MODULE Transport -----------------------------
(***************************************************************************)
(* One connection of a benchmark thread or process to the server under     *)
(* test: src/src/comm/transport.cpp.  The owner's loop sends one request   *)
(* per turn and looks for timeouts, then handles what epoll reports.       *)
(*                                                                         *)
(* The owner is one thread, and a step is one turn of its loop or one      *)
(* event.  The server and the network act between these steps: they refuse *)
(* and break connections, answer late, in any order, or never; datagrams   *)
(* get lost and are delivered twice.  The functions of the transport take  *)
(* a connection and return the connections they may leave.                 *)
(***************************************************************************)
EXTENDS Integers, Sequences, FiniteSets

CONSTANTS MaxSend,      \* bound: requests the owner tries to send
          MaxInbox      \* bound: answers that wait to be received

ASSUME BoundAssumption == MaxSend \in Nat /\ MaxInbox \in Nat

Requests == 1 .. MaxSend    \* a request is named by its uniqId
Garbled == 0                \* an answer that decode cannot read

VARIABLES
    tcp,        \* TCPTransport or UDPTransport
    hasSeq,     \* _proto->isSupportSeq(): tars and json, not http
    conn,       \* the connection
    next        \* the next request

vars == <<tcp, hasSeq, conn, next>>

(* fate is the history of each request; _sendQueue holds those that wait.  *)
Fates == {"new", "refused", "waiting", "answered", "overtime", "dropped"}

Conns ==
    [status  : {"none", "connecting", "connected"},  \* socket and _connStatus
     peer    : {"none", "syn", "open", "shut", "broken"}, \* what the kernel knows
     sendBuf : Seq(Requests),           \* _sendBuffer, in whole requests
     wire    : SUBSET Requests,         \* what reached the server
     inbox   : Seq(Requests \cup {Garbled}),  \* answers not yet received
     fate    : [Requests -> Fates],
     by      : [Requests -> Requests \cup {Garbled}]] \* history: whose answer

Waiting(c) == {r \in Requests : c.fate[r] = "waiting"}

TypeOK ==
    /\ tcp \in BOOLEAN /\ hasSeq \in BOOLEAN
    /\ conn \in Conns
    /\ next \in 1 .. MaxSend + 1

(* The constructor closes the socket. *)
Init ==
    /\ tcp \in BOOLEAN /\ hasSeq \in BOOLEAN
    /\ conn = [status |-> "none", peer |-> "none", sendBuf |-> << >>,
               wire |-> {}, inbox |-> << >>,
               fate |-> [r \in Requests |-> "new"],
               by |-> [r \in Requests |-> Garbled]]
    /\ next = 1
-----------------------------------------------------------------------------
(* The functions of the transport *)

WithFate(c, R, f) ==
    [c EXCEPT !.fate = [r \in Requests |-> IF r \in R THEN f ELSE c.fate[r]]]

(* Mutant of Closed: the send buffer is kept. *)
ClosedUnsent(c) ==
    [WithFate(c, Waiting(c), "dropped") EXCEPT
        !.status = "none", !.peer = "none", !.wire = {}, !.inbox = << >>]

(* close: what waits for an answer is forgotten; close reports nothing.    *)
Closed(c) ==
    [WithFate(c, Waiting(c), "dropped") EXCEPT
        !.status = "none", !.peer = "none", !.sendBuf = << >>,
        !.wire = {}, !.inbox = << >>]

(* checkSocket: a socket is opened if there is none, which may fail. *)
checkSocket(c) ==
    IF c.status # "none" THEN {c}
    ELSE {c, IF tcp THEN [c EXCEPT !.status = "connecting", !.peer = "syn"]
                    ELSE [c EXCEPT !.status = "connected", !.peer = "open"]}

(* The requests up to the n-th are overtime. *)
Expired(c, n) == WithFate(c, {r \in Waiting(c) : r <= n}, "overtime")

(* Mutant of checkTimeOut: only the connection is timed. *)
checkTimeOutOfConnect(c) ==
    UNION {{d} \cup (IF d.status = "connecting" THEN {Closed(d)} ELSE {}) :
              d \in checkSocket(c)}

(* checkTimeOut, for any time that may have passed. *)
checkTimeOut(c) ==
    UNION {IF d.status = "none" THEN {d}
           ELSE {Expired(d, n) : n \in 0 .. MaxSend}
                \cup (IF d.status = "connecting" THEN {Closed(d)} ELSE {}) :
              d \in checkSocket(c)}

(* How many wait for an answer that were sent no later than r. *)
Place(c, r) == Cardinality({s \in Waiting(c) : s <= r})
Named(c, r) == {r} \cap {c.inbox[i] : i \in DOMAIN c.inbox}
InTurn(c, r) == {c.inbox[i] : i \in {Place(c, r)} \cap DOMAIN c.inbox}

(* Mutant of Answers: the numbers are not looked at. *)
AnswersInTurn(c, r) == IF r \in Waiting(c) THEN InTurn(c, r) ELSE {}

(* Mutant of Answers: the request is not looked up in _sendQueue. *)
AnswersUnasked(c, r) == Named(c, r)

(* What settles r of the answers that have come (lines 97-103): its own if *)
(* they are numbered; otherwise each goes to the first that still waits.   *)
Answers(c, r) ==
    IF r \notin Waiting(c) THEN {}
    ELSE IF hasSeq THEN Named(c, r) ELSE InTurn(c, r)

Reported(c) ==
    [c EXCEPT
        !.inbox = << >>,
        !.fate = [r \in Requests |->
                    IF Answers(c, r) # {} THEN "answered" ELSE c.fate[r]],
        !.by = [r \in Requests |->
                    IF Answers(c, r) # {} THEN CHOOSE a \in Answers(c, r) : TRUE
                                          ELSE c.by[r]]]

handleProcess(c) == checkTimeOut(Reported(c))

(* A broken connection is noticed by the first recv or send on it. *)
handleRead(c) ==
    UNION {IF d.status = "none" THEN {d}
           ELSE handleProcess(IF d.peer = "broken" THEN Closed(d) ELSE d) :
              d \in checkSocket(c)}

(* n requests get out before the socket's buffer is full; a datagram takes *)
(* all or none.                                                            *)
Sent(c, n) ==
    [c EXCEPT !.sendBuf = SubSeq(@, n + 1, Len(@)),
              !.wire = @ \cup {c.sendBuf[i] : i \in 1 .. n}]

handleWrite(c) ==
    UNION {IF d.sendBuf = << >> \/ d.status # "connected" THEN {d}
           ELSE IF d.peer = "broken" THEN {Closed(d)}
           ELSE {Sent(d, n) : n \in IF tcp THEN 0 .. Len(d.sendBuf)
                                          ELSE {0, Len(d.sendBuf)}} :
              d \in checkSocket(c)}

handleError(c) == checkSocket(Closed(c))

(* trySend: lines 142-158 and 164-168 return without sending, and the      *)
(* request is not counted as sent.                                         *)
Connected(c) == c.status = "connected" \/ c.peer = "open"

(* Mutant of Enqueued: encode does not say which number it used. *)
EnqueuedUnnumbered(c, r) ==
    [c EXCEPT !.sendBuf = Append(@, Garbled), !.fate[r] = "waiting"]

Enqueued(c, r) ==
    [c EXCEPT !.sendBuf = Append(@, r), !.fate[r] = "waiting"]

(* Mutant of trySend: nothing holds back a second request. *)
trySendAlways(c, r) ==
    UNION {LET ready == [d EXCEPT !.status = "connected"]
           IN  IF d.status = "none" \/ ~ Connected(d)
               THEN {WithFate(d, {r}, "refused")}
               ELSE {WithFate(ready, {r}, "refused")}
                    \cup handleWrite(Enqueued(ready, r)) :
              d \in checkSocket(c)}

trySend(c, r) ==
    UNION {LET ready == [d EXCEPT !.status = "connected"]
           IN  IF d.status = "none" \/ ~ Connected(d)
               THEN {WithFate(d, {r}, "refused")}
               ELSE {WithFate(ready, {r}, "refused")}
                    \cup (IF Waiting(d) # {} /\ ~ hasSeq THEN {}
                          ELSE handleWrite(Enqueued(ready, r))) :
              d \in checkSocket(c)}
-----------------------------------------------------------------------------
(* The owner's loop (BenchmarkThread.cpp:108-130, tool/main.cpp:144-167) *)

(* Its time to send has come. *)
Turn ==
    /\ next \in Requests
    /\ conn' \in UNION {checkTimeOut(c) : c \in trySend(conn, next)}
    /\ next' = next + 1
    /\ UNCHANGED <<tcp, hasSeq>>

(* The bound is reached: later turns look for timeouts only. *)
Watch ==
    /\ next = MaxSend + 1
    /\ conn' \in checkTimeOut(conn)
    /\ UNCHANGED <<tcp, hasSeq, next>>

(* handle: a read is always tried; then what the event says, though the    *)
(* socket may be another one by then.                                      *)
handle ==
    /\ conn.status # "none" /\ conn.peer # "syn"
    /\ \E writable \in BOOLEAN :
        LET read    == handleRead(conn)
            written == IF writable THEN UNION {handleWrite(c) : c \in read}
                                   ELSE read
        IN  conn' \in IF conn.peer = "broken"
                      THEN UNION {handleError(c) : c \in written}
                      ELSE written
    /\ UNCHANGED <<tcp, hasSeq, next>>
-----------------------------------------------------------------------------
(* The network and the server *)

Peer(old, new) ==
    /\ conn.peer \in old
    /\ conn' = [conn EXCEPT !.peer = new]
    /\ UNCHANGED <<tcp, hasSeq, next>>

Establish == Peer({"syn"}, "open")
Break == Peer({"syn", "open", "shut"}, "broken")
(* The server closes its side; recv returns 0 and nobody minds. *)
Shut == tcp /\ Peer({"open"}, "shut")

(* Without sequence numbers a server answers in the order of the requests; *)
(* a datagram can be delivered more than once.                             *)
Answer(r) ==
    /\ conn.peer = "open" /\ r \in conn.wire
    /\ tcp /\ ~ hasSeq => \A s \in conn.wire : r <= s
    /\ Len(conn.inbox) < MaxInbox
    /\ \E answer \in {r, Garbled} :
           conn' = [conn EXCEPT !.inbox = Append(@, answer),
                                !.wire = IF tcp THEN @ \ {r} ELSE @]
    /\ UNCHANGED <<tcp, hasSeq, next>>
-----------------------------------------------------------------------------
Next ==
    \/ Turn \/ Watch \/ handle
    \/ Establish \/ Break \/ Shut
    \/ \E r \in Requests : Answer(r)

Spec == Init /\ [][Next]_vars

(* The owner's loop turns for ever and its clock goes on: some turn comes  *)
(* after the timeout of a request that waits.  Nothing is assumed of the   *)
(* network and the server.                                                 *)
LooksLate(r) == (Turn \/ Watch) /\ conn'.fate[r] # "waiting"

FairSpec == Spec /\ \A r \in Requests : WF_vars(LooksLate(r))
-----------------------------------------------------------------------------
(* An answer is counted for the request it belongs to, however late,       *)
(* doubled or out of order it comes, if the protocol numbers its requests  *)
(* (handleProcess, line 98).                                               *)
OwnAnswer ==
    hasSeq => \A r \in Requests : conn.fate[r] = "answered" => conn.by[r] = r

(* A protocol that does not number them has one request in flight at a     *)
(* time (trySend, line 155), or the answers could not be told apart.       *)
OneAtATime ==
    ~ hasSeq => \A r, s \in Waiting(conn) : r = s

(* Requests wait only on a connection that was established, and what is    *)
(* left in the send buffer was meant for this connection: a new one never  *)
(* starts with the rest of a request (close, lines 182-185).               *)
CleanStart ==
    conn.status # "connected" => Waiting(conn) = {} /\ conn.sendBuf = << >>

(* A request is counted once: what has succeeded, failed, timed out or     *)
(* been given up stays so, when the answer comes after the timeout too.    *)
Settled(r) == conn.fate[r] \notin {"new", "waiting"}

CountedOnce ==
    [][\A r \in Requests : Settled(r) => conn'.fate[r] = conn.fate[r]]_vars

(* No request waits for ever, whatever becomes of server and connection.   *)
Ends == \A r \in Requests : (conn.fate[r] = "waiting") ~> Settled(r)

(* Every request that was counted as sent is also counted as a success or  *)
(* a failure, or still waits for its answer: the success rate that tb      *)
(* prints is one minus the failures among all requests (tool/main.cpp:267, *)
(* 283).  What recv and send report of a broken connection is a return     *)
(* code, not a failure (monitor.cpp:59-62).                                *)
Accounted == \A r \in Requests : conn.fate[r] # "dropped"
============================================================================
