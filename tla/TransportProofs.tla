-------------------------- MODULE TransportProofs --------------------------
(***************************************************************************)
(* Proofs about a connection: that its state has its type, that requests   *)
(* are settled once and by their own answers, and that a new connection    *)
(* starts clean.  They hold for any number of requests and answers.        *)
(***************************************************************************)
EXTENDS Transport, TLAPS

(* What the properties say of the present connection, said of any.         *)
Own(c) == hasSeq => \A r \in Requests : c.fate[r] = "answered" => c.by[r] = r
One(c) == ~ hasSeq => \A r, s \in Waiting(c) : r = s
Clean(c) == c.status # "connected" => Waiting(c) = {} /\ c.sendBuf = << >>
Good(c) == c \in Conns /\ Own(c) /\ One(c) /\ Clean(c)

(* Between two states of the connection only requests that wait change.    *)
Settles(c, d) == \A r \in Requests :
                    c.fate[r] # "waiting" => d.fate[r] = c.fate[r]

Booleans == tcp \in BOOLEAN /\ hasSeq \in BOOLEAN

(* Requests to come are new. *)
ToCome == \A r \in Requests : r >= next => conn.fate[r] = "new"

IInv == Booleans /\ next \in 1 .. MaxSend + 1 /\ Good(conn) /\ ToCome
-----------------------------------------------------------------------------
LEMMA SettlesTwice ==
  ASSUME NEW c, NEW d, NEW e, Settles(c, d), Settles(d, e)
  PROVE  Settles(c, e)
  BY DEF Settles

LEMMA SettlesItself == \A c : Settles(c, c)
  BY DEF Settles

LEMMA FewerWait ==
  ASSUME NEW c, NEW d, Settles(c, d)
  PROVE  Waiting(d) \subseteq Waiting(c)
  BY DEF Settles, Waiting

(* A connection keeps being good as long as it is of its type, and nothing *)
(* is added to what waits or is answered.                                  *)
LEMMA StaysGood ==
  ASSUME NEW c, NEW d, Good(c), d \in Conns, Settles(c, d), d.by = c.by,
         \A r \in Requests : d.fate[r] = "answered" => c.fate[r] = "answered",
         Clean(d)
  PROVE  Good(d)
<1>1. Waiting(d) \subseteq Waiting(c)
  BY FewerWait
<1>2. QED
  BY <1>1 DEF Good, Own, One

LEMMA Fields ==
  ASSUME NEW c \in Conns
  PROVE  /\ c = [status |-> c.status, peer |-> c.peer, sendBuf |-> c.sendBuf,
                 wire |-> c.wire, inbox |-> c.inbox, fate |-> c.fate,
                 by |-> c.by]
         /\ c.status \in {"none", "connecting", "connected"}
         /\ c.peer \in {"none", "syn", "open", "shut", "broken"}
         /\ c.sendBuf \in Seq(Requests) /\ c.wire \in SUBSET Requests
         /\ c.inbox \in Seq(Requests \cup {Garbled})
         /\ c.fate \in [Requests -> Fates]
         /\ c.by \in [Requests -> Requests \cup {Garbled}]
  BY DEF Conns

LEMMA WithFateType ==
  ASSUME NEW c \in Conns, NEW R, NEW f \in Fates
  PROVE  /\ WithFate(c, R, f) \in Conns
         /\ \A r \in Requests :
                WithFate(c, R, f).fate[r] = IF r \in R THEN f ELSE c.fate[r]
         /\ WithFate(c, R, f).status = c.status
         /\ WithFate(c, R, f).sendBuf = c.sendBuf
         /\ WithFate(c, R, f).by = c.by
<1> DEFINE g == [r \in Requests |-> IF r \in R THEN f ELSE c.fate[r]]
<1>1. g \in [Requests -> Fates]
  BY DEF Conns
<1>2. WithFate(c, R, f) = [c EXCEPT !.fate = g]
  BY DEF WithFate
<1> HIDE DEF g
<1>4. [c EXCEPT !.fate = g] =
        [status |-> c.status, peer |-> c.peer, sendBuf |-> c.sendBuf,
         wire |-> c.wire, inbox |-> c.inbox, fate |-> g, by |-> c.by]
  BY Fields
<1>5. [c EXCEPT !.fate = g] \in Conns
  BY <1>1, <1>4, Fields DEF Conns
<1>6. QED
  BY <1>2, <1>4, <1>5 DEF g

LEMMA NoneInSeq == \A S : << >> \in Seq(S)
  OBVIOUS

LEMMA EmptiedType ==
  ASSUME NEW c \in Conns, NEW s \in Seq(Requests),
         NEW i \in Seq(Requests \cup {Garbled})
  PROVE  [c EXCEPT !.status = "none", !.peer = "none", !.sendBuf = s,
                   !.wire = {}, !.inbox = i] \in Conns
  BY DEF Conns

LEMMA ReportedType ==
  ASSUME NEW c \in Conns, NEW i \in Seq(Requests \cup {Garbled}),
         NEW f \in [Requests -> Fates],
         NEW b \in [Requests -> Requests \cup {Garbled}]
  PROVE  [c EXCEPT !.inbox = i, !.fate = f, !.by = b] \in Conns
  BY DEF Conns

LEMMA ClosedGood ==
  ASSUME NEW c, Good(c)
  PROVE  Good(Closed(c)) /\ Settles(c, Closed(c))
<1> DEFINE w == WithFate(c, Waiting(c), "dropped")
           d == Closed(c)
<1>1. /\ w \in Conns /\ w.by = c.by
      /\ \A r \in Requests :
            w.fate[r] = IF r \in Waiting(c) THEN "dropped" ELSE c.fate[r]
  BY WithFateType DEF Good, Fates
<1>2. d = [w EXCEPT !.status = "none", !.peer = "none", !.sendBuf = << >>,
                    !.wire = {}, !.inbox = << >>]
  BY DEF Closed
<1> HIDE DEF w, d
<1>3. /\ d \in Conns /\ d.by = c.by /\ d.fate = w.fate
      /\ d.sendBuf = << >>
  <2>1. d \in Conns
    BY <1>1, <1>2, EmptiedType, NoneInSeq
  <2>2. d.by = w.by /\ d.fate = w.fate /\ d.sendBuf = << >>
    BY <1>1, <1>2 DEF Conns
  <2>3. QED
    BY <1>1, <2>1, <2>2
<1>4. Settles(c, d)
  BY <1>1, <1>3 DEF Settles, Waiting
<1>5. Waiting(d) = {}
  BY <1>1, <1>3 DEF Waiting
<1>6. \A r \in Requests : d.fate[r] = "answered" => c.fate[r] = "answered"
  BY <1>1, <1>3
<1>7. Clean(d)
  BY <1>3, <1>5 DEF Clean
<1>8. Good(d)
  BY <1>3, <1>4, <1>6, <1>7, StaysGood
<1>9. QED
  BY <1>4, <1>8 DEF d

LEMMA CheckSocketGood ==
  ASSUME NEW c, Good(c), NEW d \in checkSocket(c)
  PROVE  Good(d) /\ d.fate = c.fate
<1>1. CASE d = c
  BY <1>1
<1>2. CASE d # c
  <2>1. /\ c.status = "none"
        /\ d = IF tcp THEN [c EXCEPT !.status = "connecting", !.peer = "syn"]
                      ELSE [c EXCEPT !.status = "connected", !.peer = "open"]
    BY <1>2 DEF checkSocket
  <2>2. /\ d \in Conns /\ d.by = c.by /\ d.fate = c.fate
        /\ d.sendBuf = c.sendBuf
    BY <2>1 DEF Good, Conns
  <2>3. Waiting(c) = {} /\ c.sendBuf = << >>
    BY <2>1 DEF Good, Clean
  <2>4. Clean(d)
    BY <2>2, <2>3 DEF Clean, Waiting
  <2>5. Settles(c, d)
    BY <2>2 DEF Settles
  <2>6. QED
    BY <2>2, <2>4, <2>5, StaysGood
<1>3. QED
  BY <1>1, <1>2

LEMMA ExpiredGood ==
  ASSUME NEW c, Good(c), NEW n \in Nat
  PROVE  Good(Expired(c, n)) /\ Settles(c, Expired(c, n))
<1> DEFINE d == Expired(c, n)
           R == {r \in Waiting(c) : r <= n}
<1>1. /\ d \in Conns /\ d.by = c.by /\ d.status = c.status
      /\ d.sendBuf = c.sendBuf
      /\ \A r \in Requests : d.fate[r] = IF r \in R THEN "overtime" ELSE c.fate[r]
  BY WithFateType DEF Expired, Good, Fates
<1>2. R \subseteq Waiting(c)
  OBVIOUS
<1> HIDE DEF d, R
<1>3. Settles(c, d)
  BY <1>1, <1>2 DEF Settles, Waiting
<1>4. Waiting(d) \subseteq Waiting(c)
  BY <1>3, FewerWait
<1>5. Clean(d)
  BY <1>1, <1>4 DEF Good, Clean
<1>6. Good(d)
  BY <1>1, <1>3, <1>5, StaysGood
<1>7. QED
  BY <1>3, <1>6 DEF d

LEMMA CheckTimeOutGood ==
  ASSUME NEW c, Good(c), NEW e \in checkTimeOut(c)
  PROVE  Good(e) /\ Settles(c, e)
<1>1. PICK d \in checkSocket(c) :
        \/ e = d
        \/ \E n \in 0 .. MaxSend : e = Expired(d, n)
        \/ e = Closed(d)
  BY DEF checkTimeOut
<1>2. Good(d) /\ Settles(c, d)
  BY CheckSocketGood DEF Settles
<1>3. Good(e) /\ Settles(d, e)
  <2>1. CASE e = d
    BY <1>2, <2>1, SettlesItself
  <2>2. CASE \E n \in 0 .. MaxSend : e = Expired(d, n)
    BY <1>2, <2>2, ExpiredGood, BoundAssumption
  <2>3. CASE e = Closed(d)
    BY <1>2, <2>3, ClosedGood
  <2>4. QED
    BY <1>1, <2>1, <2>2, <2>3
<1>4. QED
  BY <1>2, <1>3, SettlesTwice

LEMMA ReportedGood ==
  ASSUME Booleans, NEW c, Good(c)
  PROVE  Good(Reported(c)) /\ Settles(c, Reported(c))
<1> DEFINE d == Reported(c)
           f == [r \in Requests |->
                    IF Answers(c, r) # {} THEN "answered" ELSE c.fate[r]]
           b == [r \in Requests |->
                    IF Answers(c, r) # {} THEN CHOOSE a \in Answers(c, r) : TRUE
                                          ELSE c.by[r]]
<1>1. c \in Conns /\ c.inbox \in Seq(Requests \cup {Garbled})
  BY Fields DEF Good
<1>2. \A r \in Requests : Answers(c, r) \subseteq Requests \cup {Garbled}
  <2>1. \A i \in DOMAIN c.inbox : c.inbox[i] \in Requests \cup {Garbled}
    BY <1>1
  <2>2. QED
    BY <2>1 DEF Answers, Named, InTurn
<1>3. \A r \in Requests : Answers(c, r) # {} => r \in Waiting(c)
  BY DEF Answers
<1>4. \A r \in Requests : hasSeq => Answers(c, r) \subseteq {r}
  BY DEF Answers, Named
<1>5. f \in [Requests -> Fates]
  BY <1>1, Fields DEF Fates
<1>6. b \in [Requests -> Requests \cup {Garbled}]
  BY <1>1, <1>2, Fields
<1>7. d = [c EXCEPT !.inbox = << >>, !.fate = f, !.by = b]
  BY DEF Reported
<1>f. \A r \in Requests :
        f[r] = IF Answers(c, r) # {} THEN "answered" ELSE c.fate[r]
  OBVIOUS
<1>b. \A r \in Requests : hasSeq /\ Answers(c, r) # {} => b[r] = r
  BY <1>4
<1>c. \A r \in Requests : Answers(c, r) = {} => b[r] = c.by[r]
  OBVIOUS
<1> HIDE DEF d, f, b
<1>8. /\ d \in Conns /\ d.fate = f /\ d.by = b
      /\ d.status = c.status /\ d.sendBuf = c.sendBuf
  <2>1. d \in Conns
    BY <1>1, <1>5, <1>6, <1>7, NoneInSeq, ReportedType
  <2>2. QED
    BY <1>1, <1>7, <2>1 DEF Conns
<1>9. Settles(c, d)
  BY <1>3, <1>8, <1>f DEF Settles, Waiting
<1>10. Waiting(d) \subseteq Waiting(c)
  BY <1>9, FewerWait
<1>11. Own(d)
  BY <1>8, <1>f, <1>b, <1>c DEF Good, Own
<1>12. One(d) /\ Clean(d)
  BY <1>8, <1>10 DEF Good, One, Clean
<1>13. QED
  BY <1>8, <1>9, <1>11, <1>12 DEF Good, d

LEMMA HandleProcessGood ==
  ASSUME Booleans, NEW c, Good(c), NEW e \in handleProcess(c)
  PROVE  Good(e) /\ Settles(c, e)
<1>1. Good(Reported(c)) /\ Settles(c, Reported(c))
  BY ReportedGood
<1>2. Good(e) /\ Settles(Reported(c), e)
  BY <1>1, CheckTimeOutGood DEF handleProcess
<1>3. QED
  BY <1>1, <1>2, SettlesTwice

LEMMA HandleReadGood ==
  ASSUME Booleans, NEW c, Good(c), NEW e \in handleRead(c)
  PROVE  Good(e) /\ Settles(c, e)
<1>1. PICK d \in checkSocket(c) :
        \/ e = d
        \/ e \in handleProcess(Closed(d))
        \/ e \in handleProcess(d)
  BY DEF handleRead
<1>2. Good(d) /\ Settles(c, d)
  BY CheckSocketGood DEF Settles
<1>3. Good(Closed(d)) /\ Settles(d, Closed(d))
  BY <1>2, ClosedGood
<1>4. Good(e) /\ Settles(d, e)
  <2>1. CASE e = d
    BY <1>2, <2>1, SettlesItself
  <2>2. CASE e \in handleProcess(Closed(d))
    <3>1. Good(e) /\ Settles(Closed(d), e)
      BY <1>3, <2>2, HandleProcessGood
    <3>2. QED
      BY <1>3, <3>1, SettlesTwice
  <2>3. CASE e \in handleProcess(d)
    BY <1>2, <2>3, HandleProcessGood
  <2>4. QED
    BY <1>1, <2>1, <2>2, <2>3
<1>5. QED
  BY <1>2, <1>4, SettlesTwice

LEMMA SentGood ==
  ASSUME NEW c, Good(c), c.status = "connected", NEW n \in 0 .. Len(c.sendBuf)
  PROVE  Good(Sent(c, n)) /\ Settles(c, Sent(c, n))
<1> DEFINE d == Sent(c, n)
           q == SubSeq(c.sendBuf, n + 1, Len(c.sendBuf))
           w == c.wire \cup {c.sendBuf[i] : i \in 1 .. n}
<1>1. c \in Conns /\ c.sendBuf \in Seq(Requests) /\ c.wire \in SUBSET Requests
  BY Fields DEF Good
<1>2. q \in Seq(Requests)
  BY <1>1
<1>3. w \in SUBSET Requests
  BY <1>1
<1>4. d = [c EXCEPT !.sendBuf = q, !.wire = w]
  BY DEF Sent
<1> HIDE DEF d, q, w
<1>5. d \in Conns
  BY <1>1, <1>2, <1>3, <1>4 DEF Conns
<1>6. d.fate = c.fate /\ d.by = c.by /\ d.status = c.status
  BY <1>1, <1>4 DEF Conns
<1>7. Settles(c, d) /\ Clean(d)
  BY <1>6 DEF Settles, Clean
<1>8. Good(d)
  BY <1>5, <1>6, <1>7, StaysGood
<1>9. QED
  BY <1>7, <1>8 DEF d

LEMMA HandleWriteGood ==
  ASSUME NEW c, Good(c), NEW e \in handleWrite(c)
  PROVE  Good(e) /\ Settles(c, e)
<1>1. PICK d \in checkSocket(c) :
        \/ e = d
        \/ e = Closed(d)
        \/ /\ d.status = "connected"
           /\ \E n \in 0 .. Len(d.sendBuf) : e = Sent(d, n)
  <2>1. PICK d \in checkSocket(c) :
          e \in IF d.sendBuf = << >> \/ d.status # "connected" THEN {d}
                ELSE IF d.peer = "broken" THEN {Closed(d)}
                ELSE {Sent(d, n) : n \in IF tcp THEN 0 .. Len(d.sendBuf)
                                               ELSE {0, Len(d.sendBuf)}}
    BY DEF handleWrite
  <2>2. Good(d)
    BY CheckSocketGood
  <2>3. Len(d.sendBuf) \in Nat
    BY <2>2, Fields DEF Good
  <2>4. {0, Len(d.sendBuf)} \subseteq 0 .. Len(d.sendBuf)
    BY <2>3
  <2>5. QED
    BY <2>1, <2>4
<1>2. Good(d) /\ Settles(c, d)
  BY CheckSocketGood DEF Settles
<1>3. Good(e) /\ Settles(d, e)
  BY <1>1, <1>2, SettlesItself, ClosedGood, SentGood
<1>4. QED
  BY <1>2, <1>3, SettlesTwice

LEMMA HandleErrorGood ==
  ASSUME NEW c, Good(c), NEW e \in handleError(c)
  PROVE  Good(e) /\ Settles(c, e)
<1>1. Good(Closed(c)) /\ Settles(c, Closed(c))
  BY ClosedGood
<1>2. Good(e) /\ Settles(Closed(c), e)
  BY <1>1, CheckSocketGood DEF handleError, Settles
<1>3. QED
  BY <1>1, <1>2, SettlesTwice

(* Every request but r that does not wait keeps its fate. *)
LEMMA RefusedGood ==
  ASSUME NEW c, Good(c), NEW r \in Requests, c.fate[r] = "new"
  PROVE  LET d == WithFate(c, {r}, "refused")
         IN  /\ Good(d)
             /\ \A s \in Requests \ {r} : d.fate[s] = c.fate[s]
<1> DEFINE d == WithFate(c, {r}, "refused")
<1>1. /\ d \in Conns /\ d.by = c.by /\ d.status = c.status
      /\ d.sendBuf = c.sendBuf
      /\ \A s \in Requests : d.fate[s] = IF s \in {r} THEN "refused" ELSE c.fate[s]
  BY WithFateType DEF Good, Fates
<1> HIDE DEF d
<1>2. Waiting(d) \subseteq Waiting(c)
  BY <1>1 DEF Waiting
<1>3. Own(d) /\ One(d) /\ Clean(d)
  BY <1>1, <1>2 DEF Good, Own, One, Clean
<1>4. QED
  BY <1>1, <1>3 DEF Good, d

LEMMA ReadyGood ==
  ASSUME NEW c, Good(c)
  PROVE  LET d == [c EXCEPT !.status = "connected"]
         IN  Good(d) /\ d.status = "connected" /\ d.fate = c.fate
<1> DEFINE d == [c EXCEPT !.status = "connected"]
<1>1. /\ d \in Conns /\ d.by = c.by /\ d.fate = c.fate
      /\ d.status = "connected"
  BY DEF Good, Conns
<1> HIDE DEF d
<1>2. Settles(c, d) /\ Clean(d)
  BY <1>1 DEF Settles, Clean
<1>3. Good(d)
  BY <1>1, <1>2, StaysGood
<1>4. QED
  BY <1>1, <1>3 DEF d

(* Here OneAtATime comes from: without numbers nothing else may wait.      *)
LEMMA EnqueuedGood ==
  ASSUME NEW c, Good(c), c.status = "connected",
         NEW r \in Requests, c.fate[r] = "new",
         hasSeq \/ Waiting(c) = {}
  PROVE  /\ Good(Enqueued(c, r))
         /\ \A s \in Requests \ {r} : Enqueued(c, r).fate[s] = c.fate[s]
<1> DEFINE d == Enqueued(c, r)
           q == Append(c.sendBuf, r)
           f == [c.fate EXCEPT ![r] = "waiting"]
<1>1. /\ c \in Conns /\ c.sendBuf \in Seq(Requests)
      /\ c.fate \in [Requests -> Fates]
  BY Fields DEF Good
<1>2. q \in Seq(Requests) /\ f \in [Requests -> Fates]
  BY <1>1 DEF Fates
<1>3. d = [c EXCEPT !.sendBuf = q, !.fate = f]
  BY <1>1 DEF Enqueued, Conns
<1>4. f[r] = "waiting" /\ \A s \in Requests \ {r} : f[s] = c.fate[s]
  BY <1>1
<1> HIDE DEF d, q, f
<1>5. /\ d \in Conns /\ d.fate = f /\ d.by = c.by
      /\ d.status = "connected"
  BY <1>1, <1>2, <1>3 DEF Conns
<1>6. Waiting(d) = Waiting(c) \cup {r}
  BY <1>4, <1>5 DEF Waiting
<1>7. Own(d) /\ One(d) /\ Clean(d)
  BY <1>4, <1>5, <1>6 DEF Good, Own, One, Clean
<1>8. QED
  BY <1>4, <1>5, <1>7 DEF Good, d

LEMMA TrySendGood ==
  ASSUME NEW c, Good(c), NEW r \in Requests, c.fate[r] = "new",
         NEW e \in trySend(c, r)
  PROVE  /\ Good(e)
         /\ \A s \in Requests \ {r} :
                c.fate[s] # "waiting" => e.fate[s] = c.fate[s]
<1> DEFINE ready(d) == [d EXCEPT !.status = "connected"]
<1>1. PICK d \in checkSocket(c) :
        \/ e = WithFate(d, {r}, "refused")
        \/ e = WithFate(ready(d), {r}, "refused")
        \/ /\ hasSeq \/ Waiting(d) = {}
           /\ e \in handleWrite(Enqueued(ready(d), r))
  BY DEF trySend
<1>2. Good(d) /\ d.fate = c.fate
  BY CheckSocketGood
<1>3. /\ Good(ready(d)) /\ ready(d).status = "connected"
      /\ ready(d).fate = c.fate
  BY <1>2, ReadyGood
<1>4. Waiting(ready(d)) = Waiting(d)
  BY <1>2, <1>3 DEF Waiting
<1> HIDE DEF ready
<1>5. CASE e = WithFate(d, {r}, "refused")
  BY <1>2, <1>5, RefusedGood
<1>6. CASE e = WithFate(ready(d), {r}, "refused")
  BY <1>3, <1>6, RefusedGood
<1>7. CASE /\ hasSeq \/ Waiting(d) = {}
           /\ e \in handleWrite(Enqueued(ready(d), r))
  <2>1. /\ Good(Enqueued(ready(d), r))
        /\ \A s \in Requests \ {r} :
              Enqueued(ready(d), r).fate[s] = c.fate[s]
    BY <1>3, <1>4, <1>7, EnqueuedGood
  <2>2. Good(e) /\ Settles(Enqueued(ready(d), r), e)
    BY <1>7, <2>1, HandleWriteGood
  <2>3. QED
    BY <2>1, <2>2 DEF Settles
<1>8. QED
  BY <1>1, <1>5, <1>6, <1>7

LEMMA HandleGood ==
  ASSUME Booleans, Good(conn), handle
  PROVE  Good(conn') /\ Settles(conn, conn')
<1>1. PICK w \in BOOLEAN :
        LET read    == handleRead(conn)
            written == IF w THEN UNION {handleWrite(c) : c \in read} ELSE read
        IN  conn' \in IF conn.peer = "broken"
                      THEN UNION {handleError(c) : c \in written}
                      ELSE written
  BY DEF handle
<1> DEFINE written == IF w THEN UNION {handleWrite(c) : c \in handleRead(conn)}
                           ELSE handleRead(conn)
<1>2. \A c \in handleRead(conn) : Good(c) /\ Settles(conn, c)
  BY HandleReadGood
<1>3. \A d \in written : Good(d) /\ Settles(conn, d)
  <2>1. TAKE d \in written
  <2>2. CASE ~ w
    BY <1>2, <2>2
  <2>3. CASE w
    <3>1. PICK c \in handleRead(conn) : d \in handleWrite(c)
      BY <2>3
    <3>2. Good(d) /\ Settles(c, d)
      BY <1>2, <3>1, HandleWriteGood
    <3>3. QED
      BY <1>2, <3>2, SettlesTwice
  <2>4. QED
    BY <2>2, <2>3
<1>4. CASE conn.peer # "broken"
  BY <1>1, <1>3, <1>4
<1>5. CASE conn.peer = "broken"
  <2>1. PICK d \in written : conn' \in handleError(d)
    BY <1>1, <1>5
  <2> HIDE DEF written
  <2>2. Good(conn') /\ Settles(d, conn')
    BY <1>3, <2>1, HandleErrorGood
  <2>3. QED
    BY <1>3, <2>1, <2>2, SettlesTwice
<1>6. QED
  BY <1>4, <1>5

LEMMA PeerGood ==
  ASSUME Good(conn), NEW old, NEW new \in {"open", "broken", "shut"},
         Peer(old, new)
  PROVE  Good(conn') /\ Settles(conn, conn')
<1>1. conn \in Conns /\ conn' = [conn EXCEPT !.peer = new]
  BY DEF Good, Peer
<1>2. /\ conn' \in Conns /\ conn'.by = conn.by /\ conn'.fate = conn.fate
      /\ conn'.status = conn.status /\ conn'.sendBuf = conn.sendBuf
  BY <1>1 DEF Conns
<1>3. Settles(conn, conn') /\ Waiting(conn') = Waiting(conn)
  BY <1>2 DEF Settles, Waiting
<1>4. Clean(conn')
  BY <1>2, <1>3 DEF Good, Clean
<1>5. QED
  BY <1>2, <1>3, <1>4, StaysGood

LEMMA AnswerGood ==
  ASSUME Good(conn), NEW r \in Requests, Answer(r)
  PROVE  Good(conn') /\ Settles(conn, conn')
<1>1. PICK a \in {r, Garbled} :
        conn' = [conn EXCEPT !.inbox = Append(@, a),
                             !.wire = IF tcp THEN @ \ {r} ELSE @]
  BY DEF Answer
<1> DEFINE i == Append(conn.inbox, a)
           w == IF tcp THEN conn.wire \ {r} ELSE conn.wire
<1>2. /\ conn \in Conns /\ conn.inbox \in Seq(Requests \cup {Garbled})
      /\ conn.wire \in SUBSET Requests
  BY Fields DEF Good
<1>3. i \in Seq(Requests \cup {Garbled}) /\ w \in SUBSET Requests
  BY <1>2
<1>4. conn' = [conn EXCEPT !.inbox = i, !.wire = w]
  BY <1>1
<1> HIDE DEF i, w
<1>5. /\ conn' \in Conns /\ conn'.by = conn.by /\ conn'.fate = conn.fate
      /\ conn'.status = conn.status /\ conn'.sendBuf = conn.sendBuf
  BY <1>2, <1>3, <1>4 DEF Conns
<1>6. Settles(conn, conn') /\ Waiting(conn') = Waiting(conn)
  BY <1>5 DEF Settles, Waiting
<1>7. Clean(conn')
  BY <1>5, <1>6 DEF Good, Clean
<1>8. QED
  BY <1>5, <1>6, <1>7, StaysGood

LEMMA TurnGood ==
  ASSUME IInv, Turn
  PROVE  /\ Good(conn')
         /\ \A r \in Requests :
                r # next /\ conn.fate[r] # "waiting" =>
                    conn'.fate[r] = conn.fate[r]
<1>1. PICK c \in trySend(conn, next) : conn' \in checkTimeOut(c)
  BY DEF Turn
<1>2. next \in Requests /\ Good(conn) /\ conn.fate[next] = "new"
  BY DEF Turn, IInv, ToCome, Requests
<1>3. /\ Good(c)
      /\ \A s \in Requests \ {next} :
            conn.fate[s] # "waiting" => c.fate[s] = conn.fate[s]
  BY <1>1, <1>2, TrySendGood
<1>4. Good(conn') /\ Settles(c, conn')
  BY <1>1, <1>3, CheckTimeOutGood
<1>5. QED
  BY <1>3, <1>4 DEF Settles

(* Whatever a step does: the next request is the only new one to change.   *)
LEMMA StepGood ==
  ASSUME IInv, Next
  PROVE  /\ Good(conn') /\ UNCHANGED <<tcp, hasSeq>>
         /\ \/ Settles(conn, conn') /\ next' = next
            \/ /\ next \in Requests /\ next' = next + 1
               /\ \A r \in Requests :
                     r # next /\ conn.fate[r] # "waiting" =>
                         conn'.fate[r] = conn.fate[r]
<1>1. CASE Turn
  <2>1. UNCHANGED <<tcp, hasSeq>> /\ next \in Requests /\ next' = next + 1
    BY <1>1 DEF Turn
  <2>2. QED
    BY <1>1, <2>1, TurnGood
<1>2. CASE Watch
  <2>1. UNCHANGED <<tcp, hasSeq, next>> /\ conn' \in checkTimeOut(conn)
    BY <1>2 DEF Watch
  <2>2. QED
    BY <2>1, CheckTimeOutGood DEF IInv
<1>3. CASE handle
  <2>1. UNCHANGED <<tcp, hasSeq, next>>
    BY <1>3 DEF handle
  <2>2. QED
    BY <1>3, <2>1, HandleGood DEF IInv
<1>4. CASE Establish \/ Break \/ Shut
  <2>1. UNCHANGED <<tcp, hasSeq, next>>
    BY <1>4 DEF Establish, Break, Shut, Peer
  <2>2. QED
    BY <1>4, <2>1, PeerGood DEF IInv, Establish, Break, Shut
<1>5. CASE \E r \in Requests : Answer(r)
  <2>1. UNCHANGED <<tcp, hasSeq, next>>
    BY <1>5 DEF Answer
  <2>2. QED
    BY <1>5, <2>1, AnswerGood DEF IInv
<1>6. QED
  BY <1>1, <1>2, <1>3, <1>4, <1>5 DEF Next
-----------------------------------------------------------------------------
LEMMA Initially == Init => IInv
<1> SUFFICES ASSUME Init PROVE IInv
  OBVIOUS
<1> DEFINE f == [r \in Requests |-> "new"]
           b == [r \in Requests |-> Garbled]
<1>1. conn = [status |-> "none", peer |-> "none", sendBuf |-> << >>,
              wire |-> {}, inbox |-> << >>, fate |-> f, by |-> b]
  BY DEF Init
<1>2. f \in [Requests -> Fates] /\ b \in [Requests -> Requests \cup {Garbled}]
  BY DEF Fates
<1>3. \A r \in Requests : f[r] = "new"
  OBVIOUS
<1> HIDE DEF f, b
<1>4. conn \in Conns
  BY <1>1, <1>2, NoneInSeq DEF Conns
<1>5. Waiting(conn) = {}
  BY <1>1, <1>3 DEF Waiting
<1>6. Own(conn) /\ One(conn) /\ Clean(conn)
  BY <1>1, <1>3, <1>5 DEF Own, One, Clean
<1>7. Booleans /\ next \in 1 .. MaxSend + 1
  BY BoundAssumption DEF Init, Booleans
<1>8. ToCome
  BY <1>1, <1>3 DEF ToCome
<1>9. QED
  BY <1>4, <1>6, <1>7, <1>8 DEF IInv, Good

LEMMA Inductive == IInv /\ [Next]_vars => IInv'
<1> SUFFICES ASSUME IInv, [Next]_vars PROVE IInv'
  OBVIOUS
<1>1. CASE Next
  <2>1. Good(conn)' /\ Booleans'
    BY <1>1, StepGood DEF IInv, Good, Own, One, Clean, Waiting, Booleans
  <2>2. next' \in 1 .. MaxSend + 1 /\ ToCome'
    BY <1>1, StepGood, BoundAssumption DEF IInv, ToCome, Settles, Requests
  <2>3. QED
    BY <2>1, <2>2 DEF IInv
<1>2. CASE UNCHANGED vars
  BY <1>2 DEF vars, IInv, Booleans, Good, Own, One, Clean, Waiting, ToCome
<1>3. QED
  BY <1>1, <1>2

LEMMA AlwaysIInv == Spec => []IInv
  BY Initially, Inductive, PTL DEF Spec

(* The state of a connection has its type. *)
THEOREM TransportTypeCorrect == Spec => []TypeOK
<1>1. IInv => TypeOK
  BY DEF IInv, Booleans, Good, TypeOK
<1>2. QED
  BY <1>1, AlwaysIInv, PTL

(* With sequence numbers every answer is counted for its own request, for  *)
(* any number of requests, and whatever the network does to the answers.   *)
THEOREM AnswersAreOwn == Spec => []OwnAnswer
<1>1. IInv => OwnAnswer
  BY DEF IInv, Good, Own, OwnAnswer
<1>2. QED
  BY <1>1, AlwaysIInv, PTL

(* Without them one request at most waits for an answer. *)
THEOREM OnePending == Spec => []OneAtATime
<1>1. IInv => OneAtATime
  BY DEF IInv, Good, One, OneAtATime
<1>2. QED
  BY <1>1, AlwaysIInv, PTL

(* A connection that is made anew has nothing waiting and nothing to send. *)
THEOREM StartsClean == Spec => []CleanStart
<1>1. IInv => CleanStart
  BY DEF IInv, Good, Clean, CleanStart
<1>2. QED
  BY <1>1, AlwaysIInv, PTL

(* A request that has been settled stays as it was settled. *)
THEOREM SettledOnce == Spec => CountedOnce
<1>1. IInv /\ [Next]_vars =>
        [\A r \in Requests : Settled(r) => conn'.fate[r] = conn.fate[r]]_vars
  <2> SUFFICES ASSUME IInv, Next, NEW r \in Requests, Settled(r)
               PROVE  conn'.fate[r] = conn.fate[r]
    BY DEF vars
  <2>1. conn.fate[r] # "waiting" /\ conn.fate[r] # "new"
    BY DEF Settled
  <2>2. r # next
    BY <2>1 DEF IInv, ToCome, Requests
  <2>3. QED
    BY <2>1, <2>2, StepGood DEF Settles
<1>2. QED
  BY <1>1, AlwaysIInv, PTL DEF Spec, CountedOnce
=============================================================================
