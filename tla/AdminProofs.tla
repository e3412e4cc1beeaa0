---------------------------- MODULE AdminProofs ----------------------------
(***************************************************************************)
(* Proofs about the administrator, for every number of tasks, nodes,       *)
(* handlers and failures.                                                  *)
(***************************************************************************)
EXTENDS Admin, SumsProofs

(* The least of a set of numbers is one of them. *)
LEMMA MinFacts ==
    ASSUME NEW S \in SUBSET Nat, S # {}
    PROVE  Min(S) \in S /\ \A x \in S : Min(S) <= x
BY LeastExists DEF Min

LEMMA MinOfTwo ==
    ASSUME NEW a \in Nat, NEW b \in Nat
    PROVE  Min({a, b}) \in Nat /\ Min({a, b}) <= a /\ Min({a, b}) <= b
BY MinFacts

LEMMA NeedNat ==
    ASSUME NEW s \in Nat
    PROVE  need_thread(s) \in Nat
<1>1. MaxSpeed \in Nat \ {0} /\ s + MaxSpeed - 1 \in Nat
    BY AdminAssumption
<1> QED
    BY <1>1 DEF need_thread
-----------------------------------------------------------------------------
(* The handlers at work, when one more decides and when one has written.   *)
LEMMA OneMore ==
    ASSUME NEW b, IsABag(b), IsFiniteSet(DOMAIN b), NEW w
    PROVE  LET c == b (+) SetToBag({w})
           IN  /\ IsABag(c) /\ IsFiniteSet(DOMAIN c)
               /\ DOMAIN c = DOMAIN b \cup {w}
               /\ SumOf(c, DOMAIN c) = SumOf(b, DOMAIN b) + 1
<1> DEFINE c == b (+) SetToBag({w})
<1>1. /\ DOMAIN c = DOMAIN b \cup {w}
      /\ \A x \in DOMAIN c :
             c[x] = (IF x \in DOMAIN b THEN b[x] ELSE 0) + (IF x = w THEN 1 ELSE 0)
    BY DEF (+), SetToBag
<1>2. \A x \in DOMAIN b : b[x] \in Nat \ {0}
    BY DEF IsABag
<1>3. c = [x \in DOMAIN c |-> c[x]]
    BY DEF (+)
<1> HIDE DEF c
<1>4. \A x \in DOMAIN c : c[x] \in Nat \ {0}
    BY <1>1, <1>2
<1>5. IsABag(c)
    BY <1>3, <1>4 DEF IsABag
<1>6. IsFiniteSet(DOMAIN c)
    BY <1>1, FS_AddElement
<1>7. CASE w \in DOMAIN b
    <2>1. DOMAIN c = DOMAIN b
        BY <1>1, <1>7
    <2>2. /\ \A x \in DOMAIN b : b[x] \in Int /\ c[x] \in Int
          /\ \A x \in DOMAIN b \ {w} : c[x] = b[x]
          /\ c[w] = b[w] + 1
        BY <1>1, <1>2, <1>4, <1>7
    <2>3. SumOf(c, DOMAIN b) = SumOf(b, DOMAIN b) - b[w] + c[w]
        BY <1>7, <2>2, SumUpdate
    <2>4. SumOf(b, DOMAIN b) \in Nat
        BY <1>2, SumNat
    <2> QED
        BY <1>1, <1>2, <1>5, <1>6, <1>7, <2>1, <2>2, <2>3, <2>4 DEF c
<1>8. CASE w \notin DOMAIN b
    <2>1. \A x \in DOMAIN b : c[x] = b[x]
        BY <1>1, <1>2, <1>8
    <2>2. SumOf(c, DOMAIN b) = SumOf(b, DOMAIN b)
        BY <2>1, SumAgree
    <2>3. c[w] = 1
        BY <1>1, <1>8
    <2>4. SumOf(c, DOMAIN b \cup {w}) = SumOf(c, DOMAIN b) + c[w]
        BY <1>1, <1>4, <1>8, SumAdd
    <2> QED
        BY <1>1, <1>5, <1>6, <2>2, <2>3, <2>4 DEF c
<1> QED
    BY <1>7, <1>8

LEMMA OneLess ==
    ASSUME NEW b, IsABag(b), IsFiniteSet(DOMAIN b), NEW w \in DOMAIN b
    PROVE  LET c == b (-) SetToBag({w})
           IN  /\ IsABag(c) /\ IsFiniteSet(DOMAIN c)
               /\ DOMAIN c \subseteq DOMAIN b
               /\ SumOf(c, DOMAIN c) = SumOf(b, DOMAIN b) - 1
<1> DEFINE c == b (-) SetToBag({w})
           rest(x) == IF x = w THEN b[x] - 1 ELSE b[x]
<1>1. \A x \in DOMAIN b : b[x] \in Nat \ {0}
    BY DEF IsABag
<1>2. /\ DOMAIN c = {x \in DOMAIN b : rest(x) > 0}
      /\ \A x \in DOMAIN c : c[x] = rest(x)
      /\ c = [x \in DOMAIN c |-> c[x]]
    BY DEF (-), SetToBag
<1> HIDE DEF c
<1>3. \A x \in DOMAIN c : c[x] \in Nat \ {0}
    BY <1>1, <1>2
<1>4. IsABag(c)
    BY <1>2, <1>3 DEF IsABag
<1>5. DOMAIN c \subseteq DOMAIN b
    BY <1>2
<1>6. IsFiniteSet(DOMAIN c)
    BY <1>5, FS_Subset
<1>7. SumOf(b, DOMAIN b) \in Nat
    BY <1>1, SumNat
<1>8. CASE b[w] = 1
    <2>1. DOMAIN c = DOMAIN b \ {w} /\ \A x \in DOMAIN c : c[x] = b[x]
        BY <1>1, <1>2, <1>8
    <2>2. SumOf(c, DOMAIN c) = SumOf(b, DOMAIN c)
        BY <1>6, <2>1, SumAgree
    <2>3. SumOf(b, DOMAIN b) = b[w] + SumOf(b, DOMAIN b \ {w})
        BY <1>1, SumRemove
    <2>4. SumOf(b, DOMAIN c) \in Nat
        BY <1>1, <1>5, <1>6, SumNat
    <2>5. SumOf(c, DOMAIN c) = SumOf(b, DOMAIN b) - 1
        BY <1>8, <2>1, <2>2, <2>3, <2>4
    <2> QED
        BY <1>4, <1>5, <1>6, <2>5 DEF c
<1>9. CASE b[w] # 1
    <2>1. DOMAIN c = DOMAIN b
        BY <1>1, <1>2, <1>9
    <2>2. /\ \A x \in DOMAIN b : b[x] \in Int /\ c[x] \in Int
          /\ \A x \in DOMAIN b \ {w} : c[x] = b[x]
          /\ c[w] = b[w] - 1
        <3>1. \A x \in DOMAIN b : c[x] = rest(x)
            BY <1>2, <2>1
        <3>2. \A x \in DOMAIN b : b[x] \in Int
            BY <1>1
        <3> QED
            BY <3>1, <3>2
    <2>3. SumOf(c, DOMAIN b) = SumOf(b, DOMAIN b) - b[w] + c[w]
        <3>1. \A x \in DOMAIN b : b[x] \in Int /\ c[x] \in Int
            BY <2>2
        <3>2. \A x \in DOMAIN b \ {w} : c[x] = b[x]
            BY <2>2
        <3> QED
            BY <3>1, <3>2, SumUpdate
    <2>4. SumOf(c, DOMAIN c) = SumOf(b, DOMAIN b) - 1
        BY <1>1, <1>7, <2>1, <2>2, <2>3
    <2> QED
        BY <1>4, <1>5, <1>6, <2>4 DEF c
<1> QED
    BY <1>8, <1>9
-----------------------------------------------------------------------------
(* What a node runs never exceeds its threads: startup looks at the room.  *)
Room == \A n \in Nodes : SumOf(load[n], Keys) <= TotalThreads

LoadOK == load \in [Nodes -> [Keys -> 0 .. TotalThreads]] /\ Room

LEMMA FreeFacts ==
    ASSUME LoadOK, NEW n \in Nodes
    PROVE  FreeThreads(n) \in 0 .. TotalThreads
<1>1. \A k \in Keys : load[n][k] \in Nat
    BY DEF LoadOK
<1>2. SumOf(load[n], Keys) \in Nat
    BY <1>1, AdminAssumption, SumNat
<1> QED
    BY <1>2, AdminAssumption DEF FreeThreads, LoadOK, Room

(* A call changes what one task has on one node, and a start never takes   *)
(* threads away.                                                           *)
LEMMA ExecutedFacts ==
    ASSUME LoadOK, NEW c \in Calls, load' = Executed(c)
    PROVE  /\ LoadOK'
           /\ \A n \in Nodes, k \in Keys :
                  load'[n][k] < load[n][k] =>
                      c.stop /\ n = c.node /\ k = c.key
<1> DEFINE m == c.node
           j == c.key
           new == IF c.stop THEN 0
                  ELSE IF Accepts(c) THEN need_thread(c.speed) ELSE load[m][j]
           row == [load[m] EXCEPT ![j] = new]
<1>0. /\ m \in Nodes /\ j \in Keys /\ c.speed \in Nat
      /\ load \in [Nodes -> [Keys -> 0 .. TotalThreads]]
      /\ TotalThreads \in Nat /\ IsFiniteSet(Keys)
    BY AdminAssumption DEF Calls, LoadOK
<1>1. load' = [load EXCEPT ![m] = row]
    BY <1>0 DEF Executed
<1>2. load[m] \in [Keys -> 0 .. TotalThreads] /\ load[m][j] \in 0 .. TotalThreads
    BY <1>0
<1>3. SumOf(load[m], Keys) \in Nat /\ load[m][j] <= SumOf(load[m], Keys)
    <2>1. \A k \in Keys : load[m][k] \in Nat
        BY <1>2
    <2> QED
        BY <1>0, <2>1, SumNat
<1>4. /\ new \in Nat
      /\ ~ c.stop => load[m][j] <= new
      /\ SumOf(load[m], Keys) - load[m][j] + new <= TotalThreads
    <2>1. CASE c.stop
        BY <1>0, <1>2, <1>3, <2>1 DEF LoadOK, Room
    <2>2. CASE ~ c.stop /\ Accepts(c)
        BY <1>0, <1>2, <1>3, <2>2, NeedNat DEF Accepts, FreeThreads
    <2>3. CASE ~ c.stop /\ ~ Accepts(c)
        BY <1>0, <1>2, <1>3, <2>3 DEF LoadOK, Room
    <2> QED
        BY <2>1, <2>2, <2>3
<1> HIDE DEF new
<1>5. /\ row[j] = new /\ \A k \in Keys \ {j} : row[k] = load[m][k]
      /\ DOMAIN row = Keys /\ row = [k \in Keys |-> row[k]]
    BY <1>0, <1>2
<1> HIDE DEF row, m, j
<1>6. SumOf(row, Keys) = SumOf(load[m], Keys) - load[m][j] + new
    <2>1. \A k \in Keys : load[m][k] \in Int /\ row[k] \in Int
        BY <1>2, <1>4, <1>5
    <2>2. \A k \in Keys \ {j} : row[k] = load[m][k]
        BY <1>5
    <2>3. SumOf(row, Keys) = SumOf(load[m], Keys) - load[m][j] + row[j]
        BY <1>0, <2>1, <2>2, SumUpdate
    <2> QED
        BY <1>5, <2>3
<1>7. SumOf(row, Keys) <= TotalThreads /\ new <= TotalThreads
    BY <1>0, <1>2, <1>3, <1>4, <1>6
<1>8. row \in [Keys -> 0 .. TotalThreads]
    BY <1>0, <1>2, <1>4, <1>5, <1>7
<1>9. load' \in [Nodes -> [Keys -> 0 .. TotalThreads]]
    BY <1>0, <1>1, <1>8
<1>10. Room'
    BY <1>0, <1>1, <1>7 DEF LoadOK, Room
<1>11. ASSUME NEW n \in Nodes, NEW k \in Keys, load'[n][k] < load[n][k]
       PROVE  c.stop /\ n = m /\ k = j
    <2>1. n = m
        BY <1>0, <1>1, <1>11
    <2>2. load'[n] = row
        BY <1>0, <1>1, <2>1
    <2>3. k = j
        BY <1>0, <1>2, <1>5, <1>11, <2>1, <2>2
    <2> QED
        BY <1>2, <1>4, <1>5, <1>11, <2>1, <2>2, <2>3
<1> QED
    BY <1>9, <1>10, <1>11 DEF LoadOK, m, j

CallsOK == delayed \subseteq Calls /\ faults \in 0 .. MaxFaults

LEMMA CallFacts ==
    ASSUME LoadOK, CallsOK, NEW c \in Calls, Call(c)
    PROVE  /\ LoadOK' /\ CallsOK'
           /\ \A n \in Nodes, k \in Keys :
                  load'[n][k] < load[n][k] =>
                      c.stop /\ n = c.node /\ k = c.key
<1>1. CASE load' = Executed(c) /\ UNCHANGED <<delayed, faults>>
    BY <1>1, ExecutedFacts DEF CallsOK
<1>2. CASE /\ faults < MaxFaults /\ faults' = faults + 1
           /\ delayed' \in {delayed, delayed \cup {c}}
           /\ UNCHANGED load
    <2>1. LoadOK'
        BY <1>2 DEF LoadOK, Room
    <2>2. CallsOK'
        BY <1>2, AdminAssumption DEF CallsOK
    <2>3. \A n \in Nodes, k \in Keys : ~ (load[n][k] < load[n][k])
        BY DEF LoadOK
    <2> QED
        BY <1>2, <2>1, <2>2, <2>3
<1> QED
    BY <1>1, <1>2 DEF Call
-----------------------------------------------------------------------------
(* The invariant.  What is taken from a node is never a task that runs:    *)
(* the daemon holds a key it is about to stop only while the table does    *)
(* not have it as running, and no handler writes that state.               *)
TableOK ==
    DOMAIN task \subseteq Keys /\ \A k \in DOMAIN task : task[k] \in Tasks

SeenOK ==
    /\ left \in [Nodes -> Nat]
    /\ executors \in [Nodes -> SUBSET Keys]
    /\ timer \in 0 .. Late

DaemonStates ==
    [at : Places, key : Keys \cup {0}, conf : Confs \cup {None},
     left : Nat, todo : SUBSET Nodes, quota : SUBSET Nodes]

DaemonOK ==
    /\ daemon \in DaemonStates
    /\ daemon.at = "found" =>
           /\ daemon.key \in Keys /\ ~ In(daemon.key, "running")
           /\ \E n \in Nodes : daemon.todo = {n}
    /\ daemon.at = "start" =>
           /\ daemon.key \in Keys /\ daemon.key \in DOMAIN task
           /\ daemon.conf \in Confs /\ daemon.left <= daemon.conf.speed
    /\ daemon.at = "stop" => daemon.key \in Keys /\ ~ In(daemon.key, "running")

HandlersOK ==
    /\ BagToSet(pending) \subseteq Writes /\ IsABag(pending)
    /\ IsFiniteSet(BagToSet(pending))
    /\ Busy <= MaxHandlers
    /\ \A w \in BagToSet(pending) : w.task.state # "running"
    /\ requests \in 0 .. MaxRequests

IInv == TableOK /\ SeenOK /\ DaemonOK /\ HandlersOK /\ LoadOK /\ CallsOK

(* What NoWrongStop asks of a step. *)
Careful ==
    \A n \in Nodes, k \in DOMAIN task :
        load'[n][k] < load[n][k] => task[k].state # "running"

LEMMA InvIsType == IInv => TypeOK
BY DEF IInv, TypeOK, TableOK, SeenOK, DaemonOK, DaemonStates, HandlersOK, LoadOK,
       CallsOK

LEMMA AtState ==
    ASSUME NEW place \in Places
    PROVE  At(place) \in DaemonStates /\ At(place).at = place
BY DEF At, DaemonStates

LEMMA BehindState ==
    ASSUME NEW k \in Keys \cup {0}
    PROVE  Behind(k) \in DaemonStates /\ Behind(k).at = "walk"
BY DEF Behind, At, DaemonStates, Places

LEMMA SameLoad ==
    ASSUME LoadOK, TableOK, UNCHANGED load
    PROVE  LoadOK' /\ Careful
<1>1. LoadOK'
    BY DEF LoadOK, Room
<1>2. \A n \in Nodes, k \in Keys : ~ (load[n][k] < load[n][k])
    BY DEF LoadOK
<1> QED
    BY <1>1, <1>2 DEF Careful, TableOK

LEMMA SameHandlers ==
    ASSUME HandlersOK, UNCHANGED handlerVars
    PROVE  HandlersOK'
BY DEF HandlersOK, handlerVars, Busy

LEMMA NoneAtWork == BagToSet(EmptyBag) = {} /\ IsABag(EmptyBag)
<1>1. EmptyBag = [x \in {} |-> 1]
    BY DEF EmptyBag, SetToBag
<1> QED
    BY <1>1 DEF BagToSet, IsABag

LEMMA InitInv == Init => IInv
<1> SUFFICES ASSUME Init PROVE IInv
    OBVIOUS
<1>1. TableOK
    BY DEF Init, Start, TableOK
<1>2. SeenOK
    BY AdminAssumption DEF Init, Start, SeenOK
<1>3. DaemonOK
    BY AtState DEF Init, Start, DaemonOK, Places
<1>4. HandlersOK
    <2>1. BagToSet(pending) = {}
        BY NoneAtWork DEF Init, Start
    <2>2. IsABag(pending)
        BY NoneAtWork DEF Init, Start
    <2>3. Busy = 0
        BY <2>1, SumEmpty DEF Busy
    <2>4. IsFiniteSet({}) /\ requests = 0
        BY FS_EmptySet DEF Init
    <2> QED
        BY <2>1, <2>2, <2>3, <2>4, AdminAssumption DEF HandlersOK
<1>5. LoadOK
    <2>1. load \in [Nodes -> [Keys -> 0 .. TotalThreads]]
        BY AdminAssumption DEF Init
    <2>2. ASSUME NEW n \in Nodes
          PROVE  SumOf(load[n], Keys) <= TotalThreads
        <3>1. \A k \in Keys : load[n][k] = 0
            BY <2>2 DEF Init
        <3>2. SumOf(load[n], Keys) = 0
            BY <3>1, AdminAssumption, SumZero
        <3> QED
            BY <3>2, AdminAssumption
    <2> QED
        BY <2>1, <2>2 DEF LoadOK, Room
<1>6. CallsOK
    BY AdminAssumption DEF Init, CallsOK
<1> QED
    BY <1>1, <1>2, <1>3, <1>4, <1>5, <1>6 DEF IInv
-----------------------------------------------------------------------------
(* The daemon's steps. *)

LEMMA ScanStep ==
    ASSUME IInv, scanActiveNode
    PROVE  IInv' /\ Careful
<1> USE DEF IInv
<1>1. TableOK'
    BY DEF scanActiveNode, TableOK
<1>2. SeenOK'
    <2>1. \A n \in Nodes : FreeThreads(n) * MaxSpeed \in Nat
        BY FreeFacts, AdminAssumption
    <2>2. Scan => /\ left' \in [Nodes -> Nat]
                  /\ executors' \in [Nodes -> SUBSET Keys]
        BY <2>1 DEF Scan
    <2>3. timer' \in 0 .. Late
        BY AdminAssumption DEF scanActiveNode, SeenOK
    <2> QED
        BY <2>2, <2>3 DEF scanActiveNode, SeenOK
<1>3. DaemonOK'
    <2>1. daemon' = At("clean") \/ daemon' = At("walk")
        BY DEF scanActiveNode
    <2> QED
        BY <2>1, AtState DEF DaemonOK, Places
<1>4. HandlersOK'
    BY SameHandlers DEF scanActiveNode
<1>5. LoadOK' /\ Careful
    BY SameLoad DEF scanActiveNode
<1>6. CallsOK'
    BY AdminAssumption DEF scanActiveNode, CallsOK
<1> QED
    BY <1>1, <1>2, <1>3, <1>4, <1>5, <1>6

LEMMA CleanStep ==
    ASSUME IInv, Clean
    PROVE  IInv' /\ Careful
<1> USE DEF IInv
<1>1. TableOK' /\ SeenOK' /\ CallsOK'
    BY DEF Clean, TableOK, SeenOK, CallsOK, summary, nodeVars
<1>2. DaemonOK'
    <2>1. CASE daemon' = At("walk")
        BY <2>1, AtState DEF DaemonOK, Places
    <2>2. ASSUME NEW n \in Nodes, NEW k \in Unknown(n),
                 daemon' = [At("found") EXCEPT !.key = k, !.todo = {n}]
          PROVE  DaemonOK'
        <3>1. k \in Keys /\ k \notin DOMAIN task
            BY <2>2 DEF Unknown, SeenOK
        <3>2. /\ daemon' \in DaemonStates /\ daemon'.at = "found"
              /\ daemon'.key = k /\ daemon'.todo = {n}
            BY <2>2, <3>1 DEF At, DaemonStates, Places
        <3>3. task' = task
            BY DEF Clean, summary
        <3>4. ~ In(k, "running")'
            BY <3>1, <3>3 DEF In
        <3> QED
            BY <3>1, <3>2, <3>4 DEF DaemonOK, In
    <2> QED
        BY <2>1, <2>2 DEF Clean
<1>3. HandlersOK'
    BY SameHandlers DEF Clean
<1>4. LoadOK' /\ Careful
    BY SameLoad DEF Clean, nodeVars
<1> QED
    BY <1>1, <1>2, <1>3, <1>4

LEMMA CleanCallStep ==
    ASSUME IInv, CleanCall
    PROVE  IInv' /\ Careful
<1> USE DEF IInv
<1>1. PICK n \in Nodes : daemon.todo = {n}
    BY DEF CleanCall, DaemonOK
<1>2. daemon.key \in Keys /\ ~ In(daemon.key, "running")
    BY DEF CleanCall, DaemonOK
<1>3. /\ Call(StopCall(n, daemon.key))
      /\ executors' = [executors EXCEPT ![n] = @ \ {daemon.key}]
    BY <1>1 DEF CleanCall
<1>4. /\ StopCall(n, daemon.key) \in Calls
      /\ StopCall(n, daemon.key).key = daemon.key
    BY <1>2 DEF StopCall, Calls
<1>5. /\ LoadOK' /\ CallsOK'
      /\ \A m \in Nodes, k \in Keys : load'[m][k] < load[m][k] => k = daemon.key
    BY <1>3, <1>4, CallFacts
<1>6. Careful
    BY <1>2, <1>5 DEF Careful, In, TableOK
<1>7. TableOK'
    BY DEF CleanCall, TableOK
<1>8. SeenOK'
    BY <1>3 DEF CleanCall, SeenOK
<1>9. DaemonOK'
    BY AtState DEF CleanCall, DaemonOK, Places
<1>10. HandlersOK'
    BY SameHandlers DEF CleanCall
<1> QED
    BY <1>5, <1>6, <1>7, <1>8, <1>9, <1>10

LEMMA WalkStep ==
    ASSUME IInv, Walk
    PROVE  IInv' /\ Careful
<1> USE DEF IInv
<1>1. TableOK' /\ CallsOK'
    BY DEF Walk, TableOK, CallsOK, summary, nodeVars
<1>2. SeenOK'
    <2>1. timer' \in {timer, Soon}
        BY DEF Walk
    <2> QED
        BY <2>1, AdminAssumption DEF Walk, SeenOK, summary
<1>3. DaemonOK'
    <2>1. CASE daemon' = At("turn")
        BY <2>1, AtState DEF DaemonOK, Places
    <2>2. CASE Following # {} /\ daemon' = Visit(Min(Following))
        <3>1. PICK k \in DOMAIN task : k = Min(Following)
            <4>1. Following \in SUBSET Nat
                BY AdminAssumption DEF Following, TableOK
            <4>2. Min(Following) \in Following
                BY <2>2, <4>1, MinFacts
            <4> QED
                BY <4>2 DEF Following
        <3>2. k \in Keys /\ task[k] \in Tasks
            BY <3>1 DEF TableOK
        <3>3. task[k].conf \in Confs /\ task[k].speed_quota \in SUBSET Nodes
            BY <3>2 DEF Tasks
        <3>4. task[k].conf.speed \in Nat
            BY <3>3, ConfAssumption
        <3>5. task' = task
            BY DEF Walk, summary
        <3>6. CASE task[k].state = "idle"
            <4>1. Visit(k) = [At("start") EXCEPT !.key = k, !.conf = task[k].conf,
                                  !.left = task[k].conf.speed, !.todo = Nodes]
                BY <3>6 DEF Visit
            <4>2. /\ Visit(k) \in DaemonStates /\ Visit(k).at = "start"
                  /\ Visit(k).key = k /\ Visit(k).conf = task[k].conf
                  /\ Visit(k).left = task[k].conf.speed
                BY <3>2, <3>3, <3>4, <4>1 DEF At, DaemonStates, Places
            <4>3. Visit(k).left <= Visit(k).conf.speed
                BY <3>4, <4>2
            <4> QED
                BY <2>2, <3>1, <3>2, <3>3, <3>5, <4>2, <4>3 DEF DaemonOK
        <3>7. CASE task[k].state = "running"
            <4>1. Visit(k) = [At("query") EXCEPT !.key = k]
                BY <3>7 DEF Visit
            <4>2. Visit(k) \in DaemonStates /\ Visit(k).at = "query"
                BY <3>2, <4>1 DEF At, DaemonStates, Places
            <4> QED
                BY <2>2, <3>1, <4>2 DEF DaemonOK
        <3>8. CASE task[k].state = "finished"
            <4>1. Visit(k) = [At("stop") EXCEPT !.key = k,
                                                !.todo = task[k].speed_quota]
                BY <3>8 DEF Visit
            <4>2. /\ Visit(k) \in DaemonStates /\ Visit(k).at = "stop"
                  /\ Visit(k).key = k
                <5> DEFINE nodes == task[k].speed_quota
                <5>1. nodes \in SUBSET Nodes
                    BY <3>3
                <5> HIDE DEF nodes
                <5>2. Visit(k) = [At("stop") EXCEPT !.key = k, !.todo = nodes]
                    BY <4>1 DEF nodes
                <5>3. Visit(k) = [at |-> "stop", key |-> k, conf |-> None,
                                  left |-> 0, todo |-> nodes, quota |-> {}]
                    BY <5>2 DEF At
                <5> QED
                    BY <3>2, <5>1, <5>3 DEF DaemonStates, Places
            <4>3. ~ In(k, "running")'
                BY <3>5, <3>8 DEF In
            <4> QED
                BY <2>2, <3>1, <3>2, <4>2, <4>3 DEF DaemonOK, In
        <3> QED
            BY <3>2, <3>6, <3>7, <3>8 DEF Tasks
    <2> QED
        BY <2>1, <2>2 DEF Walk
<1>4. HandlersOK'
    BY SameHandlers DEF Walk
<1>5. LoadOK' /\ Careful
    BY SameLoad DEF Walk, nodeVars
<1> QED
    BY <1>1, <1>2, <1>3, <1>4, <1>5

LEMMA StartNodeStep ==
    ASSUME IInv, StartNode
    PROVE  IInv' /\ Careful
<1> USE DEF IInv
<1>1. PICK n \in Nodes : n = Min(daemon.todo)
    <2>1. daemon.todo \in SUBSET Nat /\ daemon.todo \in SUBSET Nodes
        BY AdminAssumption DEF DaemonOK, DaemonStates
    <2> QED
        BY <2>1, MinFacts DEF StartNode
<1>2. /\ daemon.key \in Keys /\ daemon.key \in DOMAIN task /\ daemon.at = "start"
      /\ daemon.conf \in Confs /\ daemon.left <= daemon.conf.speed /\ daemon.left > 0
    BY DEF StartNode, DaemonOK
<1>3. left[n] \in Nat /\ daemon.left \in Nat
    BY DEF SeenOK, DaemonOK, DaemonStates
<1>4. PICK speed \in Nat : /\ speed = Min({left[n], daemon.left})
                           /\ speed <= left[n] /\ speed <= daemon.left
    BY <1>3, MinOfTwo
<1>5. PICK links \in Int :
          links = (task[daemon.key].conf.links * speed) \div daemon.conf.speed
    <2>1. daemon.conf.speed \in Nat \ {0}
        BY <1>2, <1>3, ConfAssumption
    <2>2. task[daemon.key].conf.links * speed \in Int
        <3>1. task[daemon.key].conf \in Confs
            BY <1>2 DEF TableOK, Tasks
        <3>2. task[daemon.key].conf.links \in Int
            BY <3>1, ConfAssumption
        <3> QED
            BY <3>2
    <2> QED
        BY <2>1, <2>2
<1>6. IF speed > 0 /\ links > 0
      THEN /\ Call(StartCall(n, daemon.key, links, speed))
           /\ left' = [left EXCEPT ![n] = @ - speed]
           /\ timer' = Soon
           /\ daemon' = [daemon EXCEPT !.todo = @ \ {n}, !.left = @ - speed,
                                       !.quota = @ \cup {n}]
      ELSE /\ daemon' = [daemon EXCEPT !.todo = @ \ {n}]
           /\ UNCHANGED <<left, timer, nodeVars>>
    BY <1>1, <1>4, <1>5 DEF StartNode
<1>7. UNCHANGED <<task, executors, handlerVars>>
    BY DEF StartNode
<1>8. TableOK' /\ HandlersOK'
    BY <1>7, SameHandlers DEF TableOK
<1>9. CASE speed > 0 /\ links > 0
    <2> DEFINE c == StartCall(n, daemon.key, links, speed)
    <2>1. c \in Calls /\ c.stop = FALSE
        <3>1. links \in Nat
            BY <1>9
        <3> QED
            BY <1>2, <3>1 DEF StartCall, Calls
    <2>2. Call(c)
        BY <1>6, <1>9
    <2> HIDE DEF c
    <2>3. /\ LoadOK' /\ CallsOK'
          /\ \A m \in Nodes, k \in Keys : ~ (load'[m][k] < load[m][k])
        BY <2>1, <2>2, CallFacts
    <2>4. Careful
        BY <2>3 DEF Careful, TableOK
    <2>5. SeenOK'
        <3>1. left[n] - speed \in Nat
            BY <1>3, <1>4
        <3>2. left' \in [Nodes -> Nat]
            BY <1>6, <1>9, <3>1 DEF SeenOK
        <3> QED
            BY <1>6, <1>7, <1>9, <3>2, AdminAssumption DEF SeenOK
    <2>6. DaemonOK'
        <3>1. PICK rest \in Nat : rest = daemon.left - speed
            BY <1>3, <1>4
        <3>2. daemon' = [daemon EXCEPT !.todo = daemon.todo \ {n}, !.left = rest,
                                       !.quota = daemon.quota \cup {n}]
            BY <1>6, <1>9, <3>1
        <3>3. daemon \in DaemonStates
            BY DEF DaemonOK
        <3> HIDE DEF IInv
        <3>4. /\ daemon' \in DaemonStates /\ daemon'.at = "start"
              /\ daemon'.key = daemon.key /\ daemon'.conf = daemon.conf
              /\ daemon'.left = rest
            BY <1>2, <3>2, <3>3 DEF DaemonStates
        <3>5. rest <= daemon.conf.speed
            BY <1>2, <1>3, <3>1, ConfAssumption
        <3> QED
            BY <1>2, <1>7, <3>4, <3>5 DEF DaemonOK
    <2> QED
        BY <1>8, <2>3, <2>4, <2>5, <2>6
<1>10. CASE ~ (speed > 0 /\ links > 0)
    <2>1. LoadOK' /\ Careful /\ CallsOK'
        BY <1>6, <1>10, SameLoad DEF CallsOK, nodeVars
    <2>2. SeenOK'
        BY <1>6, <1>7, <1>10 DEF SeenOK
    <2>3. DaemonOK'
        <3>1. /\ daemon' \in DaemonStates /\ daemon'.at = "start"
              /\ daemon'.key = daemon.key /\ daemon'.conf = daemon.conf
              /\ daemon'.left = daemon.left
            BY <1>2, <1>6, <1>10 DEF DaemonOK, DaemonStates
        <3> QED
            BY <1>2, <1>7, <3>1 DEF DaemonOK
    <2> QED
        BY <1>8, <2>1, <2>2, <2>3
<1> QED
    BY <1>9, <1>10

LEMMA StartedStep ==
    ASSUME IInv, Started
    PROVE  IInv' /\ Careful
<1> USE DEF IInv
<1>1. daemon.key \in Keys /\ daemon.quota \in SUBSET Nodes
    BY DEF Started, DaemonOK, DaemonStates
<1>2. TableOK'
    <2>1. DOMAIN task' = DOMAIN task
        BY DEF Started
    <2>2. ASSUME NEW k \in DOMAIN task
          PROVE  task'[k] \in Tasks
        <3>1. task[k] \in Tasks
            BY <2>2 DEF TableOK
        <3>2. task'[k] = IF k = daemon.key
                         THEN [task[k] EXCEPT !.state = "running",
                                              !.speed_quota = daemon.quota]
                         ELSE task[k]
            BY <2>2 DEF Started
        <3> QED
            BY <1>1, <3>1, <3>2 DEF Tasks
    <2> QED
        BY <2>1, <2>2 DEF TableOK
<1>3. SeenOK' /\ CallsOK'
    BY DEF Started, SeenOK, CallsOK, nodeVars
<1>4. DaemonOK'
    BY <1>1, BehindState DEF Started, DaemonOK
<1>5. HandlersOK'
    BY SameHandlers DEF Started
<1>6. LoadOK' /\ Careful
    BY SameLoad DEF Started, nodeVars
<1> QED
    BY <1>2, <1>3, <1>4, <1>5, <1>6

LEMMA QueryStep ==
    ASSUME IInv, Query
    PROVE  IInv' /\ Careful
<1> USE DEF IInv
<1>1. daemon.key \in Keys \cup {0}
    BY DEF DaemonOK, DaemonStates
<1>2. TableOK'
    <2>1. DOMAIN task' = DOMAIN task
        BY DEF Query
    <2>2. ASSUME NEW k \in DOMAIN task
          PROVE  task'[k] \in Tasks
        <3>1. task[k] \in Tasks
            BY <2>2 DEF TableOK
        <3>2. \/ task'[k] = task[k]
              \/ task'[k] = [task[k] EXCEPT !.state = "finished"]
            BY <2>2 DEF Query
        <3> QED
            BY <3>1, <3>2 DEF Tasks
    <2> QED
        BY <2>1, <2>2 DEF TableOK
<1>3. SeenOK' /\ CallsOK'
    BY DEF Query, SeenOK, CallsOK, nodeVars
<1>4. DaemonOK'
    BY <1>1, BehindState DEF Query, DaemonOK
<1>5. HandlersOK'
    BY SameHandlers DEF Query
<1>6. LoadOK' /\ Careful
    BY SameLoad DEF Query, nodeVars
<1> QED
    BY <1>2, <1>3, <1>4, <1>5, <1>6

LEMMA StopNodeStep ==
    ASSUME IInv, StopNode
    PROVE  IInv' /\ Careful
<1> USE DEF IInv
<1>1. daemon.key \in Keys /\ ~ In(daemon.key, "running") /\ daemon.at = "stop"
    BY DEF StopNode, DaemonOK
<1>2. PICK n \in Nodes : n = Min(daemon.todo)
    <2>1. daemon.todo \in SUBSET Nat /\ daemon.todo \in SUBSET Nodes
        BY AdminAssumption DEF DaemonOK, DaemonStates
    <2> QED
        BY <2>1, MinFacts DEF StopNode
<1>3. /\ Call(StopCall(n, daemon.key))
      /\ daemon' = [daemon EXCEPT !.todo = @ \ {n}]
    BY <1>2 DEF StopNode
<1>4. /\ StopCall(n, daemon.key) \in Calls
      /\ StopCall(n, daemon.key).key = daemon.key
    BY <1>1 DEF StopCall, Calls
<1>5. /\ LoadOK' /\ CallsOK'
      /\ \A m \in Nodes, k \in Keys : load'[m][k] < load[m][k] => k = daemon.key
    BY <1>3, <1>4, CallFacts
<1>6. Careful
    BY <1>1, <1>5 DEF Careful, In, TableOK
<1>7. TableOK' /\ SeenOK' /\ task' = task
    BY DEF StopNode, TableOK, SeenOK, summary
<1>8. DaemonOK'
    <2>1. /\ daemon' \in DaemonStates /\ daemon'.at = "stop"
          /\ daemon'.key = daemon.key
        BY <1>1, <1>3 DEF DaemonOK, DaemonStates
    <2> QED
        BY <1>1, <1>7, <2>1 DEF DaemonOK, In
<1>9. HandlersOK'
    BY SameHandlers DEF StopNode
<1> QED
    BY <1>5, <1>6, <1>7, <1>8, <1>9

LEMMA StoppedStep ==
    ASSUME IInv, Stopped
    PROVE  IInv' /\ Careful
<1> USE DEF IInv
<1>1. daemon.key \in Keys
    BY DEF Stopped, DaemonOK
<1>2. TableOK'
    BY DEF Stopped, Erased, TableOK
<1>3. SeenOK' /\ CallsOK'
    BY DEF Stopped, SeenOK, CallsOK, nodeVars
<1>4. DaemonOK'
    BY <1>1, BehindState DEF Stopped, DaemonOK
<1>5. HandlersOK'
    BY SameHandlers DEF Stopped
<1>6. LoadOK' /\ Careful
    BY SameLoad DEF Stopped, nodeVars
<1> QED
    BY <1>2, <1>3, <1>4, <1>5, <1>6

LEMMA DaemonStep ==
    ASSUME IInv, Daemon
    PROVE  IInv' /\ Careful
BY ScanStep, CleanStep, CleanCallStep, WalkStep, StartNodeStep, StartedStep,
   QueryStep, StopNodeStep, StoppedStep DEF Daemon
-----------------------------------------------------------------------------
(* The handlers' steps, and the failures. *)

LEMMA DecideStep ==
    ASSUME IInv, NEW k \in Keys, NEW t \in Tasks, t.state # "running",
           Decide(k, t), requests' \in 0 .. MaxRequests
    PROVE  IInv'
<1> USE DEF IInv
<1> DEFINE w == [key |-> k, task |-> t]
<1>1. w \in Writes
    BY DEF Writes
<1>2. pending' = pending (+) SetToBag({w})
    BY DEF Decide
<1>3. w.task.state # "running"
    OBVIOUS
<1> HIDE DEF w
<1>4. /\ IsABag(pending') /\ IsFiniteSet(DOMAIN pending')
      /\ DOMAIN pending' = DOMAIN pending \cup {w}
      /\ SumOf(pending', DOMAIN pending') = SumOf(pending, DOMAIN pending) + 1
    BY <1>2, OneMore DEF HandlersOK, BagToSet
<1>5. SumOf(pending, DOMAIN pending) \in Nat
    BY SumNat DEF HandlersOK, BagToSet, IsABag
<1>6. Busy' <= MaxHandlers
    BY <1>4, <1>5, AdminAssumption DEF Decide, Busy, BagToSet
<1>7. HandlersOK'
    BY <1>1, <1>3, <1>4, <1>6 DEF HandlersOK, BagToSet
<1>8. TableOK' /\ SeenOK' /\ DaemonOK' /\ LoadOK' /\ CallsOK'
    BY DEF Decide, TableOK, SeenOK, DaemonOK, In, LoadOK, Room, CallsOK, summary,
           nodeVars
<1> QED
    BY <1>7, <1>8

LEMMA RequestStep ==
    ASSUME IInv, NEW k \in Keys,
           shutdown(k) \/ \E conf \in Confs : startup(k, conf)
    PROVE  IInv'
<1>1. CASE shutdown(k)
    <2>1. task[k] \in Tasks
        BY <1>1 DEF shutdown, IInv, TableOK
    <2>2. /\ [task[k] EXCEPT !.state = "finished"] \in Tasks
          /\ [task[k] EXCEPT !.state = "finished"].state # "running"
        BY <2>1 DEF Tasks
    <2>3. requests' \in 0 .. MaxRequests
        BY <1>1 DEF shutdown, IInv, HandlersOK
    <2> QED
        BY <1>1, <2>2, <2>3, DecideStep DEF shutdown
<1>2. ASSUME NEW conf \in Confs, startup(k, conf)
      PROVE  IInv'
    <2>1. [state |-> "idle", conf |-> conf, speed_quota |-> {}] \in Tasks
        BY DEF Tasks
    <2>2. requests' \in 0 .. MaxRequests
        BY <1>2, AdminAssumption DEF startup, IInv, HandlersOK
    <2> QED
        BY <1>2, <2>1, <2>2, DecideStep DEF startup
<1> QED
    BY <1>1, <1>2

LEMMA WriteStep ==
    ASSUME IInv, NEW w \in BagToSet(pending), updateTask(w)
    PROVE  IInv'
<1> USE DEF IInv
<1>1. w \in Writes /\ w.task.state # "running"
    BY DEF HandlersOK
<1>2. w.key \in Keys /\ w.task \in Tasks /\ w.task.speed_quota \in SUBSET Nodes
    BY <1>1 DEF Writes, Tasks
<1>3. task' = Put(w.key, w.task)
    BY DEF updateTask
<1>4. TableOK'
    BY <1>2, <1>3 DEF Put, TableOK
<1>5. \A k \in Keys : ~ In(k, "running") => ~ In(k, "running")'
    BY <1>1, <1>3 DEF Put, In
<1>6. DaemonOK'
    <2>1. CASE UNCHANGED daemon
        <3>1. \A k \in DOMAIN task : k \in DOMAIN task'
            BY <1>3 DEF Put
        <3> QED
            BY <1>5, <2>1, <3>1 DEF DaemonOK
    <2>2. ASSUME NEW rest \in SUBSET (daemon.todo \cup w.task.speed_quota),
                 daemon.at = "stop", daemon' = [daemon EXCEPT !.todo = rest]
          PROVE  DaemonOK'
        <3>1. rest \in SUBSET Nodes
            BY <1>2 DEF DaemonOK, DaemonStates
        <3>2. /\ daemon' \in DaemonStates /\ daemon'.at = "stop"
              /\ daemon'.key = daemon.key
            BY <2>2, <3>1 DEF DaemonOK, DaemonStates
        <3>3. daemon.key \in Keys /\ ~ In(daemon.key, "running")
            BY <2>2 DEF DaemonOK
        <3>4. ~ In(daemon.key, "running")'
            BY <1>1, <1>3, <3>2, <3>3 DEF Put, In
        <3> QED
            BY <3>2, <3>3, <3>4 DEF DaemonOK, In
    <2> QED
        BY <2>1, <2>2 DEF updateTask
<1>7. HandlersOK'
    <2>1. pending' = pending (-) SetToBag({w})
        BY DEF updateTask
    <2>2. /\ IsABag(pending') /\ IsFiniteSet(DOMAIN pending')
          /\ DOMAIN pending' \subseteq DOMAIN pending
          /\ SumOf(pending', DOMAIN pending') = SumOf(pending, DOMAIN pending) - 1
        BY <2>1, OneLess DEF HandlersOK, BagToSet
    <2>3. SumOf(pending, DOMAIN pending) \in Nat
        BY SumNat DEF HandlersOK, BagToSet, IsABag
    <2>4. Busy' <= MaxHandlers
        BY <2>2, <2>3, AdminAssumption DEF HandlersOK, Busy, BagToSet
    <2> QED
        BY <2>2, <2>4 DEF HandlersOK, BagToSet, updateTask
<1>8. SeenOK' /\ LoadOK' /\ CallsOK'
    BY DEF updateTask, SeenOK, LoadOK, Room, CallsOK, nodeVars
<1> QED
    BY <1>4, <1>6, <1>7, <1>8

LEMMA FailureStep ==
    ASSUME IInv, \/ \E c \in delayed : Arrive(c)
                 \/ \E n \in Nodes : NodeRestart(n)
                 \/ AdminRestart
    PROVE  IInv'
<1> USE DEF IInv
<1>1. ASSUME NEW c \in delayed, Arrive(c)
      PROVE  IInv'
    <2>1. c \in Calls
        BY DEF CallsOK
    <2>2. LoadOK'
        BY <1>1, <2>1, ExecutedFacts DEF Arrive
    <2>3. CallsOK'
        BY <1>1 DEF Arrive, CallsOK
    <2>4. TableOK' /\ SeenOK' /\ DaemonOK' /\ HandlersOK'
        BY <1>1, SameHandlers
           DEF Arrive, TableOK, SeenOK, DaemonOK, In, summary
    <2> QED
        BY <2>2, <2>3, <2>4
<1>2. ASSUME NEW n \in Nodes, NodeRestart(n)
      PROVE  IInv'
    <2>1. LoadOK'
        <3>1. load' \in [Nodes -> [Keys -> 0 .. TotalThreads]]
            BY <1>2, AdminAssumption DEF NodeRestart, LoadOK
        <3>2. load'[n] = [k \in Keys |-> 0]
            BY <1>2 DEF NodeRestart, LoadOK
        <3>3. SumOf(load'[n], Keys) = 0
            BY <3>2, AdminAssumption, SumZero
        <3>4. \A m \in Nodes : m # n => load'[m] = load[m]
            BY <1>2 DEF NodeRestart, LoadOK
        <3> QED
            BY <3>1, <3>3, <3>4, AdminAssumption DEF LoadOK, Room
    <2>2. CallsOK'
        BY <1>2, AdminAssumption DEF NodeRestart, CallsOK
    <2>3. TableOK' /\ SeenOK' /\ DaemonOK' /\ HandlersOK'
        BY <1>2, SameHandlers
           DEF NodeRestart, TableOK, SeenOK, DaemonOK, In, summary
    <2> QED
        BY <2>1, <2>2, <2>3
<1>3. CASE AdminRestart
    <2>1. TableOK'
        BY <1>3 DEF AdminRestart, TableOK
    <2>2. SeenOK'
        BY <1>3, AdminAssumption DEF AdminRestart, SeenOK
    <2>3. DaemonOK'
        BY <1>3, AtState DEF AdminRestart, DaemonOK, Places
    <2>4. HandlersOK'
        <3>1. BagToSet(pending') = {} /\ IsABag(pending')
            BY <1>3, NoneAtWork DEF AdminRestart
        <3>2. Busy' = 0
            BY <3>1, SumEmpty DEF Busy
        <3>3. requests' \in 0 .. MaxRequests
            BY <1>3 DEF AdminRestart, HandlersOK
        <3> QED
            BY <3>1, <3>2, <3>3, FS_EmptySet, AdminAssumption DEF HandlersOK
    <2>5. LoadOK' /\ CallsOK'
        BY <1>3, AdminAssumption DEF AdminRestart, LoadOK, Room, CallsOK
    <2> QED
        BY <2>1, <2>2, <2>3, <2>4, <2>5
<1> QED
    BY <1>1, <1>2, <1>3

LEMMA NextInv ==
    ASSUME IInv, [Next]_vars
    PROVE  IInv'
<1>1. CASE UNCHANGED vars
    BY <1>1, SameHandlers
       DEF IInv, TableOK, SeenOK, DaemonOK, In, LoadOK, Room, CallsOK,
           vars, summary, nodeVars
<1> QED
    BY <1>1, DaemonStep, RequestStep, WriteStep, FailureStep DEF Next

LEMMA InvAlways == Spec => []IInv
BY InitInv, NextInv, PTL DEF Spec

(* The administrator's state has its type; in particular no node ever runs *)
(* more threads than it has, no speed that is left goes below 0, and no    *)
(* more handlers are at work than there are threads for, whatever fails    *)
(* and restarts (AdminServer.cpp, AdminImp.cpp; NodeImp.cpp:99-107).       *)
THEOREM AdminTypeCorrect == Spec => []TypeOK
BY InvAlways, InvIsType, PTL

(* The daemon never takes threads from a task that the table has as        *)
(* running, however its stale readings, the handlers' late writes and the  *)
(* failed calls interleave (AdminServer.cpp:51-125, 177-197).              *)
THEOREM NeverWrongStop == Spec => NoWrongStop
<1>1. IInv /\ [Next]_vars =>
          [Daemon => \A n \in Nodes, k \in DOMAIN task :
               load'[n][k] < load[n][k] => task[k].state # "running"]_vars
    BY DaemonStep DEF Careful
<1> QED
    BY <1>1, InvAlways, PTL DEF Spec, NoWrongStop
=============================================================================
