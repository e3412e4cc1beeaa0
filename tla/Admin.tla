------------------------------- MODULE Admin -------------------------------
(***************************************************************************)
(* The administrator: src/src/server/AdminServer.  A thread, daemon, walks *)
(* the table of tasks again and again and starts and stops them on the     *)
(* nodes; RPC handlers put tasks into the table and mark them as finished. *)
(*                                                                         *)
(* A handler copies the table, decides, and writes an entry later.  The    *)
(* daemon reads the table without the lock and calls nodes in between.     *)
(* Calls fail: they do not arrive, arrive after the daemon gave them up,   *)
(* or only their answer is lost.  Administrator and nodes may restart.     *)
(* Nodes do what NodeImp does.                                             *)
(***************************************************************************)
EXTENDS Integers, Sums, Bags

CONSTANTS
    Keys,           \* 1 .. number of tasks, in the order of the table
    Nodes,          \* 1 .. number of nodes, in the order of the table
    MaxHandlers,    \* threads that serve requests
    Confs,          \* what is asked for: links and speed, of one endpoint
    TotalThreads,   \* of a node
    MaxSpeed,       \* of a thread
    MaxRatio,       \* 1000: requests a second on one connection
    Soon, Late,     \* 3 and 60 seconds, in turns of the daemon
    MaxRequests,    \* bound: tasks that are accepted
    MaxFaults,      \* bound: failed calls and restarts
    None            \* no configuration

ASSUME AdminAssumption ==
    /\ Keys \subseteq Nat /\ Nodes \subseteq Nat \ {0}
    /\ IsFiniteSet(Keys) /\ IsFiniteSet(Nodes)
    /\ TotalThreads \in Nat /\ MaxSpeed \in Nat \ {0} /\ MaxRatio \in Nat
    /\ MaxHandlers \in Nat /\ Late \in Nat /\ Soon \in 1 .. Late
    /\ MaxRequests \in Nat /\ MaxFaults \in Nat

(* What check and lines 97-129 of AdminImp::startup let through: also a    *)
(* speed of 0, and links below 0.  (With 0 links line 109 divides by zero.)*)
ASSUME ConfAssumption ==
    \A c \in Confs : /\ c \in [links : Int \ {0}, speed : Nat]
                     /\ IF c.links > 0
                        THEN /\ c.speed % c.links = 0
                             /\ c.speed \div c.links <= MaxRatio
                        ELSE c.speed % (- c.links) = 0

VARIABLES
    task,       \* _summary.task
    left,       \* _summary.nodes: left_speed of each node
    executors,  \* _summary.nodes: the tasks seen on each node
    timer,      \* turns until _next_scan_time
    daemon,     \* what the daemon is about, and its local variables
    pending,    \* bag of what the handlers at work will write
    load,       \* the threads each task has on each node
    delayed,    \* calls that were given up and may still arrive
    requests, faults    \* counted for the bounds

summary == <<task, left, executors>>
nodeVars == <<load, delayed, faults>>
handlerVars == <<pending, requests>>
vars == <<summary, timer, daemon, nodeVars, handlerVars>>

Tasks == [state : {"idle", "running", "finished"}, conf : Confs,
          speed_quota : SUBSET Nodes]

Writes == [key : Keys, task : Tasks]

Calls == [stop : BOOLEAN, node : Nodes, key : Keys, links : Nat, speed : Nat]

(* The handlers at work. *)
Busy == SumOf(pending, BagToSet(pending))

Places == {"turn", "clean", "found", "walk", "start", "query", "stop"}

TypeOK ==
    /\ DOMAIN task \subseteq Keys /\ \A k \in DOMAIN task : task[k] \in Tasks
    /\ left \in [Nodes -> Nat]
    /\ executors \in [Nodes -> SUBSET Keys]
    /\ timer \in 0 .. Late
    /\ daemon \in [at : Places, key : Keys \cup {0}, conf : Confs \cup {None},
                   left : Nat, todo : SUBSET Nodes, quota : SUBSET Nodes]
    /\ BagToSet(pending) \subseteq Writes /\ IsABag(pending)
    /\ Busy <= MaxHandlers
    /\ load \in [Nodes -> [Keys -> 0 .. TotalThreads]]
    /\ delayed \subseteq Calls
    /\ requests \in 0 .. MaxRequests /\ faults \in 0 .. MaxFaults

At(place) ==
    [at |-> place, key |-> 0, conf |-> None, left |-> 0,
     todo |-> {}, quota |-> {}]

(* Nothing is known of the nodes until they are scanned. *)
Start ==
    /\ task = << >>
    /\ left = [n \in Nodes |-> 0]
    /\ executors = [n \in Nodes |-> {}]
    /\ timer = 0
    /\ daemon = At("turn")
    /\ pending = EmptyBag

Init ==
    /\ Start
    /\ load = [n \in Nodes |-> [k \in Keys |-> 0]]
    /\ delayed = {}
    /\ requests = 0 /\ faults = 0
-----------------------------------------------------------------------------
(* The nodes *)

FreeThreads(n) == TotalThreads - SumOf(load[n], Keys)

need_thread(speed) == (speed + MaxSpeed - 1) \div MaxSpeed

(* Mutant of Accepts: the room is not looked at. *)
AcceptsFull(c) ==
    /\ load[c.node][c.key] = 0
    /\ c.speed % c.links = 0 /\ c.speed \div c.links <= MaxRatio

(* NodeImp::startup refuses a key that runs, a shape, or for lack of room. *)
Accepts(c) ==
    /\ load[c.node][c.key] = 0
    /\ c.speed % c.links = 0 /\ c.speed \div c.links <= MaxRatio
    /\ need_thread(c.speed) <= FreeThreads(c.node)

Executed(c) ==
    [load EXCEPT ![c.node][c.key] =
        IF c.stop THEN 0
        ELSE IF Accepts(c) THEN need_thread(c.speed) ELSE @]

(* A call of the daemon, which does not look at the result. *)
Call(c) ==
    \/ load' = Executed(c) /\ UNCHANGED <<delayed, faults>>
    \/ /\ faults < MaxFaults /\ faults' = faults + 1
       /\ delayed' \in {delayed, delayed \cup {c}}
       /\ UNCHANGED load

StartCall(n, k, links, speed) ==
    [stop |-> FALSE, node |-> n, key |-> k, links |-> links, speed |-> speed]

StopCall(n, k) ==
    [stop |-> TRUE, node |-> n, key |-> k, links |-> 0, speed |-> 0]
-----------------------------------------------------------------------------
(* The daemon: a turn scans, cleans up, and walks the table *)

Put(k, t) == [j \in DOMAIN task \cup {k} |-> IF j = k THEN t ELSE task[j]]
Erased(k) == [j \in DOMAIN task \ {k} |-> task[j]]

(* Mutant of Scan: only the speed of the nodes is refreshed. *)
ScanSpeed ==
    /\ left' = [n \in Nodes |-> FreeThreads(n) * MaxSpeed]
    /\ executors' = executors

(* capacity of all nodes: the daemon alone changes what they answer, so    *)
(* they are asked in one step.                                             *)
Scan ==
    /\ left' = [n \in Nodes |-> FreeThreads(n) * MaxSpeed]
    /\ executors' = [n \in Nodes |-> {k \in Keys : load[n][k] > 0}]

(* Lines 151-175.  A node that does not answer ends the scan and the       *)
(* clean-up with it, until the next scan is due.                           *)
scanActiveNode ==
    /\ daemon.at = "turn"
    /\ \/ /\ timer > 0 /\ timer' = timer - 1
          /\ daemon' = At("clean") /\ UNCHANGED <<left, executors, faults>>
       \/ /\ timer = 0 /\ timer' = Late
          /\ daemon' = At("clean") /\ Scan /\ UNCHANGED faults
       \/ /\ timer = 0 /\ timer' = Late
          /\ faults < MaxFaults /\ faults' = faults + 1
          /\ daemon' = At("walk") /\ UNCHANGED <<left, executors>>
    /\ UNCHANGED <<task, load, delayed, handlerVars>>

(* Mutant of Unknown: the table is not looked at. *)
UnknownAny(n) == executors[n]

(* Lines 178-183: the tasks seen on a node that the table does not have. *)
Unknown(n) == executors[n] \ DOMAIN task

Clean ==
    /\ daemon.at = "clean"
    /\ IF \A n \in Nodes : Unknown(n) = {} THEN daemon' = At("walk")
       ELSE \E n \in Nodes : \E k \in Unknown(n) :
                daemon' = [At("found") EXCEPT !.key = k, !.todo = {n}]
    /\ UNCHANGED <<summary, timer, nodeVars, handlerVars>>

(* Lines 186-193: it is stopped there, and forgotten in either case. *)
CleanCall ==
    /\ daemon.at = "found"
    /\ \A n \in daemon.todo :
        /\ Call(StopCall(n, daemon.key))
        /\ executors' = [executors EXCEPT ![n] = @ \ {daemon.key}]
    /\ daemon' = At("clean")
    /\ UNCHANGED <<task, left, timer, handlerVars>>

(* The loop of line 51 goes on behind key k. *)
Behind(k) == [At("walk") EXCEPT !.key = k]

(* Mutant of Following: the iterator is moved on twice. *)
FollowingNext ==
    {k \in DOMAIN task : k > daemon.key + 1 \/ daemon.key = 0}

Following == {k \in DOMAIN task : k > daemon.key}

Visit(k) ==
    CASE task[k].state = "idle" ->
            [At("start") EXCEPT !.key = k, !.conf = task[k].conf,
                                !.left = task[k].conf.speed, !.todo = Nodes]
      [] task[k].state = "running" -> [At("query") EXCEPT !.key = k]
      [] OTHER -> [At("stop") EXCEPT !.key = k, !.todo = task[k].speed_quota]

Walk ==
    /\ daemon.at = "walk"
    /\ IF Following = {} THEN daemon' = At("turn") /\ UNCHANGED timer
       ELSE LET k == Min(Following)
            IN  /\ daemon' = Visit(k)
                /\ timer' = IF daemon'.at = "stop" THEN Soon ELSE timer
    /\ UNCHANGED <<summary, nodeVars, handlerVars>>

(* Lines 61-75: the next node gets what it has room for, of the links that *)
(* the entry has by now.  Whether it took it is not asked.                 *)
StartNode ==
    /\ daemon.at = "start" /\ daemon.todo # {} /\ daemon.left > 0
    /\ LET n == Min(daemon.todo)
           speed == Min({left[n], daemon.left})
           links == (task[daemon.key].conf.links * speed) \div daemon.conf.speed
       IN  IF speed > 0 /\ links > 0
           THEN /\ Call(StartCall(n, daemon.key, links, speed))
                /\ left' = [left EXCEPT ![n] = @ - speed]
                /\ timer' = Soon
                /\ daemon' = [daemon EXCEPT !.todo = @ \ {n}, !.left = @ - speed,
                                            !.quota = @ \cup {n}]
           ELSE /\ daemon' = [daemon EXCEPT !.todo = @ \ {n}]
                /\ UNCHANGED <<left, timer, nodeVars>>
    /\ UNCHANGED <<task, executors, handlerVars>>

(* Lines 77-83.  The entry may have been written again meanwhile. *)
Started ==
    /\ daemon.at = "start" /\ (daemon.todo = {} \/ daemon.left = 0)
    /\ task' = [task EXCEPT ![daemon.key].state = "running",
                            ![daemon.key].speed_quota = daemon.quota]
    /\ daemon' = Behind(daemon.key)
    /\ UNCHANGED <<left, executors, timer, nodeVars, handlerVars>>

(* Lines 89-109.  The results are left out, and so is the time: a task may *)
(* be over whenever it is looked at.                                       *)
Query ==
    /\ daemon.at = "query"
    /\ task' \in {task, [task EXCEPT ![daemon.key].state = "finished"]}
    /\ daemon' = Behind(daemon.key)
    /\ UNCHANGED <<left, executors, timer, nodeVars, handlerVars>>

(* Lines 115-118 *)
StopNode ==
    /\ daemon.at = "stop" /\ daemon.todo # {}
    /\ LET n == Min(daemon.todo)
       IN  /\ Call(StopCall(n, daemon.key))
           /\ daemon' = [daemon EXCEPT !.todo = @ \ {n}]
    /\ UNCHANGED <<summary, timer, handlerVars>>

(* Lines 120-125: whatever is in the table under the key is erased. *)
Stopped ==
    /\ daemon.at = "stop" /\ daemon.todo = {}
    /\ task' = Erased(daemon.key)
    /\ daemon' = Behind(daemon.key)
    /\ UNCHANGED <<left, executors, timer, nodeVars, handlerVars>>

Daemon ==
    \/ scanActiveNode \/ Clean \/ CleanCall \/ Walk
    \/ StartNode \/ Started \/ Query \/ StopNode \/ Stopped
-----------------------------------------------------------------------------
(* The handlers: each copies the table, and writes its entry later *)

Decide(k, t) ==
    /\ Busy < MaxHandlers
    /\ pending' = pending (+) SetToBag({[key |-> k, task |-> t]})
    /\ UNCHANGED <<summary, timer, daemon, nodeVars>>

(* AdminImp::startup, lines 114-138 *)
startup(k, conf) ==
    /\ k \notin DOMAIN task
    /\ SumOf(left, Nodes) >= conf.speed
    /\ requests < MaxRequests /\ requests' = requests + 1
    /\ Decide(k, [state |-> "idle", conf |-> conf, speed_quota |-> {}])

(* AdminImp::shutdown, lines 200-210 *)
shutdown(k) ==
    /\ k \in DOMAIN task /\ task[k].state = "running"
    /\ Decide(k, [task[k] EXCEPT !.state = "finished"])
    /\ UNCHANGED requests

(* AdminServer::updateTask.  The assignment replaces the quota under the   *)
(* daemon's iterator, if it is stopping the task: it may go on with any of *)
(* the nodes.                                                              *)
updateTask(w) ==
    /\ w \in BagToSet(pending)
    /\ task' = Put(w.key, w.task)
    /\ IF daemon.at = "stop" /\ daemon.key = w.key
       THEN \E rest \in SUBSET (daemon.todo \cup w.task.speed_quota) :
                daemon' = [daemon EXCEPT !.todo = rest]
       ELSE UNCHANGED daemon
    /\ pending' = pending (-) SetToBag({w})
    /\ UNCHANGED <<left, executors, timer, nodeVars, requests>>
-----------------------------------------------------------------------------
(* Failures *)

Arrive(c) ==
    /\ load' = Executed(c) /\ delayed' = delayed \ {c}
    /\ UNCHANGED <<summary, timer, daemon, faults, handlerVars>>

NodeRestart(n) ==
    /\ faults < MaxFaults /\ faults' = faults + 1
    /\ load' = [load EXCEPT ![n] = [k \in Keys |-> 0]]
    /\ UNCHANGED <<summary, timer, daemon, delayed, handlerVars>>

AdminRestart ==
    /\ faults < MaxFaults /\ faults' = faults + 1
    /\ task' = << >>
    /\ left' = [n \in Nodes |-> 0] /\ executors' = [n \in Nodes |-> {}]
    /\ timer' = 0 /\ daemon' = At("turn")
    /\ pending' = EmptyBag
    /\ UNCHANGED <<load, delayed, requests>>
-----------------------------------------------------------------------------
Next ==
    \/ Daemon
    \/ \E k \in Keys : shutdown(k) \/ \E conf \in Confs : startup(k, conf)
    \/ \E w \in BagToSet(pending) : updateTask(w)
    \/ \E c \in delayed : Arrive(c)
    \/ \E n \in Nodes : NodeRestart(n)
    \/ AdminRestart

Spec == Init /\ [][Next]_vars

(* The daemon loops and handlers come to their end. *)
FairSpec == Spec /\ WF_vars(Daemon) /\ \A w \in Writes : WF_vars(updateTask(w))
-----------------------------------------------------------------------------
(* What runs on a node without being in the table, since a stop failed, a  *)
(* start came late, the administrator was restarted, or an entry was       *)
(* overwritten, is stopped some time (the purpose of the thread,           *)
(* AdminServer.cpp:15, and of lines 177-197).                              *)
Orphan(k) == k \notin DOMAIN task /\ \E n \in Nodes : load[n][k] > 0

OrphansStop == \A k \in Keys : Orphan(k) ~> ~ Orphan(k)

(* The daemon takes a task that runs from a node only once its entry is    *)
(* marked as finished or gone, though the clean-up decides on readings     *)
(* that are a minute old and on a table that handlers write.               *)
NoWrongStop ==
    [][Daemon => \A n \in Nodes, k \in DOMAIN task :
           load'[n][k] < load[n][k] => task[k].state # "running"]_vars

(* A task that was accepted is started, and one that is over is taken out  *)
(* of the table, however the walk meets the handlers' writes.              *)
In(k, state) == k \in DOMAIN task /\ task[k].state = state

Due(k) == In(k, "idle") \/ In(k, "finished")

Progress == \A k \in Keys : Due(k) ~> ~ Due(k)

(* While no call fails and nothing restarts, what runs on a node is in the *)
(* table: a task leaves the table when all its nodes have stopped it.  It  *)
(* does not hold: updateTask may write an entry that is out of date.       *)
NoOrphans == faults = 0 => \A k \in Keys : ~ Orphan(k)

(* While no call fails and nothing restarts, a running task runs, on the   *)
(* nodes that have a share of its speed: the nodes were asked for their    *)
(* room, and startup answers "need more nodes" if there is too little      *)
(* (AdminImp.cpp:122-132).  It does not hold: what is asked for is speed,  *)
(* what a node gives is threads.                                           *)
Placed ==
    faults = 0 => \A k \in DOMAIN task : In(k, "running") =>
        /\ task[k].speed_quota # {}
        /\ \A n \in task[k].speed_quota : load[n][k] > 0
============================================================================
