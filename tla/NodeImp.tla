------------------------------ MODULE NodeImp ------------------------------
(***************************************************************************)
(* The thread pool of a node: the handlers startup, shutdown and capacity  *)
(* of src/src/server/NodeServer/NodeImp.cpp, which give a task's rate and  *)
(* connections to idle threads and take the threads back.                  *)
(*                                                                         *)
(* A handler is one step: initialize refuses a second servant thread.  The *)
(* threads themselves, and what query does, are in NodeServer.             *)
(***************************************************************************)
EXTENDS Integers, FiniteSets, Sums

CONSTANTS Keys,          \* the tasks: protocol and service of a TaskConf
          TotalThreads,  \* _total_threads
          MaxSpeed,      \* _max_speed_per_thread
          MaxRatio,      \* 1000: requests a second on one connection
          Requests,      \* the TaskConfs the administrator may send
          NoKey          \* an empty protocol and service

ASSUME PoolAssumption ==
    /\ TotalThreads \in Nat /\ MaxSpeed \in Nat \ {0} /\ MaxRatio \in Nat
    /\ NoKey \notin Keys

(* The administrator sends no request without connections, rate or         *)
(* endpoints (AdminImp.cpp:97, AdminServer.cpp:66).                        *)
ASSUME RequestAssumption ==
    \A r \in Requests :
        /\ r \in [key : Keys, links : Nat, speed : Nat, eps : Nat]
        /\ r.links > 0 /\ r.speed > 0 /\ r.eps > 0

Threads == 1 .. TotalThreads

VARIABLES
    taskconf,   \* _taskconf of each thread
    granted     \* history: the request that each key runs under

poolVars == <<taskconf, granted>>

Confs == [key : Keys \cup {NoKey}, links : Nat, speed : Nat, eps : Nat,
          runflag : BOOLEAN]

NoConf == [key |-> NoKey, links |-> 0, speed |-> 0, eps |-> 0,
           runflag |-> FALSE]

NoRequest == [key |-> NoKey, links |-> 0, speed |-> 0, eps |-> 0]

PoolTypeOK ==
    /\ taskconf \in [Threads -> Confs]
    /\ granted \in [Keys -> Requests \cup {NoRequest}]

PoolInit ==
    /\ taskconf = [t \in Threads |-> NoConf]
    /\ granted = [k \in Keys |-> NoRequest]
-----------------------------------------------------------------------------
(* startup *)

Idle == {t \in Threads : ~ taskconf[t].runflag}
ThreadsOf(k) == {t \in Threads : taskconf[t].key = k}

TotalSpeed(req) == req.speed * req.eps
need_thread(req) == (TotalSpeed(req) + MaxSpeed - 1) \div MaxSpeed

(* Mutant of Matches: the ratio of speed and links is not limited. *)
MatchesAnyRatio(req) == req.speed % req.links = 0

(* Lines 77-107: the request's shape, no thread runs the key, enough idle. *)
Matches(req) == /\ req.speed % req.links = 0
                /\ req.speed \div req.links <= MaxRatio
Accepts(req) ==
    /\ Matches(req)
    /\ \A t \in ThreadsOf(req.key) : ~ taskconf[t].runflag
    /\ need_thread(req) <= Cardinality(Idle)

(* Mutant of LeftSpeed: threads that are busy use it up too. *)
LeftSpeedAllThreads(req, t) ==
    TotalSpeed(req) - MaxSpeed * Cardinality({u \in Threads : u < t})

(* What is left of left_speed when the loop comes to idle thread t. *)
LeftSpeed(req, t) ==
    TotalSpeed(req) - MaxSpeed * Cardinality({u \in Idle : u < t})

Least(a, b) == IF a < b THEN a ELSE b

(* One turn of the loop of lines 110-125. *)
Assign(req, t) ==
    [key     |-> req.key,
     links   |-> req.links \div need_thread(req),
     speed   |-> Least(LeftSpeed(req, t), MaxSpeed) \div req.eps,
     eps     |-> req.eps,
     runflag |-> TRUE]

(* Mutant of startup: the loop does not stop when no speed is left. *)
startupEveryThread(req) ==
    /\ Accepts(req)
    /\ taskconf' = [t \in Threads |->
                       IF t \in Idle THEN Assign(req, t) ELSE taskconf[t]]
    /\ granted' = [granted EXCEPT ![req.key] = req]

startup(req) ==
    /\ Accepts(req)
    /\ taskconf' = [t \in Threads |->
                       IF t \in Idle /\ LeftSpeed(req, t) > 0
                       THEN Assign(req, t) ELSE taskconf[t]]
    /\ granted' = [granted EXCEPT ![req.key] = req]
-----------------------------------------------------------------------------
(* shutdown: resetDefautlt clears the scalars and leaves the vectors. *)
resetDefautlt(conf) ==
    [conf EXCEPT !.key = NoKey, !.links = 0, !.speed = 0, !.runflag = FALSE]

Release(k) ==
    /\ taskconf' = [t \in Threads |-> IF taskconf[t].key = k
                                      THEN resetDefautlt(taskconf[t])
                                      ELSE taskconf[t]]
    /\ granted' = [granted EXCEPT ![k] = NoRequest]

(* capacity only reads: the rate a key has on all its threads, and the     *)
(* number of threads it is said to occupy.                                 *)
Rate(k) == SumOf([t \in Threads |-> taskconf[t].speed], ThreadsOf(k))

capacityThreads(k) == (MaxSpeed + Rate(k) - 1) \div MaxSpeed
-----------------------------------------------------------------------------
PoolNext ==
    \/ \E req \in Requests : startup(req)
    \/ \E k \in Keys : Release(k)

PoolSpec == PoolInit /\ [][PoolNext]_poolVars
-----------------------------------------------------------------------------
(* The benchmark loop opens this many connections (BenchmarkThread.cpp:69). *)
Connections(conf) == conf.eps * conf.links

(* A key runs on no thread, or on exactly the threads its request needs,   *)
(* none of them above its limit, and all against the endpoints it asked    *)
(* for, whatever a thread ran before; what they send together is the rate  *)
(* that was granted, up to the rounding of one request per thread and      *)
(* endpoint.                                                               *)
(* With one endpoint, capacity reports those threads (with more it divides *)
(* the rate of one endpoint only, and reports too few: line 275).          *)
WholeTask ==
    \A k \in Keys :
        LET req  == granted[k]
            mine == ThreadsOf(k)
            rate == req.eps * Rate(k)
        IN  IF req = NoRequest
            THEN mine = {}
            ELSE /\ Cardinality(mine) = need_thread(req)
                 /\ \A t \in mine : /\ taskconf[t].runflag
                                    /\ taskconf[t].eps = req.eps
                                    /\ taskconf[t].speed * req.eps <= MaxSpeed
                 /\ rate <= TotalSpeed(req)
                 /\ rate > TotalSpeed(req) - req.eps * Cardinality(mine)
                 /\ req.eps = 1 => capacityThreads(k) = need_thread(req)

(* A thread that is marked as running has connections to run on: the ratio *)
(* check of line 77 is meant to see to it.                                 *)
RunningWorks ==
    \A t \in Threads : taskconf[t].runflag => Connections(taskconf[t]) > 0
============================================================================
