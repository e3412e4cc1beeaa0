----------------------------- MODULE NodeServer -----------------------------
(***************************************************************************)
(* A node at work: the pool of NodeImp together with the threads of        *)
(* BenchmarkThread.cpp, which follow their configuration and push their    *)
(* statistics to a ring, and NodeImp::query, which drains it.  All threads *)
(* share one ring: initialize gives each the key shm_base + 1.             *)
(*                                                                         *)
(* No lock protects a thread's configuration, so a copy that overlaps a    *)
(* handler may mix the fields of several.  The ring is the queue that      *)
(* BoundedQueue promises.                                                  *)
(***************************************************************************)
EXTENDS NodeImp, Sequences

CONSTANTS RingSize      \* batches the ring holds

VARIABLES
    place,      \* where each thread is in do_task
    work,       \* the copy of taskconf it works on, or is taking
    ring        \* keys of the batches in the shared ring

threadVars == <<place, work>>
vars == <<poolVars, threadVars, ring>>

TypeOK ==
    /\ PoolTypeOK
    /\ place \in [Threads -> {"idle", "copy", "setup", "loop", "last"}]
    /\ work \in [Threads -> Confs]
    /\ ring \in Seq(Keys)

Init ==
    /\ PoolInit
    /\ place = [t \in Threads |-> "idle"]
    /\ work = [t \in Threads |-> NoConf]
    /\ ring = << >>
-----------------------------------------------------------------------------
(* The handlers *)

Startup(req) == startup(req) /\ UNCHANGED <<threadVars, ring>>

(* query: the first thread of the key that is asked empties "its" ring;    *)
(* what was in it is the answer.                                           *)
Collect(k) == ring' = IF ThreadsOf(k) = {} THEN ring ELSE << >>

Query(k) == Collect(k) /\ UNCHANGED <<poolVars, threadVars>>

(* shutdown collects what there is before it stops the threads. *)
Shutdown(k) == Collect(k) /\ Release(k) /\ UNCHANGED threadVars
-----------------------------------------------------------------------------
(* do_task, a thread's turn *)

(* Line 68 copies the configuration.  Meanwhile the handlers may write it: *)
(* the strings and vectors of the copy can be from before and the numbers  *)
(* from after, or the other way round.                                     *)
Mix(a, b) == [a EXCEPT !.links = b.links, !.speed = b.speed, 
                       !.runflag = b.runflag]

Copy(t) ==
    /\ place[t] = "idle"
    /\ work' = [work EXCEPT ![t] = taskconf[t]]
    /\ place' = [place EXCEPT ![t] = "copy"]
    /\ UNCHANGED <<poolVars, ring>>

Tear(t) ==
    /\ place[t] = "copy" /\ work[t] # taskconf[t]
    /\ \E conf \in {Mix(work[t], taskconf[t]), Mix(taskconf[t], work[t])} :
           work' = [work EXCEPT ![t] = conf]
    /\ UNCHANGED <<poolVars, place, ring>>

GiveUp(t) ==
    /\ work' = [work EXCEPT ![t] = NoConf]
    /\ place' = [place EXCEPT ![t] = "idle"]

(* Lines 69-73: without connections nothing is done, and the thread looks  *)
(* again a millisecond later.                                              *)
Enter(t) ==
    /\ place[t] = "copy"
    /\ IF work[t].runflag /\ Connections(work[t]) > 0
       THEN place' = [place EXCEPT ![t] = "setup"] /\ UNCHANGED work
       ELSE GiveUp(t)
    /\ UNCHANGED <<poolVars, ring>>

(* Mutant of Clear: the protocol is not looked up. *)
ClearUnchecked(t) ==
    /\ place[t] = "setup"
    /\ ring' = << >>
    /\ place' = [place EXCEPT ![t] = "loop"]
    /\ UNCHANGED <<poolVars, work>>

(* Lines 79-104: the connections are made, the ring is cleared. *)
Clear(t) ==
    /\ place[t] = "setup" /\ work[t].key # NoKey
    /\ ring' = << >>
    /\ place' = [place EXCEPT ![t] = "loop"]
    /\ UNCHANGED <<poolVars, work>>

(* There is no protocol of an empty name; one that gets the parameters of  *)
(* another task may refuse them (lines 82-87).                             *)
Refuse(t) ==
    /\ place[t] = "setup" /\ work[t] # taskconf[t]
    /\ GiveUp(t)
    /\ UNCHANGED <<poolVars, ring>>

Push(t) ==
    ring' = IF Len(ring) < RingSize THEN Append(ring, work[t].key) ELSE ring

(* A turn of the loop in which syncStat is due. *)
Report(t) ==
    /\ place[t] = "loop"
    /\ Push(t)
    /\ UNCHANGED <<poolVars, threadVars>>

(* Mutant of Leave: only the protocol and the service are compared. *)
LeaveOtherKey(t) ==
    /\ place[t] = "loop"
    /\ work[t].key # taskconf[t].key
    /\ place' = [place EXCEPT ![t] = "last"]
    /\ UNCHANGED <<poolVars, work, ring>>

(* Mutant of Leave: only another task makes a thread leave. *)
LeaveForAnother(t) ==
    /\ place[t] = "loop"
    /\ work[t] # taskconf[t] /\ taskconf[t].runflag
    /\ place' = [place EXCEPT ![t] = "last"]
    /\ UNCHANGED <<poolVars, work, ring>>

(* Line 126: the configuration is no longer the one being worked on. *)
Leave(t) ==
    /\ place[t] = "loop"
    /\ work[t] # taskconf[t]
    /\ place' = [place EXCEPT ![t] = "last"]
    /\ UNCHANGED <<poolVars, work, ring>>

(* Lines 132-142: a last second of receiving, and the last batch. *)
Finish(t) ==
    /\ place[t] = "last"
    /\ Push(t)
    /\ GiveUp(t)
    /\ UNCHANGED poolVars

do_task(t) ==
    \/ Copy(t) \/ Tear(t) \/ Enter(t) \/ Clear(t) \/ Refuse(t)
    \/ Report(t) \/ Leave(t) \/ Finish(t)
-----------------------------------------------------------------------------
Next ==
    \/ \E req \in Requests : Startup(req)
    \/ \E k \in Keys : Query(k)
    \/ \E k \in Keys : Shutdown(k)
    \/ \E t \in Threads : do_task(t)

Spec == Init /\ [][Next]_vars

(* A thread runs its loop for ever; leaving it is tested in every turn. *)
FairSpec ==
    /\ Spec
    /\ \A t \in Threads :
        /\ WF_vars(Copy(t) \/ Enter(t) \/ Clear(t) \/ Refuse(t) \/ Finish(t))
        /\ WF_vars(Leave(t))
-----------------------------------------------------------------------------
(* What query and shutdown would report of a task was sent for that task   *)
(* (NodeImp::query, lines 184-200).  It does not hold: all tasks of a node *)
(* push into one ring.                                                     *)
OwnBatches ==
    \A k \in Keys : ThreadsOf(k) # {} => \A i \in 1 .. Len(ring) : ring[i] = k

(* Once the handlers leave a thread's configuration alone, the thread      *)
(* works on that very configuration and keeps to it, if it has connections *)
(* to make: whatever mixtures it copied or gave up before, it does not     *)
(* stay with them, and it does not wait for ever (do_task, lines 68-126).  *)
LeftAlone(t) == <>[][taskconf'[t] = taskconf[t]]_vars
Due(t) == taskconf[t].runflag /\ Connections(taskconf[t]) > 0
Serves(t) == place[t] = "loop" /\ work[t] = taskconf[t]

TakenUp == \A t \in Threads : LeftAlone(t) /\ []<>Due(t) => <>[]Serves(t)

(* After a shutdown every thread stops working for the task, unless it is  *)
(* started again; none is left sending to the target for ever.             *)
Stops ==
    \A k \in Keys :
        (ThreadsOf(k) = {}) 
            ~> (ThreadsOf(k) # {} \/ \A t \in Threads : work[t].key # k)
=============================================================================
