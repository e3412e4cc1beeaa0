-------------------------------- MODULE Tool --------------------------------
(***************************************************************************)
(* The command-line tool tb (src/src/tool/main.cpp): a main process that   *)
(* forks the processes which send the load, shows their statistics, stops  *)
(* them and prints the final figures.  They share the statistics ring and  *)
(* are told to stop by signals, which only reset a flag.                   *)
(*                                                                         *)
(* A request is named by its process and a running number.  A batch of     *)
(* statistics is the set of requests it counts.  The ring is the queue     *)
(* that BoundedQueue promises.                                             *)
(***************************************************************************)
EXTENDS Integers, Sequences, FiniteSets

CONSTANTS
    Cores,      \* -n, the processes that send
    Links,      \* -c, connections to a server
    MaxTps,     \* -s, 0 for no limit
    Second,     \* ticks of the clock in a second
    Boot,       \* what the clock shows when tb starts (a time since 1970)
    Duration,   \* -I, the seconds of a test
    Grace,      \* -t / 3000, the seconds printFinal takes off the time
    Capacity,   \* batches the ring holds
    MaxClock, MaxSent, MaxCrash     \* bounds: time, requests of a process,
                                    \*   processes that die

ASSUME ToolAssumption ==
    /\ Cores \in Nat \ {0} /\ Links \in Nat \ {0} /\ MaxTps \in Nat
    /\ Second \in Nat \ {0} /\ Duration \in Nat /\ Grace \in Nat
    /\ Capacity \in Nat
    /\ Boot \in Nat /\ Boot >= Second
    /\ MaxClock \in Nat /\ MaxSent \in Nat /\ MaxCrash \in Nat

Children == 1 .. Cores
Main == 0
Failed == -1    \* what fork returns when there is no child

(* initialize: what each process takes of the limits, rounded up, and the  *)
(* time between two turns of sending on all its connections.               *)
gConsNum == (Links + Cores - 1) \div Cores
gSpeed == (MaxTps + Cores - 1) \div Cores
gInterval == IF gSpeed = 0 THEN 0 ELSE (Second * gConsNum) \div gSpeed

VARIABLES
    clock,
    ppc, pid_list, killed, test_intvl, gStatInf,  \* the main process: place,
        \*   the children, how many of them were signalled, seconds left,
        \*   the requests in its figures
    gRunFlag,                                     \* of every process
    cpc, next_send_time, tmpStat, staIndex,       \* the children: place, pacing,
                                                  \*   the batch being counted
    ring,
    sent,       \* history: requests each child counted as sent
    stray       \* history: a signal went to processes that are not children

mainVars == <<ppc, pid_list, killed, test_intvl, gStatInf>>
childVars == <<cpc, next_send_time, tmpStat, staIndex, sent>>
vars == <<clock, mainVars, gRunFlag, childVars, ring, stray>>

Requests == Children \X (1 .. MaxSent)

TypeOK ==
    /\ clock \in Boot .. Boot + MaxClock
    /\ ppc \in {"fork", "view", "kill", "wait", "done", "crashed"}
    /\ pid_list \in Seq(Children \cup {Failed})
    /\ killed \in 0 .. Cores
    /\ test_intvl \in 0 .. Duration
    /\ gStatInf \in SUBSET Requests
    /\ gRunFlag \in [Children \cup {Main} -> BOOLEAN]
    /\ cpc \in [Children -> {"none", "loop", "last", "gone"}]
    /\ next_send_time \in [Children -> Nat]
    /\ tmpStat \in [Children -> SUBSET Requests]
    /\ staIndex \in [Children -> Nat]
    /\ sent \in [Children -> 0 .. MaxSent]
    /\ ring \in Seq(SUBSET Requests)
    /\ stray \in BOOLEAN

Init ==
    /\ clock = Boot
    /\ ppc = "fork" /\ pid_list = << >> /\ killed = 0
    /\ test_intvl = Duration
    /\ gStatInf = {}
    /\ gRunFlag = [p \in Children \cup {Main} |-> p = Main]
    /\ cpc = [c \in Children |-> "none"]
    /\ next_send_time = [c \in Children |-> 0]
    /\ tmpStat = [c \in Children |-> {}]
    /\ staIndex = [c \in Children |-> 0]
    /\ sent = [c \in Children |-> 0]
    /\ ring = << >>
    /\ stray = FALSE
-----------------------------------------------------------------------------
(* The main process *)

(* printPeriod: fetch drains the ring, operator+= adds it to the figures.  *)
printPeriod ==
    /\ gStatInf' = gStatInf \cup UNION {ring[i] : i \in 1 .. Len(ring)}
    /\ ring' = << >>

(* Lines 319-328.  A child begins with the flag as it is in main; when no  *)
(* child can be made, -1 is kept as its number.                            *)
Fork ==
    /\ ppc = "fork" /\ Len(pid_list) < Cores
    /\ LET c == Len(pid_list) + 1
       IN  \/ /\ pid_list' = Append(pid_list, c)
              /\ cpc' = [cpc EXCEPT ![c] = "loop"]
              /\ gRunFlag' = [gRunFlag EXCEPT ![c] = gRunFlag[Main]]
           \/ /\ pid_list' = Append(pid_list, Failed)
              /\ UNCHANGED <<cpc, gRunFlag>>
    /\ UNCHANGED <<clock, ppc, killed, test_intvl, gStatInf, next_send_time,
                   tmpStat, staIndex, sent, ring, stray>>

(* Line 331. *)
Forked ==
    /\ ppc = "fork" /\ Len(pid_list) = Cores
    /\ printPeriod
    /\ ppc' = "view"
    /\ UNCHANGED <<clock, pid_list, killed, test_intvl, gRunFlag, childVars,
                   stray>>

(* Mutant of View: the seconds are counted down past 0. *)
ViewOn ==
    /\ ppc = "view" /\ gRunFlag[Main]
    /\ test_intvl' = test_intvl - 1
    /\ printPeriod
    /\ UNCHANGED <<clock, ppc, pid_list, killed, gRunFlag, childVars, stray>>

(* Lines 335-343: a second of the test, at whose beginning the figures of  *)
(* the period may be due.                                                  *)
View ==
    /\ ppc = "view" /\ test_intvl > 0 /\ gRunFlag[Main]
    /\ test_intvl' = test_intvl - 1
    /\ printPeriod \/ UNCHANGED <<gStatInf, ring>>
    /\ UNCHANGED <<clock, ppc, pid_list, killed, gRunFlag, childVars, stray>>

ViewEnds ==
    /\ ppc = "view" /\ (test_intvl = 0 \/ ~ gRunFlag[Main])
    /\ ppc' = "kill"
    /\ UNCHANGED <<clock, pid_list, killed, test_intvl, gStatInf, gRunFlag,
                   childVars, ring, stray>>

(* procSignal *)
Signalled(S) == [p \in Children \cup {Main} |-> gRunFlag[p] /\ p \notin S]

(* Mutant of Kill: the first child is forgotten. *)
KillTheRest ==
    /\ ppc = "kill" /\ killed < Len(pid_list)
    /\ LET pid == pid_list[killed + 1]
       IN  gRunFlag' = IF killed = 0 THEN gRunFlag ELSE Signalled({pid})
    /\ killed' = killed + 1
    /\ UNCHANGED <<clock, ppc, pid_list, test_intvl, gStatInf, childVars, ring,
                   stray>>

(* Lines 346-349: a signal to one entry of the list.  Process number -1    *)
(* stands for every process that may be signalled, except the caller.      *)
Kill ==
    /\ ppc = "kill" /\ killed < Len(pid_list)
    /\ LET pid == pid_list[killed + 1]
       IN  /\ gRunFlag' = Signalled(IF pid = Failed THEN Children ELSE {pid})
           /\ stray' = (stray \/ pid = Failed)
    /\ killed' = killed + 1
    /\ UNCHANGED <<clock, ppc, pid_list, test_intvl, gStatInf, childVars, ring>>

KillEnds ==
    /\ ppc = "kill" /\ killed = Len(pid_list)
    /\ ppc' = "wait"
    /\ UNCHANGED <<clock, pid_list, killed, test_intvl, gStatInf, gRunFlag,
                   childVars, ring, stray>>

(* Mutant of AllGone: as many ends are awaited as numbers were kept. *)
AllEnded == \A c \in Children : cpc[c] = "gone"

(* Mutant of AllGone: the loop ends with the first child that ends. *)
OneGone == \E c \in Children : cpc[c] \in {"none", "gone"}

(* Line 352 waits until there is no child left. *)
AllGone == \A c \in Children : cpc[c] \in {"none", "gone"}

(* printFinal divides whole numbers by the seconds of the test and by the  *)
(* requests in the figures (lines 288-290); a division by 0 ends tb.       *)
real_intvl_time == (clock - Boot) \div Second - Grace

printFinal ==
    /\ ppc = "wait" /\ AllGone
    /\ printPeriod
    /\ ppc' = IF real_intvl_time = 0 \/ gStatInf' = {} THEN "crashed" ELSE "done"
    /\ UNCHANGED <<clock, pid_list, killed, test_intvl, gRunFlag, childVars,
                   stray>>

main == Fork \/ Forked \/ View \/ ViewEnds \/ Kill \/ KillEnds \/ printFinal
-----------------------------------------------------------------------------
(* A child *)

Abs(n) == IF n < 0 THEN - n ELSE n

(* syncStat at time t of the batch b that was begun at time s.  The batch  *)
(* is kept when it is not a second old, when the ring is full, and when    *)
(* the swap of the tail is lost to another child.                          *)
Rival(c) == \E d \in Children \ {c} : cpc[d] \in {"loop", "last"}

Kept(c, b, s) ==
    /\ tmpStat' = [tmpStat EXCEPT ![c] = b]
    /\ staIndex' = [staIndex EXCEPT ![c] = s]
    /\ UNCHANGED ring

Pushed(c, b, t) ==
    /\ Len(ring) < Capacity
    /\ ring' = Append(ring, b)
    /\ tmpStat' = [tmpStat EXCEPT ![c] = {}]
    /\ staIndex' = [staIndex EXCEPT ![c] = t]

(* Mutant of syncStat: the batch is cleared though the ring was full. *)
syncStatClears(c, b, s, t) ==
    IF Abs(t - s) < Second
    THEN Kept(c, b, s)
    ELSE \/ (Len(ring) >= Capacity \/ Rival(c)) /\ Kept(c, {}, t)
         \/ Pushed(c, b, t)

syncStat(c, b, s, t) ==
    IF Abs(t - s) < Second
    THEN Kept(c, b, s)
    ELSE \/ (Len(ring) >= Capacity \/ Rival(c)) /\ Kept(c, b, s)
         \/ Pushed(c, b, t)

(* Lines 144-167: the loop of run.  On each connection a request is sent,  *)
(* unless the connection refuses it; a socket that cannot be made ends the *)
(* turn with an exception, before syncStat.                                *)
Turn(c) ==
    /\ cpc[c] = "loop" /\ gRunFlag[c]
    /\ LET due == clock >= next_send_time[c]
       IN  /\ next_send_time' =
                IF due THEN [next_send_time EXCEPT ![c] = @ + gInterval]
                       ELSE next_send_time
           /\ \E n \in 0 .. (IF due THEN gConsNum ELSE 0) :
                LET batch == tmpStat[c] \cup {<<c, sent[c] + i>> : i \in 1 .. n}
                    begun == IF n > 0 /\ staIndex[c] = 0 THEN clock
                                                        ELSE staIndex[c]
                IN  /\ sent[c] + n <= MaxSent
                    /\ sent' = [sent EXCEPT ![c] = @ + n]
                    /\ \/ syncStat(c, batch, begun, clock)
                       \/ due /\ Kept(c, batch, begun)
    /\ UNCHANGED <<clock, mainVars, gRunFlag, cpc, stray>>

Stop(c) ==
    /\ cpc[c] = "loop" /\ ~ gRunFlag[c]
    /\ cpc' = [cpc EXCEPT ![c] = "last"]
    /\ UNCHANGED <<clock, mainVars, gRunFlag, next_send_time, tmpStat, staIndex,
                   sent, ring, stray>>

(* Lines 169-177: a last second of receiving, syncStat(0), and the end.    *)
Finish(c) ==
    /\ cpc[c] = "last"
    /\ syncStat(c, tmpStat[c], staIndex[c], 0)
    /\ cpc' = [cpc EXCEPT ![c] = "gone"]
    /\ UNCHANGED <<clock, mainVars, gRunFlag, next_send_time, sent, stray>>

run(c) == Turn(c) \/ Stop(c) \/ Finish(c)
-----------------------------------------------------------------------------
(* Around them *)

Tick ==
    /\ clock < Boot + MaxClock
    /\ clock' = clock + 1
    /\ UNCHANGED <<mainVars, gRunFlag, childVars, ring, stray>>

(* An interrupt from the terminal reaches the children that exist, too; a  *)
(* SIGTERM only the process it is sent to.                                 *)
Interrupt(S) ==
    /\ ppc \in {"fork", "view", "kill", "wait"}
    /\ gRunFlag' = Signalled(S)
    /\ UNCHANGED <<clock, mainVars, childVars, ring, stray>>

Crash(c) ==
    /\ cpc[c] \in {"loop", "last"}
    /\ Cardinality({d \in Children : cpc[d] = "gone"}) < MaxCrash
    /\ cpc' = [cpc EXCEPT ![c] = "gone"]
    /\ UNCHANGED <<clock, mainVars, gRunFlag, next_send_time, tmpStat, staIndex,
                   sent, ring, stray>>

Next ==
    \/ main
    \/ \E c \in Children : run(c)
    \/ Tick
    \/ \E S \in {{Main}, Children \cup {Main}} : Interrupt(S)
    \/ \E c \in Children : Crash(c)

Spec == Init /\ [][Next]_vars

(* Every process that has something to do runs on; a child's turn ends in  *)
(* looking at the flag.  Nothing is assumed of the clock and the signals.  *)
FairSpec ==
    /\ Spec
    /\ WF_vars(main)
    /\ \A c \in Children : WF_vars(Stop(c) \/ Finish(c))
-----------------------------------------------------------------------------
SentBy(c) == {c} \X (1 .. sent[c])
Queued == UNION {ring[i] : i \in 1 .. Len(ring)}
Counting == UNION {tmpStat[c] : c \in Children}

(* A request that was counted as sent is in exactly one place: the batch   *)
(* of its process, one batch of the ring, or the figures of main.  A ring  *)
(* that is full or a swap that is lost to another child drops or doubles   *)
(* nothing (syncStat, and fetch and += in printPeriod, lines 221-233).     *)
CountedOnce ==
    /\ gStatInf \cup Queued \cup Counting = UNION {SentBy(c) : c \in Children}
    /\ gStatInf \cap (Queued \cup Counting) = {}
    /\ Queued \cap Counting = {}
    /\ \A i, j \in 1 .. Len(ring) : i # j => ring[i] \cap ring[j] = {}
    /\ \A c, d \in Children : c # d => tmpStat[c] \cap tmpStat[d] = {}

(* When the final figures are printed no child is left that could push,    *)
(* and what is missing in them is only what a child had in hand when it    *)
(* died or failed to push at its end (lines 169-171, 346-353).             *)
FinalFigures ==
    ppc \in {"done", "crashed"} =>
        /\ \A c \in Children : cpc[c] \in {"none", "gone"}
        /\ ring = << >>
        /\ gStatInf = UNION {SentBy(c) \ tmpStat[c] : c \in Children}

(* tb comes to its end: after the time given, or when it is interrupted,   *)
(* whatever happens to its children (lines 335-353).                       *)
Ends == <>(ppc \in {"done", "crashed"})

(* Once main is told to stop, no child goes on sending for ever, those     *)
(* included that are forked after the signal came (lines 183-189, 346).    *)
ChildrenStop == (~ gRunFlag[Main]) ~> AllGone

(* No server is sent more than the limit of -s allows for the time since   *)
(* the start, with one turn of every process to begin with.  README: "-s   *)
(* maximum tps limit per target server"; initialize rounds the limit up to *)
(* a whole request per process (lines 89, 108, 143-158).                   *)
RateKept ==
    gInterval > 0 =>
        Cardinality(UNION {SentBy(c) : c \in Children})
            <= Cores * gConsNum * (1 + (clock - Boot) \div gInterval)
=============================================================================
