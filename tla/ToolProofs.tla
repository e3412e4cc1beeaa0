----------------------------- MODULE ToolProofs -----------------------------
(***************************************************************************)
(* Proofs about tb: that its state has its type, that every request that   *)
(* was counted as sent is in exactly one place, and that the final figures *)
(* lack only what a child kept.  They hold for any number of processes and *)
(* any size of the ring.                                                   *)
(***************************************************************************)
EXTENDS Tool, TLAPS

(* What a sequence of batches holds. *)
All(r) == UNION {r[i] : i \in 1 .. Len(r)}

(* A batch has only requests of the process that counts them. *)
OwnBatch == \A c \in Children : tmpStat[c] \subseteq SentBy(c)

(* Once tb has printed its figures nobody is left to push a batch. *)
Quiet == ppc \in {"done", "crashed"} => AllGone /\ ring = << >>

(* As many numbers of processes are kept as were to be made. *)
FewPids == Len(pid_list) <= Cores

IInv == TypeOK /\ CountedOnce /\ OwnBatch /\ Quiet /\ FewPids
-----------------------------------------------------------------------------
LEMMA AllOfNone == All(<< >>) = {}
  BY DEF All

LEMMA AllOfMore ==
  ASSUME NEW r \in Seq(SUBSET Requests), NEW b \in SUBSET Requests
  PROVE  All(Append(r, b)) = All(r) \cup b
<1> DEFINE q == Append(r, b)
<1>1. q \in Seq(SUBSET Requests) /\ Len(q) = Len(r) + 1 /\ Len(r) \in Nat
  OBVIOUS
<1>2. q[Len(r) + 1] = b /\ \A i \in 1 .. Len(r) : q[i] = r[i]
  OBVIOUS
<1>3. 1 .. Len(q) = (1 .. Len(r)) \cup {Len(r) + 1}
  BY <1>1
<1> HIDE DEF q
<1>4. \A x : x \in All(q) <=> \E i \in (1 .. Len(r)) \cup {Len(r) + 1} : x \in q[i]
  BY <1>3 DEF All
<1>5. \A x : x \in All(r) <=> \E i \in 1 .. Len(r) : x \in r[i]
  BY DEF All
<1>6. \A x : x \in All(q) <=> x \in All(r) \/ x \in b
  BY <1>2, <1>4, <1>5
<1>7. QED
  BY <1>6 DEF q

(* The time between two turns is a number, whatever the limits.            *)
LEMMA IntervalIsTime == gInterval \in Nat /\ gConsNum \in Nat
<1>1. gConsNum \in Nat
  BY ToolAssumption DEF gConsNum
<1>2. gSpeed \in Nat
  BY ToolAssumption DEF gSpeed
<1>3. Second * gConsNum \in Nat
  BY <1>1, ToolAssumption
<1>4. ASSUME NEW m \in Nat, NEW n \in Nat \ {0}  PROVE m \div n \in Nat
  BY <1>4
<1>5. QED
  BY <1>1, <1>2, <1>3, <1>4 DEF gInterval
-----------------------------------------------------------------------------
LEMMA InitIInv == Init => IInv
<1> SUFFICES ASSUME Init PROVE IInv
  OBVIOUS
<1>1. TypeOK
  <2>1. gRunFlag \in [Children \cup {Main} -> BOOLEAN]
    BY Zenon DEF Init
  <2>2. pid_list \in Seq(Children \cup {Failed}) /\ ring \in Seq(SUBSET Requests)
    BY DEF Init
  <2>3. /\ clock \in Boot .. Boot + MaxClock
        /\ killed \in 0 .. Cores /\ test_intvl \in 0 .. Duration
    BY ToolAssumption DEF Init
  <2>4. /\ tmpStat \in [Children -> SUBSET Requests]
        /\ sent \in [Children -> 0 .. MaxSent]
    BY ToolAssumption DEF Init
  <2>5. QED
    BY <2>1, <2>2, <2>3, <2>4 DEF Init, TypeOK
<1>2. Queued = {} /\ Counting = {} /\ \A c \in Children : SentBy(c) = {}
  BY DEF Init, Queued, Counting, SentBy
<1>3. CountedOnce
  BY <1>2 DEF Init, CountedOnce
<1>4. OwnBatch /\ Quiet /\ FewPids
  BY ToolAssumption DEF Init, OwnBatch, Quiet, FewPids
<1>5. QED
  BY <1>1, <1>3, <1>4 DEF IInv
-----------------------------------------------------------------------------
(* A step of the main process takes all batches or none, and nothing else  *)
(* that is about requests changes.                                         *)
Requesting == <<tmpStat, sent>>

LEMMA FetchKeepsCounts ==
  ASSUME IInv, UNCHANGED Requesting,
         printPeriod \/ UNCHANGED <<gStatInf, ring>>
  PROVE  /\ CountedOnce' /\ OwnBatch'
         /\ gStatInf' \in SUBSET Requests /\ ring' \in Seq(SUBSET Requests)
<1> USE DEF IInv
<1>1. OwnBatch' /\ Counting' = Counting
  BY DEF Requesting, OwnBatch, SentBy, Counting
<1>2. UNION {SentBy(c) : c \in Children}' = UNION {SentBy(c) : c \in Children}
  BY DEF Requesting, SentBy
<1>3. CASE UNCHANGED <<gStatInf, ring>>
  <2>1. Queued' = Queued
    BY <1>3 DEF Queued
  <2>2. (\A c, d \in Children : c # d => tmpStat[c] \cap tmpStat[d] = {})'
    BY DEF CountedOnce, Requesting
  <2>3. (\A i, j \in 1 .. Len(ring) : i # j => ring[i] \cap ring[j] = {})'
    BY <1>3 DEF CountedOnce
  <2>4. CountedOnce'
    BY <1>1, <1>2, <1>3, <2>1, <2>2, <2>3 DEF CountedOnce
  <2>5. QED
    BY <1>1, <1>3, <2>4 DEF TypeOK
<1>4. CASE printPeriod
  <2>1. Queued' = {}
    BY <1>4 DEF printPeriod, Queued
  <2>2. gStatInf' = gStatInf \cup Queued
    BY <1>4 DEF printPeriod, Queued
  <2>3. \A i \in 1 .. Len(ring) : ring[i] \in SUBSET Requests
    BY DEF TypeOK
  <2>4. Queued \subseteq Requests
    BY <2>3 DEF Queued
  <2>5. CountedOnce'
    <3>1. (gStatInf \cup Queued \cup Counting = UNION {SentBy(c) : c \in Children})'
      BY <1>1, <1>2, <2>1, <2>2 DEF CountedOnce
    <3>2. (gStatInf \cap (Queued \cup Counting) = {} /\ Queued \cap Counting = {})'
      BY <1>1, <2>1, <2>2 DEF CountedOnce
    <3>3. (\A i, j \in 1 .. Len(ring) : i # j => ring[i] \cap ring[j] = {})'
      BY <1>4 DEF printPeriod
    <3>4. (\A c, d \in Children : c # d => tmpStat[c] \cap tmpStat[d] = {})'
      BY DEF CountedOnce, Requesting
    <3>5. QED
      BY <3>1, <3>2, <3>3, <3>4 DEF CountedOnce
  <2>6. gStatInf' \in SUBSET Requests /\ ring' \in Seq(SUBSET Requests)
    BY <1>4, <2>2, <2>4 DEF TypeOK, printPeriod
  <2>7. QED
    BY <1>1, <2>5, <2>6
<1>5. QED
  BY <1>3, <1>4
-----------------------------------------------------------------------------
(* Child c counts the requests of news, which are new, and keeps its batch *)
(* or pushes it.                                                           *)
LEMMA CountingKeepsCounts ==
  ASSUME IInv,
         NEW c \in Children, NEW n \in Nat, sent[c] + n <= MaxSent,
         sent' = [sent EXCEPT ![c] = @ + n],
         UNCHANGED gStatInf,
         NEW b, b = tmpStat[c] \cup {<<c, sent[c] + i>> : i \in 1 .. n},
         NEW s \in Nat, NEW t \in Nat,
         Kept(c, b, s) \/ Pushed(c, b, t)
  PROVE  /\ CountedOnce' /\ OwnBatch'
         /\ gStatInf' \in SUBSET Requests /\ ring' \in Seq(SUBSET Requests)
         /\ tmpStat' \in [Children -> SUBSET Requests]
         /\ staIndex' \in [Children -> Nat]
         /\ sent' \in [Children -> 0 .. MaxSent]
<1> DEFINE news == {<<c, sent[c] + i>> : i \in 1 .. n}
           others == UNION {tmpStat[d] : d \in Children \ {c}}
           everything == UNION {SentBy(d) : d \in Children}
<1> USE DEF IInv
<1>0. /\ sent \in [Children -> 0 .. MaxSent] /\ MaxSent \in Nat
      /\ tmpStat \in [Children -> SUBSET Requests]
      /\ ring \in Seq(SUBSET Requests) /\ staIndex \in [Children -> Nat]
  BY ToolAssumption DEF TypeOK
<1>1. sent' \in [Children -> 0 .. MaxSent]
  BY <1>0
<1>2. news \subseteq Requests
  BY <1>0 DEF Requests
<1>3. b \in SUBSET Requests
  BY <1>0, <1>2
<1>4. SentBy(c)' = SentBy(c) \cup news
  <2>1. sent'[c] = sent[c] + n /\ sent[c] \in Nat
    BY <1>0
  <2>2. 1 .. sent[c] + n = (1 .. sent[c]) \cup {sent[c] + i : i \in 1 .. n}
    <3>1. ASSUME NEW k \in 1 .. sent[c] + n, k \notin 1 .. sent[c]
          PROVE  k \in {sent[c] + i : i \in 1 .. n}
      <4>1. k - sent[c] \in 1 .. n /\ k = sent[c] + (k - sent[c])
        BY <2>1, <3>1
      <4>2. QED
        BY <4>1
    <3>2. QED
      BY <2>1, <3>1
  <2>3. QED
    BY <2>1, <2>2 DEF SentBy
<1>5. \A d \in Children : d # c => SentBy(d)' = SentBy(d)
  BY <1>0 DEF SentBy
<1>6. news \cap everything = {}
  <2>1. \A d \in Children : news \cap SentBy(d) = {}
    BY <1>0 DEF SentBy
  <2>2. QED
    BY <2>1
<1>7. everything' = everything \cup news
  BY <1>4, <1>5
<1>8. Counting = tmpStat[c] \cup others
  BY DEF Counting
<1>9. tmpStat[c] \cap others = {}
  BY DEF CountedOnce
<1>10. /\ gStatInf \cup Queued \cup Counting = everything
       /\ gStatInf \cap (Queued \cup Counting) = {} /\ Queued \cap Counting = {}
  BY DEF CountedOnce
<1>11. \A d \in Children : tmpStat[d] \subseteq Counting
  BY DEF Counting
<1>12. \A i \in 1 .. Len(ring) : ring[i] \subseteq Queued
  BY DEF Queued
<1> HIDE DEF news, others, everything
<1>13. b = tmpStat[c] \cup news
  BY DEF news
<1>14. CASE Kept(c, b, s)
  <2>1. /\ tmpStat' = [tmpStat EXCEPT ![c] = b] /\ UNCHANGED ring
        /\ staIndex' = [staIndex EXCEPT ![c] = s]
    BY <1>14 DEF Kept
  <2>2. tmpStat'[c] = b /\ \A d \in Children \ {c} : tmpStat'[d] = tmpStat[d]
    BY <1>0, <2>1
  <2>3. Counting' = b \cup others
    BY <2>2 DEF Counting, others
  <2>4. Queued' = Queued
    BY <2>1 DEF Queued
  <2>5. CountedOnce'
    <3>1. gStatInf' \cup Queued' \cup Counting' = everything'
      BY <1>7, <1>8, <1>10, <1>13, <2>3, <2>4
    <3>2. /\ gStatInf' \cap (Queued' \cup Counting') = {}
          /\ Queued' \cap Counting' = {}
      BY <1>6, <1>8, <1>10, <1>13, <2>3, <2>4
    <3>3. (\A i, j \in 1 .. Len(ring) : i # j => ring[i] \cap ring[j] = {})'
      BY <2>1 DEF CountedOnce
    <3>4. ASSUME NEW d \in Children \ {c} PROVE b \cap tmpStat[d] = {}
      <4>1. tmpStat[c] \cap tmpStat[d] = {}
        BY DEF CountedOnce
      <4>2. news \cap tmpStat[d] = {}
        BY <1>6, <1>10, <1>11
      <4>3. QED
        BY <4>1, <4>2, <1>13
    <3>5. (\A d, e \in Children : d # e => tmpStat[d] \cap tmpStat[e] = {})'
      BY <2>2, <3>4 DEF CountedOnce
    <3>6. QED
      BY <3>1, <3>2, <3>3, <3>5 DEF CountedOnce, everything
  <2>6. OwnBatch'
    BY <1>4, <1>5, <1>13, <2>2 DEF OwnBatch
  <2>7. QED
    BY <1>0, <1>1, <1>3, <2>1, <2>5, <2>6 DEF TypeOK
<1>15. CASE Pushed(c, b, t)
  <2>1. /\ tmpStat' = [tmpStat EXCEPT ![c] = {}] /\ ring' = Append(ring, b)
        /\ staIndex' = [staIndex EXCEPT ![c] = t]
    BY <1>15 DEF Pushed
  <2>2. tmpStat'[c] = {} /\ \A d \in Children \ {c} : tmpStat'[d] = tmpStat[d]
    BY <1>0, <2>1
  <2>3. Counting' = others
    BY <2>2 DEF Counting, others
  <2>4. Queued' = Queued \cup b
    <3>1. All(Append(ring, b)) = All(ring) \cup b
      <4>1. ring \in Seq(SUBSET Requests) /\ b \in SUBSET Requests
        BY <1>0, <1>3
      <4>2. QED
        BY <4>1, AllOfMore, Zenon
    <3>2. Queued = All(ring) /\ Queued' = All(ring')
      BY DEF Queued, All
    <3>3. QED
      BY <2>1, <3>1, <3>2
  <2>5. /\ Len(ring') = Len(ring) + 1 /\ ring'[Len(ring) + 1] = b
        /\ \A i \in 1 .. Len(ring) : ring'[i] = ring[i]
        /\ ring' \in Seq(SUBSET Requests) /\ Len(ring) \in Nat
    BY <1>0, <1>3, <2>1
  <2>6. b \cap Queued = {}
    BY <1>6, <1>8, <1>10, <1>13
  <2>7. CountedOnce'
    <3>1. gStatInf' \cup Queued' \cup Counting' = everything'
      BY <1>7, <1>8, <1>10, <1>13, <2>3, <2>4
    <3>2. /\ gStatInf' \cap (Queued' \cup Counting') = {}
          /\ Queued' \cap Counting' = {}
      BY <1>6, <1>8, <1>9, <1>10, <1>13, <2>3, <2>4
    <3>3. ASSUME NEW i \in 1 .. Len(ring'), NEW j \in 1 .. Len(ring'), i # j
          PROVE  ring'[i] \cap ring'[j] = {}
      <4>1. CASE i \in 1 .. Len(ring) /\ j \in 1 .. Len(ring)
        BY <2>5, <3>3, <4>1 DEF CountedOnce
      <4>2. CASE i = Len(ring) + 1 /\ j \in 1 .. Len(ring)
        BY <1>12, <2>5, <2>6, <4>2
      <4>3. CASE j = Len(ring) + 1 /\ i \in 1 .. Len(ring)
        BY <1>12, <2>5, <2>6, <4>3
      <4>4. QED
        BY <2>5, <3>3, <4>1, <4>2, <4>3
    <3>4. (\A d, e \in Children : d # e => tmpStat[d] \cap tmpStat[e] = {})'
      BY <2>2 DEF CountedOnce
    <3>5. QED
      BY <3>1, <3>2, <3>3, <3>4 DEF CountedOnce, everything
  <2>8. OwnBatch'
    <3>1. \A d \in Children \ {c} : tmpStat'[d] \subseteq SentBy(d)'
      BY <1>5, <2>2 DEF OwnBatch
    <3>2. QED
      BY <2>2, <3>1 DEF OwnBatch
  <2>9. QED
    BY <1>0, <1>1, <2>1, <2>5, <2>7, <2>8 DEF TypeOK
<1>16. QED
  BY <1>14, <1>15
-----------------------------------------------------------------------------
(* What a turn and the end of a child leave of its batch. *)
LEMMA SyncKeepsOrPushes ==
  ASSUME NEW c, NEW b, NEW s, NEW t, syncStat(c, b, s, t)
  PROVE  Kept(c, b, s) \/ Pushed(c, b, t)
  BY DEF syncStat

(* The steps of main keep the invariant. *)
LEMMA MainKeepsIInv == IInv /\ main => IInv'
<1> SUFFICES ASSUME IInv, main PROVE IInv'
  OBVIOUS
<1> USE DEF IInv, main
<1>1. UNCHANGED Requesting
  BY DEF Requesting, Fork, Forked, View, ViewEnds, Kill, KillEnds, printFinal,
         childVars
<1>2. printPeriod \/ UNCHANGED <<gStatInf, ring>>
  BY DEF Fork, Forked, View, ViewEnds, Kill, KillEnds, printFinal
<1>3. /\ CountedOnce' /\ OwnBatch'
      /\ gStatInf' \in SUBSET Requests /\ ring' \in Seq(SUBSET Requests)
  BY <1>1, <1>2, FetchKeepsCounts
<1>4. ASSUME NEW S PROVE Signalled(S) \in [Children \cup {Main} -> BOOLEAN]
  BY Zenon DEF Signalled
<1>5. Cores \in Nat /\ Duration \in Nat
  BY ToolAssumption
<1>6. CASE Fork
  <2> DEFINE c == Len(pid_list) + 1
  <2>1. c \in Children
    <3>1. Len(pid_list) \in Nat
      BY DEF TypeOK
    <3>2. Len(pid_list) < Cores
      BY <1>6, Zenon DEF Fork
    <3> HIDE DEF IInv, main
    <3> QED
      BY <1>5, <3>1, <3>2 DEF Children
  <2>2. pid_list' \in Seq(Children \cup {Failed})
    <3>1. \A x \in Children \cup {Failed} :
            Append(pid_list, x) \in Seq(Children \cup {Failed})
      BY DEF TypeOK
    <3>2. pid_list' = Append(pid_list, c) \/ pid_list' = Append(pid_list, Failed)
      BY <1>6, Zenon DEF Fork
    <3>3. QED
      BY <2>1, <3>1, <3>2
  <2>3. cpc' \in [Children -> {"none", "loop", "last", "gone"}]
    BY <1>6 DEF Fork, TypeOK
  <2>4. gRunFlag' \in [Children \cup {Main} -> BOOLEAN]
    <3>1. gRunFlag[Main] \in BOOLEAN
      BY Zenon DEF TypeOK
    <3>2. [gRunFlag EXCEPT ![c] = gRunFlag[Main]]
            \in [Children \cup {Main} -> BOOLEAN]
      BY <3>1, Zenon DEF TypeOK
    <3>3. gRunFlag' = gRunFlag \/ gRunFlag' = [gRunFlag EXCEPT ![c] = gRunFlag[Main]]
      BY <1>6, Zenon DEF Fork
    <3>4. QED
      BY <3>2, <3>3, Zenon DEF TypeOK
  <2>5. TypeOK'
    BY <1>3, <1>6, <2>2, <2>3, <2>4 DEF Fork, TypeOK
  <2>6. Quiet' /\ FewPids'
    BY <1>5, <1>6 DEF Fork, Quiet, FewPids, TypeOK
  <2>7. QED
    BY <1>3, <2>5, <2>6
<1>7. CASE Forked
  <2>1. TypeOK' /\ Quiet' /\ FewPids'
    BY <1>3, <1>7 DEF Forked, childVars, TypeOK, Quiet, FewPids
  <2>2. QED
    BY <1>3, <2>1
<1>8. CASE View
  <2>1. test_intvl' \in 0 .. Duration
    BY <1>5, <1>8 DEF View, TypeOK
  <2>2. TypeOK' /\ Quiet' /\ FewPids'
    BY <1>3, <1>8, <2>1 DEF View, childVars, TypeOK, Quiet, FewPids
  <2>3. QED
    BY <1>3, <2>2
<1>9. CASE ViewEnds
  <2>1. TypeOK' /\ Quiet' /\ FewPids'
    BY <1>3, <1>9 DEF ViewEnds, childVars, TypeOK, Quiet, FewPids
  <2>2. QED
    BY <1>3, <2>1
<1>10. CASE Kill
  <2>1. gRunFlag' \in [Children \cup {Main} -> BOOLEAN]
    BY <1>4, <1>10, Zenon DEF Kill
  <2>2. stray' \in BOOLEAN
    BY <1>10, Zenon DEF Kill
  <2>3. killed' \in 0 .. Cores
    BY <1>5, <1>10 DEF Kill, FewPids, TypeOK
  <2>4. TypeOK' /\ Quiet' /\ FewPids'
    BY <1>3, <1>10, <2>1, <2>2, <2>3 DEF Kill, childVars, TypeOK, Quiet, FewPids
  <2>5. QED
    BY <1>3, <2>4
<1>11. CASE KillEnds
  <2>1. TypeOK' /\ Quiet' /\ FewPids'
    BY <1>3, <1>11 DEF KillEnds, childVars, TypeOK, Quiet, FewPids
  <2>2. QED
    BY <1>3, <2>1
<1>12. CASE printFinal
  <2>1. ppc' \in {"crashed", "done"} /\ AllGone' /\ ring' = << >>
    BY <1>12 DEF printFinal, printPeriod, AllGone, childVars
  <2>2. TypeOK' /\ Quiet' /\ FewPids'
    BY <1>3, <1>12, <2>1 DEF printFinal, childVars, TypeOK, Quiet, FewPids
  <2>3. QED
    BY <1>3, <2>2
<1>13. QED
  BY <1>6, <1>7, <1>8, <1>9, <1>10, <1>11, <1>12
-----------------------------------------------------------------------------
(* The steps of a child keep the invariant. *)
LEMMA ChildKeepsIInv ==
  ASSUME IInv, NEW c \in Children, run(c)
  PROVE  IInv'
<1> USE DEF IInv
<1>1. /\ clock \in Nat /\ sent[c] \in Nat /\ staIndex[c] \in Nat
      /\ cpc \in [Children -> {"none", "loop", "last", "gone"}]
      /\ next_send_time \in [Children -> Nat] /\ sent \in [Children -> 0 .. MaxSent]
      /\ MaxSent \in Nat
  BY ToolAssumption DEF TypeOK
<1>2. cpc[c] \in {"loop", "last"}
  BY DEF run, Turn, Stop, Finish
<1>3. UNCHANGED <<clock, mainVars, gRunFlag, stray>>
  BY DEF run, Turn, Stop, Finish
<1>4. Quiet' /\ FewPids'
  BY <1>2, <1>3 DEF mainVars, Quiet, AllGone, FewPids
<1>5. CASE Turn(c)
  <2> DEFINE due == clock >= next_send_time[c]
             batch(n) == tmpStat[c] \cup {<<c, sent[c] + i>> : i \in 1 .. n}
             begun(n) == IF n > 0 /\ staIndex[c] = 0 THEN clock ELSE staIndex[c]
  <2>1. PICK n \in 0 .. (IF due THEN gConsNum ELSE 0) :
            /\ sent[c] + n <= MaxSent
            /\ sent' = [sent EXCEPT ![c] = @ + n]
            /\ \/ syncStat(c, batch(n), begun(n), clock)
               \/ due /\ Kept(c, batch(n), begun(n))
    BY <1>5 DEF Turn
  <2>2. n \in Nat
    BY IntervalIsTime
  <2>3. begun(n) \in Nat
    BY <1>1
  <2>4. Kept(c, batch(n), begun(n)) \/ Pushed(c, batch(n), clock)
    BY <2>1, SyncKeepsOrPushes
  <2>5. UNCHANGED gStatInf
    BY <1>3 DEF mainVars
  <2>6. /\ CountedOnce' /\ OwnBatch'
        /\ gStatInf' \in SUBSET Requests /\ ring' \in Seq(SUBSET Requests)
        /\ tmpStat' \in [Children -> SUBSET Requests]
        /\ staIndex' \in [Children -> Nat]
        /\ sent' \in [Children -> 0 .. MaxSent]
    <3> HIDE DEF begun, IInv
    <3>1. IInv
      OBVIOUS
    <3>2. QED
      BY <1>1, <2>1, <2>2, <2>3, <2>4, <2>5, <3>1, CountingKeepsCounts
  <2>7. next_send_time' \in [Children -> Nat]
    BY <1>1, <1>5, IntervalIsTime DEF Turn
  <2>8. UNCHANGED cpc
    BY <1>5 DEF Turn
  <2>9. TypeOK'
    BY <1>3, <2>6, <2>7, <2>8 DEF mainVars, TypeOK
  <2>10. QED
    BY <1>4, <2>6, <2>9
<1>6. CASE Stop(c)
  <2>1. UNCHANGED <<Requesting, gStatInf, ring>>
    BY <1>3, <1>6 DEF Stop, Requesting, mainVars
  <2>2. CountedOnce' /\ OwnBatch'
    BY <2>1, FetchKeepsCounts
  <2>3. cpc' \in [Children -> {"none", "loop", "last", "gone"}]
    BY <1>1, <1>6 DEF Stop
  <2>4. TypeOK'
    BY <1>3, <1>6, <2>3 DEF Stop, mainVars, TypeOK
  <2>5. QED
    BY <1>4, <2>2, <2>4
<1>7. CASE Finish(c)
  <2>1. /\ sent' = [sent EXCEPT ![c] = @ + 0] /\ sent[c] + 0 <= MaxSent
        /\ tmpStat[c] = tmpStat[c] \cup {<<c, sent[c] + i>> : i \in 1 .. 0}
    BY <1>1, <1>7 DEF Finish
  <2>2. Kept(c, tmpStat[c], staIndex[c]) \/ Pushed(c, tmpStat[c], 0)
    BY <1>7, SyncKeepsOrPushes DEF Finish
  <2>3. UNCHANGED gStatInf
    BY <1>3 DEF mainVars
  <2>4. /\ CountedOnce' /\ OwnBatch'
        /\ gStatInf' \in SUBSET Requests /\ ring' \in Seq(SUBSET Requests)
        /\ tmpStat' \in [Children -> SUBSET Requests]
        /\ staIndex' \in [Children -> Nat]
        /\ sent' \in [Children -> 0 .. MaxSent]
    <3> HIDE DEF IInv
    <3>1. IInv
      OBVIOUS
    <3>2. QED
      BY <1>1, <2>1, <2>2, <2>3, <3>1, CountingKeepsCounts
  <2>5. cpc' \in [Children -> {"none", "loop", "last", "gone"}]
    BY <1>1, <1>7 DEF Finish
  <2>6. UNCHANGED next_send_time
    BY <1>7 DEF Finish
  <2>7. TypeOK'
    BY <1>3, <2>4, <2>5, <2>6 DEF mainVars, TypeOK
  <2>8. QED
    BY <1>4, <2>4, <2>7
<1>8. QED
  BY <1>5, <1>6, <1>7 DEF run

(* A tick, a signal and the end of a child before its time do so, too.     *)
LEMMA AroundKeepsIInv ==
  ASSUME IInv,
         \/ Tick
         \/ \E S \in {{Main}, Children \cup {Main}} : Interrupt(S)
         \/ \E c \in Children : Crash(c)
         \/ UNCHANGED vars
  PROVE  IInv'
<1> USE DEF IInv
<1>1. UNCHANGED <<Requesting, gStatInf, ring, pid_list, ppc>>
  BY DEF Tick, Interrupt, Crash, vars, mainVars, childVars, Requesting
<1>2. CountedOnce' /\ OwnBatch'
  BY <1>1, FetchKeepsCounts
<1>3. FewPids'
  BY <1>1 DEF FewPids
<1>4. CASE Tick
  <2>1. clock' \in Boot .. Boot + MaxClock
    BY <1>4, ToolAssumption DEF Tick, TypeOK
  <2>2. TypeOK' /\ Quiet'
    BY <1>4, <2>1 DEF Tick, mainVars, childVars, TypeOK, Quiet, AllGone
  <2>3. QED
    BY <1>2, <1>3, <2>2
<1>5. CASE \E S \in {{Main}, Children \cup {Main}} : Interrupt(S)
  <2>1. PICK S : Interrupt(S)
    BY <1>5
  <2>2. gRunFlag' \in [Children \cup {Main} -> BOOLEAN]
    BY <2>1, Zenon DEF Interrupt, Signalled
  <2>3. TypeOK' /\ Quiet'
    BY <2>1, <2>2 DEF Interrupt, mainVars, childVars, TypeOK, Quiet, AllGone
  <2>4. QED
    BY <1>2, <1>3, <2>3
<1>6. CASE \E c \in Children : Crash(c)
  <2>1. PICK c \in Children : Crash(c)
    BY <1>6
  <2>2. /\ cpc[c] \in {"loop", "last"} /\ cpc' = [cpc EXCEPT ![c] = "gone"]
        /\ UNCHANGED <<clock, mainVars, gRunFlag, next_send_time, tmpStat,
                       staIndex, sent, ring, stray>>
    BY <2>1 DEF Crash
  <2>3. TypeOK'
    BY <2>2 DEF mainVars, TypeOK
  <2>4. Quiet'
    BY <2>2 DEF mainVars, Quiet, AllGone
  <2>5. QED
    BY <1>2, <1>3, <2>3, <2>4
<1>7. CASE UNCHANGED vars
  <2>1. TypeOK' /\ Quiet'
    BY <1>7 DEF vars, mainVars, childVars, TypeOK, Quiet, AllGone
  <2>2. QED
    BY <1>2, <1>3, <2>1
<1>8. QED
  BY <1>4, <1>5, <1>6, <1>7

THEOREM Invariant == Spec => []IInv
<1>1. IInv /\ [Next]_vars => IInv'
  BY MainKeepsIInv, ChildKeepsIInv, AroundKeepsIInv DEF Next
<1>2. QED
  BY InitIInv, <1>1, PTL DEF Spec

(* The state of tb has its type; in particular no more seconds pass than   *)
(* the test has, and requests are counted within the bound.                *)
THEOREM ToolTypeCorrect == Spec => []TypeOK
<1>1. IInv => TypeOK
  BY DEF IInv
<1>2. QED
  BY Invariant, <1>1, PTL

(* A request counted as sent is in one batch, in the ring or in the figures*)
(* of main, and in one only, whatever processes die, stop or find the ring *)
(* full (syncStat, printPeriod).                                           *)
THEOREM RequestsCountedOnce == Spec => []CountedOnce
<1>1. IInv => CountedOnce
  BY DEF IInv
<1>2. QED
  BY Invariant, <1>1, PTL

(* The final figures hold all that was sent but what a process kept to its *)
(* end (main, printFinal).                                                 *)
THEOREM FiguresFinal == Spec => []FinalFigures
<1>1. IInv => FinalFigures
  <2> SUFFICES ASSUME IInv, ppc \in {"done", "crashed"} PROVE
          /\ \A c \in Children : cpc[c] \in {"none", "gone"}
          /\ ring = << >>
          /\ gStatInf = UNION {SentBy(c) \ tmpStat[c] : c \in Children}
    BY DEF FinalFigures
  <2>1. AllGone /\ ring = << >>
    BY DEF IInv, Quiet
  <2>2. Queued = {}
    BY <2>1 DEF Queued
  <2>3. /\ gStatInf \cup Counting = UNION {SentBy(c) : c \in Children}
        /\ gStatInf \cap Counting = {}
    BY <2>2 DEF IInv, CountedOnce
  <2>4. \A c, d \in Children : c # d => SentBy(c) \cap tmpStat[d] = {}
    BY DEF IInv, OwnBatch, SentBy
  <2>5. \A x : x \in Counting <=> \E c \in Children : x \in tmpStat[c]
    BY DEF Counting
  <2>6. \A x : x \in gStatInf <=>
              \E c \in Children : x \in SentBy(c) /\ x \notin tmpStat[c]
    BY <2>3, <2>4, <2>5
  <2>7. gStatInf = UNION {SentBy(c) \ tmpStat[c] : c \in Children}
    BY <2>6
  <2>8. QED
    BY <2>1, <2>7 DEF AllGone
<1>2. QED
  BY Invariant, <1>1, PTL
=============================================================================
