--------------------------- MODULE FiguresProofs ---------------------------
(***************************************************************************)
(* Proofs about the figures of a test, for any number of calls, batches    *)
(* and nodes.  A loop of the code is a run of states (LoopRuns).  In a run *)
(* over calls a counter is the number of the calls so far that it is for;  *)
(* in one over batches or nodes each figure is that of their calls put one *)
(* after the other (SumTells, AllTell).  Percentiles keep their order as   *)
(* places in the sorted costs do, and so do their rounded means, since all *)
(* three have the same weights.  The return codes go through a text:       *)
(* numerals are read back digit by digit (DecimalRead), where each entry   *)
(* lies in the text follows from how map2str grows it (TextLaid), and the  *)
(* parser has one more entry of the map after each (NextEntry,             *)
(* MapsReturn).                                                            *)
(***************************************************************************)
EXTENDS Figures, SequenceTheorems, SumsProofs

(* A loop goes through a state after each turn.  The step is given as a    *)
(* function here, so that the lemma can be used of any step.               *)
Runs(base, n, g, h) ==
    h[0] = base /\ \A i \in 1 .. n : h[i] = g[i][h[i - 1]]

(* A loop of typed states has a run: a state for each turn, from the base  *)
(* on.                                                                     *)
LEMMA LoopRuns ==
  ASSUME NEW S, NEW base \in S, NEW n \in Nat, NEW g \in [1 .. n -> [S -> S]]
  PROVE  \E h \in [0 .. n -> S] : Runs(base, n, g, h)
<1> DEFINE Chain(m, h) ==
              h = [i \in 0 .. m |-> IF i = 0 THEN base ELSE g[i][h[i - 1]]]
           Has == {m \in Nat : m <= n => \E h \in [0 .. m -> S] : Chain(m, h)}
<1>1. 0 \in Has
  <2> DEFINE h == [i \in 0 .. 0 |-> base]
  <2>1. h \in [0 .. 0 -> S] /\ Chain(0, h)
    OBVIOUS
  <2>2. QED
    BY <2>1
<1>2. ASSUME NEW m \in Nat, m \in Has PROVE m + 1 \in Has
  <2>1. SUFFICES ASSUME m + 1 <= n
                 PROVE  \E h \in [0 .. m + 1 -> S] : Chain(m + 1, h)
    OBVIOUS
  <2>2. PICK f \in [0 .. m -> S] : Chain(m, f)
    BY <1>2, <2>1
  <2> DEFINE h == [i \in 0 .. m + 1 |-> IF i = 0 THEN base ELSE g[i][f[i - 1]]]
  <2>3. \A i \in 0 .. m : f[i] = IF i = 0 THEN base ELSE g[i][f[i - 1]]
    BY <2>2
  <2>4. \A i \in 0 .. m : i \in 0 .. m + 1 /\ h[i] = f[i]
    BY <2>3
  <2>5. \A i \in 0 .. m + 1 : i # 0 => i - 1 \in 0 .. m /\ i \in 1 .. n
    BY <2>1
  <2>6. h \in [0 .. m + 1 -> S]
    <3>1. \A i \in 0 .. m + 1 : i # 0 => g[i][f[i - 1]] \in S
      BY <2>2, <2>5
    <3>2. QED
      BY <3>1
  <2>7. Chain(m + 1, h)
    BY <2>4, <2>5
  <2>8. QED
    BY <2>6, <2>7
<1> HIDE DEF Has
<1>3. n \in Has
  BY <1>1, <1>2, SetInduction
<1>4. PICK h \in [0 .. n -> S] : Chain(n, h)
  BY <1>3 DEF Has
<1>5. Runs(base, n, g, h)
  BY <1>4 DEF Runs
<1>6. QED
  BY <1>5

(* Joined sequences, one after the other. *)
LEMMA JoinedRuns ==
  ASSUME NEW T, NEW seqs \in Seq(Seq(T))
  PROVE  \E f : /\ Joined(seqs) = f[Len(seqs)]
                /\ f[0] = << >>
                /\ \A i \in 1 .. Len(seqs) : f[i] = f[i - 1] \o seqs[i]
<1> DEFINE n == Len(seqs)
           S == Seq(T)
           base == << >>
           g == [i \in 1 .. n |-> [s \in Seq(T) |-> s \o seqs[i]]]
           Chain(h) == h = [i \in 0 .. n |-> IF i = 0 THEN << >>
                                             ELSE h[i - 1] \o seqs[i]]
           f == CHOOSE h : Chain(h)
<1>1. /\ n \in Nat /\ << >> \in Seq(T)
      /\ \A i \in 1 .. n : \A s \in Seq(T) : s \o seqs[i] \in Seq(T)
  BY ElementOfSeq, ConcatProperties
<1>2. /\ g \in [1 .. n -> [Seq(T) -> Seq(T)]]
      /\ \A i \in 1 .. n : \A s \in Seq(T) : g[i][s] = s \o seqs[i]
  BY <1>1
<1>3. /\ 0 \in 0 .. n /\ \A i \in 1 .. n : i # 0 /\ i \in 0 .. n
      /\ \A i \in 0 .. n : i # 0 => i \in 1 .. n /\ i - 1 \in 0 .. n
  BY <1>1
<1>4. Joined(seqs) = f[n]
  BY DEF Joined, Folded
<1> HIDE DEF n, g
<1>5. PICK h \in [0 .. n -> S] : Runs(base, n, g, h)
  <2>1. base \in S /\ n \in Nat /\ g \in [1 .. n -> [S -> S]]
    BY <1>1, <1>2
  <2> HIDE DEF S, base
  <2>2. QED
    BY <2>1, LoopRuns
<1>6. \A i \in 0 .. n : h[i] = IF i = 0 THEN << >> ELSE h[i - 1] \o seqs[i]
  BY <1>2, <1>3, <1>5, Zenon DEF Runs
<1>7. Chain(h)
  BY <1>5, <1>6, Zenon
<1>8. Chain(f)
  BY <1>7, Zenon
<1> HIDE DEF f
<1>9. f[0] = << >> /\ \A i \in 1 .. n : f[i] = f[i - 1] \o seqs[i]
  BY <1>3, <1>8, Zenon
<1>10. QED
  BY <1>4, <1>9, Zenon DEF n

(* Numbers added up, one after the other. *)
LEMMA SummedRuns ==
  ASSUME NEW ns \in Seq(Nat)
  PROVE  \E f : /\ Summed(ns) = f[Len(ns)]
                /\ f[0] = 0
                /\ \A i \in 1 .. Len(ns) : f[i] = f[i - 1] + ns[i]
<1> DEFINE n == Len(ns)
           g == [i \in 1 .. n |-> [s \in Nat |-> s + ns[i]]]
           Chain(h) == h = [i \in 0 .. n |-> IF i = 0 THEN 0 ELSE h[i - 1] + ns[i]]
           f == CHOOSE h : Chain(h)
<1>1. n \in Nat /\ \A i \in 1 .. n : \A s \in Nat : s + ns[i] \in Nat
  BY ElementOfSeq
<1>2. /\ g \in [1 .. n -> [Nat -> Nat]]
      /\ \A i \in 1 .. n : \A s \in Nat : g[i][s] = s + ns[i]
  BY <1>1
<1>3. /\ 0 \in 0 .. n /\ \A i \in 1 .. n : i # 0 /\ i \in 0 .. n
      /\ \A i \in 0 .. n : i # 0 => i \in 1 .. n /\ i - 1 \in 0 .. n
  BY <1>1
<1>4. Summed(ns) = f[n]
  BY DEF Summed, Folded
<1> HIDE DEF n, g
<1>5. PICK h \in [0 .. n -> Nat] : Runs(0, n, g, h)
  BY <1>1, <1>2, LoopRuns
<1>6. \A i \in 0 .. n : h[i] = IF i = 0 THEN 0 ELSE h[i - 1] + ns[i]
  BY <1>2, <1>3, <1>5, Zenon DEF Runs
<1>7. Chain(h)
  BY <1>5, <1>6, Zenon
<1>8. Chain(f)
  BY <1>7, Zenon
<1> HIDE DEF f
<1>9. f[0] = 0 /\ \A i \in 1 .. n : f[i] = f[i - 1] + ns[i]
  BY <1>3, <1>8, Zenon
<1>10. QED
  BY <1>4, <1>9, Zenon DEF n
-----------------------------------------------------------------------------
(* Counting *)
Found(c, n, S) == {k \in 1 .. n : c[k] \in S}
Count(c, n, S) == Cardinality(Found(c, n, S))

(* A count is a number, and at most that of the calls gone through. *)
LEMMA CountType ==
  ASSUME NEW c, NEW n \in Nat, NEW S
  PROVE  IsFiniteSet(Found(c, n, S)) /\ Count(c, n, S) \in Nat
<1>1. IsFiniteSet(1 .. n)
  BY FS_Interval
<1>2. Found(c, n, S) \in SUBSET (1 .. n)
  BY DEF Found
<1>3. IsFiniteSet(Found(c, n, S))
  BY <1>1, <1>2, FS_Subset
<1>4. QED
  BY <1>3, FS_CardinalityType DEF Count

(* Before the first call nothing is counted. *)
LEMMA CountNone ==
  ASSUME NEW c, NEW S
  PROVE  Count(c, 0, S) = 0
<1>1. Found(c, 0, S) = {}
  BY DEF Found
<1>2. QED
  BY <1>1, FS_EmptySet DEF Count

(* One call more is counted where it belongs, and nowhere else. *)
LEMMA CountMore ==
  ASSUME NEW c, NEW n \in Nat, NEW S
  PROVE  Count(c, n + 1, S) = Count(c, n, S) + IF c[n + 1] \in S THEN 1 ELSE 0
<1>1. IsFiniteSet(Found(c, n, S)) /\ Count(c, n, S) \in Nat
  BY CountType
<1>2. CASE c[n + 1] \in S
  <2>1. Found(c, n + 1, S) = Found(c, n, S) \cup {n + 1}
    BY <1>2 DEF Found
  <2>2. n + 1 \notin Found(c, n, S)
    BY DEF Found
  <2>3. Cardinality(Found(c, n, S) \cup {n + 1}) = Cardinality(Found(c, n, S)) + 1
    BY <1>1, <2>2, FS_AddElement
  <2>4. QED
    BY <1>2, <2>1, <2>3 DEF Count
<1>3. CASE ~ (c[n + 1] \in S)
  <2>1. Found(c, n + 1, S) = Found(c, n, S)
    BY <1>3 DEF Found
  <2>2. QED
    BY <1>1, <1>3, <2>1 DEF Count
<1>4. QED
  BY <1>2, <1>3

(* Joined sequences have as many calls of a kind as both together. *)
LEMMA CountJoined ==
  ASSUME NEW T, NEW s \in Seq(T), NEW t \in Seq(T), NEW S
  PROVE  HowMany(s \o t, S) = HowMany(s, S) + HowMany(t, S)
<1> DEFINE c == s \o t
           m == Len(s)
           Has == {n \in Nat : n <= Len(t) =>
                      Count(c, m + n, S) = Count(s, m, S) + Count(t, n, S)}
<1>1. /\ m \in Nat /\ Len(t) \in Nat /\ Len(c) = m + Len(t)
      /\ \A k \in 1 .. m : c[k] = s[k]
      /\ \A n \in 1 .. Len(t) : c[m + n] = t[n]
  OBVIOUS
<1> HIDE DEF c, m
<1>2. 0 \in Has
  <2>1. Found(c, m, S) = Found(s, m, S)
    BY <1>1 DEF Found
  <2>2. Count(s, m, S) \in Nat /\ Count(t, 0, S) = 0 /\ m + 0 = m
    BY <1>1, CountType, CountNone
  <2>3. QED
    BY <2>1, <2>2 DEF Count
<1>3. ASSUME NEW n \in Nat, n \in Has PROVE n + 1 \in Has
  <2>1. SUFFICES ASSUME n + 1 <= Len(t)
                 PROVE  Count(c, m + (n + 1), S) =
                            Count(s, m, S) + Count(t, n + 1, S)
    OBVIOUS
  <2>2. m + n \in Nat /\ m + (n + 1) = (m + n) + 1 /\ c[(m + n) + 1] = t[n + 1]
    BY <1>1, <2>1
  <2>3. Count(c, m + n, S) = Count(s, m, S) + Count(t, n, S)
    BY <1>1, <1>3, <2>1
  <2>4. Count(s, m, S) \in Nat /\ Count(t, n, S) \in Nat
    BY <1>1, CountType
  <2>5. /\ Count(c, (m + n) + 1, S) =
              Count(c, m + n, S) + IF c[(m + n) + 1] \in S THEN 1 ELSE 0
        /\ Count(t, n + 1, S) = Count(t, n, S) + IF t[n + 1] \in S THEN 1 ELSE 0
    BY <2>2, CountMore
  <2>6. QED
    BY <2>2, <2>3, <2>4, <2>5
<1> HIDE DEF Has
<1>4. Len(t) \in Has
  BY <1>1, <1>2, <1>3, SetInduction
<1>5. Count(c, Len(c), S) = Count(s, m, S) + Count(t, Len(t), S)
  BY <1>1, <1>4 DEF Has
<1>6. DOMAIN c = 1 .. Len(c) /\ DOMAIN s = 1 .. Len(s) /\ DOMAIN t = 1 .. Len(t)
  BY ConcatProperties DEF c
<1>7. QED
  BY <1>5, <1>6 DEF HowMany, Count, Found, c, m
-----------------------------------------------------------------------------
(* The classes of costs, as report counts them and as tb prints them.      *)
LEMMA StepClass ==
  ASSUME NEW c \in Call
  PROVE  /\ Step(c.cost) \in 1 .. 8
         /\ \A i \in 1 .. MAX_STEP_COST : c \in Class(i) <=> i = Step(c.cost)
<1> DEFINE Low(i) == << 0, 10, 30, 50, 100, 500, 3000, 5000 >>[i]
           Is(i) == /\ costStep[i] > c.cost \/ costStep[i] = 0
                    /\ \A k \in 1 .. i - 1 : costStep[k] <= c.cost /\ costStep[k] # 0
<1>1. c.cost \in Nat
  BY DEF Call
<1>2. PICK j \in 1 .. 8 : Low(j) <= c.cost /\ (j < 8 => c.cost < Low(j + 1))
  BY <1>1
<1>3. /\ \A i \in 1 .. 7 : costStep[i] = Low(i + 1)
      /\ costStep[8] = 0
      /\ \A i \in 1 .. 8 : arrCost[i] = Low(i)
      /\ Len(arrCost) = 9
  BY DEF costStep, arrCost
<1>4. \A i, k \in 1 .. 8 : i <= k => Low(i) <= Low(k) /\ Low(i) \in Nat
  OBVIOUS
<1>5. \A k \in 1 .. 7 : Low(k + 1) \in Nat \ {0}
  OBVIOUS
<1> HIDE DEF Low
<1>6. Is(j)
  <2>1. \A k \in 1 .. j - 1 : k \in 1 .. 7 /\ k + 1 \in 1 .. 8 /\ k + 1 <= j
    OBVIOUS
  <2>2. QED
    BY <1>1, <1>2, <1>3, <1>4, <1>5, <2>1
<1>7. \A i \in 1 .. MAX_STEP_COST : Is(i) => i = j
  <2>1. TAKE i \in 1 .. MAX_STEP_COST
  <2>2. HAVE Is(i)
  <2>3. ~ (i < j)
    <3>1. SUFFICES ASSUME i < j PROVE FALSE
      OBVIOUS
    <3>2. i \in 1 .. j - 1
      BY <3>1 DEF MAX_STEP_COST
    <3>3. costStep[i] <= c.cost /\ costStep[i] # 0
      BY <1>6, <3>2
    <3>4. costStep[i] \in Nat
      BY <1>3, <1>5, <3>2
    <3>5. QED
      BY <1>1, <2>2, <3>3, <3>4
  <2>4. ~ (j < i)
    <3>1. SUFFICES ASSUME j < i PROVE FALSE
      OBVIOUS
    <3>2. costStep[j] <= c.cost /\ costStep[j] # 0
      BY <2>2, <3>1 DEF MAX_STEP_COST
    <3>3. costStep[j] \in Nat
      BY <1>3, <1>5
    <3>4. QED
      BY <1>1, <1>6, <3>2, <3>3
  <2>5. QED
    BY <2>3, <2>4 DEF MAX_STEP_COST
<1>8. Step(c.cost) = j
  <2>1. j \in 1 .. MAX_STEP_COST
    BY DEF MAX_STEP_COST
  <2>2. Step(c.cost) = CHOOSE i \in 1 .. MAX_STEP_COST : Is(i)
    BY DEF Step
  <2> HIDE DEF Is
  <2>3. QED
    BY <1>6, <1>7, <2>1, <2>2
<1>9. \A i \in 1 .. MAX_STEP_COST : c \in Class(i) <=> i = j
  <2>1. TAKE i \in 1 .. MAX_STEP_COST
  <2>2. c \in Class(i) <=> /\ i < 9 /\ arrCost[i] <= c.cost
                           /\ i < 8 => c.cost < arrCost[i + 1]
    BY <1>3 DEF Class, MAX_STEP_COST
  <2>3. c \in Class(i) <=> /\ i \in 1 .. 8 /\ Low(i) <= c.cost
                           /\ i < 8 => c.cost < Low(i + 1)
    BY <1>3, <2>2 DEF MAX_STEP_COST
  <2>4. ASSUME c \in Class(i) PROVE i = j
    <3>1. ~ (i < j)
      BY <1>1, <1>2, <1>4, <2>3, <2>4
    <3>2. ~ (j < i)
      BY <1>1, <1>2, <1>4, <2>3, <2>4
    <3>3. QED
      BY <3>1, <3>2 DEF MAX_STEP_COST
  <2>5. QED
    BY <1>2, <2>3, <2>4
<1>10. QED
  BY <1>8, <1>9
-----------------------------------------------------------------------------
(* A batch *)
Tallies == [totalCount : Nat, succCount : Nat, failCount : Nat, totalTime : Nat,
            maxTime : Nat, minTime : Nat, p90Time : Nat, p99Time : Nat,
            p999Time : Nat, costTimes : [1 .. MAX_STEP_COST -> Nat],
            retCount : {<< >>}]

(* What report changes in a batch: one counter of success or failure, one  *)
(* class of costs, and the extremes (report of monitor.cpp).               *)
LEMMA ReportedType ==
  ASSUME NEW st \in Tallies, NEW c \in Call
  PROVE  /\ Reported(st, c) \in Tallies
         /\ Reported(st, c).succCount =
                st.succCount + IF c \in Succeeded THEN 1 ELSE 0
         /\ Reported(st, c).succCount + Reported(st, c).failCount =
                st.succCount + st.failCount + 1
         /\ \A i \in 1 .. MAX_STEP_COST :
                Reported(st, c).costTimes[i] =
                    st.costTimes[i] + IF c \in Class(i) THEN 1 ELSE 0
         /\ Reported(st, c).maxTime = Max_(st.maxTime, c.cost)
         /\ Reported(st, c).minTime = Min_(st.minTime, c.cost)
<1>1. c.cost \in Nat /\ c.ret \in Int /\ (c \in Succeeded <=> c.ret = BM_SUCC)
  BY DEF Call, Succeeded
<1>2. /\ Step(c.cost) \in 1 .. MAX_STEP_COST
      /\ \A i \in 1 .. MAX_STEP_COST : c \in Class(i) <=> i = Step(c.cost)
  BY StepClass DEF MAX_STEP_COST
<1>3. Max_(st.maxTime, c.cost) \in Nat /\ Min_(st.minTime, c.cost) \in Nat
  BY <1>1 DEF Max_, Min_, Tallies
<1> DEFINE times == [st.costTimes EXCEPT ![Step(c.cost)] = @ + 1]
<1>4. /\ times \in [1 .. MAX_STEP_COST -> Nat]
      /\ \A i \in 1 .. MAX_STEP_COST :
             times[i] = st.costTimes[i] + IF c \in Class(i) THEN 1 ELSE 0
  <2> DEFINE d == st.costTimes
             s == Step(c.cost)
  <2>1. d \in [1 .. MAX_STEP_COST -> Nat]
    BY DEF Tallies
  <2> HIDE DEF d, s
  <2>2. /\ [d EXCEPT ![s] = @ + 1] \in [1 .. MAX_STEP_COST -> Nat]
        /\ \A i \in 1 .. MAX_STEP_COST :
               [d EXCEPT ![s] = @ + 1][i] = d[i] + IF c \in Class(i) THEN 1 ELSE 0
    BY <1>2, <2>1 DEF s
  <2>3. QED
    BY <2>2 DEF d, s
<1>5. /\ Reported(st, c).costTimes = times
      /\ Reported(st, c).succCount = st.succCount + IF c.ret = BM_SUCC THEN 1 ELSE 0
      /\ Reported(st, c).failCount = st.failCount + IF c.ret = BM_SUCC THEN 0 ELSE 1
      /\ Reported(st, c).maxTime = Max_(st.maxTime, c.cost)
      /\ Reported(st, c).minTime = Min_(st.minTime, c.cost)
  BY DEF Reported, Tallies
<1> HIDE DEF times
<1>6. Reported(st, c) \in Tallies
  <2> DEFINE a == st.succCount + (IF c.ret = BM_SUCC THEN 1 ELSE 0)
             b == st.failCount + (IF c.ret = BM_SUCC THEN 0 ELSE 1)
             t == st.totalTime + c.cost
             x == Max_(st.maxTime, c.cost)
             y == Min_(st.minTime, c.cost)
  <2>1. a \in Nat /\ b \in Nat
    BY DEF Tallies
  <2>2. t \in Nat
    BY <1>1 DEF Tallies
  <2>3. x \in Nat /\ y \in Nat /\ times \in [1 .. MAX_STEP_COST -> Nat]
    BY <1>3, <1>4
  <2>4. Reported(st, c) =
          [st EXCEPT !.succCount = a, !.failCount = b, !.totalTime = t,
                     !.maxTime = x, !.minTime = y, !.costTimes = times]
    BY DEF Reported, times, Tallies
  <2> HIDE DEF a, b, t, x, y
  <2>5. [st EXCEPT !.succCount = a, !.failCount = b, !.totalTime = t,
                   !.maxTime = x, !.minTime = y, !.costTimes = times] \in Tallies
    BY <2>1, <2>2, <2>3 DEF Tallies
  <2>6. QED
    BY <2>4, <2>5
<1>7. Reported(st, c).succCount + Reported(st, c).failCount =
          st.succCount + st.failCount + 1
  BY <1>5 DEF Tallies
<1>8. QED
  BY <1>1, <1>4, <1>5, <1>6, <1>7, Zenon

(* An empty batch is a batch (clear). *)
LEMMA ClearedType == Cleared \in Tallies
BY DEF Cleared, Tallies

(* A batch goes through a state after each of its calls. *)
LEMMA TalliedRuns ==
  ASSUME NEW calls \in Seq(Call)
  PROVE  \E f : /\ Tallied(calls) = f[Len(calls)]
                /\ f[0] = Cleared
                /\ \A i \in 1 .. Len(calls) : f[i] = Reported(f[i - 1], calls[i])
<1> DEFINE n == Len(calls)
           g == [i \in 1 .. n |-> [st \in Tallies |-> Reported(st, calls[i])]]
           Chain(h) == h = [i \in 0 .. n |-> IF i = 0 THEN Cleared
                                             ELSE Reported(h[i - 1], calls[i])]
           f == CHOOSE h : Chain(h)
<1>1. n \in Nat /\ \A i \in 1 .. n : \A st \in Tallies : Reported(st, calls[i]) \in Tallies
  BY ElementOfSeq, ReportedType
<1>2. /\ g \in [1 .. n -> [Tallies -> Tallies]]
      /\ \A i \in 1 .. n : \A st \in Tallies : g[i][st] = Reported(st, calls[i])
  BY <1>1
<1>3. /\ 0 \in 0 .. n /\ \A i \in 1 .. n : i # 0 /\ i \in 0 .. n
      /\ \A i \in 0 .. n : i # 0 => i \in 1 .. n /\ i - 1 \in 0 .. n
  BY <1>1
<1>4. Tallied(calls) = f[n]
  BY DEF Tallied, Folded
<1> HIDE DEF n, g
<1>5. PICK h \in [0 .. n -> Tallies] : Runs(Cleared, n, g, h)
  <2>1. n \in Nat /\ g \in [1 .. n -> [Tallies -> Tallies]]
    BY <1>1, <1>2
  <2>2. QED
    BY <2>1, ClearedType, LoopRuns
<1>6. \A i \in 0 .. n : h[i] = IF i = 0 THEN Cleared ELSE Reported(h[i - 1], calls[i])
  BY <1>2, <1>3, <1>5, Zenon DEF Runs
<1>7. Chain(h)
  BY <1>5, <1>6, Zenon
<1>8. Chain(f)
  BY <1>7, Zenon
<1> HIDE DEF f
<1>9. f[0] = Cleared /\ \A i \in 1 .. n : f[i] = Reported(f[i - 1], calls[i])
  BY <1>3, <1>8, Zenon
<1>10. QED
  BY <1>4, <1>9, Zenon DEF n

(* After some calls the batch says of those what Counted asks for. *)
CountedTo(c, n, st) ==
    /\ st \in Tallies
    /\ st.succCount = Count(c, n, Succeeded) /\ st.succCount + st.failCount = n
    /\ \A i \in 1 .. MAX_STEP_COST : st.costTimes[i] = Count(c, n, Class(i))
    /\ \A k \in 1 .. n : st.minTime <= c[k].cost /\ c[k].cost <= st.maxTime
    /\ \/ n = 0 /\ st.maxTime = 0
       \/ \E k \in 1 .. n : st.maxTime = c[k].cost
    /\ st.minTime = 1000 \/ \E k \in 1 .. n : st.minTime = c[k].cost /\ c[k].cost < 1000

(* A call more, and the batch still says of its calls what Counted asks    *)
(* for.                                                                    *)
LEMMA CountedStep ==
  ASSUME NEW c, NEW n \in Nat, \A k \in 1 .. n + 1 : c[k] \in Call,
         NEW st, CountedTo(c, n, st)
  PROVE  CountedTo(c, n + 1, Reported(st, c[n + 1]))
<1> DEFINE r == Reported(st, c[n + 1])
           cost == c[n + 1].cost
<1>1. c[n + 1] \in Call
  OBVIOUS
<1>2. /\ r \in Tallies
      /\ r.succCount = st.succCount + IF c[n + 1] \in Succeeded THEN 1 ELSE 0
      /\ r.succCount + r.failCount = st.succCount + st.failCount + 1
      /\ \A i \in 1 .. MAX_STEP_COST :
             r.costTimes[i] = st.costTimes[i] + IF c[n + 1] \in Class(i) THEN 1 ELSE 0
      /\ r.maxTime = Max_(st.maxTime, cost)
      /\ r.minTime = Min_(st.minTime, cost)
  BY <1>1, ReportedType DEF CountedTo
<1>3. cost \in Nat /\ st.maxTime \in Nat /\ st.minTime \in Nat
  BY <1>1 DEF Call, CountedTo, Tallies
<1> HIDE DEF r
<1>4. \A S : Count(c, n + 1, S) = Count(c, n, S) + IF c[n + 1] \in S THEN 1 ELSE 0
  BY CountMore
<1>5. r.succCount = Count(c, n + 1, Succeeded) /\ r.succCount + r.failCount = n + 1
  BY <1>2, <1>4 DEF CountedTo
<1>6. \A i \in 1 .. MAX_STEP_COST : r.costTimes[i] = Count(c, n + 1, Class(i))
  BY <1>2, <1>4 DEF CountedTo
<1>7. \A k \in 1 .. n + 1 : k = n + 1 \/ k \in 1 .. n
  OBVIOUS
<1>8. \A k \in 1 .. n + 1 : r.minTime <= c[k].cost /\ c[k].cost <= r.maxTime
  <2>1. /\ r.minTime <= st.minTime /\ r.minTime <= cost
        /\ st.maxTime <= r.maxTime /\ cost <= r.maxTime
        /\ r.minTime \in Nat /\ r.maxTime \in Nat
    BY <1>2, <1>3 DEF Max_, Min_
  <2>2. ASSUME NEW k \in 1 .. n
        PROVE  r.minTime <= c[k].cost /\ c[k].cost <= r.maxTime
    <3>1. st.minTime <= c[k].cost /\ c[k].cost <= st.maxTime
      BY DEF CountedTo
    <3>2. c[k].cost \in Int
      <4>1. c[k] \in Call
        OBVIOUS
      <4>2. QED
        BY <4>1 DEF Call
    <3>3. QED
      BY <1>3, <2>1, <3>1, <3>2
  <2>3. QED
    BY <1>7, <2>1, <2>2
<1>9. \E k \in 1 .. n + 1 : r.maxTime = c[k].cost
  <2>1. CASE r.maxTime = cost
    BY <2>1
  <2>2. CASE r.maxTime # cost
    <3>1. r.maxTime = st.maxTime /\ cost < st.maxTime
      BY <1>2, <1>3, <2>2 DEF Max_
    <3>2. PICK k \in 1 .. n : st.maxTime = c[k].cost
      BY <1>3, <3>1 DEF CountedTo
    <3>3. QED
      BY <3>1, <3>2
  <2>3. QED
    BY <2>1, <2>2
<1>10. r.minTime = 1000 \/ \E k \in 1 .. n + 1 : r.minTime = c[k].cost /\ c[k].cost < 1000
  <2>1. CASE r.minTime = st.minTime
    <3>1. \A k \in 1 .. n : k \in 1 .. n + 1
      OBVIOUS
    <3>2. QED
      BY <2>1, <3>1 DEF CountedTo
  <2>2. CASE r.minTime # st.minTime
    <3>1. r.minTime = cost /\ cost < st.minTime
      BY <1>2, <1>3, <2>2 DEF Min_
    <3>2. st.minTime <= 1000
      BY <1>3 DEF CountedTo
    <3>3. QED
      BY <1>3, <3>1, <3>2
  <2>3. QED
    BY <2>1, <2>2
<1>11. QED
  BY <1>2, <1>5, <1>6, <1>8, <1>9, <1>10 DEF CountedTo, r

(* A batch says of its calls what Counted asks for. *)
LEMMA TalliedCounts ==
  ASSUME NEW calls \in Seq(Call)
  PROVE  Tallied(calls) \in Tallies /\ Counted(calls, Tallied(calls))
<1> DEFINE n == Len(calls)
<1>1. n \in Nat /\ DOMAIN calls = 1 .. n /\ \A k \in 1 .. n : calls[k] \in Call
  BY ElementOfSeq
<1>2. PICK f : /\ Tallied(calls) = f[n] /\ f[0] = Cleared
               /\ \A i \in 1 .. n : f[i] = Reported(f[i - 1], calls[i])
  BY TalliedRuns
<1> DEFINE Has == {i \in Nat : i <= n => CountedTo(calls, i, f[i])}
<1> HIDE DEF n
<1>3. 0 \in Has
  <2>1. \A S : Count(calls, 0, S) = 0
    BY CountNone
  <2>2. CountedTo(calls, 0, Cleared)
    BY <2>1, ClearedType DEF CountedTo, Cleared
  <2>3. QED
    BY <1>2, <2>2
<1>4. ASSUME NEW i \in Nat, i \in Has PROVE i + 1 \in Has
  <2>1. SUFFICES ASSUME i + 1 <= n PROVE CountedTo(calls, i + 1, f[i + 1])
    OBVIOUS
  <2>2. CountedTo(calls, i, f[i]) /\ \A k \in 1 .. i + 1 : calls[k] \in Call
    BY <1>1, <1>4, <2>1
  <2>3. f[i + 1] = Reported(f[i], calls[i + 1])
    <3>1. i + 1 \in 1 .. n /\ (i + 1) - 1 = i
      BY <1>1, <2>1
    <3>2. QED
      BY <1>2, <3>1
  <2>4. QED
    BY <2>2, <2>3, CountedStep
<1> HIDE DEF Has
<1>5. n \in Has
  BY <1>1, <1>3, <1>4, SetInduction
<1>6. CountedTo(calls, n, f[n])
  BY <1>1, <1>5 DEF Has
<1>7. \A S : HowMany(calls, S) = Count(calls, n, S)
  BY <1>1 DEF HowMany, Count, Found
<1>8. Costs(calls) = {calls[k].cost : k \in 1 .. n}
  BY <1>1 DEF Costs
<1>9. n = 0 <=> calls = << >>
  BY DEF n
<1>10. Counted(calls, f[n])
  <2> DEFINE st == f[n]
  <2>1. CountedTo(calls, n, st)
    BY <1>6
  <2> HIDE DEF st
  <2>2. /\ st.succCount = HowMany(calls, Succeeded)
        /\ st.succCount + st.failCount = Len(calls)
        /\ \A i \in 1 .. MAX_STEP_COST : st.costTimes[i] = HowMany(calls, Class(i))
    BY <1>7, <2>1 DEF CountedTo, n
  <2>3. \A c \in Costs(calls) : st.minTime <= c /\ c <= st.maxTime
    BY <1>8, <2>1 DEF CountedTo
  <2>4. st.maxTime \in IF calls = << >> THEN {0} ELSE Costs(calls)
    <3>1. CASE n = 0
      BY <1>9, <2>1, <3>1 DEF CountedTo
    <3>2. CASE n # 0
      BY <1>8, <1>9, <2>1, <3>2 DEF CountedTo
    <3>3. QED
      BY <3>1, <3>2
  <2>5. st.minTime = 1000 \/ st.minTime \in {c \in Costs(calls) : c < 1000}
    BY <1>8, <2>1 DEF CountedTo
  <2>6. QED
    BY <2>2, <2>3, <2>4, <2>5 DEF Counted, st
<1>11. QED
  BY <1>2, <1>6, <1>10 DEF CountedTo
-----------------------------------------------------------------------------
(* Percentiles of a batch *)
Below(q, c) == {k \in DOMAIN q : q[k] < c}
Within(q, c) == {k \in DOMAIN q : q[k] <= c}

(* The places of costs up to a limit are finitely many and their number    *)
(* grows with the limit.                                                   *)
LEMMA PlacesFinite ==
  ASSUME NEW q \in Seq(Nat), NEW c, NEW d
  PROVE  /\ Cardinality(Below(q, c)) \in Nat /\ Cardinality(Within(q, d)) \in Nat
         /\ Within(q, d) \subseteq Below(q, c) =>
                Cardinality(Within(q, d)) <= Cardinality(Below(q, c))
<1>1. IsFiniteSet(DOMAIN q)
  <2>1. DOMAIN q = 1 .. Len(q) /\ Len(q) \in Nat
    OBVIOUS
  <2>2. QED
    BY <2>1, FS_Interval
<1>2. IsFiniteSet(Within(q, d)) /\ IsFiniteSet(Below(q, c))
  BY <1>1, FS_Subset DEF Within, Below
<1>3. QED
  BY <1>2, FS_Subset, FS_CardinalityType

(* There is a cost at every place of the sorted sequence. *)
LEMMA SortedPlace ==
  ASSUME NEW q \in Seq(Nat), NEW b \in Nat, \A k \in DOMAIN q : q[k] <= b,
         NEW i \in 1 .. Len(q)
  PROVE  /\ Sorted(q, i) \in {q[k] : k \in DOMAIN q}
         /\ Sorted(q, i) \in Nat /\ Sorted(q, i) <= b
         /\ Cardinality(Below(q, Sorted(q, i))) < i
         /\ i <= Cardinality(Within(q, Sorted(q, i)))
<1> DEFINE T == {c \in Nat : i <= Cardinality(Within(q, c))}
<1>1. /\ DOMAIN q = 1 .. Len(q) /\ Len(q) \in Nat
      /\ \A k \in DOMAIN q : q[k] \in Nat
  OBVIOUS
<1>2. b \in T
  <2>1. Within(q, b) = 1 .. Len(q)
    BY <1>1 DEF Within
  <2>2. Cardinality(1 .. Len(q)) = Len(q)
    <3> DEFINE n == Len(q)
    <3>1. n \in Nat
      BY <1>1
    <3> HIDE DEF n
    <3>2. Cardinality(1 .. n) = IF 1 > n THEN 0 ELSE n - 1 + 1
      BY <3>1, FS_Interval
    <3>3. Cardinality(1 .. n) = n
      BY <3>1, <3>2
    <3>4. QED
      BY <3>3 DEF n
  <2>3. QED
    BY <1>1, <2>1, <2>2
<1>3. PICK c \in T : \A d \in T : c <= d
  BY <1>2, LeastExists
<1>4. Cardinality(Below(q, c)) < i
  <2>1. CASE c = 0
    <3>1. Below(q, c) = {}
      BY <1>1, <2>1 DEF Below
    <3>2. QED
      BY <3>1, FS_EmptySet
  <2>2. CASE c # 0
    <3>1. c - 1 \in Nat /\ c - 1 \notin T
      BY <1>3, <2>2
    <3>2. Below(q, c) = Within(q, c - 1)
      BY <1>1, <3>1 DEF Below, Within
    <3>3. Cardinality(Within(q, c - 1)) \in Nat
      BY <3>2, PlacesFinite
    <3>4. ~ (i <= Cardinality(Within(q, c - 1)))
      BY <3>1
    <3>5. QED
      BY <3>2, <3>3, <3>4
  <2>3. QED
    BY <2>1, <2>2
<1>5. i <= Cardinality(Within(q, c)) /\ c \in Nat
  BY <1>3
<1>6. c \in {q[k] : k \in DOMAIN q}
  <2>1. SUFFICES ASSUME c \notin {q[k] : k \in DOMAIN q} PROVE FALSE
    OBVIOUS
  <2>2. Within(q, c) = Below(q, c)
    BY <1>1, <1>5, <2>1 DEF Within, Below
  <2>3. Cardinality(Below(q, c)) \in Nat
    BY <2>2, PlacesFinite
  <2>4. QED
    BY <1>4, <1>5, <2>2, <2>3
<1> DEFINE Is(d) == Cardinality(Below(q, d)) < i /\ i <= Cardinality(Within(q, d))
<1>7. Sorted(q, i) = CHOOSE d \in {q[k] : k \in DOMAIN q} : Is(d)
  BY DEF Sorted, Below, Within
<1>8. Is(c)
  BY <1>4, <1>5
<1> HIDE DEF Is, T
<1>9. Sorted(q, i) \in {q[k] : k \in DOMAIN q} /\ Is(Sorted(q, i))
  BY <1>6, <1>7, <1>8, Zenon
<1>10. Sorted(q, i) \in Nat /\ Sorted(q, i) <= b
  BY <1>1, <1>9
<1>11. QED
  BY <1>9, <1>10 DEF Is

(* What is further on in sorted costs is not smaller. *)
LEMMA SortedInOrder ==
  ASSUME NEW q \in Seq(Nat), NEW b \in Nat, \A k \in DOMAIN q : q[k] <= b,
         NEW i \in 1 .. Len(q), NEW j \in 1 .. Len(q), i <= j
  PROVE  Sorted(q, i) <= Sorted(q, j)
<1> DEFINE c == Sorted(q, i)
           d == Sorted(q, j)
<1>1. c \in Nat /\ Cardinality(Below(q, c)) < i
  BY SortedPlace
<1>2. d \in Nat /\ j <= Cardinality(Within(q, d))
  BY SortedPlace
<1> HIDE DEF c, d
<1>3. SUFFICES ASSUME d < c PROVE FALSE
  BY <1>1, <1>2 DEF c, d
<1>4. \A k \in DOMAIN q : q[k] \in Nat
  OBVIOUS
<1>5. Within(q, d) \subseteq Below(q, c)
  BY <1>1, <1>2, <1>3, <1>4 DEF Within, Below
<1>6. /\ Cardinality(Below(q, c)) \in Nat /\ Cardinality(Within(q, d)) \in Nat
      /\ Cardinality(Within(q, d)) <= Cardinality(Below(q, c))
  BY <1>5, PlacesFinite
<1>7. QED
  BY <1>1, <1>2, <1>6
-----------------------------------------------------------------------------
(* The place that calcPercent reads lies in the sequence, as long as the   *)
(* percentile is below the whole.                                          *)
Permilles == 0 .. 999
Place(p, n) == (p * n) \div 1000 + 1

(* A greater percentile is read at a later place, and the place is one of  *)
(* the sequence.                                                           *)
LEMMA PlaceOrder ==
  ASSUME NEW n \in Nat \ {0}, NEW p \in Permilles, NEW r \in Permilles, p <= r
  PROVE  Place(p, n) \in 1 .. n /\ Place(p, n) <= Place(r, n)
<1> DEFINE x == p * n
           y == r * n
<1>1. n \in Nat /\ p \in Nat /\ r \in Nat /\ r <= 999
  BY DEF Permilles
<1>2. x <= y
  BY <1>1, ProductMonotone
<1>3. y <= 999 * n
  BY <1>1, ProductMonotone
<1>4. x \in Nat /\ y \in Nat
  BY <1>1
<1> HIDE DEF x, y
<1>5. x \div 1000 + 1 \in 1 .. n /\ x \div 1000 + 1 <= y \div 1000 + 1
  BY <1>2, <1>3, <1>4
<1>6. QED
  BY <1>5 DEF x, y, Place

(* The percentiles of a batch are in their order and within any bound of   *)
(* its costs (calcPercent).                                                *)
LEMMA PercentsInOrder ==
  ASSUME NEW q \in Seq(Nat), NEW b \in Nat, \A k \in DOMAIN q : q[k] <= b,
         NEW p \in Permilles, NEW r \in Permilles, p <= r
  PROVE  /\ calcPercent(q, p) \in Nat /\ calcPercent(q, p) <= b
         /\ calcPercent(q, p) <= calcPercent(q, r)
<1>1. CASE q = << >>
  BY <1>1 DEF calcPercent
<1>2. CASE q # << >>
  <2> DEFINE n == Len(q)
             i == Place(p, n)
             j == Place(r, n)
  <2>1. n \in Nat \ {0}
    BY <1>2, EmptySeq, LenProperties
  <2>2. calcPercent(q, p) = Sorted(q, i) /\ calcPercent(q, r) = Sorted(q, j)
    BY <1>2 DEF calcPercent, Place, Permilles
  <2>3. p <= p /\ r <= r
    BY DEF Permilles
  <2>4. i \in 1 .. n /\ j \in 1 .. n /\ i <= j
    BY <2>1, <2>3, PlaceOrder
  <2> HIDE DEF i, j
  <2>5. Sorted(q, i) \in Nat /\ Sorted(q, i) <= b
    BY <2>4, SortedPlace
  <2>6. Sorted(q, i) <= Sorted(q, j)
    BY <2>4, SortedInOrder
  <2>7. QED
    BY <2>2, <2>5, <2>6
<1>3. QED
  BY <1>1, <1>2

(* What the fields of a batch, and of a sum, are, and what they say of the *)
(* calls they stand for.                                                   *)
Typed(s) ==
    /\ s.totalCount \in Nat /\ s.succCount \in Nat /\ s.failCount \in Nat
    /\ s.totalTime \in Nat /\ s.maxTime \in Nat /\ s.minTime \in Nat
    /\ s.p90Time \in Nat /\ s.p99Time \in Nat /\ s.p999Time \in Nat
    /\ s.costTimes \in [1 .. MAX_STEP_COST -> Nat]

Tells(calls, s) == Typed(s) /\ Counted(calls, s) /\ InOrder(s)

(* A batch that syncStat writes has its types, counts its calls and keeps  *)
(* its percentiles in order.                                               *)
LEMMA BatchTells ==
  ASSUME NEW b \in Batches
  PROVE  Tells(b.calls, Batched(b))
<1> DEFINE calls == b.calls
           q == [i \in DOMAIN calls |-> calls[i].cost]
           t == Tallied(calls)
           s == Batched(b)
<1>1. calls \in Seq(Call) /\ b.sent \in Nat
  BY DEF Batches
<1>2. t \in Tallies /\ Counted(calls, t)
  BY <1>1, TalliedCounts
<1>3. q \in Seq(Nat) /\ \A k \in DOMAIN q : q[k] <= t.maxTime
  <2>1. /\ DOMAIN calls = 1 .. Len(calls) /\ Len(calls) \in Nat
        /\ \A k \in DOMAIN calls : calls[k] \in Call
    BY <1>1, ElementOfSeq
  <2>2. \A k \in DOMAIN calls : calls[k].cost \in Nat
    BY <2>1 DEF Call
  <2>3. \A k \in DOMAIN calls : calls[k].cost <= t.maxTime
    BY <1>2 DEF Counted, Costs
  <2>4. q \in Seq(Nat)
    BY <2>1, <2>2, IsASeq
  <2>5. QED
    BY <2>3, <2>4
<1> HIDE DEF calls, q, t
<1>4. t.maxTime \in Nat
  BY <1>2 DEF Tallies
<1>5. /\ s.succCount = t.succCount /\ s.failCount = t.failCount
      /\ s.totalTime = t.totalTime /\ s.maxTime = t.maxTime
      /\ s.minTime = t.minTime /\ s.costTimes = t.costTimes
      /\ s.totalCount = b.sent
      /\ s.p90Time = calcPercent(q, 900) /\ s.p99Time = calcPercent(q, 990)
      /\ s.p999Time = calcPercent(q, 999)
  BY <1>2 DEF Batched, Tallies, calls, q, t
<1>6. /\ calcPercent(q, 900) \in Nat /\ calcPercent(q, 990) \in Nat
      /\ calcPercent(q, 999) \in Nat
      /\ calcPercent(q, 900) <= calcPercent(q, 990)
      /\ calcPercent(q, 990) <= calcPercent(q, 999)
      /\ calcPercent(q, 999) <= t.maxTime
  <2> DEFINE m == t.maxTime
  <2>1. m \in Nat /\ \A k \in DOMAIN q : q[k] <= m
    BY <1>3, <1>4
  <2> HIDE DEF m
  <2>2. /\ 900 \in Permilles /\ 990 \in Permilles /\ 999 \in Permilles
        /\ 900 <= 990 /\ 990 <= 999 /\ 999 <= 999
    BY DEF Permilles
  <2>3. \A p, r \in Permilles : p <= r =>
            /\ calcPercent(q, p) \in Nat /\ calcPercent(q, p) <= m
            /\ calcPercent(q, p) <= calcPercent(q, r)
    BY <1>3, <2>1, PercentsInOrder
  <2>4. QED
    BY <2>2, <2>3 DEF m
<1> HIDE DEF s
<1>7. Typed(s)
  BY <1>1, <1>2, <1>5, <1>6 DEF Typed, Tallies
<1>8. Counted(calls, s)
  BY <1>2, <1>5 DEF Counted
<1>9. InOrder(s)
  BY <1>5, <1>6 DEF InOrder
<1>10. QED
  BY <1>7, <1>8, <1>9 DEF Tells, calls, s
-----------------------------------------------------------------------------
(* Means of means *)
LEMMA DivMonotone ==
  ASSUME NEW a \in Nat, NEW b \in Nat, NEW c \in Nat \ {0}, a <= b
  PROVE  a \div c <= b \div c
<1> DEFINE p == a \div c
           q == b \div c
           d == a % c
           e == b % c
<1>1. p \in Nat /\ d \in Nat /\ a = c * p + d /\ d < c
  BY DivMod
<1>2. q \in Nat /\ e \in Nat /\ b = c * q + e /\ e < c
  BY DivMod
<1> HIDE DEF p, q, d, e
<1>3. SUFFICES ASSUME q + 1 <= p PROVE FALSE
  BY <1>1, <1>2 DEF p, q
<1>4. (q + 1) * c <= p * c
  BY <1>1, <1>2, <1>3, ProductMonotone
<1>5. c * p = p * c /\ (q + 1) * c = c * q + c
  BY <1>1, <1>2
<1>6. c * p \in Nat /\ c * q \in Nat
  BY <1>1, <1>2
<1>7. QED
  BY <1>1, <1>2, <1>4, <1>5, <1>6

(* A product divided by its factor is the other factor. *)
LEMMA DivOfProduct ==
  ASSUME NEW b \in Nat, NEW c \in Nat \ {0}
  PROVE  (b * c) \div c = b
<1> DEFINE a == b * c
           p == a \div c
           d == a % c
<1>1. a \in Nat
  OBVIOUS
<1>2. p \in Nat /\ d \in Nat /\ a = c * p + d /\ d < c
  BY <1>1, DivMod
<1>3. a = c * b
  OBVIOUS
<1> HIDE DEF a, p, d
<1>4. p <= b
  <2>1. SUFFICES ASSUME b + 1 <= p PROVE FALSE
    BY <1>2
  <2>2. (b + 1) * c <= p * c
    BY <1>2, <2>1, ProductMonotone
  <2>3. p * c = c * p /\ (b + 1) * c = c * b + c /\ c * b \in Nat /\ c * p \in Nat
    BY <1>2
  <2>4. QED
    BY <1>2, <1>3, <2>2, <2>3
<1>5. b <= p
  <2>1. SUFFICES ASSUME p + 1 <= b PROVE FALSE
    BY <1>2
  <2>2. (p + 1) * c <= b * c
    BY <1>2, <2>1, ProductMonotone
  <2>3. b * c = c * b /\ (p + 1) * c = c * p + c /\ c * b \in Nat /\ c * p \in Nat
    BY <1>2
  <2>4. QED
    BY <1>2, <1>3, <2>2, <2>3
<1>6. QED
  BY <1>2, <1>4, <1>5 DEF p, a

(* A mean of natural numbers grows with them, and lies below any bound of  *)
(* both.                                                                   *)
LEMMA MeanMonotone ==
  ASSUME NEW n \in Nat, NEW m \in Nat, NEW x \in Nat, NEW y \in Nat,
         NEW v \in Nat, NEW w \in Nat, x <= v, y <= w
  PROVE  /\ Mean(x, n, y, m) \in Nat
         /\ Mean(x, n, y, m) <= Mean(v, n, w, m)
         /\ v = w => Mean(x, n, y, m) <= v
<1>1. CASE n + m = 0
  BY <1>1 DEF Mean
<1>2. CASE n + m # 0
  <2> DEFINE a == x * n + y * m
             b == v * n + w * m
  <2>1. x * n <= v * n /\ y * m <= w * m
    BY ProductMonotone
  <2>2. /\ x * n \in Nat /\ y * m \in Nat /\ v * n \in Nat /\ w * m \in Nat
        /\ n + m \in Nat \ {0}
    BY <1>2
  <2>3. a \in Nat /\ b \in Nat /\ a <= b
    BY <2>1, <2>2
  <2>4. v = w => b = v * (n + m)
    OBVIOUS
  <2>5. Mean(x, n, y, m) = a \div (n + m) /\ Mean(v, n, w, m) = b \div (n + m)
    BY <1>2 DEF Mean
  <2> DEFINE c == n + m
  <2> HIDE DEF a, b, c
  <2>6. c \in Nat \ {0}
    BY <2>2 DEF c
  <2>7. a \div c <= b \div c /\ a \div c \in Nat
    BY <2>3, <2>6, DivMonotone, DivMod
  <2>8. (v * c) \div c = v
    BY <2>6, DivOfProduct
  <2>9. v = w => b = v * c
    BY <2>4 DEF c
  <2>10. QED
    BY <2>5, <2>7, <2>8, <2>9 DEF c
<1>3. QED
  BY <1>1, <1>2
-----------------------------------------------------------------------------
(* Joined calls, and sums *)
LEMMA JoinedCalls ==
  ASSUME NEW s \in Seq(Call), NEW t \in Seq(Call)
  PROVE  /\ s \o t \in Seq(Call) /\ Len(s \o t) = Len(s) + Len(t)
         /\ Len(s) \in Nat /\ Len(t) \in Nat
         /\ Costs(s \o t) = Costs(s) \cup Costs(t)
         /\ Costs(s) \subseteq Nat
         /\ s \o t = << >> <=> s = << >> /\ t = << >>
         /\ s = << >> <=> Costs(s) = {}
<1> DEFINE u == s \o t
           m == Len(s)
           n == Len(t)
<1>1. /\ u \in Seq(Call) /\ Len(u) = m + n /\ m \in Nat /\ n \in Nat
      /\ DOMAIN s = 1 .. m /\ DOMAIN t = 1 .. n /\ DOMAIN u = 1 .. Len(u)
      /\ \A k \in 1 .. m : u[k] = s[k]
      /\ \A k \in 1 .. n : u[m + k] = t[k]
  OBVIOUS
<1>2. \A k \in 1 .. m : s[k] \in Call
  BY <1>1, ElementOfSeq
<1>3. /\ s = << >> <=> m = 0
      /\ t = << >> <=> n = 0
      /\ u = << >> <=> Len(u) = 0
  BY <1>1, EmptySeq
<1> HIDE DEF u, m, n
<1>4. \A k \in 1 .. m + n : k \in 1 .. m \/ (k - m \in 1 .. n /\ m + (k - m) = k)
  BY <1>1
<1>5. \A k \in 1 .. m + n : u[k].cost \in Costs(s) \cup Costs(t)
  <2>1. TAKE k \in 1 .. m + n
  <2>2. CASE k \in 1 .. m
    BY <1>1, <2>2 DEF Costs
  <2>3. CASE k - m \in 1 .. n /\ m + (k - m) = k
    <3>1. u[k] = t[k - m]
      BY <1>1, <2>3
    <3>2. QED
      BY <1>1, <2>3, <3>1 DEF Costs
  <2>4. QED
    BY <1>4, <2>2, <2>3
<1>6. \A k \in 1 .. m : k \in 1 .. m + n
  BY <1>1
<1>7. \A k \in 1 .. n : m + k \in 1 .. m + n
  BY <1>1
<1>8. Costs(u) = Costs(s) \cup Costs(t)
  <2>1. Costs(u) \subseteq Costs(s) \cup Costs(t)
    BY <1>1, <1>5 DEF Costs
  <2>2. \A k \in 1 .. m : s[k].cost \in Costs(u)
    BY <1>1, <1>6 DEF Costs
  <2>3. \A k \in 1 .. n : t[k].cost \in Costs(u)
    BY <1>1, <1>7 DEF Costs
  <2>4. Costs(s) \subseteq Costs(u)
    BY <1>1, <2>2 DEF Costs
  <2>5. Costs(t) \subseteq Costs(u)
    BY <1>1, <2>3 DEF Costs
  <2>6. QED
    BY <2>1, <2>4, <2>5
<1>9. Costs(s) \subseteq Nat
  BY <1>1, <1>2 DEF Costs, Call
<1>10. s = << >> <=> Costs(s) = {}
  <2>1. CASE m = 0
    BY <1>1, <1>3, <2>1 DEF Costs
  <2>2. CASE m # 0
    <3>1. 1 \in 1 .. m
      BY <1>1, <2>2
    <3>2. QED
      BY <1>1, <1>3, <2>2, <3>1 DEF Costs
  <2>3. QED
    BY <2>1, <2>2
<1>11. QED
  BY <1>1, <1>3, <1>8, <1>9, <1>10 DEF u, m, n

(* A sum tells of the joined calls what its terms tell of theirs (both     *)
(* operator+=).                                                            *)
LEMMA SumTells ==
  ASSUME NEW s \in Seq(Call), NEW t \in Seq(Call), NEW l, NEW r,
         Tells(s, l), Tells(t, r)
  PROVE  Tells(s \o t, Sum(l, r))
<1> DEFINE u == s \o t
           x == Sum(l, r)
<1>1. /\ Len(u) = Len(s) + Len(t) /\ Len(s) \in Nat /\ Len(t) \in Nat
      /\ Costs(u) = Costs(s) \cup Costs(t) /\ Costs(s) \subseteq Nat
      /\ u = << >> <=> s = << >> /\ t = << >>
      /\ s = << >> <=> Costs(s) = {}
  BY JoinedCalls
<1>2. Costs(t) \subseteq Nat /\ (t = << >> <=> Costs(t) = {})
  BY JoinedCalls
<1>3. \A S : HowMany(u, S) = HowMany(s, S) + HowMany(t, S)
  BY CountJoined
<1> HIDE DEF u
<1>4. /\ x.totalCount = l.totalCount + r.totalCount
      /\ x.succCount = l.succCount + r.succCount
      /\ x.failCount = l.failCount + r.failCount
      /\ x.totalTime = l.totalTime + r.totalTime
  BY DEF Sum
<1>5. /\ x.maxTime = Max_(l.maxTime, r.maxTime)
      /\ x.minTime = Min_(l.minTime, r.minTime)
      /\ x.p90Time = Mean(l.p90Time, l.totalCount, r.p90Time, r.totalCount)
      /\ x.p99Time = Mean(l.p99Time, l.totalCount, r.p99Time, r.totalCount)
      /\ x.p999Time = Mean(l.p999Time, l.totalCount, r.p999Time, r.totalCount)
      /\ x.costTimes = [i \in 1 .. MAX_STEP_COST |-> l.costTimes[i] + r.costTimes[i]]
  BY DEF Sum
<1>6. Typed(l) /\ Counted(s, l) /\ InOrder(l)
  BY DEF Tells
<1>7. Typed(r) /\ Counted(t, r) /\ InOrder(r)
  BY DEF Tells
<1> HIDE DEF x
<1>8. /\ x.maxTime \in Nat /\ l.maxTime <= x.maxTime /\ r.maxTime <= x.maxTime
      /\ x.maxTime = l.maxTime \/ x.maxTime = r.maxTime
      /\ x.minTime \in Nat /\ x.minTime <= l.minTime /\ x.minTime <= r.minTime
      /\ x.minTime = l.minTime \/ x.minTime = r.minTime
  <2>1. /\ l.maxTime \in Nat /\ r.maxTime \in Nat
        /\ l.minTime \in Nat /\ r.minTime \in Nat
    BY <1>6, <1>7 DEF Typed
  <2>2. x.maxTime = Max_(l.maxTime, r.maxTime) /\ x.minTime = Min_(l.minTime, r.minTime)
    BY <1>5
  <2>3. \A a, b \in Nat : /\ Max_(a, b) \in {a, b} /\ a <= Max_(a, b) /\ b <= Max_(a, b)
                         /\ Min_(a, b) \in {a, b} /\ Min_(a, b) <= a /\ Min_(a, b) <= b
    BY DEF Max_, Min_
  <2>4. QED
    BY <2>1, <2>2, <2>3
<1>9. /\ x.p90Time \in Nat /\ x.p99Time \in Nat /\ x.p999Time \in Nat
      /\ x.p90Time <= x.p99Time /\ x.p99Time <= x.p999Time
      /\ x.p999Time <= x.maxTime
  <2> DEFINE n == l.totalCount
             m == r.totalCount
             b == x.maxTime
  <2>1. /\ n \in Nat /\ l.p90Time \in Nat /\ l.p99Time \in Nat /\ l.p999Time \in Nat
        /\ l.p90Time <= l.p99Time /\ l.p99Time <= l.p999Time /\ l.p999Time <= b
        /\ l.maxTime \in Nat
    BY <1>6, <1>8 DEF Typed, InOrder
  <2>2. /\ m \in Nat /\ r.p90Time \in Nat /\ r.p99Time \in Nat /\ r.p999Time \in Nat
        /\ r.p90Time <= r.p99Time /\ r.p99Time <= r.p999Time /\ r.p999Time <= b
        /\ r.maxTime \in Nat
    BY <1>7, <1>8 DEF Typed, InOrder
  <2>3. b \in Nat
    BY <1>8
  <2> HIDE DEF n, m, b
  <2>4. /\ Mean(l.p90Time, n, r.p90Time, m) \in Nat
        /\ Mean(l.p90Time, n, r.p90Time, m) <= Mean(l.p99Time, n, r.p99Time, m)
    BY <2>1, <2>2, MeanMonotone
  <2>5. /\ Mean(l.p99Time, n, r.p99Time, m) \in Nat
        /\ Mean(l.p99Time, n, r.p99Time, m) <= Mean(l.p999Time, n, r.p999Time, m)
    BY <2>1, <2>2, MeanMonotone
  <2>6. /\ Mean(l.p999Time, n, r.p999Time, m) \in Nat
        /\ Mean(l.p999Time, n, r.p999Time, m) <= Mean(b, n, b, m)
        /\ Mean(b, n, b, m) \in Nat /\ Mean(b, n, b, m) <= b
    <3>1. b <= b
      BY <2>3
    <3>2. /\ Mean(l.p999Time, n, r.p999Time, m) \in Nat
          /\ Mean(l.p999Time, n, r.p999Time, m) <= Mean(b, n, b, m)
      BY <2>1, <2>2, <2>3, MeanMonotone
    <3>3. Mean(b, n, b, m) \in Nat /\ Mean(b, n, b, m) <= b
      BY <2>1, <2>2, <2>3, <3>1, MeanMonotone
    <3>4. QED
      BY <3>2, <3>3
  <2>7. QED
    BY <1>5, <2>3, <2>4, <2>5, <2>6 DEF n, m, b
<1>10. /\ x.costTimes \in [1 .. MAX_STEP_COST -> Nat]
       /\ \A i \in 1 .. MAX_STEP_COST : x.costTimes[i] = HowMany(u, Class(i))
  <2> DEFINE c == l.costTimes
             d == r.costTimes
             S == 1 .. MAX_STEP_COST
  <2>1. c \in [S -> Nat] /\ \A i \in S : c[i] = HowMany(s, Class(i))
    BY <1>6 DEF Typed, Counted
  <2>2. d \in [S -> Nat] /\ \A i \in S : d[i] = HowMany(t, Class(i))
    BY <1>7 DEF Typed, Counted
  <2>3. x.costTimes = [i \in S |-> c[i] + d[i]]
    BY <1>5
  <2> HIDE DEF c, d, S
  <2>4. /\ x.costTimes \in [S -> Nat]
        /\ \A i \in S : x.costTimes[i] = HowMany(u, Class(i))
    BY <1>3, <2>1, <2>2, <2>3
  <2>5. QED
    BY <2>4 DEF S
<1>11. Typed(x)
  <2>1. /\ l.totalCount \in Nat /\ l.succCount \in Nat
        /\ l.failCount \in Nat /\ l.totalTime \in Nat
    BY <1>6 DEF Typed
  <2>2. /\ r.totalCount \in Nat /\ r.succCount \in Nat
        /\ r.failCount \in Nat /\ r.totalTime \in Nat
    BY <1>7 DEF Typed
  <2>3. /\ x.totalCount \in Nat /\ x.succCount \in Nat
        /\ x.failCount \in Nat /\ x.totalTime \in Nat
    <3>1. \A a, b \in Nat : a + b \in Nat
      OBVIOUS
    <3>2. QED
      BY <1>4, <2>1, <2>2, <3>1, Zenon
  <2>4. QED
    BY <1>8, <1>9, <1>10, <2>3 DEF Typed
<1>12. Counted(u, x)
  <2>1. x.succCount = HowMany(u, Succeeded)
    BY <1>3, <1>4, <1>6, <1>7 DEF Counted
  <2>2. x.succCount + x.failCount = Len(u)
    <3> DEFINE ls == l.succCount
               lf == l.failCount
               rs == r.succCount
               rf == r.failCount
               k == Len(s)
               m == Len(t)
    <3>1. ls + lf = k /\ rs + rf = m
      BY <1>6, <1>7 DEF Counted
    <3>2. ls \in Nat /\ lf \in Nat /\ rs \in Nat /\ rf \in Nat
      BY <1>6, <1>7 DEF Typed
    <3>3. Len(u) = k + m /\ x.succCount = ls + rs /\ x.failCount = lf + rf
      BY <1>1, <1>4, Zenon
    <3> HIDE DEF ls, lf, rs, rf, k, m
    <3>4. (ls + rs) + (lf + rf) = k + m
      BY <3>1, <3>2
    <3>5. QED
      BY <3>3, <3>4, Zenon
  <2>3. \A c \in Costs(u) : x.minTime <= c /\ c <= x.maxTime
    <3>1. \A c \in Costs(s) : l.minTime <= c /\ c <= l.maxTime /\ c \in Nat
      BY <1>1, <1>6 DEF Counted
    <3>2. \A c \in Costs(t) : r.minTime <= c /\ c <= r.maxTime /\ c \in Nat
      BY <1>2, <1>7 DEF Counted
    <3>3. /\ l.minTime \in Nat /\ l.maxTime \in Nat
          /\ r.minTime \in Nat /\ r.maxTime \in Nat
      BY <1>6, <1>7 DEF Typed
    <3>4. /\ x.minTime <= l.minTime /\ x.minTime <= r.minTime
          /\ l.maxTime <= x.maxTime /\ r.maxTime <= x.maxTime
          /\ x.minTime \in Nat /\ x.maxTime \in Nat
      BY <1>8, <3>3
    <3>5. \A c \in Costs(s) : x.minTime <= c /\ c <= x.maxTime
      BY <3>1, <3>3, <3>4
    <3>6. \A c \in Costs(t) : x.minTime <= c /\ c <= x.maxTime
      BY <3>2, <3>3, <3>4
    <3>7. QED
      BY <1>1, <3>5, <3>6
  <2>4. x.maxTime \in IF u = << >> THEN {0} ELSE Costs(u)
    <3>1. l.maxTime \in IF s = << >> THEN {0} ELSE Costs(s)
      BY <1>6 DEF Counted
    <3>2. r.maxTime \in IF t = << >> THEN {0} ELSE Costs(t)
      BY <1>7 DEF Counted
    <3>3. CASE s = << >> /\ t = << >>
      BY <1>1, <1>8, <3>1, <3>2, <3>3
    <3>4. CASE s # << >> /\ t # << >>
      BY <1>1, <1>8, <3>1, <3>2, <3>4
    <3>5. CASE s = << >> /\ t # << >>
      <4>1. l.maxTime = 0 /\ r.maxTime \in Costs(t) /\ r.maxTime \in Nat
        BY <1>2, <3>1, <3>2, <3>5
      <4>2. x.maxTime = r.maxTime
        BY <1>5, <4>1 DEF Max_
      <4>3. QED
        BY <1>1, <3>5, <4>1, <4>2
    <3>6. CASE s # << >> /\ t = << >>
      <4>1. r.maxTime = 0 /\ l.maxTime \in Costs(s) /\ l.maxTime \in Nat
        BY <1>1, <3>1, <3>2, <3>6
      <4>2. x.maxTime = l.maxTime
        BY <1>5, <4>1 DEF Max_
      <4>3. QED
        BY <1>1, <3>6, <4>1, <4>2
    <3>7. QED
      BY <3>3, <3>4, <3>5, <3>6
  <2>5. x.minTime = 1000 \/ x.minTime \in {c \in Costs(u) : c < 1000}
    BY <1>1, <1>6, <1>7, <1>8 DEF Counted
  <2>6. QED
    BY <1>10, <2>1, <2>2, <2>3, <2>4, <2>5 DEF Counted
<1>13. InOrder(x)
  BY <1>9 DEF InOrder
<1>14. QED
  BY <1>11, <1>12, <1>13 DEF Tells, x, u

(* The sum that nothing has been added to tells of no calls. *)
LEMMA NothingTells == Tells(<< >>, Nothing.stat)
<1> DEFINE x == Nothing.stat
<1>1. /\ x.totalCount = 0 /\ x.succCount = 0 /\ x.failCount = 0 /\ x.totalTime = 0
      /\ x.maxTime = 0 /\ x.minTime = 1000 /\ x.p90Time = 0 /\ x.p99Time = 0
      /\ x.p999Time = 0 /\ x.costTimes = [i \in 1 .. MAX_STEP_COST |-> 0]
  <2> DEFINE names == {"totalCount", "succCount", "failCount", "totalTime", "maxTime",
                       "minTime", "p90Time", "p99Time", "p999Time", "costTimes"}
             F == DOMAIN Cleared \ {"retCount"}
  <2>1. x = [f \in F |-> Cleared[f]]
    BY DEF Nothing, With
  <2>2. /\ Cleared.totalCount = 0 /\ Cleared.succCount = 0 /\ Cleared.failCount = 0
        /\ Cleared.totalTime = 0 /\ Cleared.maxTime = 0 /\ Cleared.minTime = 1000
        /\ Cleared.p90Time = 0 /\ Cleared.p99Time = 0 /\ Cleared.p999Time = 0
        /\ Cleared.costTimes = [i \in 1 .. MAX_STEP_COST |-> 0]
    BY DEF Cleared
  <2>3. names \subseteq F
    BY DEF Cleared
  <2> HIDE DEF F
  <2>4. \A f \in names : x[f] = Cleared[f]
    BY <2>1, <2>3
  <2> HIDE DEF x
  <2>5. QED
    BY <2>2, <2>4
<1> HIDE DEF x
<1>2. \A S : HowMany(<< >>, S) = 0
  <2>1. \A S : {i \in DOMAIN << >> : << >>[i] \in S} = {}
    OBVIOUS
  <2>2. QED
    BY <2>1, FS_EmptySet DEF HowMany
<1>3. Costs(<< >>) = {}
  BY DEF Costs
<1>4. Counted(<< >>, x)
  BY <1>1, <1>2, <1>3 DEF Counted
<1>5. Typed(x) /\ InOrder(x)
  BY <1>1 DEF Typed, InOrder
<1>6. QED
  BY <1>4, <1>5 DEF Tells, x
-----------------------------------------------------------------------------
(* Counts of return codes *)
Maps == UNION {[D -> Nat] : D \in {E \in SUBSET Int : IsFiniteSet(E)}}

(* A function from finitely many numbers to counts is a map of codes. *)
LEMMA MapsDef ==
  ASSUME NEW D \in SUBSET Int, IsFiniteSet(D), NEW mm \in [D -> Nat]
  PROVE  mm \in Maps
BY DEF Maps

(* What a map of codes is. *)
LEMMA MapFacts ==
  ASSUME NEW mm \in Maps
  PROVE  /\ DOMAIN mm \in SUBSET Int /\ IsFiniteSet(DOMAIN mm)
         /\ mm \in [DOMAIN mm -> Nat]
BY DEF Maps

(* Maps of codes are added to a map of codes. *)
LEMMA AddedType ==
  ASSUME NEW l \in Maps, NEW r \in Maps
  PROVE  Added(l, r) \in Maps
<1> DEFINE D == DOMAIN l \cup DOMAIN r
<1>1. D \in SUBSET Int /\ IsFiniteSet(D)
  BY MapFacts, FS_Union
<1>2. l \in [DOMAIN l -> Nat] /\ r \in [DOMAIN r -> Nat]
  BY MapFacts
<1>3. Added(l, r) \in [D -> Nat]
  BY <1>2 DEF Added
<1>4. QED
  BY <1>1, <1>3, MapsDef

(* The codes of some reports: finitely many, and each with the number of   *)
(* reports of it.                                                          *)
LEMMA CodesAre ==
  ASSUME NEW s \in Seq(Int)
  PROVE  /\ Codes(s) = [r \in {s[i] : i \in DOMAIN s} |-> HowMany(s, {r})]
         /\ {s[i] : i \in DOMAIN s} \in SUBSET Int
         /\ IsFiniteSet({s[i] : i \in DOMAIN s})
         /\ \A r : HowMany(s, {r}) \in Nat
         /\ \A r : r \notin {s[i] : i \in DOMAIN s} => HowMany(s, {r}) = 0
<1>1. DOMAIN s = 1 .. Len(s) /\ Len(s) \in Nat /\ \A i \in DOMAIN s : s[i] \in Int
  BY ElementOfSeq
<1>2. \A r : {i \in DOMAIN s : s[i] \in {r}} = {i \in DOMAIN s : s[i] = r}
  BY <1>1
<1>3. Codes(s) = [r \in {s[i] : i \in DOMAIN s} |-> HowMany(s, {r})]
  BY <1>2 DEF Codes, HowMany
<1>4. {s[i] : i \in DOMAIN s} \in SUBSET Int
  BY <1>1
<1>5. IsFiniteSet(DOMAIN s)
  BY <1>1, FS_Interval
<1>6. IsFiniteSet({s[i] : i \in DOMAIN s})
  <2> DEFINE f == [i \in DOMAIN s |-> s[i]]
             T == {s[i] : i \in DOMAIN s}
  <2>1. f \in Surjection(DOMAIN s, T)
    BY DEF Surjection
  <2>2. QED
    BY <1>5, <2>1, FS_Surjection
<1>7. \A r : HowMany(s, {r}) \in Nat
  BY <1>1, CountType DEF HowMany, Count, Found
<1>8. \A r : r \notin {s[i] : i \in DOMAIN s} => HowMany(s, {r}) = 0
  <2>1. SUFFICES ASSUME NEW r, r \notin {s[i] : i \in DOMAIN s}
                 PROVE  HowMany(s, {r}) = 0
    OBVIOUS
  <2>2. {i \in DOMAIN s : s[i] \in {r}} = {}
    BY <1>2, <2>1
  <2>3. QED
    BY <2>2, FS_EmptySet DEF HowMany
<1>9. QED
  BY <1>3, <1>4, <1>6, <1>7, <1>8

(* The codes of some reports are a map. *)
LEMMA CodesType ==
  ASSUME NEW s \in Seq(Int)
  PROVE  Codes(s) \in Maps
<1> DEFINE D == {s[i] : i \in DOMAIN s}
<1>1. /\ D \in SUBSET Int /\ IsFiniteSet(D)
      /\ Codes(s) = [r \in D |-> HowMany(s, {r})]
      /\ \A r : HowMany(s, {r}) \in Nat
  BY CodesAre
<1> HIDE DEF D
<1>2. Codes(s) \in [D -> Nat]
  BY <1>1
<1>3. QED
  BY <1>1, <1>2, MapsDef

(* No report gives no codes. *)
LEMMA CodesNone == Codes(<< >>) = NoCodes /\ NoCodes \in Maps
<1>1. {<< >>[i] : i \in DOMAIN << >>} = {}
  OBVIOUS
<1>2. Codes(<< >>) = NoCodes
  BY <1>1 DEF Codes, NoCodes
<1>3. << >> \in Seq(Int)
  OBVIOUS
<1>4. QED
  BY <1>2, <1>3, CodesType

(* The codes of joined reports are the sum of the codes. *)
LEMMA CodesJoined ==
  ASSUME NEW s \in Seq(Int), NEW t \in Seq(Int)
  PROVE  Codes(s \o t) = Added(Codes(s), Codes(t))
<1> DEFINE u == s \o t
           R(q) == {q[i] : i \in DOMAIN q}
           H(q, r) == HowMany(q, {r})
<1>1. /\ Codes(s) = [r \in R(s) |-> H(s, r)] /\ \A r : H(s, r) \in Nat
      /\ \A r : r \notin R(s) => H(s, r) = 0
  BY CodesAre
<1>2. /\ Codes(t) = [r \in R(t) |-> H(t, r)] /\ \A r : H(t, r) \in Nat
      /\ \A r : r \notin R(t) => H(t, r) = 0
  BY CodesAre
<1>3. u \in Seq(Int)
  OBVIOUS
<1>4. Codes(u) = [r \in R(u) |-> H(u, r)]
  BY <1>3, CodesAre
<1>5. \A r : H(u, r) = H(s, r) + H(t, r)
  BY CountJoined
<1>6. R(u) = R(s) \cup R(t)
  <2> DEFINE m == Len(s)
             n == Len(t)
  <2>1. /\ Len(u) = m + n /\ m \in Nat /\ n \in Nat
        /\ DOMAIN s = 1 .. m /\ DOMAIN t = 1 .. n /\ DOMAIN u = 1 .. m + n
        /\ \A k \in 1 .. m : u[k] = s[k]
        /\ \A k \in 1 .. n : u[m + k] = t[k]
    OBVIOUS
  <2> HIDE DEF u, m, n
  <2>2. \A k \in 1 .. m + n : k \in 1 .. m \/ (k - m \in 1 .. n /\ m + (k - m) = k)
    BY <2>1
  <2>3. \A k \in 1 .. m : k \in 1 .. m + n
    BY <2>1
  <2>4. \A k \in 1 .. n : m + k \in 1 .. m + n
    BY <2>1
  <2>5. \A k \in 1 .. m + n : u[k] \in R(s) \cup R(t)
    <3>1. TAKE k \in 1 .. m + n
    <3>2. CASE k \in 1 .. m
      BY <2>1, <3>2
    <3>3. CASE k - m \in 1 .. n /\ m + (k - m) = k
      <4>1. u[k] = t[k - m]
        BY <2>1, <3>3
      <4>2. QED
        BY <2>1, <3>3, <4>1
    <3>4. QED
      BY <2>2, <3>2, <3>3
  <2>6. R(u) \subseteq R(s) \cup R(t)
    BY <2>1, <2>5
  <2>7. R(s) \subseteq R(u)
    <3>1. \A k \in 1 .. m : s[k] \in R(u)
      BY <2>1, <2>3
    <3>2. QED
      BY <2>1, <3>1
  <2>8. R(t) \subseteq R(u)
    <3>1. \A k \in 1 .. n : t[k] \in R(u)
      BY <2>1, <2>4
    <3>2. QED
      BY <2>1, <3>1
  <2>9. QED
    BY <2>6, <2>7, <2>8
<1> HIDE DEF u, R, H
<1>7. DOMAIN Codes(s) = R(s) /\ DOMAIN Codes(t) = R(t)
  BY <1>1, <1>2
<1>8. \A r \in R(u) :
         H(u, r) = (IF r \in DOMAIN Codes(s) THEN Codes(s)[r] ELSE 0)
                     + (IF r \in DOMAIN Codes(t) THEN Codes(t)[r] ELSE 0)
  <2>1. TAKE r \in R(u)
  <2>2. (IF r \in DOMAIN Codes(s) THEN Codes(s)[r] ELSE 0) = H(s, r)
    BY <1>1, <1>7
  <2>3. (IF r \in DOMAIN Codes(t) THEN Codes(t)[r] ELSE 0) = H(t, r)
    BY <1>2, <1>7
  <2>4. QED
    BY <1>5, <2>2, <2>3
<1>9. QED
  BY <1>4, <1>6, <1>7, <1>8 DEF Added, u
-----------------------------------------------------------------------------
(* Totals *)
Stats == [totalCount : Nat, succCount : Nat, failCount : Nat, totalTime : Nat,
          maxTime : Nat, minTime : Nat, p90Time : Nat, p99Time : Nat,
          p999Time : Nat, costTimes : [1 .. MAX_STEP_COST -> Nat]]

Totals == [stat : Stats, ret_map : Maps]

(* A sum of typed figures is a record of typed figures. *)
LEMMA SumIsStat ==
  ASSUME NEW l, NEW r, Typed(l), Typed(r)
  PROVE  Sum(l, r) \in Stats
<1>1. /\ l.totalCount \in Nat /\ l.succCount \in Nat /\ l.failCount \in Nat
      /\ l.totalTime \in Nat /\ l.maxTime \in Nat /\ l.minTime \in Nat
      /\ l.p90Time \in Nat /\ l.p99Time \in Nat /\ l.p999Time \in Nat
      /\ l.costTimes \in [1 .. MAX_STEP_COST -> Nat]
  BY DEF Typed
<1>2. /\ r.totalCount \in Nat /\ r.succCount \in Nat /\ r.failCount \in Nat
      /\ r.totalTime \in Nat /\ r.maxTime \in Nat /\ r.minTime \in Nat
      /\ r.p90Time \in Nat /\ r.p99Time \in Nat /\ r.p999Time \in Nat
      /\ r.costTimes \in [1 .. MAX_STEP_COST -> Nat]
  BY DEF Typed
<1>3. \A a, b \in Nat : a + b \in Nat /\ Max_(a, b) \in Nat /\ Min_(a, b) \in Nat
  BY DEF Max_, Min_
<1>4. \A x, n, y, m \in Nat : Mean(x, n, y, m) \in Nat
  <2>1. \A x \in Nat : x <= x
    OBVIOUS
  <2>2. QED
    BY <2>1, MeanMonotone
<1>5. [i \in 1 .. MAX_STEP_COST |-> l.costTimes[i] + r.costTimes[i]]
          \in [1 .. MAX_STEP_COST -> Nat]
  <2> DEFINE c == l.costTimes
             d == r.costTimes
             S == 1 .. MAX_STEP_COST
  <2>1. c \in [S -> Nat] /\ d \in [S -> Nat]
    BY <1>1, <1>2
  <2> HIDE DEF c, d, S
  <2>2. [i \in S |-> c[i] + d[i]] \in [S -> Nat]
    BY <2>1
  <2>3. QED
    BY <2>2 DEF c, d, S
<1>6. /\ l.totalCount + r.totalCount \in Nat /\ l.succCount + r.succCount \in Nat
      /\ l.failCount + r.failCount \in Nat /\ l.totalTime + r.totalTime \in Nat
      /\ Max_(l.maxTime, r.maxTime) \in Nat /\ Min_(l.minTime, r.minTime) \in Nat
  BY <1>1, <1>2, <1>3, Zenon
<1>7. /\ Mean(l.p90Time, l.totalCount, r.p90Time, r.totalCount) \in Nat
      /\ Mean(l.p99Time, l.totalCount, r.p99Time, r.totalCount) \in Nat
      /\ Mean(l.p999Time, l.totalCount, r.p999Time, r.totalCount) \in Nat
  BY <1>1, <1>2, <1>4, Zenon
<1>8. QED
  BY <1>5, <1>6, <1>7 DEF Sum, Stats

(* A total goes through a typed state after each item (query, printPeriod  *)
(* and daemon).                                                            *)
LEMMA TotalRuns ==
  ASSUME NEW items, NEW n \in Nat, Len(items) = n,
         \A i \in 1 .. n : Typed(items[i].stat) /\ items[i].ret_map \in Maps
  PROVE  \E f : /\ Total(items) = f[n] /\ f[0] = Nothing
                /\ \A i \in 0 .. n : f[i] \in Totals
                /\ \A i \in 1 .. n :
                      f[i] = With(Sum(f[i - 1].stat, items[i].stat),
                                  Added(f[i - 1].ret_map, items[i].ret_map))
<1> DEFINE Next(st, i) == With(Sum(st.stat, items[i].stat),
                               Added(st.ret_map, items[i].ret_map))
           g == [i \in 1 .. n |-> [st \in Totals |-> Next(st, i)]]
           Chain(h) == h = [i \in 0 .. n |-> IF i = 0 THEN Nothing ELSE Next(h[i - 1], i)]
           f == CHOOSE h : Chain(h)
<1>1. \A i \in 1 .. n : \A st \in Totals : Next(st, i) \in Totals
  <2>1. SUFFICES ASSUME NEW i \in 1 .. n, NEW st \in Totals
                 PROVE  Next(st, i) \in Totals
    OBVIOUS
  <2>2. st.stat \in Stats /\ st.ret_map \in Maps
    BY DEF Totals
  <2>3. Typed(st.stat)
    BY <2>2 DEF Stats, Typed
  <2>4. Sum(st.stat, items[i].stat) \in Stats
    BY <2>3, SumIsStat
  <2>5. Added(st.ret_map, items[i].ret_map) \in Maps
    BY <2>2, AddedType
  <2>6. QED
    BY <2>4, <2>5 DEF Totals, With
<1>2. Nothing \in Totals
  <2>1. NoCodes \in Maps
    BY CodesNone
  <2>2. Nothing.stat \in Stats
    BY DEF Nothing, With, Cleared, Stats
  <2>3. QED
    BY <2>1, <2>2 DEF Nothing, Totals, With
<1>3. Total(items) = f[n]
  BY DEF Total, Folded
<1> HIDE DEF Next
<1>4. /\ g \in [1 .. n -> [Totals -> Totals]]
      /\ \A i \in 1 .. n : \A st \in Totals : g[i][st] = Next(st, i)
  BY <1>1
<1>5. /\ 0 \in 0 .. n /\ \A i \in 1 .. n : i # 0 /\ i \in 0 .. n
      /\ \A i \in 0 .. n : i # 0 => i \in 1 .. n /\ i - 1 \in 0 .. n
  OBVIOUS
<1> HIDE DEF g
<1>6. PICK h \in [0 .. n -> Totals] : Runs(Nothing, n, g, h)
  BY <1>2, <1>4, LoopRuns
<1>7. \A i \in 0 .. n : h[i] = IF i = 0 THEN Nothing ELSE Next(h[i - 1], i)
  BY <1>4, <1>5, <1>6, Zenon DEF Runs
<1>8. Chain(h)
  BY <1>6, <1>7, Zenon
<1>9. Chain(f)
  BY <1>8, Zenon
<1> HIDE DEF f
<1>10. f[0] = Nothing /\ \A i \in 1 .. n : f[i] = Next(f[i - 1], i)
  BY <1>5, <1>9, Zenon
<1> DEFINE Has == {i \in Nat : i <= n => f[i] \in Totals}
<1>11. 0 \in Has
  BY <1>2, <1>10
<1>12. ASSUME NEW i \in Nat, i \in Has PROVE i + 1 \in Has
  <2>1. SUFFICES ASSUME i + 1 <= n PROVE f[i + 1] \in Totals
    OBVIOUS
  <2>2. i + 1 \in 1 .. n /\ (i + 1) - 1 = i /\ f[i] \in Totals
    BY <1>12, <2>1
  <2>3. QED
    BY <1>1, <1>10, <2>2
<1> HIDE DEF Has
<1>13. Nat \subseteq Has
  BY <1>11, <1>12, SetInduction
<1>14. \A i \in 0 .. n : f[i] \in Totals
  BY <1>13 DEF Has
<1>15. QED
  BY <1>3, <1>10, <1>14, Zenon DEF Next
-----------------------------------------------------------------------------
(* Numbers as text *)
Numerals == {"0", "1", "2", "3", "4", "5", "6", "7", "8", "9"}
Plain == Numerals \cup {"-"}
Chars == Plain \cup {":", ","}
ValueOf(c) == CHOOSE d \in 0 .. 9 : Digit(d) = c

(* A digit is a numeral and is read as what it is. *)
LEMMA DigitValue ==
  ASSUME NEW n \in 0 .. 9
  PROVE  Digit(n) \in Numerals /\ ValueOf(Digit(n)) = n
<1>1. \A a, b \in 0 .. 9 : Digit(a) = Digit(b) => a = b
  BY DEF Digit
<1>2. Digit(n) \in Numerals
  BY DEF Digit, Numerals
<1>3. ValueOf(Digit(n)) \in 0 .. 9 /\ Digit(ValueOf(Digit(n))) = Digit(n)
  BY DEF ValueOf
<1>4. QED
  BY <1>1, <1>2, <1>3

(* A numeral is read as a digit. *)
LEMMA NumeralValue ==
  ASSUME NEW c \in Numerals
  PROVE  ValueOf(c) \in 0 .. 9
<1>1. \E d \in 0 .. 9 : Digit(d) = c
  BY DEF Numerals, Digit
<1>2. QED
  BY <1>1 DEF ValueOf

(* The recursion of Digits has a solution.                                 *)
Written(h, n) ==
  h[n] = IF n < 10 THEN << Digit(n) >> ELSE h[n \div 10] \o << Digit(n % 10) >>

(* A tenth of a number is smaller than the number, and the remainder is a  *)
(* digit.                                                                  *)
LEMMA Tenth ==
  ASSUME NEW n \in Nat, ~ (n < 10)
  PROVE  n \div 10 \in 0 .. n - 1 /\ n % 10 \in 0 .. 9
OBVIOUS

(* The recursion has at most one solution. *)
LEMMA WrittenOnce ==
  ASSUME NEW m \in Nat, NEW g, NEW h,
         \A n \in 0 .. m : Written(g, n) /\ Written(h, n)
  PROVE  \A n \in 0 .. m : g[n] = h[n]
<1> DEFINE Has == {i \in Nat : \A n \in 0 .. m : n < i => g[n] = h[n]}
<1>1. 0 \in Has
  OBVIOUS
<1>2. ASSUME NEW i \in Nat, i \in Has PROVE i + 1 \in Has
  <2>1. SUFFICES ASSUME NEW n \in 0 .. m, n < i + 1 PROVE g[n] = h[n]
    OBVIOUS
  <2> HIDE DEF Has
  <2>2. Written(g, n) /\ Written(h, n)
    OBVIOUS
  <2>3. CASE n < 10
    BY <2>2, <2>3 DEF Written
  <2>4. CASE ~ (n < 10)
    <3>1. n \div 10 \in 0 .. m /\ n \div 10 < i
      BY <2>1, <2>4, Tenth
    <3>2. g[n \div 10] = h[n \div 10]
      BY <1>2, <3>1 DEF Has
    <3>3. QED
      BY <2>2, <2>4, <3>2 DEF Written
  <2>5. QED
    BY <2>3, <2>4
<1> HIDE DEF Has
<1>3. m + 1 \in Has
  BY <1>1, <1>2, SetInduction
<1>4. QED
  BY <1>3 DEF Has

(* The recursion has a solution up to any number. *)
LEMMA WrittenUpTo ==
  ASSUME NEW m \in Nat
  PROVE  \E h : \A n \in 0 .. m : Written(h, n)
<1> DEFINE Has == {i \in Nat : \E h : \A n \in 0 .. i : Written(h, n)}
<1>1. 0 \in Has
  <2> DEFINE h == [n \in 0 .. 0 |-> << Digit(0) >>]
  <2>1. \A n \in 0 .. 0 : Written(h, n)
    BY DEF Written
  <2>2. QED
    BY <2>1
<1>2. ASSUME NEW i \in Nat, i \in Has PROVE i + 1 \in Has
  <2>1. PICK g : \A n \in 0 .. i : Written(g, n)
    BY <1>2
  <2> DEFINE last == IF i + 1 < 10 THEN << Digit(i + 1) >>
                     ELSE g[(i + 1) \div 10] \o << Digit((i + 1) % 10) >>
             h == [n \in 0 .. i + 1 |-> IF n = i + 1 THEN last ELSE g[n]]
  <2>2. \A n \in 0 .. i : h[n] = g[n]
    OBVIOUS
  <2>3. h[i + 1] = last
    OBVIOUS
  <2> HIDE DEF h
  <2>4. \A n \in 0 .. i + 1 : Written(h, n)
    <3>1. TAKE n \in 0 .. i + 1
    <3>2. CASE n \in 0 .. i
      <4>1. CASE n < 10
        BY <2>1, <2>2, <3>2, <4>1 DEF Written
      <4>2. CASE ~ (n < 10)
        <5>1. n \div 10 \in 0 .. i
          BY <3>2, <4>2, Tenth
        <5>2. QED
          BY <2>1, <2>2, <3>2, <4>2, <5>1 DEF Written
      <4>3. QED
        BY <4>1, <4>2
    <3>3. CASE n = i + 1
      <4>1. CASE n < 10
        BY <2>3, <3>3, <4>1 DEF Written
      <4>2. CASE ~ (n < 10)
        <5>1. n \div 10 \in 0 .. i
          BY <3>3, <4>2, Tenth
        <5>2. h[n \div 10] = g[n \div 10]
          BY <2>2, <5>1
        <5>3. QED
          BY <2>3, <3>3, <4>2, <5>2 DEF Written
      <4>3. QED
        BY <4>1, <4>2
    <3>4. QED
      BY <3>2, <3>3
  <2>5. QED
    BY <2>4
<1> HIDE DEF Has
<1>3. m \in Has
  BY <1>1, <1>2, SetInduction
<1>4. QED
  BY <1>3 DEF Has

(* Digits is what its recursion says. *)
LEMMA DigitsDef == \A n \in Nat : Written(Digits, n)
<1> DEFINE Upto(m) == CHOOSE h : \A n \in 0 .. m : Written(h, n)
           F == [n \in Nat |-> Upto(n)[n]]
           Is(h) == h = [n \in Nat |-> IF n < 10 THEN << Digit(n) >>
                                       ELSE h[n \div 10] \o << Digit(n % 10) >>]
<1>1. \A m \in Nat : \A n \in 0 .. m : Written(Upto(m), n)
  BY WrittenUpTo
<1> HIDE DEF Upto
<1>2. \A n \in Nat : F[n] = IF n < 10 THEN << Digit(n) >>
                            ELSE F[n \div 10] \o << Digit(n % 10) >>
  <2>1. TAKE n \in Nat
  <2>2. Written(Upto(n), n)
    BY <1>1
  <2>3. CASE n < 10
    BY <2>2, <2>3 DEF Written
  <2>4. CASE ~ (n < 10)
    <3> DEFINE t == n \div 10
    <3>1. t \in Nat /\ t \in 0 .. n
      BY <2>4, Tenth
    <3>2. F[n] = Upto(n)[t] \o << Digit(n % 10) >>
      BY <2>2, <2>4 DEF Written
    <3> HIDE DEF t
    <3>3. Upto(n)[t] = Upto(t)[t]
      <4> DEFINE a == Upto(n)
                 b == Upto(t)
      <4>1. \A k \in 0 .. t : Written(a, k) /\ Written(b, k)
        BY <1>1, <3>1
      <4> HIDE DEF a, b
      <4>2. \A k \in 0 .. t : a[k] = b[k]
        BY <3>1, <4>1, WrittenOnce
      <4>3. QED
        BY <3>1, <4>2 DEF a, b
    <3>4. F[t] = Upto(t)[t]
      BY <3>1
    <3>5. QED
      BY <2>4, <3>2, <3>3, <3>4 DEF t
  <2>5. QED
    BY <2>3, <2>4
<1>3. Is(F)
  <2>1. F = [n \in Nat |-> F[n]]
    OBVIOUS
  <2> HIDE DEF F
  <2>2. QED
    BY <1>2, <2>1, Zenon
<1>4. Digits = CHOOSE h : Is(h)
  BY DEF Digits
<1> HIDE DEF F
<1>5. Is(Digits)
  BY <1>3, <1>4, Zenon
<1>6. QED
  BY <1>5, Zenon DEF Written
-----------------------------------------------------------------------------
(* atoi goes through the value of what it has read. *)
Minus(s) == s # << >> /\ s[1] = "-"

Values(s, f) ==
    /\ f[0] = 0
    /\ \A i \in 1 .. Len(s) :
          f[i] = IF Minus(s) /\ i = 1 THEN 0 ELSE f[i - 1] * 10 + ValueOf(s[i])

(* atoi goes through a value after each character of a number. *)
LEMMA AtoiRuns ==
  ASSUME NEW s \in Seq(Plain),
         \A i \in 1 .. Len(s) : (Minus(s) /\ i = 1) \/ s[i] \in Numerals
  PROVE  \E f \in [0 .. Len(s) -> Int] :
            /\ Values(s, f)
            /\ atoi(s) = IF Minus(s) THEN - f[Len(s)] ELSE f[Len(s)]
<1> DEFINE n == Len(s)
           Next(x, i) == IF Minus(s) /\ i = 1 THEN 0 ELSE x * 10 + ValueOf(s[i])
           g == [i \in 1 .. n |-> [x \in Int |-> Next(x, i)]]
           Chain(h) == h = [i \in 0 .. n |-> IF i = 0 THEN 0 ELSE Next(h[i - 1], i)]
           f == CHOOSE h : Chain(h)
<1>1. n \in Nat
  OBVIOUS
<1>2. \A i \in 1 .. n : \A x \in Int : Next(x, i) \in Int
  <2>1. TAKE i \in 1 .. n, x \in Int
  <2>2. CASE Minus(s) /\ i = 1
    BY <2>2
  <2>3. CASE ~ (Minus(s) /\ i = 1)
    <3>1. ValueOf(s[i]) \in 0 .. 9
      <4>1. s[i] \in Numerals
        BY <2>3
      <4>2. QED
        BY <4>1, NumeralValue
    <3>2. \A v \in 0 .. 9 : x * 10 + v \in Int
      OBVIOUS
    <3>3. Next(x, i) = x * 10 + ValueOf(s[i])
      BY <2>3
    <3>4. QED
      BY <3>1, <3>2, <3>3, Zenon
  <2>4. QED
    BY <2>2, <2>3
<1>3. atoi(s) = IF Minus(s) THEN - f[n] ELSE f[n]
  BY DEF atoi, Folded, Minus, ValueOf
<1>4. /\ 0 \in 0 .. n /\ \A i \in 1 .. n : i # 0 /\ i \in 0 .. n
      /\ \A i \in 0 .. n : i # 0 => i \in 1 .. n /\ i - 1 \in 0 .. n
  BY <1>1
<1> HIDE DEF Next, n
<1>5. /\ g \in [1 .. n -> [Int -> Int]]
      /\ \A i \in 1 .. n : \A x \in Int : g[i][x] = Next(x, i)
  BY <1>2
<1> HIDE DEF g
<1>6. PICK h \in [0 .. n -> Int] : Runs(0, n, g, h)
  <2> DEFINE base == 0
  <2>1. base \in Int
    OBVIOUS
  <2> HIDE DEF base
  <2>2. \E h \in [0 .. n -> Int] : Runs(base, n, g, h)
    BY <1>1, <1>5, <2>1, LoopRuns
  <2>3. QED
    BY <2>2 DEF base
<1>7. \A i \in 0 .. n : h[i] = IF i = 0 THEN 0 ELSE Next(h[i - 1], i)
  BY <1>4, <1>5, <1>6, Zenon DEF Runs
<1>8. Chain(h)
  BY <1>6, <1>7, Zenon
<1>9. Chain(f)
  BY <1>8, Zenon
<1> HIDE DEF f
<1>10. f[0] = 0 /\ \A i \in 1 .. n : f[i] = Next(f[i - 1], i)
  BY <1>4, <1>9, Zenon
<1> DEFINE Has == {i \in Nat : i <= n => f[i] \in Int}
<1>11. 0 \in Has
  BY <1>10
<1>12. ASSUME NEW i \in Nat, i \in Has PROVE i + 1 \in Has
  <2>1. SUFFICES ASSUME i + 1 <= n PROVE f[i + 1] \in Int
    OBVIOUS
  <2>2. i + 1 \in 1 .. n /\ (i + 1) - 1 = i /\ f[i] \in Int
    BY <1>1, <1>12, <2>1
  <2>3. QED
    BY <1>2, <1>10, <2>2
<1> HIDE DEF Has
<1>13. Nat \subseteq Has
  BY <1>11, <1>12, SetInduction
<1>14. f \in [0 .. n -> Int]
  <2>1. f = [i \in 0 .. n |-> f[i]]
    BY <1>9
  <2>2. \A i \in 0 .. n : f[i] \in Int
    BY <1>1, <1>13 DEF Has
  <2>3. QED
    BY <2>1, <2>2
<1>15. Values(s, f)
  BY <1>10 DEF Values, Next, n
<1>16. QED
  BY <1>3, <1>14, <1>15 DEF n

(* A text with no characters is read as zero. *)
LEMMA AtoiNone == atoi(<< >>) = 0
<1>1. << >> \in Seq(Plain) /\ Len(<< >>) = 0 /\ ~ Minus(<< >>)
  BY DEF Minus
<1>2. \A i \in 1 .. Len(<< >>) : (Minus(<< >>) /\ i = 1) \/ << >>[i] \in Numerals
  BY <1>1
<1>3. PICK f \in [0 .. Len(<< >>) -> Int] :
          /\ Values(<< >>, f)
          /\ atoi(<< >>) = IF Minus(<< >>) THEN - f[Len(<< >>)] ELSE f[Len(<< >>)]
  BY <1>1, <1>2, AtoiRuns
<1>4. QED
  BY <1>1, <1>3 DEF Values

(* A text of numerals has no sign. *)
LEMMA NotMinus ==
  ASSUME NEW s \in Seq(Numerals)
  PROVE  ~ Minus(s) /\ s \in Seq(Plain) /\ \A i \in 1 .. Len(s) : s[i] \in Numerals
<1>1. \A i \in 1 .. Len(s) : s[i] \in Numerals
  BY ElementOfSeq
<1>2. s # << >> => 1 \in 1 .. Len(s)
  BY EmptySeq, LenProperties
<1>3. "-" \notin Numerals
  BY DEF Numerals
<1>4. s \in Seq(Plain)
  BY DEF Plain
<1>5. QED
  BY <1>1, <1>2, <1>3, <1>4 DEF Minus

(* One more numeral *)
LEMMA AtoiMore ==
  ASSUME NEW s \in Seq(Numerals), NEW c \in Numerals
  PROVE  atoi(s) \in Int /\ atoi(s \o << c >>) = atoi(s) * 10 + ValueOf(c)
<1> DEFINE t == s \o << c >>
           n == Len(s)
<1>1. /\ t \in Seq(Numerals) /\ Len(t) = n + 1 /\ n \in Nat /\ t[n + 1] = c
      /\ \A i \in 1 .. n : t[i] = s[i]
  OBVIOUS
<1> HIDE DEF t
<1>2. ~ Minus(s) /\ s \in Seq(Plain) /\ \A i \in 1 .. Len(s) : s[i] \in Numerals
  BY NotMinus
<1>3. ~ Minus(t) /\ t \in Seq(Plain) /\ \A i \in 1 .. Len(t) : t[i] \in Numerals
  BY <1>1, NotMinus
<1>4. PICK f \in [0 .. n -> Int] : Values(s, f) /\ atoi(s) = f[n]
  BY <1>2, AtoiRuns
<1>5. PICK h \in [0 .. n + 1 -> Int] : Values(t, h) /\ atoi(t) = h[n + 1]
  BY <1>1, <1>3, AtoiRuns
<1>6. f[0] = 0 /\ \A i \in 1 .. n : f[i] = f[i - 1] * 10 + ValueOf(s[i])
  BY <1>2, <1>4 DEF Values
<1>7. h[0] = 0 /\ \A i \in 1 .. n + 1 : h[i] = h[i - 1] * 10 + ValueOf(t[i])
  BY <1>1, <1>3, <1>5 DEF Values
<1> HIDE DEF n
<1> DEFINE Has == {i \in Nat : i <= n => h[i] = f[i]}
<1>8. 0 \in Has
  BY <1>6, <1>7
<1>9. ASSUME NEW i \in Nat, i \in Has PROVE i + 1 \in Has
  <2>1. SUFFICES ASSUME i + 1 <= n PROVE h[i + 1] = f[i + 1]
    OBVIOUS
  <2>2. i + 1 \in 1 .. n /\ i + 1 \in 1 .. n + 1 /\ (i + 1) - 1 = i /\ h[i] = f[i]
    BY <1>1, <1>9, <2>1
  <2>3. QED
    BY <1>1, <1>6, <1>7, <2>2
<1> HIDE DEF Has
<1>10. n \in Has
  BY <1>1, <1>8, <1>9, SetInduction
<1>11. h[n] = f[n]
  BY <1>1, <1>10 DEF Has
<1>12. h[n + 1] = h[n] * 10 + ValueOf(c)
  <2>1. n + 1 \in 1 .. n + 1 /\ (n + 1) - 1 = n
    BY <1>1
  <2>2. QED
    BY <1>1, <1>7, <2>1
<1>13. f[n] \in Int
  BY <1>1, <1>4
<1>14. QED
  BY <1>4, <1>5, <1>11, <1>12, <1>13 DEF t

(* A sign in front *)
LEMMA AtoiMinus ==
  ASSUME NEW s \in Seq(Numerals)
  PROVE  atoi(<< "-" >> \o s) = - atoi(s)
<1> DEFINE t == << "-" >> \o s
           n == Len(s)
<1>1. /\ Len(t) = n + 1 /\ n \in Nat /\ t[1] = "-"
      /\ \A i \in 1 .. n : t[i + 1] = s[i]
      /\ t # << >>
  OBVIOUS
<1>2. t \in Seq(Plain)
  <2>1. << "-" >> \in Seq(Plain) /\ s \in Seq(Plain)
    BY DEF Plain
  <2>2. QED
    BY <2>1, ConcatProperties
<1> HIDE DEF t
<1>3. ~ Minus(s) /\ s \in Seq(Plain) /\ \A i \in 1 .. Len(s) : s[i] \in Numerals
  BY NotMinus
<1>4. Minus(t) /\ \A i \in 1 .. Len(t) : (Minus(t) /\ i = 1) \/ t[i] \in Numerals
  <2>1. Minus(t)
    BY <1>1 DEF Minus
  <2>2. \A i \in 1 .. n + 1 : i = 1 \/ (i - 1 \in 1 .. n /\ (i - 1) + 1 = i)
    BY <1>1
  <2>3. \A i \in 1 .. n + 1 : i = 1 \/ t[i] = s[i - 1]
    BY <1>1, <2>2
  <2>4. QED
    BY <1>1, <1>3, <2>1, <2>2, <2>3
<1>5. PICK f \in [0 .. n -> Int] : Values(s, f) /\ atoi(s) = f[n]
  BY <1>3, AtoiRuns
<1>6. PICK h \in [0 .. n + 1 -> Int] : Values(t, h) /\ atoi(t) = - h[n + 1]
  BY <1>1, <1>2, <1>4, AtoiRuns
<1>7. f[0] = 0 /\ \A i \in 1 .. n : f[i] = f[i - 1] * 10 + ValueOf(s[i])
  BY <1>3, <1>5 DEF Values
<1>8. /\ \A i \in 1 .. n + 1 :
             h[i] = IF i = 1 THEN 0 ELSE h[i - 1] * 10 + ValueOf(t[i])
  BY <1>1, <1>4, <1>6 DEF Values
<1> HIDE DEF n
<1> DEFINE Has == {i \in Nat : i <= n => h[i + 1] = f[i]}
<1>9. 0 \in Has
  <2>1. 1 \in 1 .. n + 1 /\ 0 + 1 = 1
    BY <1>1
  <2>2. h[1] = 0
    BY <1>8, <2>1
  <2>3. QED
    BY <1>7, <2>1, <2>2
<1>10. ASSUME NEW i \in Nat, i \in Has PROVE i + 1 \in Has
  <2>1. SUFFICES ASSUME i + 1 <= n PROVE h[(i + 1) + 1] = f[i + 1]
    OBVIOUS
  <2> DEFINE k == i + 1
  <2>2. /\ k \in 1 .. n /\ k + 1 \in 1 .. n + 1 /\ k - 1 = i /\ (k + 1) - 1 = k
        /\ k + 1 # 1 /\ h[k] = f[i]
    BY <1>1, <1>10, <2>1
  <2> HIDE DEF k
  <2>3. h[k + 1] = h[k] * 10 + ValueOf(t[k + 1])
    BY <1>8, <2>2
  <2>4. f[k] = f[i] * 10 + ValueOf(s[k])
    BY <1>7, <2>2
  <2>5. t[k + 1] = s[k]
    BY <1>1, <2>2
  <2>6. QED
    BY <2>2, <2>3, <2>4, <2>5 DEF k
<1> HIDE DEF Has
<1>11. n \in Has
  BY <1>1, <1>9, <1>10, SetInduction
<1>12. h[n + 1] = f[n]
  BY <1>1, <1>11 DEF Has
<1>13. QED
  BY <1>5, <1>6, <1>12 DEF t

(* The digits of a number are read as the number. *)
LEMMA DigitsRead ==
  ASSUME NEW n \in Nat
  PROVE  /\ Digits[n] \in Seq(Numerals) /\ Digits[n] # << >>
         /\ atoi(Digits[n]) = n
<1> DEFINE Good(k) == /\ Digits[k] \in Seq(Numerals) /\ Digits[k] # << >>
                      /\ atoi(Digits[k]) = k
           Has == {i \in Nat : \A k \in Nat : k < i => Good(k)}
<1>1. 0 \in Has
  OBVIOUS
<1>2. ASSUME NEW i \in Nat, i \in Has PROVE i + 1 \in Has
  <2>1. SUFFICES ASSUME NEW k \in Nat, k < i + 1 PROVE Good(k)
    BY DEF Has
  <2>2. Written(Digits, k)
    BY DigitsDef
  <2>3. CASE k < 10
    <3>1. Digits[k] = << Digit(k) >> /\ << Digit(k) >> = << >> \o << Digit(k) >>
      BY <2>2, <2>3 DEF Written
    <3>2. Digit(k) \in Numerals /\ ValueOf(Digit(k)) = k
      BY <2>3, DigitValue
    <3>3. << >> \in Seq(Numerals)
      OBVIOUS
    <3>4. atoi(<< >> \o << Digit(k) >>) = atoi(<< >>) * 10 + ValueOf(Digit(k))
      BY <3>2, <3>3, AtoiMore
    <3>5. atoi(Digits[k]) = k
      BY <3>1, <3>2, <3>4, AtoiNone
    <3>6. << Digit(k) >> \in Seq(Numerals) /\ << Digit(k) >> # << >>
      BY <3>2
    <3>7. QED
      BY <3>1, <3>5, <3>6
  <2>4. CASE ~ (k < 10)
    <3> DEFINE t == k \div 10
               d == k % 10
    <3>1. t \in Nat /\ t < i /\ d \in 0 .. 9
      BY <2>1, <2>4, Tenth
    <3>2. k = 10 * t + d
      BY DivMod
    <3>3. Digits[k] = Digits[t] \o << Digit(d) >>
      BY <2>2, <2>4 DEF Written
    <3> HIDE DEF t, d
    <3>4. Good(t)
      BY <1>2, <3>1 DEF Has
    <3>5. Digit(d) \in Numerals /\ ValueOf(Digit(d)) = d
      BY <3>1, DigitValue
    <3>6. atoi(Digits[t] \o << Digit(d) >>) = atoi(Digits[t]) * 10 + ValueOf(Digit(d))
      BY <3>4, <3>5, AtoiMore
    <3>7. atoi(Digits[k]) = k
      BY <3>1, <3>2, <3>3, <3>4, <3>5, <3>6
    <3>8. /\ Digits[t] \o << Digit(d) >> \in Seq(Numerals)
          /\ Digits[t] \o << Digit(d) >> # << >>
      BY <3>4, <3>5
    <3>9. QED
      BY <3>3, <3>7, <3>8
  <2>5. QED
    BY <2>3, <2>4
<1> HIDE DEF Has
<1>3. n + 1 \in Has
  BY <1>1, <1>2, SetInduction
<1>4. QED
  BY <1>3 DEF Has

(* Any number is read as it was written. *)
LEMMA DecimalRead ==
  ASSUME NEW n \in Int
  PROVE  /\ Decimal(n) \in Seq(Plain) /\ Decimal(n) # << >>
         /\ atoi(Decimal(n)) = n
<1>1. CASE n < 0
  <2> DEFINE m == - n
             s == Digits[m]
  <2>1. m \in Nat /\ n = - m
    BY <1>1
  <2> HIDE DEF m
  <2>2. s \in Seq(Numerals) /\ atoi(s) = m
    BY <2>1, DigitsRead
  <2>3. Decimal(n) = << "-" >> \o s
    BY <1>1 DEF Decimal, m
  <2> HIDE DEF s
  <2>4. atoi(<< "-" >> \o s) = - atoi(s)
    BY <2>2, AtoiMinus
  <2>5. s \in Seq(Plain) /\ << "-" >> \in Seq(Plain)
    BY <2>2 DEF Plain
  <2>6. << "-" >> \o s \in Seq(Plain) /\ << "-" >> \o s # << >>
    BY <2>5
  <2>7. QED
    BY <2>1, <2>2, <2>3, <2>4, <2>6
<1>2. CASE ~ (n < 0)
  <2>1. n \in Nat
    BY <1>2
  <2>2. Digits[n] \in Seq(Numerals) /\ Digits[n] # << >> /\ atoi(Digits[n]) = n
    BY <2>1, DigitsRead
  <2>3. Decimal(n) = Digits[n]
    BY <1>2 DEF Decimal
  <2>4. QED
    BY <2>2, <2>3, NotMinus
<1>3. QED
  BY <1>1, <1>2
-----------------------------------------------------------------------------
(* The keys of a map in their order *)
IntSets == {E \in SUBSET Int : IsFiniteSet(E)}
Lower(D, k) == {l \in D : l < k}
Rank(D, k) == Cardinality(Lower(D, k))

(* A finite set of numbers without one of its elements. *)
LEMMA IntSetFacts ==
  ASSUME NEW E \in IntSets
  PROVE  /\ IsFiniteSet(E) /\ Cardinality(E) \in Nat
         /\ Cardinality(E) = 0 <=> E = {}
         /\ \A x \in E : /\ x \in Int /\ E \ {x} \in IntSets
                         /\ Cardinality(E \ {x}) = Cardinality(E) - 1
<1>1. IsFiniteSet(E) /\ E \in SUBSET Int
  BY DEF IntSets
<1>2. Cardinality(E) \in Nat /\ (Cardinality(E) = 0 <=> E = {})
  BY <1>1, FS_CardinalityType, FS_EmptySet
<1>3. ASSUME NEW x \in E
      PROVE  x \in Int /\ E \ {x} \in IntSets /\ Cardinality(E \ {x}) = Cardinality(E) - 1
  <2>1. IsFiniteSet(E \ {x}) /\ Cardinality(E \ {x}) = Cardinality(E) - 1
    BY <1>1, FS_RemoveElement
  <2>2. x \in Int /\ E \ {x} \in SUBSET Int
    BY <1>1
  <2>3. QED
    BY <2>1, <2>2 DEF IntSets
<1>4. QED
  BY <1>1, <1>2, <1>3

(* A finite set of numbers that is not empty has a greatest element. *)
LEMMA GreatestExists ==
  ASSUME NEW D \in IntSets, D # {}
  PROVE  \E x \in D : \A y \in D : y <= x
<1> DEFINE Great(E) == \E x \in E : \A y \in E : y <= x
           Has == {n \in Nat : \A E \in IntSets : Cardinality(E) = n + 1 => Great(E)}
<1>1. 0 \in Has
  <2>1. SUFFICES ASSUME NEW E \in IntSets, Cardinality(E) = 0 + 1
                 PROVE  Great(E)
    OBVIOUS
  <2>2. Cardinality(E) # 0
    BY <2>1
  <2>3. PICK x \in E : TRUE
    BY <2>2, IntSetFacts
  <2>4. x \in Int /\ E \ {x} \in IntSets /\ Cardinality(E \ {x}) = 0
    BY <2>1, IntSetFacts
  <2>5. E \ {x} = {}
    BY <2>4, IntSetFacts
  <2>6. x <= x /\ \A y \in E : y = x
    BY <2>4, <2>5
  <2>7. QED
    BY <2>6
<1>2. ASSUME NEW n \in Nat, n \in Has PROVE n + 1 \in Has
  <2>1. SUFFICES ASSUME NEW E \in IntSets, Cardinality(E) = (n + 1) + 1
                 PROVE  Great(E)
    OBVIOUS
  <2>2. Cardinality(E) # 0
    BY <2>1
  <2>3. PICK x \in E : TRUE
    BY <2>2, IntSetFacts
  <2> DEFINE F == E \ {x}
  <2>4. F \in IntSets /\ Cardinality(F) = Cardinality(E) - 1
    BY IntSetFacts
  <2>5. \A y \in E : y \in Int
    BY IntSetFacts
  <2>6. \A y \in E : y = x \/ y \in F
    OBVIOUS
  <2>7. \A y \in F : y \in E
    OBVIOUS
  <2> HIDE DEF F
  <2>8. Cardinality(F) = n + 1
    BY <2>1, <2>4
  <2>9. PICK z \in F : \A y \in F : y <= z
    BY <1>2, <2>4, <2>8
  <2>10. CASE x <= z
    BY <2>6, <2>7, <2>9, <2>10
  <2>11. CASE ~ (x <= z)
    <3>1. x <= x /\ \A y \in F : y <= x
      BY <2>5, <2>7, <2>9, <2>11
    <3>2. QED
      BY <2>6, <3>1
  <2>12. QED
    BY <2>10, <2>11
<1> HIDE DEF Has
<1>3. Nat \subseteq Has
  BY <1>1, <1>2, SetInduction
<1> DEFINE m == Cardinality(D) - 1
<1>4. m \in Nat /\ m + 1 = Cardinality(D)
  <2>1. Cardinality(D) \in Nat /\ Cardinality(D) # 0
    BY IntSetFacts
  <2>2. QED
    BY <2>1
<1> HIDE DEF m
<1>5. QED
  BY <1>3, <1>4 DEF Has

(* Every place in the order of a finite set is taken. *)
LEMMA RanksTaken ==
  ASSUME NEW D \in IntSets
  PROVE  \A i \in 1 .. Cardinality(D) : \E k \in D : Rank(D, k) = i - 1
<1> DEFINE Taken(E) == \A i \in 1 .. Cardinality(E) : \E k \in E : Rank(E, k) = i - 1
           Has == {n \in Nat : \A E \in IntSets : Cardinality(E) = n => Taken(E)}
<1>1. 0 \in Has
  OBVIOUS
<1>2. ASSUME NEW n \in Nat, n \in Has PROVE n + 1 \in Has
  <2>1. SUFFICES ASSUME NEW E \in IntSets, Cardinality(E) = n + 1, NEW i \in 1 .. n + 1
                 PROVE  \E k \in E : Rank(E, k) = i - 1
    BY DEF Has
  <2>2. Cardinality(E) # 0
    BY <2>1
  <2>3. E # {}
    BY <2>2, IntSetFacts
  <2>4. PICK x \in E : \A y \in E : y <= x
    BY <2>3, GreatestExists
  <2> DEFINE F == E \ {x}
  <2>5. F \in IntSets /\ Cardinality(F) = Cardinality(E) - 1
    BY IntSetFacts
  <2>6. \A y \in E : y \in Int
    BY IntSetFacts
  <2>7. Cardinality(F) = n
    BY <2>1, <2>5
  <2>8. CASE i \in 1 .. n
    <3>1. PICK k \in F : Rank(F, k) = i - 1
      BY <1>2, <2>5, <2>7, <2>8
    <3>2. k \in E /\ k <= x /\ k \in Int /\ x \in Int
      BY <2>4, <2>6
    <3>3. Lower(E, k) = Lower(F, k)
      BY <3>2 DEF Lower
    <3>4. QED
      BY <3>1, <3>2, <3>3 DEF Rank
  <2>9. CASE i = n + 1
    <3>1. \A y \in E : y < x <=> y # x
      BY <2>4, <2>6
    <3>2. Lower(E, x) = F
      BY <3>1 DEF Lower
    <3>3. QED
      BY <2>7, <2>9, <3>2 DEF Rank
  <2>10. QED
    BY <2>8, <2>9
<1> HIDE DEF Has
<1>3. Cardinality(D) \in Nat
  BY IntSetFacts
<1>4. Cardinality(D) \in Has
  BY <1>1, <1>2, <1>3, SetInduction
<1>5. QED
  BY <1>4 DEF Has

(* A place in the order is a number below the size of the set. *)
LEMMA RankType ==
  ASSUME NEW D \in IntSets, NEW k \in D
  PROVE  /\ IsFiniteSet(Lower(D, k)) /\ IsFiniteSet(Lower(D, k) \cup {k})
         /\ Rank(D, k) \in Nat /\ Rank(D, k) < Cardinality(D)
         /\ Cardinality(Lower(D, k) \cup {k}) = Rank(D, k) + 1
<1>1. IsFiniteSet(D) /\ Cardinality(D) \in Nat /\ k \in Int
  BY IntSetFacts
<1>2. Lower(D, k) \in SUBSET D /\ k \notin Lower(D, k)
  BY <1>1 DEF Lower
<1> DEFINE L == Lower(D, k)
           M == L \cup {k}
<1> HIDE DEF L
<1>3. IsFiniteSet(L) /\ Cardinality(L) \in Nat
  BY <1>1, <1>2, FS_Subset, FS_CardinalityType DEF L
<1>4. IsFiniteSet(M) /\ Cardinality(M) = Cardinality(L) + 1
  BY <1>2, <1>3, FS_AddElement DEF L
<1>5. M \in SUBSET D
  BY <1>2 DEF L
<1> HIDE DEF M
<1>6. Cardinality(M) <= Cardinality(D)
  BY <1>1, <1>5, FS_Subset
<1>7. Cardinality(L) < Cardinality(D)
  BY <1>1, <1>3, <1>4, <1>6
<1>8. QED
  BY <1>3, <1>4, <1>7 DEF L, M, Rank

(* A greater element has a later place. *)
LEMMA RankGrows ==
  ASSUME NEW D \in IntSets, NEW a \in D, NEW b \in D, a < b
  PROVE  Rank(D, a) < Rank(D, b)
<1>1. \A c \in D : c \in Int
  BY IntSetFacts
<1> DEFINE M == Lower(D, a) \cup {a}
           L == Lower(D, b)
<1>2. M \in SUBSET L
  <2>1. a \in L
    BY DEF Lower
  <2>2. \A c \in Lower(D, a) : c \in L
    BY <1>1 DEF Lower
  <2>3. QED
    BY <2>1, <2>2
<1>3. IsFiniteSet(L) /\ Rank(D, a) \in Nat /\ Rank(D, b) \in Nat
  BY RankType
<1>4. Cardinality(M) = Rank(D, a) + 1
  BY RankType
<1> HIDE DEF M, L
<1>5. Cardinality(M) <= Cardinality(L)
  BY <1>2, <1>3, FS_Subset
<1>6. QED
  BY <1>3, <1>4, <1>5 DEF L, Rank

(* No two elements share a place. *)
LEMMA RankOnce ==
  ASSUME NEW D \in IntSets, NEW k \in D, NEW l \in D, Rank(D, k) = Rank(D, l)
  PROVE  k = l
<1>1. k \in Int /\ l \in Int
  BY IntSetFacts
<1>2. Rank(D, k) \in Nat
  BY RankType
<1>3. ~ (k < l)
  BY <1>2, RankGrows
<1>4. ~ (l < k)
  BY <1>2, RankGrows
<1>5. QED
  BY <1>1, <1>3, <1>4

(* The keys by which map2str walks through a map are all its keys, each    *)
(* once.                                                                   *)
LEMMA KeysInOrder ==
  ASSUME NEW mm \in Maps
  PROVE  /\ Cardinality(DOMAIN mm) \in Nat
         /\ \A i \in 1 .. Cardinality(DOMAIN mm) :
                Key(mm, i) \in DOMAIN mm /\ Key(mm, i) \in Int /\ mm[Key(mm, i)] \in Int
         /\ \A k \in DOMAIN mm : \E i \in 1 .. Cardinality(DOMAIN mm) : Key(mm, i) = k
         /\ \A i, j \in 1 .. Cardinality(DOMAIN mm) : Key(mm, i) = Key(mm, j) => i = j
<1> DEFINE D == DOMAIN mm
           n == Cardinality(D)
<1>1. D \in IntSets /\ \A k \in D : mm[k] \in Nat
  BY MapFacts DEF IntSets
<1>2. n \in Nat /\ \A k \in D : k \in Int
  BY <1>1, IntSetFacts
<1>3. \A i : Key(mm, i) = CHOOSE k \in D : Rank(D, k) = i - 1
  BY DEF Key, Lower, Rank
<1> HIDE DEF D, n
<1>4. \A i \in 1 .. n : Key(mm, i) \in D /\ Rank(D, Key(mm, i)) = i - 1
  <2>1. TAKE i \in 1 .. n
  <2>2. \E k \in D : Rank(D, k) = i - 1
    BY <1>1, RanksTaken DEF n
  <2>3. QED
    BY <1>3, <2>2, Zenon
<1>5. \A i \in 1 .. n : Key(mm, i) \in Int /\ mm[Key(mm, i)] \in Int
  <2>1. TAKE i \in 1 .. n
  <2> DEFINE k == Key(mm, i)
  <2>2. k \in D
    BY <1>4
  <2> HIDE DEF k
  <2>3. k \in Int /\ mm[k] \in Int
    BY <1>1, <1>2, <2>2
  <2>4. QED
    BY <2>3 DEF k
<1>6. \A k \in D : \E i \in 1 .. n : Key(mm, i) = k
  <2>1. TAKE k \in D
  <2> DEFINE i == Rank(D, k) + 1
  <2>2. i \in 1 .. n /\ i - 1 = Rank(D, k)
    <3>1. Rank(D, k) \in Nat /\ Rank(D, k) < n
      BY <1>1, RankType DEF n
    <3>2. QED
      BY <1>2, <3>1
  <2> HIDE DEF i
  <2>3. Key(mm, i) \in D /\ Rank(D, Key(mm, i)) = Rank(D, k)
    BY <1>4, <2>2
  <2>4. Key(mm, i) = k
    BY <1>1, <2>3, RankOnce
  <2>5. QED
    BY <2>2, <2>4
<1>7. \A i, j \in 1 .. n : Key(mm, i) = Key(mm, j) => i = j
  <2>1. SUFFICES ASSUME NEW i \in 1 .. n, NEW j \in 1 .. n, Key(mm, i) = Key(mm, j)
                 PROVE  i = j
    OBVIOUS
  <2>2. i - 1 = j - 1
    BY <1>4, <2>1
  <2>3. QED
    BY <1>2, <2>2
<1>8. QED
  BY <1>2, <1>4, <1>5, <1>6, <1>7 DEF D, n
-----------------------------------------------------------------------------
(* The parser's states *)
St(flag, name, buff, mm) == [flag |-> flag, name |-> name, buff |-> buff, mm |-> mm]
No == FALSE
Yes == TRUE
First(w, m) == [x \in 1 .. m |-> w[x]]

(* The first characters of a text, one more at a time. *)
LEMMA FirstFacts ==
  ASSUME NEW w \in Seq(Plain)
  PROVE  /\ First(w, 0) = << >> /\ First(w, Len(w)) = w
         /\ \A m \in Nat : m < Len(w) =>
                Append(First(w, m), w[m + 1]) = First(w, m + 1)
<1>1. Len(w) \in Nat /\ \A x \in 1 .. Len(w) : w[x] \in Plain
  BY ElementOfSeq
<1>2. First(w, 0) = << >>
  BY DEF First
<1>3. First(w, Len(w)) = w
  BY DEF First
<1>4. ASSUME NEW m \in Nat, m < Len(w)
      PROVE  Append(First(w, m), w[m + 1]) = First(w, m + 1)
  <2> DEFINE s == First(w, m)
             t == Append(s, w[m + 1])
             u == First(w, m + 1)
  <2>1. s \in Seq(Plain) /\ Len(s) = m /\ \A x \in 1 .. m : s[x] = w[x]
    <3>1. \A x \in 1 .. m : w[x] \in Plain
      BY <1>1, <1>4
    <3>2. QED
      BY <3>1 DEF First
  <2>2. u \in Seq(Plain) /\ Len(u) = m + 1 /\ \A x \in 1 .. m + 1 : u[x] = w[x]
    <3>1. \A x \in 1 .. m + 1 : w[x] \in Plain
      BY <1>1, <1>4
    <3>2. QED
      BY <3>1 DEF First
  <2>3. w[m + 1] \in Plain
    BY <1>1, <1>4
  <2> HIDE DEF s, u
  <2>4. /\ t \in Seq(Plain) /\ Len(t) = m + 1 /\ t[m + 1] = w[m + 1]
        /\ \A x \in 1 .. m : t[x] = s[x]
    BY <2>1, <2>3
  <2>5. \A x \in 1 .. m + 1 : t[x] = u[x]
    BY <2>1, <2>2, <2>4
  <2> HIDE DEF t
  <2>6. t = u
    BY <2>2, <2>4, <2>5, SeqEqual
  <2>7. QED
    BY <2>6 DEF s, t, u
<1>5. QED
  BY <1>2, <1>3, <1>4

Reads(ss, pos, st, next) == Read(ss, st, pos) = next

(* A character of a number, not the last of the text, is kept in the       *)
(* buffer.                                                                 *)
LEMMA ReadPlain ==
  ASSUME NEW ss, NEW pos, ss[pos] \in Plain, pos # Len(ss), NEW f, NEW nm, NEW b, NEW M
  PROVE  Read(ss, St(f, nm, b, M), pos) = St(f, nm, Append(b, ss[pos]), M)
<1>1. ss[pos] # ":" /\ ss[pos] # ","
  BY DEF Plain, Numerals
<1>2. QED
  BY <1>1 DEF Read, St, No, Yes

(* The last character of the text ends its last count. *)
LEMMA ReadEnd ==
  ASSUME NEW ss, NEW pos, ss[pos] \in Plain, pos = Len(ss), NEW nm, nm # << >>,
         NEW b, NEW M
  PROVE  Read(ss, St(Yes, nm, b, M), pos) =
             St(No, nm, << >>, Put(M, atoi(nm), atoi(Append(b, ss[pos]))))
<1>1. ss[pos] # ":"
  BY DEF Plain, Numerals
<1>2. QED
  BY <1>1 DEF Read, St, No, Yes

(* A colon ends a code: what is in the buffer becomes the name. *)
LEMMA ReadColon ==
  ASSUME NEW ss, NEW pos, ss[pos] = ":", NEW f, NEW nm, NEW b, NEW M
  PROVE  Read(ss, St(f, nm, b, M), pos) = St(Yes, b, << >>, M)
BY DEF Read, St, No, Yes

CommaAt(ss, pos) == ss[pos] = "," /\ pos # Len(ss)

(* A comma ends a count: the pair is put into the map. *)
LEMMA ReadComma ==
  ASSUME NEW ss, NEW pos, NEW nm, NEW b, NEW M, CommaAt(ss, pos), nm # << >>
  PROVE  Reads(ss, pos, St(Yes, nm, b, M), St(No, nm, << >>, Put(M, atoi(nm), atoi(b))))
<1>1. ss[pos] = "," /\ pos # Len(ss)
  BY DEF CommaAt
<1>2. ss[pos] # ":"
  BY <1>1
<1>3. QED
  BY <1>1, <1>2 DEF Read, Reads, St, No, Yes

(* The text w stands in ss after place p; the parser goes through ss.      *)
Stands(ss, p, w) == \A x \in 1 .. Len(w) : ss[p + x] = w[x]
Parses(ss, g) == \A pos \in 1 .. Len(ss) : g[pos] = Read(ss, g[pos - 1], pos)

(* Where a text of plain characters stands there are plain characters. *)
LEMMA StandsAt ==
  ASSUME NEW ss, NEW p, NEW w \in Seq(Plain), Stands(ss, p, w), NEW x \in 1 .. Len(w)
  PROVE  ss[p + x] = w[x] /\ w[x] \in Plain
BY ElementOfSeq DEF Stands

(* Plain characters gather in the buffer. *)
Starts(ss, g, p, w, st) ==
    /\ Len(ss) \in Nat /\ Parses(ss, g)
    /\ p \in Nat /\ w \in Seq(Plain) /\ Stands(ss, p, w) /\ g[p] = st

Gathered(ss, g, p, w, f, nm, M) ==
    \A m \in Nat : m <= Len(w) /\ p + m < Len(ss) =>
        g[p + m] = St(f, nm, First(w, m), M)

(* The characters of a number gather in the buffer. *)
LEMMA Gathers ==
  ASSUME NEW ss, NEW g, NEW p, NEW w, NEW f, NEW nm, NEW M,
         Starts(ss, g, p, w, St(f, nm, << >>, M))
  PROVE  Gathered(ss, g, p, w, f, nm, M)
<1>1. /\ Len(ss) \in Nat /\ Parses(ss, g)
      /\ p \in Nat /\ w \in Seq(Plain) /\ Stands(ss, p, w) /\ g[p] = St(f, nm, << >>, M)
  BY DEF Starts
<1>2. SUFFICES ASSUME NEW m \in Nat, m <= Len(w), p + m < Len(ss)
               PROVE  g[p + m] = St(f, nm, First(w, m), M)
  BY DEF Gathered
<1> DEFINE L == Len(ss)
           Has == {i \in Nat : i <= m => g[p + i] = St(f, nm, First(w, i), M)}
<1>3. Len(w) \in Nat
  BY <1>1
<1>4. 0 \in Has
  <2>1. p + 0 = p /\ First(w, 0) = << >>
    BY <1>1, FirstFacts
  <2>2. QED
    BY <1>1, <2>1
<1>5. ASSUME NEW i \in Nat, i \in Has PROVE i + 1 \in Has
  <2>1. SUFFICES ASSUME i + 1 <= m
                 PROVE  g[p + (i + 1)] = St(f, nm, First(w, i + 1), M)
    OBVIOUS
  <2> DEFINE pos == p + (i + 1)
             k == i + 1
  <2>2. pos \in 1 .. L /\ pos - 1 = p + i /\ pos # L /\ k \in 1 .. Len(w) /\ i < Len(w)
    BY <1>3, <1>1, <1>2, <2>1
  <2>3. ss[pos] = w[k] /\ w[k] \in Plain
    <3> HIDE DEF k
    <3>1. ss[p + k] = w[k] /\ w[k] \in Plain
      BY <1>1, <2>2, StandsAt
    <3>2. QED
      BY <3>1 DEF k
  <2>4. g[pos - 1] = St(f, nm, First(w, i), M)
    <3>1. g[p + i] = St(f, nm, First(w, i), M)
      BY <1>5, <2>1
    <3>2. QED
      BY <2>2, <3>1
  <2>5. g[pos] = Read(ss, g[pos - 1], pos)
    <3> HIDE DEF pos
    <3>1. QED
      BY <1>1, <2>2 DEF Parses
  <2> HIDE DEF pos, k
  <2>6. Read(ss, St(f, nm, First(w, i), M), pos) =
            St(f, nm, Append(First(w, i), ss[pos]), M)
    BY <2>2, <2>3, ReadPlain
  <2>7. Append(First(w, i), w[i + 1]) = First(w, i + 1)
    BY <1>1, <2>2, FirstFacts
  <2>8. QED
    BY <2>3, <2>4, <2>5, <2>6, <2>7 DEF pos, k
<1> HIDE DEF Has
<1>6. m \in Has
  BY <1>4, <1>5, SetInduction
<1>7. QED
  BY <1>6 DEF Has

(* An entry is put into the map, whether a comma follows or the text ends. *)
EntryHere(ss, g, p, q, N, V, nm, M) ==
    /\ Len(ss) \in Nat /\ Parses(ss, g) /\ p \in Nat /\ q \in Nat
    /\ N \in Seq(Plain) /\ N # << >> /\ V \in Seq(Plain) /\ V # << >>
    /\ q = p + Len(N) + 1 /\ q + Len(V) <= Len(ss)
    /\ Stands(ss, p, N) /\ ss[q] = ":" /\ Stands(ss, q, V)
    /\ g[p] = St(No, nm, << >>, M)

EntryDone(ss, g, q, N, V, M) ==
    /\ q + Len(V) = Len(ss) => g[Len(ss)].mm = Put(M, atoi(N), atoi(V))
    /\ (q + Len(V) + 1 < Len(ss) /\ ss[q + Len(V) + 1] = ",") =>
           g[q + Len(V) + 1] = St(No, N, << >>, Put(M, atoi(N), atoi(V)))

(* An entry that stands in the text is put into the map, whether a comma   *)
(* follows it or the text ends.                                            *)
LEMMA EntryRead ==
  ASSUME NEW ss, NEW g, NEW p, NEW q, NEW N, NEW V, NEW nm, NEW M,
         EntryHere(ss, g, p, q, N, V, nm, M)
  PROVE  EntryDone(ss, g, q, N, V, M)
<1> DEFINE a == Len(N)
           b == Len(V)
           L == Len(ss)
           X == Put(M, atoi(N), atoi(V))
<1>1. /\ L \in Nat /\ Parses(ss, g) /\ p \in Nat /\ q \in Nat
      /\ N \in Seq(Plain) /\ N # << >> /\ V \in Seq(Plain) /\ V # << >>
      /\ q = p + a + 1 /\ q + b <= L
      /\ Stands(ss, p, N) /\ ss[q] = ":" /\ Stands(ss, q, V)
      /\ g[p] = St(No, nm, << >>, M)
  BY DEF EntryHere
<1>2. a \in Nat \ {0} /\ b \in Nat \ {0}
  BY <1>1, EmptySeq, LenProperties
<1>3. First(N, a) = N /\ First(V, b) = V
  BY <1>1, FirstFacts
<1>4. \A m \in Nat : m <= a /\ p + m < L => g[p + m] = St(No, nm, First(N, m), M)
  <2>1. Starts(ss, g, p, N, St(No, nm, << >>, M))
    BY <1>1 DEF Starts
  <2>2. Gathered(ss, g, p, N, No, nm, M)
    BY <2>1, Gathers, Zenon
  <2>3. QED
    BY <2>2, Zenon DEF Gathered
<1>5. \A pos \in 1 .. L : g[pos] = Read(ss, g[pos - 1], pos)
  BY <1>1, Zenon DEF Parses
<1>6. L \in Nat /\ p \in Nat /\ q \in Nat /\ q = p + a + 1 /\ q + b <= L
  BY <1>1
<1>7. ASSUME g[q] = St(Yes, N, << >>, M)
      PROVE  \A m \in Nat : m <= b /\ q + m < L => g[q + m] = St(Yes, N, First(V, m), M)
  <2>1. Starts(ss, g, q, V, St(Yes, N, << >>, M))
    BY <1>1, <1>7 DEF Starts
  <2>2. Gathered(ss, g, q, V, Yes, N, M)
    BY <2>1, Gathers, Zenon
  <2>3. QED
    BY <2>2, Zenon DEF Gathered
<1>8. \A x \in 1 .. b : ss[q + x] = V[x] /\ V[x] \in Plain
  BY <1>1, StandsAt
<1>9. \A m \in Nat : m < b => Append(First(V, m), V[m + 1]) = First(V, m + 1)
  BY <1>1, FirstFacts
<1> HIDE DEF a, b, L, X
<1>10. a <= a /\ p + a < L
  BY <1>2, <1>6
<1>11. g[p + a] = St(No, nm, N, M)
  BY <1>2, <1>3, <1>4, <1>10
<1>12. q \in 1 .. L /\ q - 1 = p + a
  BY <1>2, <1>6
<1>13. g[q] = St(Yes, N, << >>, M)
  <2>1. g[q] = Read(ss, g[q - 1], q)
    BY <1>5, <1>12
  <2>2. g[q] = Read(ss, St(No, nm, N, M), q)
    BY <1>11, <1>12, <2>1
  <2>3. ss[q] = ":"
    BY <1>1
  <2>4. Read(ss, St(No, nm, N, M), q) = St(Yes, N, << >>, M)
    BY <2>3, ReadColon
  <2>5. QED
    BY <2>2, <2>4
<1>14. ASSUME q + b = L PROVE g[L].mm = X
  <2> DEFINE m == b - 1
  <2>1. m \in Nat /\ m <= b /\ m < b /\ m + 1 = b /\ q + m < L
    BY <1>2, <1>6, <1>14
  <2>2. L \in 1 .. L /\ L - 1 = q + m
    BY <1>2, <1>12, <1>14
  <2> HIDE DEF m
  <2>3. g[q + m] = St(Yes, N, First(V, m), M)
    BY <1>7, <1>13, <2>1
  <2>4. ss[L] = V[b] /\ V[b] \in Plain
    <3>1. b \in 1 .. b
      BY <1>2
    <3>2. ss[q + b] = V[b] /\ V[b] \in Plain
      BY <1>8, <3>1
    <3>3. QED
      BY <1>14, <3>2
  <2>5. Append(First(V, m), ss[L]) = V
    <3>1. Append(First(V, m), V[m + 1]) = First(V, m + 1)
      BY <1>9, <2>1
    <3>2. QED
      BY <1>3, <2>1, <2>4, <3>1
  <2>6. g[L] = Read(ss, g[L - 1], L)
    BY <1>5, <2>2
  <2>7. g[L] = Read(ss, St(Yes, N, First(V, m), M), L)
    BY <2>2, <2>3, <2>6
  <2>8. N # << >> /\ ss[L] \in Plain /\ L = Len(ss)
    BY <1>1, <2>4 DEF L
  <2>9. Read(ss, St(Yes, N, First(V, m), M), L) =
            St(No, N, << >>, Put(M, atoi(N), atoi(Append(First(V, m), ss[L]))))
    BY <2>8, ReadEnd
  <2>10. g[L] = St(No, N, << >>, X)
    BY <2>5, <2>7, <2>9 DEF X
  <2>11. QED
    BY <2>10 DEF St
<1>15. ASSUME q + b + 1 < L, ss[q + b + 1] = ","
       PROVE  g[q + b + 1] = St(No, N, << >>, X)
  <2> DEFINE r == q + b + 1
  <2>1. r < L
    BY <1>15
  <2>2. ss[r] = ","
    BY <1>15
  <2>3. b \in Nat /\ q \in Nat /\ L \in Nat /\ r = q + b + 1 /\ r \in Nat
    BY <1>2, <1>6
  <2> HIDE DEF r
  <2>4. b <= b /\ q + b < L /\ r \in 1 .. L /\ r - 1 = q + b /\ r # L
    BY <2>1, <2>3
  <2>5. g[q + b] = St(Yes, N, V, M)
    BY <1>2, <1>3, <1>7, <1>13, <2>4
  <2>6. g[r] = Read(ss, g[r - 1], r)
    BY <1>5, <2>4
  <2>7. g[r] = Read(ss, St(Yes, N, V, M), r)
    BY <2>4, <2>5, <2>6
  <2>8. N # << >> /\ CommaAt(ss, r)
    BY <1>1, <2>2, <2>4 DEF L, CommaAt
  <2>9. Reads(ss, r, St(Yes, N, V, M), St(No, N, << >>, X))
    BY <2>8, ReadComma, Zenon DEF X
  <2>10. QED
    BY <2>7, <2>9, Zenon DEF r, Reads
<1>16. QED
  BY <1>14, <1>15 DEF EntryDone, X, b, L
-----------------------------------------------------------------------------
(* The text of a map *)
Sep(i) == IF i = 1 THEN << >> ELSE << "," >>
NameOf(mm, i) == Decimal(Key(mm, i))
CountOf(mm, i) == Decimal(mm[Key(mm, i)])

(* The parts of an entry are not empty and are read as what they were. *)
LEMMA EntryFacts ==
  ASSUME NEW mm \in Maps, NEW i \in 1 .. Cardinality(DOMAIN mm)
  PROVE  /\ NameOf(mm, i) \in Seq(Plain) /\ NameOf(mm, i) # << >>
         /\ atoi(NameOf(mm, i)) = Key(mm, i)
         /\ CountOf(mm, i) \in Seq(Plain) /\ CountOf(mm, i) # << >>
         /\ atoi(CountOf(mm, i)) = mm[Key(mm, i)]
         /\ Entry(mm, i) = NameOf(mm, i) \o << ":" >> \o CountOf(mm, i)
<1>1. Key(mm, i) \in Int /\ mm[Key(mm, i)] \in Int
  BY KeysInOrder
<1>2. Entry(mm, i) = NameOf(mm, i) \o << ":" >> \o CountOf(mm, i)
  BY DEF Entry, NameOf, CountOf
<1> DEFINE k == Key(mm, i)
           c == mm[k]
<1> HIDE DEF k, c
<1>3. k \in Int /\ c \in Int
  BY <1>1 DEF k, c
<1>4. /\ Decimal(k) \in Seq(Plain) /\ Decimal(k) # << >> /\ atoi(Decimal(k)) = k
      /\ Decimal(c) \in Seq(Plain) /\ Decimal(c) # << >> /\ atoi(Decimal(c)) = c
  BY <1>3, DecimalRead
<1>5. QED
  BY <1>2, <1>4 DEF NameOf, CountOf, k, c

(* A sequence over a set is one over a larger set. *)
LEMMA SeqGrows ==
  ASSUME NEW S, NEW T, S \subseteq T, NEW a \in Seq(S)
  PROVE  a \in Seq(T)
OBVIOUS

(* Numbers are texts. *)
LEMMA PlainChars ==
  ASSUME NEW a \in Seq(Plain)
  PROVE  a \in Seq(Chars)
<1>1. Plain \subseteq Chars
  BY DEF Chars
<1>2. QED
  BY <1>1, SeqGrows, Zenon

(* A text of one character. *)
LEMMA OneChar ==
  ASSUME NEW c \in Chars
  PROVE  << c >> \in Seq(Chars) /\ Len(<< c >>) = 1 /\ << c >>[1] = c
OBVIOUS

(* What comes before an entry: nothing before the first, a comma before    *)
(* the others.                                                             *)
LEMMA SepFacts ==
  ASSUME NEW i
  PROVE  Sep(i) \in Seq(Chars) /\ (i # 1 => Len(Sep(i)) = 1 /\ Sep(i)[1] = ",")
                               /\ (i = 1 => Len(Sep(i)) = 0)
<1>1. "," \in Chars
  BY DEF Chars
<1>2. << "," >> \in Seq(Chars) /\ Len(<< "," >>) = 1 /\ << "," >>[1] = ","
  BY <1>1, OneChar
<1>3. << >> \in Seq(Chars) /\ Len(<< >>) = 0
  OBVIOUS
<1>4. CASE i = 1
  <2>1. Sep(i) = << >>
    BY <1>4 DEF Sep
  <2>2. QED
    BY <1>3, <1>4, <2>1
<1>5. CASE i # 1
  <2>1. Sep(i) = << "," >>
    BY <1>5 DEF Sep
  <2>2. QED
    BY <1>2, <1>5, <2>1
<1>6. QED
  BY <1>4, <1>5

Follows(u, a, b) ==
    /\ Len(u) = Len(a) + Len(b)
    /\ \A x \in 1 .. Len(a) : u[x] = a[x]
    /\ \A x \in 1 .. Len(b) : u[Len(a) + x] = b[x]

(* Where the elements of two sequences are when they are joined. *)
LEMMA ConcatPlaces ==
  ASSUME NEW S, NEW a \in Seq(S), NEW b \in Seq(S)
  PROVE  a \o b \in Seq(S) /\ Follows(a \o b, a, b)
BY DEF Follows

(* Where the parts of an entry stand once it is appended. *)
Appended(t, s, N, V) == t \o s \o (N \o << ":" >> \o V)

Placed(u, t, s, N, V) ==
    LET p == Len(t) + Len(s)
        q == p + Len(N) + 1
    IN  /\ Len(u) = q + Len(V)
        /\ Stands(u, 0, t) /\ Stands(u, Len(t), s) /\ Stands(u, p, N)
        /\ u[q] = ":" /\ Stands(u, q, V)

(* Where the parts of an entry stand once it is appended. *)
LEMMA EntryPlaces ==
  ASSUME NEW t \in Seq(Chars), NEW s \in Seq(Chars), NEW N \in Seq(Plain), NEW V \in Seq(Plain)
  PROVE  /\ Appended(t, s, N, V) \in Seq(Chars)
         /\ Placed(Appended(t, s, N, V), t, s, N, V)
<1> DEFINE c == << ":" >>
           h == t \o s
           e == N \o c
           w == e \o V
           u == h \o w
           p == Len(t) + Len(s)
           q == p + Len(N) + 1
<1>1. ":" \in Chars
  BY DEF Chars
<1>2. N \in Seq(Chars) /\ V \in Seq(Chars) /\ c \in Seq(Chars) /\ Len(c) = 1 /\ c[1] = ":"
  BY <1>1, PlainChars, OneChar
<1> HIDE DEF c
<1>3. h \in Seq(Chars) /\ Follows(h, t, s)
  BY ConcatPlaces, Zenon
<1>4. e \in Seq(Chars) /\ Follows(e, N, c)
  BY <1>2, ConcatPlaces, Zenon
<1> HIDE DEF h, e
<1>5. w \in Seq(Chars) /\ Follows(w, e, V)
  BY <1>2, <1>4, ConcatPlaces, Zenon
<1> HIDE DEF w
<1>6. u \in Seq(Chars) /\ Follows(u, h, w)
  BY <1>3, <1>5, ConcatPlaces, Zenon
<1>7. Appended(t, s, N, V) = u
  BY DEF Appended, h, w, e, c, u
<1> HIDE DEF u
<1>8. /\ Len(h) = p
      /\ \A x \in 1 .. Len(t) : h[x] = t[x]
      /\ \A x \in 1 .. Len(s) : h[Len(t) + x] = s[x]
  BY <1>3 DEF Follows
<1>9. /\ Len(e) = Len(N) + 1
      /\ \A x \in 1 .. Len(N) : e[x] = N[x]
      /\ e[Len(N) + 1] = ":"
  <2>1. /\ Len(e) = Len(N) + Len(c)
        /\ \A x \in 1 .. Len(N) : e[x] = N[x]
        /\ \A x \in 1 .. Len(c) : e[Len(N) + x] = c[x]
    BY <1>4 DEF Follows
  <2>2. 1 \in 1 .. Len(c)
    BY <1>2
  <2>3. e[Len(N) + 1] = ":"
    BY <1>2, <2>1, <2>2
  <2>4. QED
    BY <1>2, <2>1, <2>3
<1>10. /\ Len(w) = Len(e) + Len(V)
       /\ \A x \in 1 .. Len(e) : w[x] = e[x]
       /\ \A x \in 1 .. Len(V) : w[Len(e) + x] = V[x]
  BY <1>5 DEF Follows
<1>11. /\ Len(u) = Len(h) + Len(w)
       /\ \A x \in 1 .. Len(h) : u[x] = h[x]
       /\ \A x \in 1 .. Len(w) : u[Len(h) + x] = w[x]
  BY <1>6 DEF Follows
<1> DEFINE lt == Len(t)
           ls == Len(s)
           lN == Len(N)
           lV == Len(V)
<1>12. lt \in Nat /\ ls \in Nat /\ lN \in Nat /\ lV \in Nat /\ p = lt + ls /\ q = p + lN + 1
  OBVIOUS
<1>13. /\ Len(h) = p /\ Len(e) = lN + 1 /\ Len(w) = lN + 1 + lV /\ Len(u) = q + lV
  BY <1>8, <1>9, <1>10, <1>11, <1>12
<1> HIDE DEF lt, ls, lN, lV, p, q
<1>14. \A x \in 1 .. lt : u[x] = t[x]
  <2>1. \A x \in 1 .. lt : x \in 1 .. p
    BY <1>12
  <2>2. QED
    BY <1>8, <1>11, <1>13, <2>1 DEF lt
<1>15. \A x \in 1 .. ls : u[lt + x] = s[x]
  <2>1. \A x \in 1 .. ls : lt + x \in 1 .. p
    BY <1>12
  <2>2. QED
    BY <1>8, <1>11, <1>13, <2>1 DEF lt, ls
<1>16. \A x \in 1 .. lN : u[p + x] = N[x]
  <2>1. \A x \in 1 .. lN : x \in 1 .. lN + 1 /\ x \in 1 .. lN + 1 + lV
    BY <1>12
  <2>2. QED
    BY <1>9, <1>10, <1>11, <1>13, <2>1 DEF lN
<1>17. u[q] = ":"
  <2>1. lN + 1 \in 1 .. lN + 1 /\ lN + 1 \in 1 .. lN + 1 + lV /\ p + (lN + 1) = q
    BY <1>12
  <2>2. w[lN + 1] = ":"
    BY <1>9, <1>10, <1>13, <2>1 DEF lN
  <2>3. u[p + (lN + 1)] = w[lN + 1]
    BY <1>11, <1>13, <2>1
  <2>4. QED
    BY <2>1, <2>2, <2>3
<1>18. \A x \in 1 .. lV : u[q + x] = V[x]
  <2>1. SUFFICES ASSUME NEW x \in 1 .. lV PROVE u[q + x] = V[x]
    OBVIOUS
  <2> DEFINE y == lN + 1 + x
  <2>2. y \in 1 .. lN + 1 + lV /\ p + y = q + x
    BY <1>12
  <2>3. w[y] = V[x]
    BY <1>10, <1>13 DEF lV
  <2> HIDE DEF y
  <2>4. u[p + y] = w[y]
    BY <1>11, <1>13, <2>2
  <2>5. QED
    BY <2>2, <2>3, <2>4
<1>19. \A x \in 1 .. lt : 0 + x = x
  BY <1>12
<1>20. QED
  <2>1. Stands(u, 0, t)
    BY <1>14, <1>19 DEF Stands, lt
  <2>2. Stands(u, Len(t), s)
    BY <1>15 DEF Stands, lt, ls
  <2>3. Stands(u, p, N) /\ Stands(u, q, V)
    BY <1>16, <1>18 DEF Stands, lN, lV
  <2>4. Placed(u, t, s, N, V)
    BY <1>13, <1>17, <2>1, <2>2, <2>3 DEF Placed, p, q, lV
  <2>5. QED
    BY <1>7, <1>6, <2>4

(* map2str goes through a text after each entry. *)
LEMMA TextRuns ==
  ASSUME NEW mm \in Maps, NEW n \in Nat, n = Cardinality(DOMAIN mm)
  PROVE  \E T : /\ map2str(mm) = T[n] /\ T[0] = << >>
                /\ \A i \in 0 .. n : T[i] \in Seq(Chars)
                /\ \A i \in 1 .. n : T[i] = T[i - 1] \o Sep(i) \o Entry(mm, i)
<1> DEFINE S == Seq(Chars)
           Step_(text, i) == text \o Sep(i) \o Entry(mm, i)
           g == [i \in 1 .. n |-> [s \in S |-> Step_(s, i)]]
           Chain(h) == h = [i \in 0 .. n |-> IF i = 0 THEN << >> ELSE Step_(h[i - 1], i)]
           f == CHOOSE h : Chain(h)
           base == << >>
<1>1. base \in S
  OBVIOUS
<1>2. \A i \in 1 .. n : \A s \in S : Step_(s, i) \in S
  <2>1. SUFFICES ASSUME NEW i \in 1 .. n, NEW s \in S PROVE Step_(s, i) \in S
    OBVIOUS
  <2>2. /\ NameOf(mm, i) \in Seq(Plain) /\ CountOf(mm, i) \in Seq(Plain)
        /\ Entry(mm, i) = NameOf(mm, i) \o << ":" >> \o CountOf(mm, i)
    BY EntryFacts
  <2>3. Sep(i) \in Seq(Chars) /\ s \in Seq(Chars)
    BY SepFacts
  <2>4. Step_(s, i) = Appended(s, Sep(i), NameOf(mm, i), CountOf(mm, i))
    BY <2>2 DEF Appended
  <2> HIDE DEF Step_
  <2>5. QED
    BY <2>2, <2>3, <2>4, EntryPlaces
<1>3. map2str(mm) = f[n]
  BY DEF map2str, Folded, Sep
<1>4. /\ 0 \in 0 .. n /\ \A i \in 1 .. n : i # 0 /\ i \in 0 .. n
      /\ \A i \in 0 .. n : i # 0 => i \in 1 .. n /\ i - 1 \in 0 .. n
  OBVIOUS
<1> HIDE DEF Step_, S
<1>5. /\ g \in [1 .. n -> [S -> S]]
      /\ \A i \in 1 .. n : \A s \in S : g[i][s] = Step_(s, i)
  BY <1>2
<1> HIDE DEF g
<1>6. PICK h \in [0 .. n -> S] : Runs(base, n, g, h)
  <2> HIDE DEF base
  <2>1. QED
    BY <1>1, <1>5, LoopRuns
<1>7. \A i \in 0 .. n : h[i] = IF i = 0 THEN << >> ELSE Step_(h[i - 1], i)
  BY <1>4, <1>5, <1>6, Zenon DEF Runs
<1>8. Chain(h)
  BY <1>6, <1>7, Zenon
<1>9. Chain(f)
  BY <1>8, Zenon
<1> HIDE DEF f
<1>10. f[0] = << >> /\ \A i \in 1 .. n : f[i] = Step_(f[i - 1], i)
  BY <1>4, <1>9, Zenon
<1> DEFINE Has == {i \in Nat : i <= n => f[i] \in S}
<1>11. 0 \in Has
  BY <1>1, <1>10
<1>12. ASSUME NEW i \in Nat, i \in Has PROVE i + 1 \in Has
  <2>1. SUFFICES ASSUME i + 1 <= n PROVE f[i + 1] \in S
    OBVIOUS
  <2>2. i + 1 \in 1 .. n /\ (i + 1) - 1 = i /\ f[i] \in S
    BY <1>12, <2>1
  <2>3. QED
    BY <1>2, <1>10, <2>2
<1> HIDE DEF Has
<1>13. Nat \subseteq Has
  BY <1>11, <1>12, SetInduction
<1>14. \A i \in 0 .. n : f[i] \in S
  BY <1>13 DEF Has
<1>15. QED
  BY <1>3, <1>10, <1>14, Zenon DEF Step_, S
-----------------------------------------------------------------------------
(* What has been written stays where it is. *)
Keeps(u, v) == Len(u) <= Len(v) /\ \A x \in 1 .. Len(u) : v[x] = u[x]

(* What stays, and stays again, stays. *)
LEMMA KeepsOn ==
  ASSUME NEW u, NEW v, NEW w, Len(u) \in Nat, Len(v) \in Nat, Len(w) \in Nat,
         Keeps(u, v), Keeps(v, w)
  PROVE  Keeps(u, w)
<1> DEFINE a == Len(u)
           b == Len(v)
           c == Len(w)
<1>1. a \in Nat /\ b \in Nat /\ c \in Nat
  OBVIOUS
<1>2. a <= b /\ b <= c /\ (\A x \in 1 .. a : v[x] = u[x]) /\ (\A x \in 1 .. b : w[x] = v[x])
  BY DEF Keeps
<1> HIDE DEF a, b, c
<1>3. a <= c /\ \A x \in 1 .. a : x \in 1 .. b
  BY <1>1, <1>2
<1>4. \A x \in 1 .. a : w[x] = u[x]
  BY <1>2, <1>3
<1>5. QED
  BY <1>3, <1>4 DEF Keeps, a, c

(* A word within a text stands in every text that keeps it. *)
LEMMA StandsStill ==
  ASSUME NEW u, NEW v, NEW w, NEW p \in Nat, Len(u) \in Nat, Len(w) \in Nat,
         Keeps(u, v), Stands(u, p, w), p + Len(w) <= Len(u)
  PROVE  Stands(v, p, w)
<1> DEFINE a == Len(u)
           c == Len(w)
<1>1. a \in Nat /\ c \in Nat /\ p + c <= a
  OBVIOUS
<1>2. (\A x \in 1 .. a : v[x] = u[x]) /\ (\A x \in 1 .. c : u[p + x] = w[x])
  BY DEF Keeps, Stands
<1> HIDE DEF a, c
<1>3. \A x \in 1 .. c : p + x \in 1 .. a
  BY <1>1
<1>4. \A x \in 1 .. c : v[p + x] = w[x]
  BY <1>2, <1>3
<1>5. QED
  BY <1>4 DEF Stands, c

(* The text of the first entries, one more at a time. *)
Grows(T, mm, n) ==
    /\ T[0] = << >>
    /\ \A i \in 0 .. n : T[i] \in Seq(Chars)
    /\ \A i \in 1 .. n : Placed(T[i], T[i - 1], Sep(i), NameOf(mm, i), CountOf(mm, i))

(* The texts map2str goes through have the parts of the next entry in      *)
(* their places.                                                           *)
LEMMA TextGrows ==
  ASSUME NEW mm \in Maps, NEW n \in Nat, n = Cardinality(DOMAIN mm)
  PROVE  \E T : map2str(mm) = T[n] /\ Grows(T, mm, n)
<1>1. PICK T : /\ map2str(mm) = T[n] /\ T[0] = << >>
               /\ \A i \in 0 .. n : T[i] \in Seq(Chars)
               /\ \A i \in 1 .. n : T[i] = T[i - 1] \o Sep(i) \o Entry(mm, i)
  BY TextRuns
<1>2. ASSUME NEW i \in 1 .. n
      PROVE  Placed(T[i], T[i - 1], Sep(i), NameOf(mm, i), CountOf(mm, i))
  <2> DEFINE t == T[i - 1]
             N == NameOf(mm, i)
             V == CountOf(mm, i)
  <2>1. i - 1 \in 0 .. n
    OBVIOUS
  <2>2. t \in Seq(Chars)
    BY <1>1, <2>1
  <2>3. N \in Seq(Plain) /\ V \in Seq(Plain) /\ Entry(mm, i) = N \o << ":" >> \o V
    BY EntryFacts
  <2>4. Sep(i) \in Seq(Chars)
    BY SepFacts
  <2>5. T[i] = t \o Sep(i) \o Entry(mm, i)
    BY <1>1
  <2> HIDE DEF t, N, V
  <2>6. T[i] = Appended(t, Sep(i), N, V)
    BY <2>3, <2>5 DEF Appended
  <2>7. Placed(T[i], t, Sep(i), N, V)
    BY <2>2, <2>3, <2>4, <2>6, EntryPlaces
  <2>8. QED
    BY <2>7 DEF t, N, V
<1>3. QED
  BY <1>1, <1>2, Zenon DEF Grows

(* Each of those texts is at the beginning of the last one. *)
LEMMA TextKeeps ==
  ASSUME NEW mm \in Maps, NEW n \in Nat, n = Cardinality(DOMAIN mm), NEW T, Grows(T, mm, n)
  PROVE  \A i \in 0 .. n : Len(T[i]) \in Nat /\ Keeps(T[i], T[n])
<1>1. \A i \in 0 .. n : T[i] \in Seq(Chars)
  BY DEF Grows
<1>2. \A i \in 0 .. n : Len(T[i]) \in Nat
  BY <1>1, LenProperties
<1>3. ASSUME NEW k \in 1 .. n PROVE Keeps(T[k - 1], T[k])
  <2> DEFINE t == T[k - 1]
             u == T[k]
             s == Sep(k)
             N == NameOf(mm, k)
             V == CountOf(mm, k)
  <2>1. Placed(u, t, s, N, V)
    BY DEF Grows
  <2>2. Len(t) \in Nat /\ Len(u) \in Nat
    <3>1. k - 1 \in 0 .. n /\ k \in 0 .. n
      OBVIOUS
    <3>2. QED
      BY <1>2, <3>1
  <2>3. s \in Seq(Chars) /\ N \in Seq(Plain) /\ V \in Seq(Plain)
    BY EntryFacts, SepFacts
  <2> HIDE DEF t, u, s, N, V
  <2> DEFINE a == Len(t)
             b == Len(s)
             c == Len(N)
             d == Len(V)
  <2>4. a \in Nat /\ b \in Nat /\ c \in Nat /\ d \in Nat
    BY <2>2, <2>3, LenProperties
  <2>5. Len(u) = a + b + c + 1 + d /\ Stands(u, 0, t)
    BY <2>1 DEF Placed
  <2>6. \A x \in 1 .. a : u[0 + x] = t[x]
    BY <2>5 DEF Stands
  <2> HIDE DEF a, b, c, d
  <2>7. a <= Len(u) /\ \A x \in 1 .. a : 0 + x = x
    BY <2>4, <2>5
  <2>8. QED
    BY <2>6, <2>7 DEF Keeps, a, t, u
<1> DEFINE Has == {j \in Nat : \A i \in 0 .. n : i + j <= n => Keeps(T[i], T[i + j])}
<1>4. 0 \in Has
  <2>1. \A i \in 0 .. n : i + 0 = i
    OBVIOUS
  <2>2. \A i \in 0 .. n : Len(T[i]) <= Len(T[i])
    BY <1>2
  <2>3. \A i \in 0 .. n : Keeps(T[i], T[i])
    BY <2>2 DEF Keeps
  <2>4. QED
    BY <2>1, <2>3
<1>5. ASSUME NEW j \in Nat, j \in Has PROVE j + 1 \in Has
  <2>1. SUFFICES ASSUME NEW i \in 0 .. n, i + (j + 1) <= n
                 PROVE  Keeps(T[i], T[i + (j + 1)])
    BY DEF Has
  <2> DEFINE k == i + (j + 1)
  <2>2. k \in 1 .. n /\ k \in 0 .. n /\ k - 1 = i + j /\ i + j <= n /\ k - 1 \in 0 .. n
    BY <2>1
  <2>3. Keeps(T[i], T[i + j])
    BY <1>5, <2>2
  <2> HIDE DEF Has
  <2> HIDE DEF k
  <2>4. Keeps(T[i], T[k - 1]) /\ Keeps(T[k - 1], T[k])
    BY <1>3, <2>2, <2>3
  <2>5. Len(T[i]) \in Nat /\ Len(T[k - 1]) \in Nat /\ Len(T[k]) \in Nat
    BY <1>2, <2>2
  <2>6. Keeps(T[i], T[k])
    BY <2>4, <2>5, KeepsOn, Zenon
  <2>7. QED
    BY <2>6 DEF k
<1> HIDE DEF Has
<1>6. Nat \subseteq Has
  BY <1>4, <1>5, SetInduction
<1>7. ASSUME NEW i \in 0 .. n PROVE Keeps(T[i], T[n])
  <2> DEFINE j == n - i
  <2>1. j \in Nat /\ i + j = n /\ i + j <= n
    OBVIOUS
  <2>2. j \in Has
    BY <1>6, <2>1
  <2> HIDE DEF j
  <2>3. Keeps(T[i], T[i + j])
    BY <2>1, <2>2 DEF Has
  <2>4. QED
    BY <2>1, <2>3
<1>8. QED
  BY <1>2, <1>7

(* Where an entry stands in the whole text, and what comes after it. *)
ColonOf(mm, B, i) == B[i] + Len(NameOf(mm, i)) + 1
EndOf(mm, B, i) == ColonOf(mm, B, i) + Len(CountOf(mm, i))

EntryAt(ss, mm, B, i) ==
    /\ B[i] \in Nat /\ ColonOf(mm, B, i) \in Nat /\ EndOf(mm, B, i) \in Nat
    /\ EndOf(mm, B, i) <= Len(ss)
    /\ Stands(ss, B[i], NameOf(mm, i))
    /\ ss[ColonOf(mm, B, i)] = ":"
    /\ Stands(ss, ColonOf(mm, B, i), CountOf(mm, i))

CommaAfter(ss, mm, B, i) ==
    /\ EndOf(mm, B, i) + 1 < Len(ss)
    /\ ss[EndOf(mm, B, i) + 1] = ","
    /\ B[i + 1] = EndOf(mm, B, i) + 1

Laid(ss, mm, n, B) ==
    /\ Len(ss) \in Nat /\ B[1] = 0
    /\ \A i \in 1 .. n : EntryAt(ss, mm, B, i)
    /\ \A i \in 1 .. n : i < n => CommaAfter(ss, mm, B, i)
    /\ n \in 1 .. n => EndOf(mm, B, n) = Len(ss)
    /\ n = 0 => ss = << >>

(* The text of a map is laid out entry by entry, with commas between them  *)
(* and nothing after the last.                                             *)
LEMMA TextLaid ==
  ASSUME NEW mm \in Maps, NEW n \in Nat, n = Cardinality(DOMAIN mm)
  PROVE  \E B : Laid(map2str(mm), mm, n, B)
<1>1. PICK T : map2str(mm) = T[n] /\ Grows(T, mm, n)
  BY TextGrows
<1> DEFINE ss == T[n]
           B == [i \in 1 .. n + 1 |-> IF i = 1 THEN 0 ELSE Len(T[i - 1]) + 1]
<1>2. \A i \in 0 .. n : Len(T[i]) \in Nat /\ Keeps(T[i], ss)
  BY <1>1, TextKeeps
<1>3. n \in 0 .. n /\ Len(ss) \in Nat
  BY <1>2
<1>4. T[0] = << >> /\ Len(T[0]) = 0
  BY <1>1 DEF Grows
<1>5. B[1] = 0 /\ \A i \in 1 .. n : B[i + 1] = Len(T[i]) + 1
  OBVIOUS
<1> HIDE DEF B
<1>6. ASSUME NEW i \in 1 .. n
      PROVE  /\ B[i] = Len(T[i - 1]) + Len(Sep(i)) /\ B[i] \in Nat
             /\ Len(T[i]) = EndOf(mm, B, i)
             /\ Stands(T[i], B[i], NameOf(mm, i)) /\ T[i][ColonOf(mm, B, i)] = ":"
             /\ Stands(T[i], ColonOf(mm, B, i), CountOf(mm, i))
             /\ Stands(T[i], Len(T[i - 1]), Sep(i))
  <2>1. B[i] = Len(T[i - 1]) + Len(Sep(i)) /\ B[i] \in Nat
    <3>1. CASE i = 1
      <4>1. Len(Sep(i)) = 0
        BY <3>1, SepFacts, Zenon
      <4>2. Len(Sep(i)) = 0 /\ i - 1 = 0
        BY <3>1, <4>1
      <4>3. B[i] = 0
        BY <1>5, <3>1
      <4>4. QED
        BY <1>4, <4>2, <4>3
    <3>2. CASE i # 1
      <4> DEFINE k == i - 1
      <4>1. k \in 1 .. n /\ k \in 0 .. n /\ k + 1 = i
        BY <3>2
      <4> HIDE DEF k
      <4>2. B[i] = Len(T[k]) + 1 /\ Len(T[k]) \in Nat
        BY <1>2, <1>5, <4>1
      <4>3. Len(Sep(i)) = 1
        BY <3>2, SepFacts
      <4>4. QED
        BY <4>2, <4>3 DEF k
    <3>3. QED
      BY <3>1, <3>2
  <2>2. Placed(T[i], T[i - 1], Sep(i), NameOf(mm, i), CountOf(mm, i))
    BY <1>1 DEF Grows
  <2>3. QED
    BY <2>1, <2>2, Zenon DEF Placed, ColonOf, EndOf
<1>7. ASSUME NEW i \in 1 .. n PROVE EntryAt(ss, mm, B, i)
  <2> DEFINE u == T[i]
             N == NameOf(mm, i)
             V == CountOf(mm, i)
             p == B[i]
             q == ColonOf(mm, B, i)
             e == EndOf(mm, B, i)
  <2>1. /\ p \in Nat /\ Len(u) = e /\ Stands(u, p, N) /\ u[q] = ":" /\ Stands(u, q, V)
    BY <1>6
  <2>2. Len(u) \in Nat /\ Keeps(u, ss)
    <3>1. i \in 0 .. n
      OBVIOUS
    <3>2. QED
      BY <1>2, <3>1
  <2>3. N \in Seq(Plain) /\ V \in Seq(Plain)
    BY EntryFacts
  <2>4. Len(N) \in Nat /\ Len(V) \in Nat
    BY <2>3, LenProperties
  <2>5. q = p + Len(N) + 1 /\ e = q + Len(V)
    BY DEF ColonOf, EndOf
  <2> HIDE DEF u, N, V, p, q, e
  <2>6. q \in Nat /\ e \in Nat /\ p + Len(N) <= e /\ q + Len(V) <= e /\ q \in 1 .. e
    BY <2>1, <2>4, <2>5
  <2>7. Stands(ss, p, N)
    BY <2>1, <2>2, <2>4, <2>6, StandsStill
  <2>8. Stands(ss, q, V)
    BY <2>1, <2>2, <2>4, <2>6, StandsStill
  <2>9. e <= Len(ss) /\ ss[q] = ":"
    BY <2>1, <2>2, <2>6 DEF Keeps
  <2>10. QED
    BY <2>1, <2>6, <2>7, <2>8, <2>9, Zenon DEF EntryAt, u, N, V, p, q, e
<1>8. ASSUME NEW i \in 1 .. n, i < n PROVE CommaAfter(ss, mm, B, i)
  <2> DEFINE j == i + 1
             e == EndOf(mm, B, i)
             u == T[j]
             s == Sep(j)
             f == EndOf(mm, B, j)
  <2>1. j \in 1 .. n /\ j \in 0 .. n /\ j # 1 /\ j - 1 = i /\ i \in 0 .. n
    BY <1>8
  <2>2. Len(T[i]) = e /\ e \in Nat
    BY <1>2, <1>6, <2>1
  <2>3. B[j] = e + 1
    BY <1>5, <2>2
  <2> HIDE DEF j
  <2>4. Stands(u, e, s) /\ Len(u) = f
    BY <1>6, <2>1, <2>2
  <2>5. Len(s) = 1 /\ s[1] = ","
    BY <2>1, SepFacts
  <2>6. u[e + 1] = ","
    <3>1. 1 \in 1 .. 1
      OBVIOUS
    <3>2. QED
      BY <2>4, <2>5, <3>1 DEF Stands
  <2>7. Len(u) \in Nat /\ Keeps(u, ss)
    BY <1>2, <2>1
  <2>8. e + 1 < f
    <3> DEFINE a == Len(NameOf(mm, j))
               b == Len(CountOf(mm, j))
    <3>1. NameOf(mm, j) \in Seq(Plain) /\ CountOf(mm, j) \in Seq(Plain)
      BY <2>1, EntryFacts
    <3>2. a \in Nat /\ b \in Nat
      BY <3>1, LenProperties
    <3>3. f = e + 1 + a + 1 + b
      BY <2>3 DEF EndOf, ColonOf
    <3> HIDE DEF a, b
    <3>4. QED
      BY <2>2, <3>2, <3>3
  <2> HIDE DEF e, f, u, s
  <2> DEFINE r == e + 1
             L == Len(ss)
  <2>9. r \in 1 .. f /\ r < f /\ f \in Nat
    BY <2>2, <2>4, <2>7, <2>8
  <2>10. f <= L /\ ss[r] = u[r]
    BY <2>4, <2>7, <2>9 DEF Keeps
  <2>11. L \in Nat /\ r \in Nat
    BY <1>3, <2>2
  <2> HIDE DEF L, r
  <2>12. r < L
    BY <2>9, <2>10, <2>11
  <2>13. QED
    BY <2>3, <2>6, <2>10, <2>12 DEF CommaAfter, L, r, e, j
<1>9. n \in 1 .. n => EndOf(mm, B, n) = Len(ss)
  BY <1>6
<1>10. n = 0 => ss = << >>
  BY <1>4
<1>11. Laid(ss, mm, n, B)
  <2> HIDE DEF ss
  <2>1. QED
    BY <1>3, <1>5, <1>7, <1>8, <1>9, <1>10 DEF Laid
<1>12. QED
  BY <1>1, <1>11
-----------------------------------------------------------------------------
(* str2map goes through a state after each character. *)
LEMMA ParseRuns ==
  ASSUME NEW ss, Len(ss) \in Nat
  PROVE  \E g : /\ g[0] = St(No, << >>, << >>, NoCodes) /\ Parses(ss, g)
                /\ str2map(ss) = g[Len(ss)].mm
<1> DEFINE n == Len(ss)
           base == St(No, << >>, << >>, NoCodes)
           Chain(m, h) == h = [pos \in 0 .. m |-> IF pos = 0 THEN base
                                                  ELSE Read(ss, h[pos - 1], pos)]
           f == CHOOSE h : Chain(n, h)
           Has == {m \in Nat : \E h : Chain(m, h)}
<1>1. n \in Nat
  OBVIOUS
<1>2. str2map(ss) = f[n].mm
  BY DEF str2map, Folded, St, No
<1> HIDE DEF n, base
<1>3. 0 \in Has
  <2> DEFINE h == [pos \in 0 .. 0 |-> base]
  <2>1. Chain(0, h)
    OBVIOUS
  <2>2. QED
    BY <2>1
<1>4. ASSUME NEW m \in Nat, m \in Has PROVE m + 1 \in Has
  <2>1. PICK e : Chain(m, e)
    BY <1>4
  <2> DEFINE h == [pos \in 0 .. m + 1 |-> IF pos = 0 THEN base ELSE Read(ss, e[pos - 1], pos)]
  <2>2. \A pos \in 0 .. m : e[pos] = IF pos = 0 THEN base ELSE Read(ss, e[pos - 1], pos)
    BY <2>1, Zenon
  <2>3. \A pos \in 0 .. m : pos \in 0 .. m + 1
    OBVIOUS
  <2>4. \A pos \in 0 .. m : h[pos] = e[pos]
    BY <2>2, <2>3, Zenon
  <2>5. \A pos \in 0 .. m + 1 : pos # 0 => pos - 1 \in 0 .. m
    OBVIOUS
  <2>6. \A pos \in 0 .. m + 1 :
            (IF pos = 0 THEN base ELSE Read(ss, e[pos - 1], pos)) =
                IF pos = 0 THEN base ELSE Read(ss, h[pos - 1], pos)
    <3> HIDE DEF h
    <3>1. QED
      BY <2>4, <2>5
  <2>7. Chain(m + 1, h)
    BY <2>6
  <2> HIDE DEF h, Chain
  <2>8. QED
    BY <2>7
<1> HIDE DEF Has
<1>5. n \in Has
  BY <1>1, <1>3, <1>4, SetInduction
<1>6. \E h : Chain(n, h)
  BY <1>5 DEF Has
<1>7. Chain(n, f)
  BY <1>6, Zenon
<1> HIDE DEF f
<1>8. /\ 0 \in 0 .. n
      /\ \A pos \in 1 .. n : pos # 0 /\ pos \in 0 .. n
  BY <1>1
<1>9. f[0] = base /\ \A pos \in 1 .. n : f[pos] = Read(ss, f[pos - 1], pos)
  BY <1>7, <1>8, Zenon
<1>10. QED
  BY <1>2, <1>9, Zenon DEF Parses, base, n

(* What has been read of a map after its first entries. *)
Upto(mm, i) == [x \in {Key(mm, j) : j \in 1 .. i} |-> mm[x]]

(* Before the first entry nothing has been read. *)
LEMMA UptoNone ==
  ASSUME NEW mm
  PROVE  Upto(mm, 0) = NoCodes
<1>1. {Key(mm, j) : j \in 1 .. 0} = {}
  OBVIOUS
<1>2. QED
  BY <1>1 DEF Upto, NoCodes

(* Another entry put into the map is one entry more that has been read. *)
LEMMA UptoMore ==
  ASSUME NEW mm, NEW i \in Nat
  PROVE  Put(Upto(mm, i), Key(mm, i + 1), mm[Key(mm, i + 1)]) = Upto(mm, i + 1)
<1> DEFINE K(m) == {Key(mm, j) : j \in 1 .. m}
           k == Key(mm, i + 1)
<1>1. K(i + 1) = K(i) \cup {k}
  <2>1. \A j \in 1 .. i + 1 : j \in 1 .. i \/ j = i + 1
    OBVIOUS
  <2>2. i + 1 \in 1 .. i + 1 /\ \A j \in 1 .. i : j \in 1 .. i + 1
    OBVIOUS
  <2>3. K(i + 1) \subseteq K(i) \cup {k}
    BY <2>1
  <2>4. K(i) \subseteq K(i + 1) /\ k \in K(i + 1)
    BY <2>2
  <2>5. QED
    BY <2>3, <2>4
<1>2. Upto(mm, i) = [x \in K(i) |-> mm[x]] /\ Upto(mm, i + 1) = [x \in K(i + 1) |-> mm[x]]
  BY DEF Upto
<1> HIDE DEF K, k
<1> DEFINE u == Upto(mm, i)
<1>3. DOMAIN u = K(i) /\ \A x \in K(i) : u[x] = mm[x]
  BY <1>2
<1> HIDE DEF u
<1>4. Put(u, k, mm[k]) = [x \in K(i) \cup {k} |-> IF x = k THEN mm[k] ELSE u[x]]
  BY <1>3 DEF Put
<1>5. \A x \in K(i) \cup {k} : (IF x = k THEN mm[k] ELSE u[x]) = mm[x]
  BY <1>3
<1>6. Put(u, k, mm[k]) = [x \in K(i + 1) |-> mm[x]]
  BY <1>1, <1>4, <1>5
<1>7. QED
  BY <1>2, <1>6 DEF u, k

(* All the entries are the map. *)
LEMMA UptoAll ==
  ASSUME NEW mm \in Maps
  PROVE  Upto(mm, Cardinality(DOMAIN mm)) = mm
<1> DEFINE n == Cardinality(DOMAIN mm)
           K == {Key(mm, j) : j \in 1 .. n}
<1>1. K = DOMAIN mm
  BY KeysInOrder
<1>2. mm = [x \in DOMAIN mm |-> mm[x]]
  BY MapFacts
<1>3. Upto(mm, n) = [x \in K |-> mm[x]]
  BY DEF Upto
<1>4. QED
  BY <1>1, <1>2, <1>3, Zenon

(* One entry more has been read. *)
Between(g, mm, B, i) == \E nm : g[B[i]] = St(No, nm, << >>, Upto(mm, i - 1))

(* From the beginning of an entry the parser comes to that of the next,    *)
(* or to the end with the whole map.                                       *)
LEMMA NextEntry ==
  ASSUME NEW mm \in Maps, NEW n \in Nat, n = Cardinality(DOMAIN mm),
         NEW ss, NEW B, Laid(ss, mm, n, B), NEW g, Parses(ss, g),
         NEW i \in 1 .. n, Between(g, mm, B, i)
  PROVE  /\ i < n => Between(g, mm, B, i + 1)
         /\ i = n => g[Len(ss)].mm = Upto(mm, n)
<1> DEFINE N == NameOf(mm, i)
           V == CountOf(mm, i)
           p == B[i]
           q == ColonOf(mm, B, i)
           M == Upto(mm, i - 1)
           X == Put(M, atoi(N), atoi(V))
<1>1. PICK nm : g[p] = St(No, nm, << >>, M)
  BY Zenon DEF Between
<1>2. /\ Len(ss) \in Nat /\ EntryAt(ss, mm, B, i)
      /\ i < n => CommaAfter(ss, mm, B, i)
      /\ n \in 1 .. n => EndOf(mm, B, n) = Len(ss)
  BY DEF Laid
<1>3. N \in Seq(Plain) /\ N # << >> /\ V \in Seq(Plain) /\ V # << >>
  BY EntryFacts
<1>4. X = Upto(mm, i)
  <2> DEFINE j == i - 1
  <2>1. j \in Nat /\ j + 1 = i
    OBVIOUS
  <2>2. atoi(N) = Key(mm, i) /\ atoi(V) = mm[Key(mm, i)]
    BY EntryFacts
  <2> HIDE DEF j
  <2>3. Put(Upto(mm, j), Key(mm, j + 1), mm[Key(mm, j + 1)]) = Upto(mm, j + 1)
    BY <2>1, UptoMore
  <2>4. QED
    BY <2>1, <2>2, <2>3 DEF j
<1>5. /\ p \in Nat /\ q \in Nat /\ q = p + Len(N) + 1 /\ q + Len(V) <= Len(ss)
      /\ Stands(ss, p, N) /\ ss[q] = ":" /\ Stands(ss, q, V)
      /\ EndOf(mm, B, i) = q + Len(V)
  BY <1>2, Zenon DEF EntryAt, EndOf, ColonOf
<1> HIDE DEF N, V, p, q, M
<1>6. EntryHere(ss, g, p, q, N, V, nm, M)
  BY <1>1, <1>2, <1>3, <1>5, Zenon DEF EntryHere
<1>7. EntryDone(ss, g, q, N, V, M)
  BY <1>6, EntryRead, Zenon
<1>8. /\ q + Len(V) = Len(ss) => g[Len(ss)].mm = X
      /\ (q + Len(V) + 1 < Len(ss) /\ ss[q + Len(V) + 1] = ",") =>
             g[q + Len(V) + 1] = St(No, N, << >>, X)
  BY <1>7, Zenon DEF EntryDone
<1> HIDE DEF X
<1>9. ASSUME i < n PROVE Between(g, mm, B, i + 1)
  <2>1. /\ q + Len(V) + 1 < Len(ss) /\ ss[q + Len(V) + 1] = ","
        /\ B[i + 1] = q + Len(V) + 1
    BY <1>2, <1>5, <1>9 DEF CommaAfter
  <2>2. g[B[i + 1]] = St(No, N, << >>, Upto(mm, i))
    BY <1>4, <1>8, <2>1
  <2>3. (i + 1) - 1 = i
    OBVIOUS
  <2>4. QED
    BY <2>2, <2>3 DEF Between
<1>10. ASSUME i = n PROVE g[Len(ss)].mm = Upto(mm, n)
  <2>1. q + Len(V) = Len(ss)
    BY <1>2, <1>5, <1>10
  <2>2. QED
    BY <1>4, <1>8, <1>10, <2>1
<1>11. QED
  BY <1>9, <1>10

(* The codes that map2str writes are the codes that str2map reads, for     *)
(* every map of codes to counts (commdefs.h).                              *)
THEOREM MapsReturn ==
  ASSUME NEW mm \in Maps
  PROVE  str2map(map2str(mm)) = mm
<1> DEFINE n == Cardinality(DOMAIN mm)
           ss == map2str(mm)
<1>1. n \in Nat
  BY KeysInOrder
<1>2. PICK B : Laid(ss, mm, n, B)
  BY <1>1, TextLaid
<1>3. Upto(mm, n) = mm
  BY UptoAll
<1> HIDE DEF ss
<1>4. Len(ss) \in Nat /\ B[1] = 0 /\ (n = 0 => ss = << >>)
  BY <1>2 DEF Laid
<1>5. PICK g : /\ g[0] = St(No, << >>, << >>, NoCodes) /\ Parses(ss, g)
               /\ str2map(ss) = g[Len(ss)].mm
  BY <1>4, ParseRuns
<1>6. CASE n = 0
  <2>1. Len(ss) = 0
    BY <1>4, <1>6
  <2>2. str2map(ss) = NoCodes
    BY <1>5, <2>1 DEF St
  <2>3. mm = NoCodes
    BY <1>3, <1>6, UptoNone
  <2>4. QED
    BY <2>2, <2>3 DEF ss
<1>7. CASE n # 0
  <2> DEFINE m == n - 1
             Has == {i \in Nat : i <= m => Between(g, mm, B, i + 1)}
  <2>1. m \in Nat /\ m + 1 = n
    BY <1>1, <1>7
  <2> HIDE DEF m
  <2>2. 0 \in Has
    <3>1. Upto(mm, 0) = NoCodes /\ 0 + 1 = 1 /\ 1 - 1 = 0
      BY UptoNone
    <3>2. g[B[1]] = St(No, << >>, << >>, Upto(mm, 1 - 1))
      BY <1>4, <1>5, <3>1
    <3>3. Between(g, mm, B, 1)
      BY <3>2, Zenon DEF Between
    <3>4. QED
      BY <3>1, <3>3
  <2>3. ASSUME NEW i \in Nat, i \in Has PROVE i + 1 \in Has
    <3>1. SUFFICES ASSUME i + 1 <= m PROVE Between(g, mm, B, (i + 1) + 1)
      OBVIOUS
    <3> DEFINE k == i + 1
    <3>2. k \in 1 .. n /\ k < n /\ i <= m
      BY <2>1, <3>1
    <3>3. Between(g, mm, B, k)
      BY <2>3, <3>2
    <3> HIDE DEF k, n
    <3>4. Between(g, mm, B, k + 1)
      BY <1>1, <1>2, <1>5, <3>2, <3>3, NextEntry DEF n
    <3>5. QED
      BY <3>4 DEF k
  <2> HIDE DEF Has
  <2>4. m \in Has
    BY <2>1, <2>2, <2>3, SetInduction
  <2>5. Between(g, mm, B, n)
    BY <2>1, <2>4 DEF Has
  <2>6. n \in 1 .. n
    BY <1>1, <1>7
  <2>7. g[Len(ss)].mm = Upto(mm, n)
    <3> HIDE DEF n
    <3>1. n = Cardinality(DOMAIN mm)
      BY DEF n
    <3>2. QED
      BY <1>1, <1>2, <1>5, <2>5, <2>6, <3>1, NextEntry
  <2>8. QED
    BY <1>3, <1>5, <2>7 DEF ss
<1>8. QED
  BY <1>6, <1>7
-----------------------------------------------------------------------------
(* A batch has the number of requests it was told of (syncStat). *)
LEMMA BatchSent ==
  ASSUME NEW b \in Batches
  PROVE  Batched(b).totalCount = b.sent
<1> DEFINE t == Tallied(b.calls)
<1>1. t \in Tallies
  BY TalliedCounts DEF Batches
<1> HIDE DEF t
<1>2. QED
  BY <1>1 DEF Batched, Tallies, t

(* A total tells of the joined calls what its items tell of theirs. *)
LEMMA TotalTells ==
  ASSUME NEW items, NEW c \in Seq(Seq(Call)), Len(items) = Len(c),
         \A i \in 1 .. Len(c) : Tells(c[i], items[i].stat) /\ items[i].ret_map \in Maps
  PROVE  /\ Joined(c) \in Seq(Call)
         /\ Tells(Joined(c), Total(items).stat)
         /\ Total(items).ret_map \in Maps
<1> DEFINE n == Len(c)
<1>1. n \in Nat /\ \A i \in 1 .. n : c[i] \in Seq(Call)
  BY ElementOfSeq
<1>2. PICK j : /\ Joined(c) = j[n] /\ j[0] = << >>
               /\ \A i \in 1 .. n : j[i] = j[i - 1] \o c[i]
  BY JoinedRuns
<1> HIDE DEF n
<1>3. PICK f : /\ Total(items) = f[n] /\ f[0] = Nothing
               /\ \A i \in 0 .. n : f[i] \in Totals
               /\ \A i \in 1 .. n :
                     f[i] = With(Sum(f[i - 1].stat, items[i].stat),
                                 Added(f[i - 1].ret_map, items[i].ret_map))
  <2>1. \A i \in 1 .. n : Typed(items[i].stat) /\ items[i].ret_map \in Maps
    BY DEF Tells, n
  <2>2. Len(items) = n
    BY DEF n
  <2>3. QED
    BY <1>1, <2>1, <2>2, TotalRuns
<1> DEFINE Holds(i) == j[i] \in Seq(Call) /\ Tells(j[i], f[i].stat)
           Has == {i \in Nat : i <= n => Holds(i)}
<1>4. 0 \in Has
  <2>1. << >> \in Seq(Call)
    OBVIOUS
  <2>2. Holds(0)
    BY <1>2, <1>3, <2>1, NothingTells
  <2>3. QED
    BY <2>2
<1>5. ASSUME NEW i \in Nat, i \in Has PROVE i + 1 \in Has
  <2>1. SUFFICES ASSUME i + 1 <= n PROVE Holds(i + 1)
    OBVIOUS
  <2>2. i + 1 \in 1 .. n /\ (i + 1) - 1 = i /\ i <= n
    BY <1>1, <2>1
  <2>3. Holds(i)
    BY <1>5, <2>2
  <2>4. j[i + 1] = j[i] \o c[i + 1]
    BY <1>2, <2>2
  <2>5. f[i + 1] = With(Sum(f[i].stat, items[i + 1].stat),
                        Added(f[i].ret_map, items[i + 1].ret_map))
    BY <1>3, <2>2
  <2>6. c[i + 1] \in Seq(Call) /\ Tells(c[i + 1], items[i + 1].stat)
    BY <1>1, <2>2 DEF n
  <2>7. j[i + 1] \in Seq(Call)
    BY <2>3, <2>4, <2>6, ConcatProperties
  <2>8. Tells(j[i] \o c[i + 1], Sum(f[i].stat, items[i + 1].stat))
    BY <2>3, <2>6, SumTells
  <2>9. QED
    BY <2>4, <2>5, <2>7, <2>8 DEF With
<1> HIDE DEF Has, Holds
<1>6. n \in Has
  BY <1>1, <1>4, <1>5, SetInduction
<1>7. Holds(n)
  BY <1>1, <1>6 DEF Has
<1>8. f[n].ret_map \in Maps
  <2>1. f[n] \in Totals
    BY <1>1, <1>3
  <2>2. QED
    BY <2>1 DEF Totals
<1>9. QED
  BY <1>2, <1>3, <1>7, <1>8 DEF Holds, n

(* Its codes are those of the joined reports the items have the codes of.  *)
LEMMA TotalCodes ==
  ASSUME NEW items, NEW c \in Seq(Seq(Int)), Len(items) = Len(c),
         \A i \in 1 .. Len(c) : Typed(items[i].stat) /\ items[i].ret_map = Codes(c[i])
  PROVE  Joined(c) \in Seq(Int) /\ Total(items).ret_map = Codes(Joined(c))
<1> DEFINE n == Len(c)
<1>1. n \in Nat /\ \A i \in 1 .. n : c[i] \in Seq(Int)
  BY ElementOfSeq
<1>2. PICK j : /\ Joined(c) = j[n] /\ j[0] = << >>
               /\ \A i \in 1 .. n : j[i] = j[i - 1] \o c[i]
  BY JoinedRuns
<1>3. \A i \in 1 .. n : Typed(items[i].stat) /\ items[i].ret_map = Codes(c[i])
  OBVIOUS
<1> HIDE DEF n
<1>4. PICK f : /\ Total(items) = f[n] /\ f[0] = Nothing
               /\ \A i \in 0 .. n : f[i] \in Totals
               /\ \A i \in 1 .. n :
                     f[i] = With(Sum(f[i - 1].stat, items[i].stat),
                                 Added(f[i - 1].ret_map, items[i].ret_map))
  <2>1. \A i \in 1 .. n : Typed(items[i].stat) /\ items[i].ret_map \in Maps
    BY <1>3, <1>1, CodesType
  <2>2. Len(items) = n
    BY DEF n
  <2>3. QED
    BY <1>1, <2>1, <2>2, TotalRuns
<1> DEFINE Holds(i) == j[i] \in Seq(Int) /\ f[i].ret_map = Codes(j[i])
           Has == {i \in Nat : i <= n => Holds(i)}
<1>5. 0 \in Has
  <2>1. << >> \in Seq(Int)
    OBVIOUS
  <2>2. Nothing.ret_map = Codes(<< >>)
    BY CodesNone DEF Nothing, With
  <2>3. QED
    BY <1>2, <1>4, <2>1, <2>2
<1>6. ASSUME NEW i \in Nat, i \in Has PROVE i + 1 \in Has
  <2>1. SUFFICES ASSUME i + 1 <= n PROVE Holds(i + 1)
    OBVIOUS
  <2>2. i + 1 \in 1 .. n /\ (i + 1) - 1 = i /\ i <= n
    BY <1>1, <2>1
  <2>3. Holds(i)
    BY <1>6, <2>2
  <2>4. j[i + 1] = j[i] \o c[i + 1] /\ c[i + 1] \in Seq(Int)
    BY <1>1, <1>2, <2>2
  <2>5. f[i + 1].ret_map = Added(f[i].ret_map, Codes(c[i + 1]))
    <3>1. f[i + 1] = With(Sum(f[i].stat, items[i + 1].stat),
                          Added(f[i].ret_map, items[i + 1].ret_map))
      BY <1>4, <2>2
    <3>2. items[i + 1].ret_map = Codes(c[i + 1])
      BY <1>3, <2>2
    <3>3. QED
      BY <3>1, <3>2 DEF With
  <2>6. j[i + 1] \in Seq(Int)
    BY <2>3, <2>4, ConcatProperties
  <2>7. Codes(j[i] \o c[i + 1]) = Added(Codes(j[i]), Codes(c[i + 1]))
    BY <2>3, <2>4, CodesJoined
  <2>8. QED
    BY <2>3, <2>4, <2>5, <2>6, <2>7
<1> HIDE DEF Has, Holds
<1>7. n \in Has
  BY <1>1, <1>5, <1>6, SetInduction
<1>8. Holds(n)
  BY <1>1, <1>7 DEF Has
<1>9. QED
  BY <1>2, <1>4, <1>8 DEF Holds

(* Its number of requests is the sum of theirs. *)
LEMMA TotalSent ==
  ASSUME NEW items, NEW ns \in Seq(Nat), Len(items) = Len(ns),
         \A i \in 1 .. Len(ns) : /\ Typed(items[i].stat) /\ items[i].ret_map \in Maps
                                /\ items[i].stat.totalCount = ns[i]
  PROVE  Summed(ns) \in Nat /\ Total(items).stat.totalCount = Summed(ns)
<1> DEFINE n == Len(ns)
<1>1. n \in Nat /\ \A i \in 1 .. n : ns[i] \in Nat
  BY ElementOfSeq
<1>2. PICK j : /\ Summed(ns) = j[n] /\ j[0] = 0
               /\ \A i \in 1 .. n : j[i] = j[i - 1] + ns[i]
  BY SummedRuns
<1>3. /\ \A i \in 1 .. n : Typed(items[i].stat) /\ items[i].ret_map \in Maps
      /\ \A i \in 1 .. n : items[i].stat.totalCount = ns[i]
      /\ Len(items) = n
  OBVIOUS
<1> HIDE DEF n
<1>4. PICK f : /\ Total(items) = f[n] /\ f[0] = Nothing
               /\ \A i \in 0 .. n : f[i] \in Totals
               /\ \A i \in 1 .. n :
                     f[i] = With(Sum(f[i - 1].stat, items[i].stat),
                                 Added(f[i - 1].ret_map, items[i].ret_map))
  BY <1>1, <1>3, TotalRuns
<1> DEFINE Holds(i) == j[i] \in Nat /\ f[i].stat.totalCount = j[i]
           Has == {i \in Nat : i <= n => Holds(i)}
<1>5. 0 \in Has
  <2>1. Nothing.stat.totalCount = 0
    BY DEF Nothing, With, Cleared
  <2>2. QED
    BY <1>2, <1>4, <2>1
<1>6. ASSUME NEW i \in Nat, i \in Has PROVE i + 1 \in Has
  <2>1. SUFFICES ASSUME i + 1 <= n PROVE Holds(i + 1)
    OBVIOUS
  <2>2. i + 1 \in 1 .. n /\ (i + 1) - 1 = i /\ i <= n
    BY <1>1, <2>1
  <2>3. Holds(i)
    BY <1>6, <2>2
  <2>4. j[i + 1] = j[i] + ns[i + 1] /\ ns[i + 1] \in Nat
    BY <1>1, <1>2, <2>2
  <2>5. f[i + 1].stat.totalCount = f[i].stat.totalCount + ns[i + 1]
    <3>1. f[i + 1] = With(Sum(f[i].stat, items[i + 1].stat),
                          Added(f[i].ret_map, items[i + 1].ret_map))
      BY <1>4, <2>2
    <3>2. items[i + 1].stat.totalCount = ns[i + 1]
      BY <1>3, <2>2
    <3>3. QED
      BY <3>1, <3>2 DEF With, Sum
  <2>6. QED
    BY <2>3, <2>4, <2>5
<1> HIDE DEF Has, Holds
<1>7. n \in Has
  BY <1>1, <1>5, <1>6, SetInduction
<1>8. Holds(n)
  BY <1>1, <1>7 DEF Has
<1>9. QED
  BY <1>2, <1>4, <1>8 DEF Holds

(* No text gives no codes. *)
LEMMA NothingRead == str2map(<< >>) = NoCodes
<1>1. Len(<< >>) = 0 /\ 0 \in Nat
  OBVIOUS
<1>2. PICK g : g[0] = St(No, << >>, << >>, NoCodes) /\ str2map(<< >>) = g[Len(<< >>)].mm
  BY <1>1, ParseRuns
<1>3. QED
  BY <1>1, <1>2 DEF St

(* The codes of a batch are numbers, those of the calls and those of       *)
(* sockets (report).                                                       *)
LEMMA RetsType ==
  ASSUME NEW b \in Batches
  PROVE  RetsOf(b) \in Seq(Int) /\ Kept(b) \in Seq(Int)
<1> DEFINE calls == b.calls
           rets == [i \in DOMAIN calls |-> calls[i].ret]
<1>1. calls \in Seq(Call) /\ b.errors \in Seq(Int) /\ << >> \in Seq(Int)
  BY DEF Batches
<1>2. /\ DOMAIN calls = 1 .. Len(calls) /\ Len(calls) \in Nat
      /\ \A k \in DOMAIN calls : calls[k] \in Call
  BY <1>1, ElementOfSeq
<1>3. rets \in Seq(Int)
  <2>1. \A k \in DOMAIN calls : calls[k].ret \in Int
    BY <1>2 DEF Call
  <2>2. QED
    BY <1>2, <2>1, IsASeq
<1>4. RetsOf(b) = rets \o b.errors
  BY DEF RetsOf
<1> HIDE DEF rets
<1>5. RetsOf(b) \in Seq(Int)
  BY <1>1, <1>3, <1>4, ConcatProperties
<1>6. QED
  BY <1>1, <1>5 DEF Kept

(* What a batch brings of its return codes: all of them if their text      *)
(* fits, and none otherwise (syncStat).                                    *)
LEMMA CodesReturn ==
  ASSUME NEW b \in Batches
  PROVE  str2map(Batched(b).retCount) =
            IF CodesFit(b) THEN Codes(RetsOf(b)) ELSE NoCodes
<1> DEFINE codes == Codes(RetsOf(b))
           text == map2str(codes)
           t == Tallied(b.calls)
<1>1. b.calls \in Seq(Call)
  BY DEF Batches
<1>2. codes \in Maps
  BY RetsType, CodesType
<1>3. t \in Tallies
  BY <1>1, TalliedCounts
<1>4. Batched(b).retCount = Fitting(text)
  <2> HIDE DEF text, t
  <2>1. QED
    BY <1>3 DEF Batched, Tallies, t, text
<1> HIDE DEF codes
<1>5. str2map(text) = codes
  BY <1>2, MapsReturn
<1>6. CodesFit(b) <=> Len(text) < SlotSize
  BY DEF CodesFit, codes
<1> HIDE DEF text
<1>7. QED
  BY <1>4, <1>5, <1>6, NothingRead DEF Fitting, codes

(* What one query tells of the calls in the ring (NodeImp::query and       *)
(* printPeriod).                                                           *)
LEMMA QueryTells ==
  ASSUME NEW q \in Seq(Batches)
  PROVE  /\ CallsOf(q) \in Seq(Call) /\ Tells(CallsOf(q), queried(q).stat)
         /\ KeptOf(q) \in Seq(Int) /\ queried(q).ret_map = Codes(KeptOf(q))
         /\ SentOf(q) \in Nat /\ queried(q).stat.totalCount = SentOf(q)
<1> DEFINE c == [i \in DOMAIN q |-> q[i].calls]
           k == [i \in DOMAIN q |-> Kept(q[i])]
           s == [i \in DOMAIN q |-> q[i].sent]
           item(b) == With(Batched(b), str2map(Batched(b).retCount))
           items == [i \in DOMAIN q |-> item(q[i])]
           n == Len(q)
<1>1. DOMAIN q = 1 .. n /\ n \in Nat /\ \A i \in 1 .. n : q[i] \in Batches
  BY ElementOfSeq
<1>2. \A i \in 1 .. n : /\ q[i].calls \in Seq(Call) /\ Kept(q[i]) \in Seq(Int)
                        /\ q[i].sent \in Nat
  BY <1>1, RetsType DEF Batches
<1>3. /\ CallsOf(q) = Joined(c) /\ KeptOf(q) = Joined(k) /\ SentOf(q) = Summed(s)
      /\ queried(q) = Total(items)
  BY DEF CallsOf, KeptOf, SentOf, queried
<1>4. /\ c = [i \in 1 .. n |-> q[i].calls] /\ k = [i \in 1 .. n |-> Kept(q[i])]
      /\ s = [i \in 1 .. n |-> q[i].sent] /\ items = [i \in 1 .. n |-> item(q[i])]
  BY <1>1
<1> HIDE DEF n, c, k, s, item, items
<1>5. /\ \A i \in 1 .. n : /\ c[i] = q[i].calls /\ k[i] = Kept(q[i])
                           /\ s[i] = q[i].sent /\ items[i] = item(q[i])
      /\ Len(items) = n
  BY <1>1, <1>4
<1>6. c \in Seq(Seq(Call)) /\ Len(c) = n
  <2>1. \A i \in 1 .. n : q[i].calls \in Seq(Call)
    BY <1>2
  <2>2. QED
    BY <1>1, <1>4, <2>1, IsASeq
<1>7. k \in Seq(Seq(Int)) /\ Len(k) = n /\ s \in Seq(Nat) /\ Len(s) = n
  <2>1. \A i \in 1 .. n : Kept(q[i]) \in Seq(Int)
    BY <1>2
  <2>2. \A i \in 1 .. n : q[i].sent \in Nat
    BY <1>2
  <2>3. k \in Seq(Seq(Int)) /\ Len(k) = n
    BY <1>1, <1>4, <2>1, IsASeq
  <2>4. s \in Seq(Nat) /\ Len(s) = n
    BY <1>1, <1>4, <2>2, IsASeq
  <2>5. QED
    BY <2>3, <2>4
<1>8. ASSUME NEW i \in 1 .. n
      PROVE  /\ Tells(c[i], items[i].stat) /\ Typed(items[i].stat)
             /\ items[i].ret_map = Codes(k[i]) /\ items[i].ret_map \in Maps
             /\ items[i].stat.totalCount = s[i]
  <2>1. /\ items[i].stat = Batched(q[i])
        /\ items[i].ret_map = str2map(Batched(q[i]).retCount)
    BY <1>5 DEF item, With
  <2>2. Tells(q[i].calls, Batched(q[i]))
    BY <1>1, BatchTells
  <2>3. str2map(Batched(q[i]).retCount) =
            IF CodesFit(q[i]) THEN Codes(RetsOf(q[i])) ELSE NoCodes
    BY <1>1, CodesReturn
  <2>4. Codes(Kept(q[i])) = IF CodesFit(q[i]) THEN Codes(RetsOf(q[i])) ELSE NoCodes
    BY CodesNone DEF Kept
  <2>5. Codes(Kept(q[i])) \in Maps
    BY <1>2, CodesType
  <2>6. Batched(q[i]).totalCount = q[i].sent
    BY <1>1, BatchSent
  <2>7. QED
    BY <1>5, <2>1, <2>2, <2>3, <2>4, <2>5, <2>6 DEF Tells
<1>9. Joined(c) \in Seq(Call) /\ Tells(Joined(c), Total(items).stat)
  <2>1. Len(items) = Len(c) /\ \A i \in 1 .. Len(c) :
            Tells(c[i], items[i].stat) /\ items[i].ret_map \in Maps
    BY <1>5, <1>6, <1>8
  <2>2. QED
    BY <1>6, <2>1, TotalTells
<1>10. Joined(k) \in Seq(Int) /\ Total(items).ret_map = Codes(Joined(k))
  <2>1. Len(items) = Len(k) /\ \A i \in 1 .. Len(k) :
            Typed(items[i].stat) /\ items[i].ret_map = Codes(k[i])
    BY <1>5, <1>7, <1>8
  <2>2. QED
    BY <1>7, <2>1, TotalCodes
<1>11. Summed(s) \in Nat /\ Total(items).stat.totalCount = Summed(s)
  <2>1. Len(items) = Len(s) /\ \A i \in 1 .. Len(s) :
            /\ Typed(items[i].stat) /\ items[i].ret_map \in Maps
            /\ items[i].stat.totalCount = s[i]
    BY <1>5, <1>7, <1>8
  <2>2. QED
    BY <1>7, <2>1, TotalSent
<1>12. QED
  BY <1>3, <1>9, <1>10, <1>11

(* What all the queries together tell of all the calls (daemon). *)
LEMMA AllTell ==
  ASSUME NEW qs \in Seq(Seq(Batches))
  PROVE  /\ Tells(Calls(qs), collected(qs).stat)
         /\ collected(qs).ret_map = Codes(AllKept(qs))
         /\ collected(qs).stat.totalCount = Sent(qs)
<1> DEFINE c == [i \in DOMAIN qs |-> CallsOf(qs[i])]
           k == [i \in DOMAIN qs |-> KeptOf(qs[i])]
           s == [i \in DOMAIN qs |-> SentOf(qs[i])]
           items == [i \in DOMAIN qs |-> queried(qs[i])]
           n == Len(qs)
<1>1. DOMAIN qs = 1 .. n /\ n \in Nat /\ \A i \in 1 .. n : qs[i] \in Seq(Batches)
  BY ElementOfSeq
<1>2. \A i \in 1 .. n :
         /\ CallsOf(qs[i]) \in Seq(Call) /\ KeptOf(qs[i]) \in Seq(Int)
         /\ Tells(CallsOf(qs[i]), queried(qs[i]).stat)
         /\ queried(qs[i]).ret_map = Codes(KeptOf(qs[i]))
         /\ SentOf(qs[i]) \in Nat /\ queried(qs[i]).stat.totalCount = SentOf(qs[i])
  BY <1>1, QueryTells
<1>3. /\ Calls(qs) = Joined(c) /\ AllKept(qs) = Joined(k) /\ Sent(qs) = Summed(s)
      /\ collected(qs) = Total(items)
  BY DEF Calls, AllKept, Sent, collected
<1>4. /\ c = [i \in 1 .. n |-> CallsOf(qs[i])]
      /\ k = [i \in 1 .. n |-> KeptOf(qs[i])]
      /\ s = [i \in 1 .. n |-> SentOf(qs[i])]
      /\ items = [i \in 1 .. n |-> queried(qs[i])]
  BY <1>1
<1> HIDE DEF n, c, k, s, items
<1>5. /\ \A i \in 1 .. n : /\ c[i] = CallsOf(qs[i]) /\ k[i] = KeptOf(qs[i])
                           /\ s[i] = SentOf(qs[i]) /\ items[i] = queried(qs[i])
      /\ Len(items) = n
  BY <1>1, <1>4
<1>6. c \in Seq(Seq(Call)) /\ Len(c) = n
  <2>1. \A i \in 1 .. n : CallsOf(qs[i]) \in Seq(Call)
    BY <1>2
  <2>2. QED
    BY <1>1, <1>4, <2>1, IsASeq
<1>7. k \in Seq(Seq(Int)) /\ Len(k) = n /\ s \in Seq(Nat) /\ Len(s) = n
  <2>1. \A i \in 1 .. n : KeptOf(qs[i]) \in Seq(Int)
    BY <1>2
  <2>2. \A i \in 1 .. n : SentOf(qs[i]) \in Nat
    BY <1>2
  <2>3. k \in Seq(Seq(Int)) /\ Len(k) = n
    BY <1>1, <1>4, <2>1, IsASeq
  <2>4. s \in Seq(Nat) /\ Len(s) = n
    BY <1>1, <1>4, <2>2, IsASeq
  <2>5. QED
    BY <2>3, <2>4
<1>8. \A i \in 1 .. n : /\ Tells(c[i], items[i].stat) /\ Typed(items[i].stat)
                        /\ items[i].ret_map = Codes(k[i]) /\ items[i].ret_map \in Maps
                        /\ items[i].stat.totalCount = s[i]
  BY <1>2, <1>5, CodesType DEF Tells
<1>9. Tells(Joined(c), Total(items).stat)
  <2>1. Len(items) = Len(c) /\ \A i \in 1 .. Len(c) :
            Tells(c[i], items[i].stat) /\ items[i].ret_map \in Maps
    BY <1>5, <1>6, <1>8
  <2>2. QED
    BY <1>6, <2>1, TotalTells
<1>10. Total(items).ret_map = Codes(Joined(k))
  <2>1. Len(items) = Len(k) /\ \A i \in 1 .. Len(k) :
            Typed(items[i].stat) /\ items[i].ret_map = Codes(k[i])
    BY <1>5, <1>7, <1>8
  <2>2. QED
    BY <1>7, <2>1, TotalCodes
<1>11. Summed(s) \in Nat /\ Total(items).stat.totalCount = Summed(s)
  <2>1. Len(items) = Len(s) /\ \A i \in 1 .. Len(s) :
            /\ Typed(items[i].stat) /\ items[i].ret_map \in Maps
            /\ items[i].stat.totalCount = s[i]
    BY <1>5, <1>7, <1>8
  <2>2. QED
    BY <1>7, <2>1, TotalSent
<1>12. QED
  BY <1>3, <1>9, <1>10, <1>11
-----------------------------------------------------------------------------
(* However the calls were divided into batches, and the batches among      *)
(* queries and nodes, the total is that of the requests; each call is      *)
(* counted once, as a success or a failure and between the limits printed  *)
(* for its duration; the extremes are those of the calls; and the return   *)
(* codes are those that were reported in batches whose codes, as text, fit *)
(* in the ring, each as often as it came (report, syncStat and both        *)
(* operator+=).  No batch is left out of the other figures, not even one   *)
(* whose codes are lost.                                                   *)
THEOREM CallsAreCounted ==
  ASSUME queries \in Seq(Seq(Batches))
  PROVE  CallsCounted
BY AllTell DEF Tells, CallsCounted

(* All the return codes that were reported, by calls and by sockets.       *)
ReportsOf(q) == Joined([k \in DOMAIN q |-> RetsOf(q[k])])
Reports(qs) == Joined([i \in DOMAIN qs |-> ReportsOf(qs[i])])

(* Where the codes of every batch fit, the return codes that are shown are *)
(* all those that were reported, each as often as it came (syncStat,       *)
(* map2str, str2map).                                                      *)
THEOREM NoCodeLost ==
  ASSUME queries \in Seq(Seq(Batches)),
         \A i \in DOMAIN queries : \A k \in DOMAIN queries[i] : CodesFit(queries[i][k])
  PROVE  collected(queries).ret_map = Codes(Reports(queries))
<1>1. \A i \in DOMAIN queries : KeptOf(queries[i]) = ReportsOf(queries[i])
  <2>1. TAKE i \in DOMAIN queries
  <2> DEFINE q == queries[i]
  <2>2. \A k \in DOMAIN q : Kept(q[k]) = RetsOf(q[k])
    BY DEF Kept
  <2> HIDE DEF q
  <2>3. [k \in DOMAIN q |-> Kept(q[k])] = [k \in DOMAIN q |-> RetsOf(q[k])]
    BY <2>2
  <2>4. KeptOf(q) = ReportsOf(q)
    BY <2>3 DEF KeptOf, ReportsOf
  <2>5. QED
    BY <2>4 DEF q
<1>2. [i \in DOMAIN queries |-> KeptOf(queries[i])]
          = [i \in DOMAIN queries |-> ReportsOf(queries[i])]
  BY <1>1
<1>3. AllKept(queries) = Reports(queries)
  BY <1>2 DEF AllKept, Reports
<1>4. QED
  BY <1>3, AllTell

(* The percentiles that are shown stay in their order, and none is beyond  *)
(* the longest call, though they are means of means.                       *)
THEOREM PercentilesInOrder ==
  ASSUME queries \in Seq(Seq(Batches))
  PROVE  Percentiles
BY AllTell DEF Tells, Percentiles
=============================================================================
