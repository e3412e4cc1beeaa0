----------------------------- MODULE NodeProofs -----------------------------
(***************************************************************************)
(* Proofs about a node, for every number of tasks, threads and batches,    *)
(* every limit and every set of requests: about its thread pool alone      *)
(* (NodeImp), then about the node at work, which to the pool is nothing    *)
(* but that pool, so that what is proved of the pool holds of the node.    *)
(***************************************************************************)
EXTENDS NodeServer, SumsProofs

(* a whole number below l + 1 times m is at most l. *)
LEMMA Quotient ==
    ASSUME NEW m \in Nat \ {0}, NEW n \in Nat, NEW l \in Nat, m * n < m * (l + 1)
    PROVE  n <= l
<1>1. SUFFICES ASSUME n >= l + 1 PROVE FALSE
    OBVIOUS
<1>2. (l + 1) * m <= n * m
    BY <1>1, ProductMonotone
<1> QED
    BY <1>2

-----------------------------------------------------------------------------
RatioFits == \A r \in Requests : MaxRatio * r.eps <= MaxSpeed

LEMMA RequestFacts ==
    ASSUME NEW r \in Requests
    PROVE  /\ r.key \in Keys
           /\ r.links \in Nat \ {0} /\ r.speed \in Nat \ {0} /\ r.eps \in Nat \ {0}
           /\ MaxSpeed \in Nat \ {0} /\ MaxRatio \in Nat
           /\ TotalSpeed(r) \in Nat \ {0}
<1>1. /\ r.key \in Keys
      /\ r.links \in Nat \ {0} /\ r.speed \in Nat \ {0} /\ r.eps \in Nat \ {0}
      /\ MaxSpeed \in Nat \ {0} /\ MaxRatio \in Nat
    BY RequestAssumption, PoolAssumption
<1>2. \A a, b \in Nat \ {0} : a * b \in Nat \ {0}
    OBVIOUS
<1> QED
    BY <1>1, <1>2 DEF TotalSpeed

(* The total rate of a request that passes the ratio check. *)
LEMMA TotalBound ==
    ASSUME RatioFits, NEW r \in Requests, Matches(r)
    PROVE  TotalSpeed(r) <= r.links * MaxSpeed
<1> DEFINE q == r.speed \div r.links
<1>1. /\ r.links \in Nat \ {0} /\ r.speed \in Nat \ {0} /\ r.eps \in Nat \ {0}
      /\ MaxSpeed \in Nat /\ MaxRatio \in Nat
    BY RequestFacts
<1>2. q \in Nat /\ q <= MaxRatio /\ r.speed = r.links * q
    BY <1>1, DivMod DEF Matches
<1> HIDE DEF q
<1>3. q * r.eps <= MaxRatio * r.eps
    BY <1>1, <1>2, ProductMonotone
<1>4. q * r.eps <= MaxSpeed /\ q * r.eps \in Nat
    BY <1>1, <1>2, <1>3 DEF RatioFits
<1>5. (q * r.eps) * r.links <= MaxSpeed * r.links
    BY <1>1, <1>4, ProductMonotone
<1>6. TotalSpeed(r) = (q * r.eps) * r.links
    BY <1>1, <1>2 DEF TotalSpeed
<1> QED
    BY <1>1, <1>5, <1>6

(* It needs at least one thread, and no more threads than it has links. *)
LEMMA NeedBound ==
    ASSUME RatioFits, NEW r \in Requests, Matches(r)
    PROVE  need_thread(r) \in 1 .. r.links
<1> DEFINE total == TotalSpeed(r)
           n == (total + MaxSpeed - 1) \div MaxSpeed
<1>1. /\ total \in Nat \ {0} /\ MaxSpeed \in Nat \ {0} /\ r.links \in Nat \ {0}
      /\ total <= r.links * MaxSpeed
    BY RequestFacts, TotalBound
<1> HIDE DEF total
<1>2. /\ n \in Nat
      /\ total + MaxSpeed - 1 = MaxSpeed * n + ((total + MaxSpeed - 1) % MaxSpeed)
      /\ (total + MaxSpeed - 1) % MaxSpeed \in 0 .. MaxSpeed - 1
    <2>1. total + MaxSpeed - 1 \in Nat
        BY <1>1
    <2> QED
        BY <1>1, <2>1, DivMod
<1>3. n > 0
    BY <1>1, DivPositive
<1>4. n <= r.links
    <2> HIDE DEF n
    <2>1. MaxSpeed * n <= total + MaxSpeed - 1
        BY <1>1, <1>2
    <2>2. MaxSpeed * n < MaxSpeed * (r.links + 1)
        BY <1>1, <1>2, <2>1
    <2> QED
        BY <1>1, <1>2, <2>2, Quotient
<1> QED
    BY <1>1, <1>2, <1>3, <1>4 DEF need_thread, total
-----------------------------------------------------------------------------
LEMMA LeastFacts ==
    ASSUME NEW a \in Int, NEW b \in Int
    PROVE  /\ Least(a, b) \in Int
           /\ a > 0 /\ b > 0 => Least(a, b) > 0
BY DEF Least

LEMMA LeftSpeedInt ==
    ASSUME NEW r \in Requests, NEW t \in Threads
    PROVE  LeftSpeed(r, t) \in Int
<1> DEFINE earlier == {u \in Idle : u < t}
<1>1. IsFiniteSet(1 .. TotalThreads)
    BY PoolAssumption, FS_Interval
<1>2. earlier \in SUBSET (1 .. TotalThreads)
    BY DEF Idle, Threads
<1>3. IsFiniteSet(earlier)
    BY <1>1, <1>2, FS_Subset
<1>4. Cardinality(earlier) \in Nat
    BY <1>3, FS_CardinalityType
<1> HIDE DEF earlier
<1>5. \A n \in Nat : MaxSpeed * n \in Int
    BY PoolAssumption
<1>6. \A n \in Nat : TotalSpeed(r) - MaxSpeed * n \in Int
    BY <1>5, RequestFacts
<1>7. TotalSpeed(r) - MaxSpeed * Cardinality(earlier) \in Int
    BY <1>4, <1>6
<1> QED
    BY <1>7 DEF LeftSpeed, earlier

(* What a thread gets is a configuration, and one it can run on.           *)
LEMMA AssignFacts ==
    ASSUME NEW r \in Requests, NEW t \in Threads,
           need_thread(r) \in Nat \ {0}, LeftSpeed(r, t) > 0
    PROVE  /\ Assign(r, t) \in Confs
           /\ need_thread(r) <= r.links => Connections(Assign(r, t)) > 0
<1> DEFINE links == r.links \div need_thread(r)
           least == Least(LeftSpeed(r, t), MaxSpeed)
           speed == least \div r.eps
<1>1. /\ r.key \in Keys /\ r.links \in Nat \ {0} /\ r.eps \in Nat \ {0}
      /\ MaxSpeed \in Nat \ {0}
    BY RequestFacts
<1>2. links \in Nat
    BY <1>1, DivMod
<1>3. least \in Nat
    <2>1. LeftSpeed(r, t) \in Int /\ MaxSpeed \in Int /\ MaxSpeed > 0
        BY <1>1, LeftSpeedInt
    <2>2. least \in Int /\ least > 0
        BY <2>1, LeastFacts
    <2> QED
        BY <2>2
<1> HIDE DEF least
<1>4. speed \in Nat
    BY <1>1, <1>3, DivMod
<1>5. Assign(r, t) = [key |-> r.key, links |-> links, speed |-> speed,
                      eps |-> r.eps, runflag |-> TRUE]
    BY DEF Assign, least
<1>6. need_thread(r) <= r.links => links > 0
    BY <1>1, DivPositive
<1> HIDE DEF links, speed
<1>7. Assign(r, t) \in Confs
    BY <1>1, <1>2, <1>4, <1>5 DEF Confs
<1>8. Connections(Assign(r, t)) = r.eps * links
    BY <1>5 DEF Connections
<1>9. \A a, b \in Nat \ {0} : a * b > 0
    OBVIOUS
<1> QED
    BY <1>1, <1>2, <1>6, <1>7, <1>8, <1>9

LEMMA NeedNat ==
    ASSUME NEW r \in Requests
    PROVE  need_thread(r) \in Nat \ {0}
<1> DEFINE total == TotalSpeed(r)
           up == total + MaxSpeed - 1
<1>1. total \in Nat \ {0} /\ MaxSpeed \in Nat \ {0}
    BY RequestFacts
<1> HIDE DEF total
<1>2. up \in Nat /\ MaxSpeed <= up
    BY <1>1
<1> HIDE DEF up
<1>3. up \div MaxSpeed \in Nat /\ up \div MaxSpeed > 0
    BY <1>1, <1>2, DivMod, DivPositive
<1> QED
    BY <1>3 DEF need_thread, up, total
-----------------------------------------------------------------------------
(* The pool's state has its type in every behaviour of the handlers        *)
(* startup and shutdown, whatever is requested.                            *)
THEOREM PoolTypeCorrect == PoolSpec => []PoolTypeOK
<1>1. PoolInit => PoolTypeOK
    BY DEF PoolInit, PoolTypeOK, NoConf, Confs
<1>2. ASSUME PoolTypeOK, [PoolNext]_poolVars
      PROVE  PoolTypeOK'
    <2>1. ASSUME NEW r \in Requests, startup(r)
          PROVE  PoolTypeOK'
        <3>1. \A t \in Threads : LeftSpeed(r, t) > 0 => Assign(r, t) \in Confs
            BY AssignFacts, NeedNat
        <3>2. \A t \in Threads : taskconf[t] \in Confs
            BY <1>2 DEF PoolTypeOK
        <3>3. taskconf' \in [Threads -> Confs]
            BY <2>1, <3>1, <3>2 DEF startup
        <3>4. granted' \in [Keys -> Requests \cup {NoRequest}]
            BY <1>2, <2>1, RequestFacts DEF startup, PoolTypeOK
        <3> QED
            BY <3>3, <3>4 DEF PoolTypeOK
    <2>2. ASSUME NEW k \in Keys, Release(k)
          PROVE  PoolTypeOK'
        <3>1. \A t \in Threads : taskconf[t] \in Confs
            BY <1>2 DEF PoolTypeOK
        <3>2. \A conf \in Confs : resetDefautlt(conf) \in Confs
            BY DEF Confs, resetDefautlt
        <3>3. taskconf' \in [Threads -> Confs]
            BY <2>2, <3>1, <3>2 DEF Release
        <3>4. granted' \in [Keys -> Requests \cup {NoRequest}]
            BY <1>2, <2>2 DEF Release, PoolTypeOK
        <3> QED
            BY <3>3, <3>4 DEF PoolTypeOK
    <2>3. CASE UNCHANGED poolVars
        BY <1>2, <2>3 DEF PoolTypeOK, poolVars
    <2> QED
        BY <1>2, <2>1, <2>2, <2>3 DEF PoolNext
<1> QED
    BY <1>1, <1>2, PTL DEF PoolSpec

(* If the full ratio on all endpoints of a request is within what one      *)
(* thread may send, a thread that is marked as running has connections to  *)
(* run on (NodeImp::startup, lines 77-125).  Without that assumption the   *)
(* threads can be more than the links, and each gets none.                 *)
THEOREM RunnersConnect ==
    ASSUME RatioFits
    PROVE  PoolSpec => []RunningWorks
<1>1. PoolInit => RunningWorks
    BY DEF PoolInit, RunningWorks, NoConf
<1>2. ASSUME RunningWorks, [PoolNext]_poolVars
      PROVE  RunningWorks'
    <2>1. ASSUME NEW r \in Requests, startup(r)
          PROVE  RunningWorks'
        <3>1. Matches(r)
            BY <2>1 DEF startup, Accepts
        <3>2. need_thread(r) <= r.links
            BY <3>1, NeedBound, RequestFacts
        <3>3. \A t \in Threads :
                  LeftSpeed(r, t) > 0 => Connections(Assign(r, t)) > 0
            BY <3>2, NeedNat, AssignFacts
        <3>4. ASSUME NEW t \in Threads, taskconf'[t].runflag
              PROVE  Connections(taskconf'[t]) > 0
            <4>1. CASE t \in Idle /\ LeftSpeed(r, t) > 0
                BY <2>1, <3>3, <4>1 DEF startup
            <4>2. CASE ~ (t \in Idle /\ LeftSpeed(r, t) > 0)
                <5>1. taskconf'[t] = taskconf[t]
                    BY <2>1, <4>2 DEF startup
                <5> QED
                    BY <1>2, <3>4, <5>1 DEF RunningWorks
            <4> QED
                BY <4>1, <4>2
        <3> QED
            BY <3>4 DEF RunningWorks
    <2>2. ASSUME NEW k \in Keys, Release(k)
          PROVE  RunningWorks'
        <3>1. ASSUME NEW t \in Threads, taskconf'[t].runflag
              PROVE  Connections(taskconf'[t]) > 0
            <4>1. taskconf'[t] = IF taskconf[t].key = k
                                 THEN resetDefautlt(taskconf[t])
                                 ELSE taskconf[t]
                BY <2>2 DEF Release
            <4>2. taskconf'[t] = taskconf[t]
                BY <3>1, <4>1 DEF resetDefautlt
            <4> QED
                BY <1>2, <3>1, <4>2 DEF RunningWorks
        <3> QED
            BY <3>1 DEF RunningWorks
    <2>3. CASE UNCHANGED poolVars
        BY <1>2, <2>3 DEF RunningWorks, poolVars
    <2> QED
        BY <1>2, <2>1, <2>2, <2>3 DEF PoolNext
<1> QED
    BY <1>1, <1>2, PTL DEF PoolSpec
-----------------------------------------------------------------------------
(* What the loop of startup deals out to the idle threads up to number m.  *)
Below(m) == {t \in Idle : t <= m}
Given(r, m) == {t \in Below(m) : LeftSpeed(r, t) > 0}
Shares(r) == [t \in Threads |-> Assign(r, t).speed]

(* What rounding down may lose on n threads and e endpoints.               *)
Slack(e, n) == (e - 1) * n

Dealt(r, m) ==
    LET seen  == Cardinality(Below(m))
        total == Least(TotalSpeed(r), MaxSpeed * seen)
        given == Cardinality(Given(r, m))
        rate  == r.eps * SumOf(Shares(r), Given(r, m))
    IN  /\ given = Least(seen, need_thread(r))
        /\ rate <= total
        /\ rate >= total - Slack(r.eps, given)

LEMMA ThreadSetFacts ==
    ASSUME NEW T \in SUBSET Threads
    PROVE  IsFiniteSet(T) /\ Cardinality(T) \in Nat
<1>1. IsFiniteSet(Threads)
    BY PoolAssumption, FS_Interval DEF Threads
<1> QED
    BY <1>1, FS_Subset, FS_CardinalityType

(* need_thread is the quotient, rounded up.                                *)
LEMMA NeedRoundsUp ==
    ASSUME NEW r \in Requests
    PROVE  /\ TotalSpeed(r) <= MaxSpeed * need_thread(r)
           /\ MaxSpeed * need_thread(r) < TotalSpeed(r) + MaxSpeed
<1> DEFINE total == TotalSpeed(r)
           up == total + MaxSpeed - 1
<1>1. total \in Nat \ {0} /\ MaxSpeed \in Nat \ {0}
    BY RequestFacts
<1> HIDE DEF total
<1>2. up \in Nat
    BY <1>1
<1>3. /\ up = MaxSpeed * (up \div MaxSpeed) + (up % MaxSpeed)
      /\ up % MaxSpeed \in Nat /\ up % MaxSpeed < MaxSpeed
      /\ up \div MaxSpeed \in Nat
    BY <1>1, <1>2, DivMod
<1> DEFINE n == up \div MaxSpeed
           rest == up % MaxSpeed
<1>4. MaxSpeed * n \in Nat
    BY <1>1, <1>3
<1> HIDE DEF n, rest
<1>5. total + MaxSpeed - 1 = MaxSpeed * n + rest /\ rest \in Nat /\ rest < MaxSpeed
    BY <1>3 DEF n, rest
<1> DEFINE mn == MaxSpeed * n
<1> HIDE DEF mn
<1>6. total <= mn /\ mn < total + MaxSpeed
    BY <1>1, <1>4, <1>5 DEF mn
<1> QED
    BY <1>6 DEF mn, n, need_thread, total

(* Speed is left for thread number c + 1 exactly if c < need_thread.       *)
LEMMA LeftWhile ==
    ASSUME NEW r \in Requests, NEW c \in Nat
    PROVE  TotalSpeed(r) - MaxSpeed * c > 0 <=> c < need_thread(r)
<1> DEFINE n == need_thread(r)
           total == TotalSpeed(r)
<1>1. /\ n \in Nat /\ total \in Nat /\ MaxSpeed \in Nat \ {0}
      /\ total <= MaxSpeed * n /\ MaxSpeed * n < total + MaxSpeed
    BY NeedNat, NeedRoundsUp, RequestFacts
<1> HIDE DEF n, total
<1>2. CASE c >= n
    <2>1. n * MaxSpeed <= c * MaxSpeed
        BY <1>1, <1>2, ProductMonotone
    <2>2. MaxSpeed * n <= MaxSpeed * c
        BY <1>1, <2>1
    <2>3. MaxSpeed * n \in Nat /\ MaxSpeed * c \in Nat
        BY <1>1
    <2> QED
        BY <1>1, <1>2, <2>2, <2>3 DEF n, total
<1>3. CASE c + 1 <= n
    <2>1. (c + 1) * MaxSpeed <= n * MaxSpeed
        BY <1>1, <1>3, ProductMonotone
    <2>2. MaxSpeed * c + MaxSpeed <= MaxSpeed * n
        BY <1>1, <2>1
    <2>3. MaxSpeed * n \in Nat /\ MaxSpeed * c \in Nat
        BY <1>1
    <2> QED
        BY <1>1, <1>3, <2>2, <2>3 DEF n, total
<1> QED
    BY <1>1, <1>2, <1>3

(* The rate on one endpoint is the thread's share, rounded down.           *)
LEMMA ShareFacts ==
    ASSUME NEW r \in Requests, NEW t \in Threads, LeftSpeed(r, t) > 0
    PROVE  /\ Shares(r)[t] \in Nat
           /\ r.eps * Shares(r)[t] <= Least(LeftSpeed(r, t), MaxSpeed)
           /\ r.eps * Shares(r)[t] >= Least(LeftSpeed(r, t), MaxSpeed) - (r.eps - 1)
<1> DEFINE least == Least(LeftSpeed(r, t), MaxSpeed)
<1>1. r.eps \in Nat \ {0} /\ MaxSpeed \in Nat \ {0}
    BY RequestFacts
<1>2. least \in Nat
    <2>1. LeftSpeed(r, t) \in Int /\ MaxSpeed \in Int /\ MaxSpeed > 0
        BY <1>1, LeftSpeedInt
    <2>2. least \in Int /\ least > 0
        BY <2>1, LeastFacts
    <2> QED
        BY <2>2
<1>3. Shares(r)[t] = least \div r.eps
    BY DEF Shares, Assign
<1> HIDE DEF least
<1>4. /\ least \div r.eps \in Nat
      /\ least = r.eps * (least \div r.eps) + (least % r.eps)
      /\ least % r.eps \in Nat /\ least % r.eps < r.eps
    BY <1>1, <1>2, DivMod
<1> DEFINE part == r.eps * (least \div r.eps)
           rest == least % r.eps
<1>5. part \in Nat
    BY <1>1, <1>4
<1> HIDE DEF part, rest
<1>6. least = part + rest /\ rest \in Nat /\ rest < r.eps
    BY <1>4 DEF part, rest
<1>7. part <= least /\ part >= least - (r.eps - 1)
    BY <1>1, <1>2, <1>5, <1>6
<1> QED
    BY <1>3, <1>4, <1>7 DEF part, least

(* The arithmetic of one turn of the loop: c threads were seen before, all *)
(* of them got their share.                                                *)
LEMMA DealOne ==
    ASSUME NEW total \in Nat, NEW m \in Nat \ {0}, NEW c \in Nat, NEW e \in Nat \ {0},
           NEW s \in Nat, NEW sh \in Nat, total - m * c > 0,
           e * s <= Least(total, m * c), e * s >= Least(total, m * c) - Slack(e, c),
           e * sh <= Least(total - m * c, m),
           e * sh >= Least(total - m * c, m) - (e - 1)
    PROVE  /\ e * (s + sh) <= Least(total, m * (c + 1))
           /\ e * (s + sh) >= Least(total, m * (c + 1)) - Slack(e, c + 1)
<1>1. /\ m * (c + 1) = m * c + m /\ e * (s + sh) = e * s + e * sh
      /\ Slack(e, c + 1) = Slack(e, c) + (e - 1) /\ Slack(e, c) \in Nat
    BY DEF Slack
<1> DEFINE mc == m * c
           es == e * s
           esh == e * sh
           slack == Slack(e, c)
<1>2. mc \in Nat /\ es \in Nat /\ esh \in Nat /\ slack \in Nat
    BY <1>1
<1> HIDE DEF mc, es, esh, slack
<1>3. /\ total - mc > 0
      /\ es <= mc /\ es >= mc - slack
      /\ esh <= Least(total - mc, m) /\ esh >= Least(total - mc, m) - (e - 1)
    BY <1>2 DEF mc, es, esh, slack, Least
<1>4. Least(total, mc + m) = mc + Least(total - mc, m)
    BY <1>2, <1>3 DEF Least
<1>5. Least(total - mc, m) \in Nat
    BY <1>2, <1>3 DEF Least
<1>6. /\ es + esh <= mc + Least(total - mc, m)
      /\ es + esh >= mc + Least(total - mc, m) - (slack + (e - 1))
    BY <1>2, <1>3, <1>5
<1>7. /\ m * (c + 1) = mc + m /\ e * (s + sh) = es + esh
      /\ Slack(e, c + 1) = slack + (e - 1)
    BY <1>1 DEF mc, es, esh, slack
<1> DEFINE low == Least(total - mc, m)
<1> HIDE DEF low
<1>8. /\ low \in Nat
      /\ es + esh <= mc + low
      /\ es + esh >= mc + low - (slack + (e - 1))
    BY <1>5, <1>6 DEF low
<1>9. Least(total, m * (c + 1)) = mc + low
    BY <1>4, <1>7 DEF low
<1>10. e * (s + sh) <= Least(total, m * (c + 1))
    BY <1>7, <1>8, <1>9
<1>11. e * (s + sh) >= Least(total, m * (c + 1)) - Slack(e, c + 1)
    BY <1>2, <1>7, <1>8, <1>9
<1> QED
    BY <1>10, <1>11

LEMMA SharesSum ==
    ASSUME NEW r \in Requests, NEW m \in Nat
    PROVE  SumOf(Shares(r), Given(r, m)) \in Nat
<1>1. Given(r, m) \in SUBSET Threads
    BY DEF Given, Below, Idle
<1>2. \A t \in Given(r, m) : Shares(r)[t] \in Nat
    BY <1>1, ShareFacts DEF Given
<1> QED
    BY <1>1, <1>2, ThreadSetFacts, SumNat

LEMMA DealtStep ==
    ASSUME NEW r \in Requests, NEW m \in Nat, m + 1 <= TotalThreads, Dealt(r, m)
    PROVE  Dealt(r, m + 1)
<1> DEFINE t == m + 1
           c == Cardinality(Below(m))
           n == need_thread(r)
<1>0. t \in Threads /\ TotalThreads \in Nat
    BY PoolAssumption DEF Threads
<1>1. /\ Below(m) \in SUBSET Threads /\ Below(t) \in SUBSET Threads
      /\ Given(r, m) \in SUBSET Threads /\ Given(r, t) \in SUBSET Threads
      /\ t \notin Below(m) /\ t \notin Given(r, m)
    BY DEF Below, Given, Idle, Threads
<1>2. c \in Nat /\ n \in Nat \ {0}
    BY <1>1, ThreadSetFacts, NeedNat
<1>3. CASE t \notin Idle
    <2>1. Below(t) = Below(m)
        BY <1>3 DEF Below, Idle, Threads
    <2> QED
        BY <2>1 DEF Dealt, Given
<1>4. CASE t \in Idle
    <2>1. Below(t) = Below(m) \cup {t}
        BY <1>4 DEF Below, Idle, Threads
    <2>2. Cardinality(Below(t)) = c + 1
        BY <1>1, <2>1, ThreadSetFacts, FS_AddElement
    <2>3. {u \in Idle : u < t} = Below(m)
        BY DEF Below, Idle, Threads
    <2>4. LeftSpeed(r, t) = TotalSpeed(r) - MaxSpeed * c
        BY <2>3 DEF LeftSpeed
    <2>5. LeftSpeed(r, t) > 0 <=> c < n
        BY <1>2, <2>4, LeftWhile
    <2>6. /\ TotalSpeed(r) \in Nat /\ MaxSpeed \in Nat \ {0} /\ r.eps \in Nat \ {0}
        BY RequestFacts
    <2>7. CASE LeftSpeed(r, t) > 0
        <3>1. Given(r, t) = Given(r, m) \cup {t}
            BY <2>1, <2>7 DEF Given
        <3>2. Cardinality(Given(r, t)) = Cardinality(Given(r, m)) + 1
            BY <1>1, <3>1, ThreadSetFacts, FS_AddElement
        <3>3. Cardinality(Given(r, m)) = c /\ Cardinality(Given(r, t)) = Least(c + 1, n)
            BY <1>2, <2>5, <2>7, <3>2 DEF Dealt, Least
        <3>4. SumOf(Shares(r), Given(r, t)) =
                  SumOf(Shares(r), Given(r, m)) + Shares(r)[t]
            <4>1. \A u \in Given(r, t) : Shares(r)[u] \in Int
                BY <1>1, ShareFacts DEF Given
            <4>2. IsFiniteSet(Given(r, m))
                BY <1>1, ThreadSetFacts
            <4>3. \A u \in Given(r, m) \cup {t} : Shares(r)[u] \in Int
                BY <3>1, <4>1
            <4>4. t \notin Given(r, m)
                BY <1>1
            <4> HIDE DEF t
            <4>5. SumOf(Shares(r), Given(r, m) \cup {t}) =
                      SumOf(Shares(r), Given(r, m)) + Shares(r)[t]
                BY <4>2, <4>3, <4>4, SumAdd
            <4> QED
                BY <3>1, <4>5
        <3> DEFINE s == SumOf(Shares(r), Given(r, m))
                   sh == Shares(r)[t]
                   e == r.eps
                   total == TotalSpeed(r)
        <3>5. /\ s \in Nat /\ sh \in Nat
              /\ e * sh <= Least(total - MaxSpeed * c, MaxSpeed)
              /\ e * sh >= Least(total - MaxSpeed * c, MaxSpeed) - (e - 1)
            BY <1>0, <2>4, <2>7, SharesSum, ShareFacts
        <3>6. /\ e * s <= Least(total, MaxSpeed * c)
              /\ e * s >= Least(total, MaxSpeed * c) - Slack(e, c)
            BY <3>3 DEF Dealt
        <3>7. total - MaxSpeed * c > 0
            BY <2>4, <2>7
        <3> HIDE DEF s, sh, e, total, c, n
        <3>8. /\ e * (s + sh) <= Least(total, MaxSpeed * (c + 1))
              /\ e * (s + sh) >= Least(total, MaxSpeed * (c + 1)) - Slack(e, c + 1)
            <4>1. e \in Nat \ {0} /\ total \in Nat
                BY <2>6 DEF e, total
            <4> QED
                BY <1>2, <2>6, <3>5, <3>6, <3>7, <4>1, DealOne
        <3>9. Cardinality(Given(r, t)) = c + 1
            BY <3>2, <3>3
        <3> QED
            BY <2>2, <3>3, <3>4, <3>8, <3>9 DEF Dealt, s, sh, e, total, n
    <2>8. CASE ~ (LeftSpeed(r, t) > 0)
        <3>1. Given(r, t) = Given(r, m)
            BY <2>1, <2>8 DEF Given
        <3>2. c >= n
            BY <1>2, <2>5, <2>8
        <3>3. Least(c, n) = n /\ Least(c + 1, n) = n
            BY <1>2, <3>2 DEF Least
        <3>4. /\ Least(TotalSpeed(r), MaxSpeed * c) = TotalSpeed(r)
              /\ Least(TotalSpeed(r), MaxSpeed * (c + 1)) = TotalSpeed(r)
            <4> DEFINE mc == MaxSpeed * c
            <4>1. mc \in Nat /\ MaxSpeed * (c + 1) = mc + MaxSpeed
                BY <1>2, <2>6
            <4>2. TotalSpeed(r) <= mc
                BY <2>4, <2>6, <2>8, <4>1, LeftSpeedInt, <1>0
            <4> HIDE DEF mc
            <4>3. /\ Least(TotalSpeed(r), mc) = TotalSpeed(r)
                  /\ Least(TotalSpeed(r), mc + MaxSpeed) = TotalSpeed(r)
                BY <2>6, <4>1, <4>2 DEF Least
            <4> QED
                BY <4>1, <4>3 DEF mc
        <3> QED
            BY <2>2, <3>1, <3>3, <3>4 DEF Dealt
    <2> QED
        BY <2>7, <2>8
<1> QED
    BY <1>3, <1>4

(* When the loop has come to the last idle thread, all of the request is   *)
(* dealt out.                                                              *)
LEMMA DealtAll ==
    ASSUME NEW r \in Requests, need_thread(r) <= Cardinality(Idle)
    PROVE  LET mine == {t \in Idle : LeftSpeed(r, t) > 0}
               rate == r.eps * SumOf(Shares(r), mine)
           IN  /\ Cardinality(mine) = need_thread(r)
               /\ rate <= TotalSpeed(r)
               /\ rate >= TotalSpeed(r) - Slack(r.eps, need_thread(r))
<1> DEFINE Has == {m \in Nat : m <= TotalThreads => Dealt(r, m)}
           mine == {t \in Idle : LeftSpeed(r, t) > 0}
<1>0. /\ TotalThreads \in Nat /\ TotalSpeed(r) \in Nat /\ r.eps \in Nat \ {0}
      /\ MaxSpeed \in Nat \ {0} /\ need_thread(r) \in Nat \ {0}
    BY PoolAssumption, RequestFacts, NeedNat
<1>1. 0 \in Has
    <2>1. Below(0) = {} /\ Given(r, 0) = {}
        BY DEF Below, Given, Idle, Threads
    <2>2. Cardinality({}) = 0 /\ SumOf(Shares(r), {}) = 0
        BY SumEmpty, FS_EmptySet
    <2>3. MaxSpeed * 0 = 0 /\ r.eps * 0 = 0 /\ Slack(r.eps, 0) = 0
        BY <1>0 DEF Slack
    <2>4. Least(TotalSpeed(r), 0) = 0 /\ Least(0, need_thread(r)) = 0
        BY <1>0 DEF Least
    <2> QED
        BY <2>1, <2>2, <2>3, <2>4 DEF Dealt
<1>2. ASSUME NEW m \in Nat, m \in Has
      PROVE  m + 1 \in Has
    BY <1>0, <1>2, DealtStep
<1> HIDE DEF Has
<1>3. Dealt(r, TotalThreads)
    <2>1. Nat \subseteq Has
        BY <1>1, <1>2, SetInduction
    <2> QED
        BY <1>0, <2>1 DEF Has
<1>4. Below(TotalThreads) = Idle /\ Given(r, TotalThreads) = mine
    BY PoolAssumption DEF Below, Given, Idle, Threads
<1>5. Cardinality(Idle) \in Nat
    BY ThreadSetFacts DEF Idle
<1>6. Least(Cardinality(Idle), need_thread(r)) = need_thread(r)
    BY <1>0, <1>5 DEF Least
<1>7. Least(TotalSpeed(r), MaxSpeed * Cardinality(Idle)) = TotalSpeed(r)
    <2>1. need_thread(r) * MaxSpeed <= Cardinality(Idle) * MaxSpeed
        BY <1>0, <1>5, ProductMonotone
    <2>2. /\ MaxSpeed * need_thread(r) = need_thread(r) * MaxSpeed
          /\ MaxSpeed * Cardinality(Idle) = Cardinality(Idle) * MaxSpeed
          /\ MaxSpeed * need_thread(r) \in Nat
          /\ MaxSpeed * Cardinality(Idle) \in Nat
        BY <1>0, <1>5
    <2>3. TotalSpeed(r) <= MaxSpeed * need_thread(r)
        BY NeedRoundsUp
    <2>4. TotalSpeed(r) <= MaxSpeed * Cardinality(Idle)
        BY <1>0, <2>1, <2>2, <2>3
    <2> QED
        BY <1>0, <2>2, <2>4 DEF Least
<1> QED
    BY <1>3, <1>4, <1>6, <1>7 DEF Dealt
-----------------------------------------------------------------------------
(* WholeTask is inductive together with the fact that idle threads belong  *)
(* to no task.                                                             *)
IdleFree == \A t \in Threads : ~ taskconf[t].runflag => taskconf[t].key = NoKey

(* What WholeTask says of one task. *)
TaskWhole(k) ==
    LET req  == granted[k]
        mine == ThreadsOf(k)
        rate == req.eps * Rate(k)
    IN  IF req = NoRequest
        THEN mine = {}
        ELSE /\ Cardinality(mine) = need_thread(req)
             /\ \A t \in mine : /\ taskconf[t].runflag
                                /\ taskconf[t].eps = req.eps
                                /\ taskconf[t].speed * req.eps <= MaxSpeed
             /\ rate <= TotalSpeed(req)
             /\ rate > TotalSpeed(req) - req.eps * Cardinality(mine)
             /\ req.eps = 1 => capacityThreads(k) = need_thread(req)

LEMMA TasksWhole == WholeTask <=> \A k \in Keys : TaskWhole(k)
BY DEF WholeTask, TaskWhole

(* A task whose threads are left alone stays as it is.                     *)
LEMMA TaskFrame ==
    ASSUME PoolTypeOK, NEW k \in Keys, TaskWhole(k),
           granted'[k] = granted[k], ThreadsOf(k)' = ThreadsOf(k),
           \A t \in ThreadsOf(k) : taskconf'[t] = taskconf[t]
    PROVE  TaskWhole(k)'
<1>1. ThreadsOf(k) \in SUBSET Threads
    BY DEF ThreadsOf
<1> DEFINE f == [t \in Threads |-> taskconf[t].speed]
           g == [t \in Threads |-> taskconf'[t].speed]
<1>2. \A t \in ThreadsOf(k) : f[t] = g[t]
    BY <1>1
<1>3. SumOf(f, ThreadsOf(k)) = SumOf(g, ThreadsOf(k))
    <2> HIDE DEF f, g
    <2> QED
        BY <1>1, <1>2, ThreadSetFacts, SumAgree
<1>4. Rate(k)' = Rate(k)
    BY <1>3 DEF Rate
<1>5. capacityThreads(k)' = capacityThreads(k)
    BY <1>4 DEF capacityThreads
<1> QED
    BY <1>4, <1>5 DEF TaskWhole

LEMMA StartedTask ==
    ASSUME PoolTypeOK, IdleFree, NEW r \in Requests, startup(r)
    PROVE  TaskWhole(r.key)'
<1> DEFINE k == r.key
           mine == {t \in Idle : LeftSpeed(r, t) > 0}
           n == need_thread(r)
<1>0. /\ k \in Keys /\ k # NoKey /\ n \in Nat \ {0} /\ r.eps \in Nat \ {0}
      /\ TotalSpeed(r) \in Nat /\ MaxSpeed \in Nat \ {0}
    BY PoolAssumption, RequestFacts, NeedNat
<1>1. mine \in SUBSET Threads
    BY DEF Idle
<1>2. \A t \in Threads :
          taskconf'[t] = IF t \in mine THEN Assign(r, t) ELSE taskconf[t]
    BY DEF startup
<1>3. \A t \in Threads : taskconf[t].key # k
    BY <1>0 DEF startup, Accepts, ThreadsOf, IdleFree
<1>4. ThreadsOf(k)' = mine
    <2>1. \A t \in Threads : taskconf'[t].key = k <=> t \in mine
        <3>1. \A t \in Threads : Assign(r, t).key = k
            BY DEF Assign
        <3> HIDE DEF mine, k
        <3> QED
            BY <1>2, <1>3, <3>1
    <2> HIDE DEF mine
    <2> QED
        BY <1>1, <2>1 DEF ThreadsOf
<1>5. granted'[k] = r /\ r # NoRequest
    BY <1>0 DEF startup, PoolTypeOK, NoRequest
<1>6. Rate(k)' = SumOf(Shares(r), mine)
    <2> DEFINE g == [t \in Threads |-> taskconf'[t].speed]
    <2>1. \A t \in mine : g[t] = Shares(r)[t]
        BY <1>1, <1>2 DEF Shares
    <2>2. SumOf(g, mine) = SumOf(Shares(r), mine)
        <3> HIDE DEF g, mine
        <3> QED
            BY <1>1, <2>1, ThreadSetFacts, SumAgree
    <2> QED
        BY <1>4, <2>2 DEF Rate
<1> DEFINE sum == SumOf(Shares(r), mine)
<1>7. /\ Cardinality(mine) = n
      /\ r.eps * sum <= TotalSpeed(r)
      /\ r.eps * sum >= TotalSpeed(r) - Slack(r.eps, n)
    BY DealtAll DEF startup, Accepts
<1>8. sum \in Nat
    <2>1. \A t \in mine : Shares(r)[t] \in Nat
        BY <1>1, ShareFacts
    <2> HIDE DEF mine
    <2> QED
        BY <1>1, <2>1, ThreadSetFacts, SumNat
<1>9. \A t \in mine : /\ taskconf'[t].runflag /\ taskconf'[t].eps = r.eps
                      /\ taskconf'[t].speed * r.eps <= MaxSpeed
    <2>1. ASSUME NEW t \in mine
          PROVE  /\ Assign(r, t).runflag /\ Assign(r, t).eps = r.eps
                 /\ Assign(r, t).speed * r.eps <= MaxSpeed
        <3>1. /\ Shares(r)[t] \in Nat /\ Shares(r)[t] = Assign(r, t).speed
              /\ r.eps * Shares(r)[t] <= Least(LeftSpeed(r, t), MaxSpeed)
            BY <1>1, ShareFacts DEF Shares
        <3>2. LeftSpeed(r, t) \in Int
            BY <1>1, LeftSpeedInt
        <3>3. /\ Least(LeftSpeed(r, t), MaxSpeed) <= MaxSpeed
              /\ Least(LeftSpeed(r, t), MaxSpeed) \in Int
            BY <1>0, <3>2 DEF Least
        <3>4. /\ r.eps * Shares(r)[t] = Shares(r)[t] * r.eps
              /\ r.eps * Shares(r)[t] \in Int
            BY <1>0, <3>1
        <3>5. Assign(r, t).runflag /\ Assign(r, t).eps = r.eps
            BY DEF Assign
        <3> QED
            BY <1>0, <3>1, <3>3, <3>4, <3>5
    <2> QED
        BY <1>1, <1>2, <2>1
<1> HIDE DEF n, sum, mine, k
<1>10. /\ r.eps * sum > TotalSpeed(r) - r.eps * n
       /\ r.eps = 1 => (MaxSpeed + sum - 1) \div MaxSpeed = n
    <2>1. Slack(r.eps, n) = r.eps * n - n /\ r.eps * n \in Nat /\ r.eps * sum \in Nat
        BY <1>0, <1>8 DEF Slack
    <2>2. r.eps * sum > TotalSpeed(r) - r.eps * n
        BY <1>0, <1>7, <2>1
    <2>3. ASSUME r.eps = 1 PROVE (MaxSpeed + sum - 1) \div MaxSpeed = n
        <3>1. sum = TotalSpeed(r)
            <4>1. r.eps * sum = sum
                BY <1>8, <2>3
            <4>2. Slack(r.eps, n) = 0
                <5>1. (1 - 1) * n = 0
                    BY <1>0
                <5> QED
                    BY <2>3, <5>1 DEF Slack
            <4>3. sum <= TotalSpeed(r) /\ sum >= TotalSpeed(r)
                BY <1>0, <1>7, <1>8, <4>1, <4>2
            <4> QED
                BY <1>0, <1>8, <4>3
        <3>2. MaxSpeed + sum - 1 = TotalSpeed(r) + MaxSpeed - 1
            BY <1>0, <3>1
        <3> QED
            BY <3>2 DEF need_thread, n
    <2> QED
        BY <2>2, <2>3
<1>11. /\ Rate(k)' = sum /\ need_thread(r)' = n /\ TotalSpeed(r)' = TotalSpeed(r)
       /\ capacityThreads(k)' = (MaxSpeed + sum - 1) \div MaxSpeed
    BY <1>6 DEF capacityThreads, sum, n, k, need_thread, TotalSpeed
<1>12. TaskWhole(k)'
    BY <1>4, <1>5, <1>7, <1>9, <1>10, <1>11 DEF TaskWhole, n
<1> QED
    BY <1>12 DEF k

(* A key runs on no thread, or on exactly the threads its request needs,   *)
(* none above its limit, and what they send together is what was granted   *)
(* but for rounding: whatever is requested and stopped in which order      *)
(* (NodeImp::startup, lines 99-125, shutdown and capacity).                *)
THEOREM PoolWhole == PoolSpec => []WholeTask
<1>1. PoolInit => IdleFree /\ WholeTask
    <2> SUFFICES ASSUME PoolInit PROVE IdleFree /\ WholeTask
        OBVIOUS
    <2>1. \A t \in Threads : taskconf[t].key = NoKey
        BY DEF PoolInit, NoConf
    <2>2. \A k \in Keys : ThreadsOf(k) = {} /\ granted[k] = NoRequest
        BY <2>1, PoolAssumption DEF ThreadsOf, PoolInit
    <2> QED
        BY <2>1, <2>2 DEF IdleFree, WholeTask
<1>2. ASSUME PoolTypeOK, IdleFree, WholeTask, [PoolNext]_poolVars
      PROVE  IdleFree' /\ WholeTask'
    <2>1. ASSUME NEW r \in Requests, startup(r)
          PROVE  IdleFree' /\ WholeTask'
        <3>1. IdleFree'
            BY <1>2, <2>1 DEF IdleFree, startup, Assign
        <3>2. ASSUME NEW j \in Keys
              PROVE  TaskWhole(j)'
            <4>1. CASE j = r.key
                BY <1>2, <2>1, <4>1, StartedTask
            <4>2. CASE j # r.key
                <5>1. TaskWhole(j)
                    BY <1>2, TasksWhole
                <5>2. granted'[j] = granted[j]
                    BY <1>2, <2>1, <4>2 DEF startup, PoolTypeOK
                <5>3. \A t \in Threads :
                          \/ taskconf'[t] = taskconf[t]
                          \/ taskconf[t].key = NoKey /\ taskconf'[t].key = r.key
                    BY <1>2, <2>1 DEF startup, Idle, IdleFree, Assign
                <5>4. j # NoKey
                    BY PoolAssumption
                <5>5. /\ ThreadsOf(j)' = ThreadsOf(j)
                      /\ \A t \in ThreadsOf(j) : taskconf'[t] = taskconf[t]
                    BY <4>2, <5>3, <5>4 DEF ThreadsOf
                <5> QED
                    BY <1>2, <5>1, <5>2, <5>5, TaskFrame
            <4> QED
                BY <4>1, <4>2
        <3> QED
            BY <3>1, <3>2 DEF WholeTask, TaskWhole
    <2>2. ASSUME NEW k \in Keys, Release(k)
          PROVE  IdleFree' /\ WholeTask'
        <3>1. \A t \in Threads :
                  taskconf'[t] = IF taskconf[t].key = k
                                 THEN resetDefautlt(taskconf[t])
                                 ELSE taskconf[t]
            BY <2>2 DEF Release
        <3>2. \A t \in Threads : resetDefautlt(taskconf[t]).key = NoKey
            BY <1>2 DEF resetDefautlt, PoolTypeOK, Confs
        <3>3. IdleFree'
            BY <1>2, <3>1, <3>2 DEF IdleFree
        <3>4. ASSUME NEW j \in Keys
              PROVE  TaskWhole(j)'
            <4>1. j # NoKey
                BY PoolAssumption
            <4>2. CASE j = k
                <5>1. ThreadsOf(j)' = {}
                    BY <3>1, <3>2, <4>1, <4>2 DEF ThreadsOf
                <5>2. granted'[j] = NoRequest
                    BY <1>2, <2>2, <4>2 DEF Release, PoolTypeOK
                <5> QED
                    BY <5>1, <5>2 DEF TaskWhole
            <4>3. CASE j # k
                <5>1. TaskWhole(j)
                    BY <1>2, TasksWhole
                <5>2. granted'[j] = granted[j]
                    BY <1>2, <2>2, <4>3 DEF Release, PoolTypeOK
                <5>3. /\ ThreadsOf(j)' = ThreadsOf(j)
                      /\ \A t \in ThreadsOf(j) : taskconf'[t] = taskconf[t]
                    BY <3>1, <3>2, <4>1, <4>3 DEF ThreadsOf
                <5> QED
                    BY <1>2, <5>1, <5>2, <5>3, TaskFrame
            <4> QED
                BY <4>2, <4>3
        <3> QED
            BY <3>3, <3>4 DEF WholeTask, TaskWhole
    <2>3. CASE UNCHANGED poolVars
        <3>1. IdleFree'
            BY <1>2, <2>3 DEF IdleFree, poolVars
        <3>2. ASSUME NEW j \in Keys
              PROVE  TaskWhole(j)'
            <4>1. TaskWhole(j)
                BY <1>2, TasksWhole
            <4>2. ThreadsOf(j)' = ThreadsOf(j)
                BY <2>3 DEF ThreadsOf, poolVars
            <4>3. /\ granted'[j] = granted[j]
                  /\ \A t \in ThreadsOf(j) : taskconf'[t] = taskconf[t]
                BY <2>3 DEF poolVars
            <4> QED
                BY <1>2, <4>1, <4>2, <4>3, TaskFrame
        <3> QED
            BY <3>1, <3>2 DEF WholeTask, TaskWhole
    <2> QED
        BY <1>2, <2>1, <2>2, <2>3 DEF PoolNext
<1> QED
    BY <1>1, <1>2, PoolTypeCorrect, PTL DEF PoolSpec
-----------------------------------------------------------------------------
(* The node at work *)

(* A thread that works does so for a task: there is no protocol of an      *)
(* empty name, and Clear does not get past that.                           *)
WorksForKey ==
    \A t \in Threads : place[t] \in {"loop", "last"} => work[t].key \in Keys

IInv == TypeOK /\ WorksForKey
-----------------------------------------------------------------------------
(* The threads' steps, and query, leave the pool alone. *)
LEMMA StepsOfPool ==
    ASSUME [Next]_vars
    PROVE  [PoolNext]_poolVars
<1>1. CASE \E req \in Requests : Startup(req)
    BY <1>1 DEF Startup, PoolNext
<1>2. CASE \E k \in Keys : Query(k)
    BY <1>2 DEF Query
<1>3. CASE \E k \in Keys : Shutdown(k)
    BY <1>3 DEF Shutdown, PoolNext
<1>4. ASSUME NEW t \in Threads, do_task(t)
      PROVE  UNCHANGED poolVars
    BY <1>4 DEF do_task, Copy, Tear, Enter, Clear, Refuse, Report, Leave, Finish
<1>5. CASE UNCHANGED vars
    BY <1>5 DEF vars
<1> QED
    BY <1>1, <1>2, <1>3, <1>4, <1>5 DEF Next

(* To startup and shutdown the node is the pool of NodeImp, whatever its   *)
(* threads do meanwhile (NodeImp.cpp:56-169).                              *)
THEOREM NodeIsPool == Spec => PoolSpec
<1>1. Init => PoolInit
    BY DEF Init
<1> QED
    BY <1>1, StepsOfPool, PTL DEF Spec, PoolSpec

(* A running thread has connections in a node at work too, under the       *)
(* assumption of RunnersConnect.                                           *)
THEOREM NodeRunnersConnect ==
    ASSUME RatioFits
    PROVE  Spec => []RunningWorks
<1>1. PoolSpec => []RunningWorks
    BY RunnersConnect
<1> QED
    BY <1>1, NodeIsPool, PTL

(* So does what WholeTask says of the tasks and their threads: a thread    *)
(* that still works for the task before does not make startup or capacity  *)
(* miscount (NodeImp.cpp:99-125, 267-286).                                 *)
THEOREM NodeWhole == Spec => []WholeTask
BY PoolWhole, NodeIsPool, PTL
-----------------------------------------------------------------------------
LEMMA NoConfType == NoConf \in Confs
    BY DEF NoConf, Confs

LEMMA NoBatches == << >> \in Seq(Keys)
    OBVIOUS

LEMMA CollectType ==
    ASSUME ring \in Seq(Keys), NEW k \in Keys, Collect(k)
    PROVE  ring' \in Seq(Keys)
    BY NoBatches DEF Collect

LEMMA PushType ==
    ASSUME IInv, NEW t \in Threads, place[t] \in {"loop", "last"}, Push(t)
    PROVE  ring' \in Seq(Keys)
<1>1. work[t].key \in Keys /\ ring \in Seq(Keys)
    BY DEF IInv, WorksForKey, TypeOK
<1> QED
    BY <1>1 DEF Push

LEMMA MixType ==
    ASSUME NEW a \in Confs, NEW b \in Confs
    PROVE  Mix(a, b) \in Confs
    BY DEF Confs, Mix

(* One step of a thread: it ends where it has a task to work for.          *)
LEMMA TaskStep ==
    ASSUME IInv, PoolTypeOK', NEW t \in Threads, do_task(t)
    PROVE  IInv'
<1>1. /\ place \in [Threads -> {"idle", "copy", "setup", "loop", "last"}]
      /\ work \in [Threads -> Confs] /\ taskconf \in [Threads -> Confs]
      /\ ring \in Seq(Keys) /\ WorksForKey
    BY DEF IInv, TypeOK, PoolTypeOK
<1>2. SUFFICES /\ place' \in [Threads -> {"idle", "copy", "setup", "loop", "last"}]
               /\ work' \in [Threads -> Confs]
               /\ ring' \in Seq(Keys)
               /\ WorksForKey'
    BY DEF IInv, TypeOK
<1>3. ASSUME GiveUp(t)
      PROVE  /\ place' \in [Threads -> {"idle", "copy", "setup", "loop", "last"}]
             /\ work' \in [Threads -> Confs]
             /\ WorksForKey'
    BY <1>1, <1>3, NoConfType DEF GiveUp, WorksForKey
<1>4. CASE Copy(t)
    BY <1>1, <1>4 DEF Copy, WorksForKey
<1>5. CASE Tear(t)
    <2>1. PICK conf \in {Mix(work[t], taskconf[t]), Mix(taskconf[t], work[t])} :
              work' = [work EXCEPT ![t] = conf]
        BY <1>5 DEF Tear
    <2>2. conf \in Confs
        BY <1>1, <2>1, MixType
    <2>3. place[t] = "copy" /\ UNCHANGED <<place, ring>>
        BY <1>5 DEF Tear
    <2> QED
        BY <1>1, <2>1, <2>2, <2>3 DEF WorksForKey
<1>6. CASE Enter(t)
    <2>1. UNCHANGED ring
        BY <1>6 DEF Enter
    <2>2. CASE GiveUp(t)
        BY <1>1, <1>3, <2>1, <2>2
    <2>3. CASE place' = [place EXCEPT ![t] = "setup"] /\ UNCHANGED work
        BY <1>1, <2>1, <2>3 DEF WorksForKey
    <2> QED
        BY <1>6, <2>2, <2>3 DEF Enter
<1>7. CASE Clear(t)
    <2>1. work[t].key \in Keys
        BY <1>1, <1>7 DEF Clear, Confs
    <2> QED
        BY <1>1, <1>7, <2>1, NoBatches DEF Clear, WorksForKey
<1>8. CASE Refuse(t)
    BY <1>1, <1>3, <1>8 DEF Refuse
<1>9. CASE Report(t)
    <2>1. UNCHANGED <<place, work>> /\ ring' \in Seq(Keys)
        BY <1>9, PushType DEF Report, threadVars
    <2> QED
        BY <1>1, <2>1 DEF WorksForKey
<1>10. CASE Leave(t)
    BY <1>1, <1>10 DEF Leave, WorksForKey
<1>11. CASE Finish(t)
    <2>1. GiveUp(t) /\ ring' \in Seq(Keys)
        BY <1>11, PushType DEF Finish
    <2> QED
        BY <1>3, <2>1
<1> QED
    BY <1>4, <1>5, <1>6, <1>7, <1>8, <1>9, <1>10, <1>11 DEF do_task

LEMMA NodeInductive ==
    ASSUME IInv, PoolTypeOK', [Next]_vars
    PROVE  IInv'
<1>1. ring \in Seq(Keys)
    BY DEF IInv, TypeOK
<1>2. ASSUME ring' \in Seq(Keys), UNCHANGED <<place, work>>
      PROVE  IInv'
    BY <1>2 DEF IInv, TypeOK, WorksForKey
<1>3. CASE \E req \in Requests : Startup(req)
    BY <1>1, <1>2, <1>3 DEF Startup, threadVars
<1>4. CASE \E k \in Keys : Query(k)
    BY <1>1, <1>2, <1>4, CollectType DEF Query, threadVars
<1>5. CASE \E k \in Keys : Shutdown(k)
    BY <1>1, <1>2, <1>5, CollectType DEF Shutdown, threadVars
<1>6. CASE \E t \in Threads : do_task(t)
    BY <1>6, TaskStep
<1>7. CASE UNCHANGED vars
    BY <1>1, <1>2, <1>7 DEF vars, threadVars
<1> QED
    BY <1>3, <1>4, <1>5, <1>6, <1>7 DEF Next

(* The state of a node has its type: every batch in the ring is of some    *)
(* task, though a thread may work on a configuration it read in halves.    *)
THEOREM NodeTypeCorrect == Spec => []TypeOK
<1>1. Spec => []PoolTypeOK
    BY NodeIsPool, PoolTypeCorrect, PTL
<1>2. Init /\ PoolTypeOK => IInv
    BY NoConfType, NoBatches DEF Init, IInv, TypeOK, WorksForKey
<1>3. IInv /\ PoolTypeOK' /\ [Next]_vars => IInv'
    BY NodeInductive
<1>4. IInv => TypeOK
    BY DEF IInv
<1> QED
    BY <1>1, <1>2, <1>3, <1>4, PTL DEF Spec
=============================================================================
