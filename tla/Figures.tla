------------------------------ MODULE Figures ------------------------------
(***************************************************************************)
(* The figures of a test on their way from a request that is answered to   *)
(* the one who asks for them: counted into a batch (report and syncStat of *)
(* src/src/comm/monitor.cpp), added up by the node (NodeImp::query) or by  *)
(* tb (printPeriod of src/src/tool/main.cpp), and added up again by the    *)
(* administrator (AdminServer.h).  Times are whole milliseconds and means  *)
(* are rounded down.                                                       *)
(***************************************************************************)
EXTENDS Integers, Sequences, FiniteSets

CONSTANT SlotSize       \* characters an item has for the return codes

(* What became of a request: its return code, and how long that took.      *)
Call == [ret : Int, cost : Nat]

(* What a process tells its monitor between two batches: the requests sent,*)
(* the calls that ended, and the errors of sockets, of which there is but  *)
(* the code.                                                               *)
Batches == [sent : Nat, calls : Seq(Call), errors : Seq(Int)]

(* A loop over the first n elements of something, from base on.            *)
Folded(step(_, _), base, n) ==
    LET f[i \in 0 .. n] == IF i = 0 THEN base ELSE step(f[i - 1], i)
    IN  f[n]

BM_SUCC == 0
MAX_STEP_COST == 10
-----------------------------------------------------------------------------
(* Return codes as text: code:count pairs with commas between them.        *)

Digit(n) == << "0", "1", "2", "3", "4", "5", "6", "7", "8", "9" >>[n + 1]
Digits[n \in Nat] ==
    IF n < 10 THEN << Digit(n) >> ELSE Digits[n \div 10] \o << Digit(n % 10) >>
Decimal(n) == IF n < 0 THEN << "-" >> \o Digits[- n] ELSE Digits[n]

atoi(text) ==
    LET negative == text # << >> /\ text[1] = "-"
        step(n, i) == IF negative /\ i = 1 THEN 0
                      ELSE n * 10 + (CHOOSE d \in 0 .. 9 : Digit(d) = text[i])
        n == Folded(step, 0, Len(text))
    IN  IF negative THEN - n ELSE n

(* A map is walked through in the order of its keys.                       *)
Key(mm, i) ==
    CHOOSE k \in DOMAIN mm : Cardinality({l \in DOMAIN mm : l < k}) = i - 1

Entry(mm, i) == Decimal(Key(mm, i)) \o << ":" >> \o Decimal(mm[Key(mm, i)])

map2str(mm) ==
    LET step(text, i) == text \o (IF i = 1 THEN << >> ELSE << "," >>) \o Entry(mm, i)
    IN  Folded(step, << >>, Cardinality(DOMAIN mm))

NoCodes == [k \in {} |-> 0]
Put(mm, k, n) == [x \in DOMAIN mm \cup {k} |-> IF x = k THEN n ELSE mm[x]]

(* str2map: a turn of its loop, and the loop.                              *)
Read(ss, st, pos) ==
    LET val == IF pos = Len(ss) THEN Append(st.buff, ss[pos]) ELSE st.buff
    IN  CASE ss[pos] = ":" ->
               [st EXCEPT !.flag = TRUE, !.name = st.buff, !.buff = << >>]
          [] ss[pos] # ":" /\ (ss[pos] = "," \/ pos = Len(ss)) ->
               IF st.name # << >> /\ st.flag
               THEN [st EXCEPT !.buff = << >>, !.flag = FALSE,
                               !.mm = Put(@, atoi(st.name), atoi(val))]
               ELSE [st EXCEPT !.buff = << >>]
          [] OTHER -> [st EXCEPT !.buff = Append(@, ss[pos])]

str2map(ss) ==
    LET step(st, pos) == Read(ss, st, pos)
    IN  Folded(step, [flag |-> FALSE, name |-> << >>, buff |-> << >>,
                      mm |-> NoCodes], Len(ss)).mm

Added(l, r) ==
    [k \in DOMAIN l \cup DOMAIN r |->
        (IF k \in DOMAIN l THEN l[k] ELSE 0) + (IF k \in DOMAIN r THEN r[k] ELSE 0)]
-----------------------------------------------------------------------------
(* One batch *)

Max_(x, y) == IF x > y THEN x ELSE y
Min_(x, y) == IF x < y THEN x ELSE y

(* clear *)
Cleared ==
    [totalCount |-> 0, succCount |-> 0, failCount |-> 0, totalTime |-> 0,
     maxTime |-> 0, minTime |-> 1000, p90Time |-> 0, p99Time |-> 0, p999Time |-> 0,
     costTimes |-> [i \in 1 .. MAX_STEP_COST |-> 0], retCount |-> << >>]

costStep == << 10, 30, 50, 100, 500, 3000, 5000, 0, 0, 0 >>

(* Mutant of Step: a time that is a limit is counted below it.             *)
StepBelow(costTime) ==
    CHOOSE i \in 1 .. MAX_STEP_COST :
        /\ costStep[i] >= costTime \/ costStep[i] = 0
        /\ \A k \in 1 .. i - 1 : costStep[k] < costTime /\ costStep[k] # 0

Step(costTime) ==
    CHOOSE i \in 1 .. MAX_STEP_COST :
        /\ costStep[i] > costTime \/ costStep[i] = 0
        /\ \A k \in 1 .. i - 1 : costStep[k] <= costTime /\ costStep[k] # 0

(* report of an answer, or of one that did not come in time.               *)
Reported(st, call) ==
    [st EXCEPT !.succCount = @ + (IF call.ret = BM_SUCC THEN 1 ELSE 0),
               !.failCount = @ + (IF call.ret = BM_SUCC THEN 0 ELSE 1),
               !.totalTime = @ + call.cost,
               !.maxTime = Max_(@, call.cost),
               !.minTime = Min_(@, call.cost),
               !.costTimes[Step(call.cost)] = @ + 1]

Tallied(calls) ==
    LET step(st, i) == Reported(st, calls[i])
    IN  Folded(step, Cleared, Len(calls))

(* report of a return code: of each call that ended, and of an error.      *)
RetsOf(batch) == [i \in DOMAIN batch.calls |-> batch.calls[i].ret] \o batch.errors

Codes(rets) ==
    [r \in {rets[i] : i \in DOMAIN rets} |->
        Cardinality({i \in DOMAIN rets : rets[i] = r})]

(* What is at place i when the costs are sorted.                           *)
Sorted(queueCost, i) ==
    CHOOSE c \in {queueCost[k] : k \in DOMAIN queueCost} :
        /\ Cardinality({k \in DOMAIN queueCost : queueCost[k] < c}) < i
        /\ i <= Cardinality({k \in DOMAIN queueCost : queueCost[k] <= c})

calcPercent(queueCost, percent) ==
    IF queueCost = << >> \/ percent > 1000 THEN 0
    ELSE Sorted(queueCost, (percent * Len(queueCost)) \div 1000 + 1)

(* syncStat: what is written into a slot; codes whose text does not fit are*)
(* lost.                                                                   *)
Fitting(sRetMsg) == IF Len(sRetMsg) < SlotSize THEN sRetMsg ELSE << >>

Batched(batch) ==
    LET calls == batch.calls
        queueCost == [i \in DOMAIN calls |-> calls[i].cost]
    IN  [Tallied(calls) EXCEPT
            !.totalCount = batch.sent,
            !.p90Time = calcPercent(queueCost, 900),
            !.p99Time = calcPercent(queueCost, 990),
            !.p999Time = calcPercent(queueCost, 999),
            !.retCount = Fitting(map2str(Codes(RetsOf(batch))))]
-----------------------------------------------------------------------------
(* Sums of batches and of sums *)

Mean(x, n, y, m) == IF n + m = 0 THEN x ELSE (x * n + y * m) \div (n + m)

(* Mutant of Sum: the counts are added before the means are taken.         *)
SumFirst(l, r) ==
    LET n == l.totalCount + r.totalCount
    IN  [totalCount |-> n,
         succCount |-> l.succCount + r.succCount,
         failCount |-> l.failCount + r.failCount,
         totalTime |-> l.totalTime + r.totalTime,
         maxTime |-> Max_(l.maxTime, r.maxTime),
         minTime |-> Min_(l.minTime, r.minTime),
         p90Time |-> (l.p90Time * n + r.p90Time * r.totalCount) \div Max_(n, 1),
         p99Time |-> Mean(l.p99Time, l.totalCount, r.p99Time, r.totalCount),
         p999Time |-> Mean(l.p999Time, l.totalCount, r.p999Time, r.totalCount),
         costTimes |-> [i \in 1 .. MAX_STEP_COST |-> l.costTimes[i] + r.costTimes[i]]]

(* operator+= of tagIntfStat and of ResultStat; the codes are added apart. *)
Sum(l, r) ==
    [totalCount |-> l.totalCount + r.totalCount,
     succCount |-> l.succCount + r.succCount,
     failCount |-> l.failCount + r.failCount,
     totalTime |-> l.totalTime + r.totalTime,
     maxTime |-> Max_(l.maxTime, r.maxTime),
     minTime |-> Min_(l.minTime, r.minTime),
     p90Time |-> Mean(l.p90Time, l.totalCount, r.p90Time, r.totalCount),
     p99Time |-> Mean(l.p99Time, l.totalCount, r.p99Time, r.totalCount),
     p999Time |-> Mean(l.p999Time, l.totalCount, r.p999Time, r.totalCount),
     costTimes |-> [i \in 1 .. MAX_STEP_COST |-> l.costTimes[i] + r.costTimes[i]]]

With(stat, ret_map) == [stat |-> stat, ret_map |-> ret_map]
Nothing == With([f \in DOMAIN Cleared \ {"retCount"} |-> Cleared[f]], NoCodes)

Total(items) ==
    LET step(sum, i) == With(Sum(sum.stat, items[i].stat),
                             Added(sum.ret_map, items[i].ret_map))
    IN  Folded(step, Nothing, Len(items))

(* NodeImp::query, and printPeriod: what the ring held.                    *)
queried(batches) ==
    LET item(b) == With(Batched(b), str2map(Batched(b).retCount))
    IN  Total([i \in DOMAIN batches |-> item(batches[i])])

(* AdminServer::daemon: the answers of the nodes, one after the other.     *)
collected(qs) == Total([i \in DOMAIN qs |-> queried(qs[i])])
-----------------------------------------------------------------------------
(* What the figures ought to be, said of the calls themselves.             *)
Joined(seqs) ==
    LET step(s, i) == s \o seqs[i]
    IN  Folded(step, << >>, Len(seqs))

CallsOf(batches) == Joined([i \in DOMAIN batches |-> batches[i].calls])
Calls(qs) == Joined([i \in DOMAIN qs |-> CallsOf(qs[i])])

Summed(ns) ==
    LET step(n, i) == n + ns[i]
    IN  Folded(step, 0, Len(ns))

SentOf(batches) == Summed([i \in DOMAIN batches |-> batches[i].sent])
Sent(qs) == Summed([i \in DOMAIN qs |-> SentOf(qs[i])])

(* The return codes in the batches whose codes, as text, fit in a slot.    *)
CodesFit(b) == Len(map2str(Codes(RetsOf(b)))) < SlotSize
Kept(b) == IF CodesFit(b) THEN RetsOf(b) ELSE << >>
KeptOf(batches) == Joined([i \in DOMAIN batches |-> Kept(batches[i])])
AllKept(qs) == Joined([i \in DOMAIN qs |-> KeptOf(qs[i])])

HowMany(calls, S) == Cardinality({i \in DOMAIN calls : calls[i] \in S})
Costs(calls) == {calls[i].cost : i \in DOMAIN calls}

Succeeded == {c \in Call : c.ret = BM_SUCC}

(* The limits tb prints beside the counts (printCost); what takes longer   *)
(* than the last is shown below it.                                        *)
arrCost == << 0, 10, 30, 50, 100, 500, 3000, 5000, 99999 >>
Class(i) ==
    {c \in Call : /\ i < Len(arrCost) /\ arrCost[i] <= c.cost
                  /\ i < Len(arrCost) - 1 => c.cost < arrCost[i + 1]}

Counted(calls, stat) ==
    /\ stat.succCount = HowMany(calls, Succeeded)
    /\ stat.succCount + stat.failCount = Len(calls)
    /\ \A i \in 1 .. MAX_STEP_COST : stat.costTimes[i] = HowMany(calls, Class(i))
    /\ \A c \in Costs(calls) : stat.minTime <= c /\ c <= stat.maxTime
    /\ stat.maxTime \in IF calls = << >> THEN {0} ELSE Costs(calls)
    /\ stat.minTime = 1000 \/ stat.minTime \in {c \in Costs(calls) : c < 1000}

InOrder(s) ==
    s.p90Time <= s.p99Time /\ s.p99Time <= s.p999Time /\ s.p999Time <= s.maxTime

VARIABLE queries        \* what the nodes are asked for: batches of calls for each

(* However the calls were divided into batches, and the batches among      *)
(* queries and nodes, the total is that of the requests, each call is      *)
(* counted once as what it was, a success or a failure and between the     *)
(* limits printed for its duration, and the extremes are those of the      *)
(* calls.  A return code is counted as often as it was reported, by a call *)
(* or a socket, but for the batches that had too many different ones: none *)
(* of theirs is counted, and none is counted in part (report, syncStat,    *)
(* map2str, str2map and both operator+=).                                  *)
CallsCounted ==
    /\ collected(queries).stat.totalCount = Sent(queries)
    /\ Counted(Calls(queries), collected(queries).stat)
    /\ collected(queries).ret_map = Codes(AllKept(queries))

(* The percentiles that are shown stay in their order, and none is beyond  *)
(* the longest call, though they are means of means, weighted by requests  *)
(* and not by answers.                                                     *)
Percentiles == InOrder(collected(queries).stat)
=============================================================================
