--------------------------- MODULE MonitorProofs ---------------------------
(***************************************************************************)
(* Proofs about the statistics ring, for every size of it.                 *)
(***************************************************************************)
EXTENDS Monitor, SequenceTheorems, FiniteSetTheorems, TLAPS

(* What is left of a sequence after its first t elements. *)
LEMMA WaitingFacts ==
    ASSUME NEW S, NEW s \in Seq(S), NEW t \in 0 .. Len(s)
    PROVE  /\ Len(SubSeq(s, t + 1, Len(s))) = Len(s) - t
           /\ \A x \in S : SubSeq(Append(s, x), t + 1, Len(Append(s, x)))
                             = Append(SubSeq(s, t + 1, Len(s)), x)
           /\ t < Len(s) => SubSeq(s, t + 2, Len(s))
                               = Tail(SubSeq(s, t + 1, Len(s)))
<1>1. Len(SubSeq(s, t + 1, Len(s))) = Len(s) - t
    OBVIOUS
<1>2. ASSUME NEW x \in S
      PROVE  SubSeq(Append(s, x), t + 1, Len(Append(s, x)))
                = Append(SubSeq(s, t + 1, Len(s)), x)
    <2> DEFINE a == Append(s, x)
    <2>1. /\ a \in Seq(S) /\ Len(a) = Len(s) + 1 /\ a[Len(s) + 1] = x
          /\ \A i \in 1 .. Len(s) : a[i] = s[i]
        BY <1>2, AppendProperties
    <2>2. /\ SubSeq(a, t + 1, Len(a)) \in Seq(S)
          /\ Len(SubSeq(a, t + 1, Len(a))) = Len(s) + 1 - t
          /\ \A i \in 1 .. Len(s) + 1 - t : SubSeq(a, t + 1, Len(a))[i] = a[t + i]
        <3> HIDE DEF a
        <3> QED BY <2>1
    <2>3. /\ SubSeq(s, t + 1, Len(s)) \in Seq(S)
          /\ \A i \in 1 .. Len(s) - t : SubSeq(s, t + 1, Len(s))[i] = s[t + i]
        OBVIOUS
    <2> DEFINE l == SubSeq(a, t + 1, Len(a))
               r == SubSeq(s, t + 1, Len(s))
    <2>4. /\ Append(r, x) \in Seq(S) /\ Len(Append(r, x)) = Len(s) - t + 1
          /\ Append(r, x)[Len(s) - t + 1] = x
          /\ \A i \in 1 .. Len(s) - t : Append(r, x)[i] = s[t + i]
        <3>1. r \in Seq(S) /\ Len(r) = Len(s) - t
            BY <1>1, <2>3
        <3>2. \A i \in 1 .. Len(s) - t : r[i] = s[t + i]
            BY <2>3
        <3> HIDE DEF r
        <3> QED
            BY <1>2, <3>1, <3>2, AppendProperties
    <2>5. l \in Seq(S) /\ Len(l) = Len(Append(r, x))
        <3>1. Len(s) \in Nat /\ t \in Nat
            OBVIOUS
        <3>2. l \in Seq(S) /\ Len(l) = Len(s) + 1 - t
            BY <2>2
        <3> HIDE DEF l, r
        <3> QED
            BY <2>4, <3>1, <3>2
    <2>6. \A i \in 1 .. Len(l) : l[i] = Append(r, x)[i]
        <3>1. Len(s) \in Nat /\ t \in 0 .. Len(s)
            OBVIOUS
        <3>2. \A i \in 1 .. Len(s) + 1 - t : l[i] = a[t + i]
            BY <2>2
        <3>3. Len(l) = Len(s) + 1 - t
            BY <2>2
        <3> HIDE DEF a, l, r
        <3>4. \A i \in 1 .. Len(s) - t : l[i] = s[t + i]
            BY <2>1, <3>1, <3>2
        <3>5. l[Len(s) + 1 - t] = x
            BY <2>1, <3>1, <3>2
        <3> QED
            BY <2>4, <3>1, <3>3, <3>4, <3>5
    <2>7. l = Append(r, x)
        <3> HIDE DEF l, r
        <3> QED BY <2>4, <2>5, <2>6, SeqEqual
    <2> QED
        BY <2>7
<1>3. ASSUME t < Len(s)
      PROVE  SubSeq(s, t + 2, Len(s)) = Tail(SubSeq(s, t + 1, Len(s)))
    <2>1. t + 1 \in 1 .. Len(s) /\ Len(s) \in t + 1 .. Len(s)
        BY <1>3
    <2>2. Tail(SubSeq(s, t + 1, Len(s))) = SubSeq(s, (t + 1) + 1, Len(s))
        BY <2>1, HeadTailOfSubSeq
    <2> QED
        BY <2>1, <2>2
<1> QED
    BY <1>1, <1>2, <1>3

USE SizeAssumption

(* The remainder in newTail and newHead only ever wraps the last index. *)
LEMMA SuccWraps ==
    ASSUME NEW i \in Indices
    PROVE  Succ(i) = IF i = ItemSize - 1 THEN 0 ELSE i + 1
<1>1. CASE i = ItemSize - 1
    <2>1. ItemSize % ItemSize = 0
        BY SMT
    <2> QED
        BY <1>1, <2>1 DEF Succ, Indices
<1>2. CASE i # ItemSize - 1
    <2>1. i + 1 \in 0 .. ItemSize - 1
        BY <1>2 DEF Indices
    <2>2. (i + 1) % ItemSize = i + 1
        BY <2>1, SMT
    <2> QED
        BY <1>2, <2>2 DEF Succ
<1> QED
    BY <1>1, <1>2

LEMMA SuccIndex ==
    ASSUME NEW i \in Indices
    PROVE  Succ(i) \in Indices
BY SuccWraps DEF Indices
-----------------------------------------------------------------------------
LEMMA TypeInit == Init => TypeOK
BY DEF Init, TypeOK, SyncPlaces, FetchPlaces, Indices, Items, Locals, NoLocals, NoRead, Batches

(* Filling in one of the locals of a call. *)
LEMMA LocalsUpdate ==
    ASSUME NEW l \in Locals, NEW i \in Indices, NEW n \in Nat
    PROVE  /\ [l EXCEPT !.oldHead = i, !.began = n] \in Locals
           /\ [l EXCEPT !.oldTail = i] \in Locals
           /\ [l EXCEPT !.new = i] \in Locals
BY DEF Locals

LEMMA ItemUpdate ==
    ASSUME NEW it \in Items, NEW b \in Batches
    PROVE  /\ [it EXCEPT !.stat = b] \in Items
           /\ [it EXCEPT !.ret = b] \in Items
           /\ [it EXCEPT !.ret = NoRet] \in Items
BY DEF Items

LEMMA NoLocalsType == NoLocals \in Locals
BY DEF NoLocals, Locals, Indices

LEMMA TypeSync ==
    ASSUME TypeOK, NEW p \in Producers, syncStat(p)
    PROVE  TypeOK'
<1> USE DEF TypeOK, SyncPlaces, FetchPlaces
<1>a. wr[p] \in Locals /\ wr[p].oldTail \in Indices /\ wr[p].new \in Indices
    BY DEF Locals
<1>b. wpc[p] # "idle" => TmpStat(p) \in Batches
    BY DEF TmpStat, Batches
<1>c. Len(claims) \in Nat
    OBVIOUS
<1>1. CASE SyncHead(p)
    <2>1. wr' \in [Producers -> Locals]
        BY <1>1, <1>a, <1>c, LocalsUpdate DEF SyncHead
    <2> QED
        BY <1>1, <2>1 DEF SyncHead, ringVars, consVars, histVars
<1>2. CASE SyncTail(p)
    <2>1. wr' \in [Producers -> Locals]
        BY <1>2, <1>a, LocalsUpdate DEF SyncTail
    <2> QED
        BY <1>2, <2>1 DEF SyncTail, ringVars, consVars, histVars
<1>3. CASE SyncNext(p)
    <2>1. wr' \in [Producers -> Locals]
        <3>1. [wr[p] EXCEPT !.new = Succ(tailIdx)] \in Locals
            BY <1>a, LocalsUpdate, SuccIndex
        <3>2. \/ wr' = [wr EXCEPT ![p] = NoLocals]
              \/ wr' = [wr EXCEPT ![p].new = Succ(tailIdx)]
            BY <1>3 DEF SyncNext, SyncReturn
        <3> QED
            BY <3>1, <3>2, NoLocalsType
    <2> QED
        BY <1>3, <2>1 DEF SyncNext, SyncReturn, ringVars, consVars, histVars
<1>4. CASE SyncCas(p)
    <2>1. wr' \in [Producers -> Locals]
        BY <1>4, NoLocalsType DEF SyncCas, SyncReturn
    <2>2. claims' \in Seq(Batches)
        <3>1. claims' = claims \/ claims' = Append(claims, TmpStat(p))
            BY <1>4 DEF SyncCas
        <3>2. TmpStat(p) \in Batches
            BY <1>4, <1>b DEF SyncCas
        <3>3. Append(claims, TmpStat(p)) \in Seq(Batches)
            BY <3>2
        <3> QED
            BY <3>1, <3>3
    <2>4. tailIdx' \in Indices
        BY <1>4, <1>a DEF SyncCas
    <2>3. /\ wpc' \in [Producers -> SyncPlaces]
          /\ \A q \in Producers : wpc'[q] # "idle" => wpc[q] # "idle"
        BY <1>4 DEF SyncCas, SyncReturn
    <2> QED
        BY <1>4, <2>1, <2>2, <2>3, <2>4 DEF SyncCas, consVars
<1>5. CASE SyncFront(p)
    <2>1. itemList' \in [Indices -> Items]
        BY <1>5, <1>a, <1>b, ItemUpdate DEF SyncFront
    <2> QED
        BY <1>5, <2>1 DEF SyncFront, consVars, histVars
<1>6. CASE SyncBack(p)
    <2>1. itemList' \in [Indices -> Items]
        BY <1>6, <1>a, <1>b, ItemUpdate DEF SyncBack
    <2> QED
        BY <1>6, <2>1 DEF SyncBack, consVars, histVars
<1>7. CASE SyncRet(p)
    <2>1. itemList' \in [Indices -> Items]
        <3>1. \/ itemList' = [itemList EXCEPT ![wr[p].oldTail].ret = TmpStat(p)]
              \/ itemList' = itemList
            BY <1>7 DEF SyncRet
        <3>2. TmpStat(p) \in Batches
            BY <1>7, <1>b DEF SyncRet
        <3>3. [itemList[wr[p].oldTail] EXCEPT !.ret = TmpStat(p)] \in Items
            BY <3>2, <1>a, ItemUpdate
        <3> QED
            BY <3>1, <3>3, <1>a
    <2>2. wr' \in [Producers -> Locals]
        BY <1>7, NoLocalsType DEF SyncRet, SyncReturn
    <2>3. flushed' \in [Producers -> 0 .. MaxFlush]
        <3>0. flushed[p] \in 0 .. MaxFlush /\ flushed[p] < MaxFlush
            BY <1>7 DEF SyncRet
        <3>1. flushed[p] + 1 \in 0 .. MaxFlush
            BY <3>0
        <3>2. flushed' = [flushed EXCEPT ![p] = flushed[p] + 1]
            BY <1>7, Zenon DEF SyncRet
        <3> HIDE DEF TypeOK
        <3>3. flushed \in [Producers -> 0 .. MaxFlush]
            BY DEF TypeOK
        <3> QED
            BY <3>1, <3>2, <3>3
    <2>4. /\ wpc' \in [Producers -> SyncPlaces]
          /\ \A q \in Producers :
                wpc'[q] # "idle" => wpc[q] # "idle" /\ flushed'[q] = flushed[q]
        BY <1>7 DEF SyncRet, SyncReturn
    <2> QED
        BY <1>7, <2>1, <2>2, <2>3, <2>4 DEF SyncRet, consVars, histVars
<1> QED
    BY <1>1, <1>2, <1>3, <1>4, <1>5, <1>6, <1>7 DEF syncStat

Reads == [loc : Locals, stat : Batches \cup {Zero, Old}]

LEMMA ReadUpdate ==
    ASSUME NEW r \in Reads, NEW i \in Indices, NEW n \in Nat,
           NEW s \in Batches \cup {Zero, Old}
    PROVE  /\ [r EXCEPT !.loc.oldHead = i, !.loc.began = n] \in Reads
           /\ [r EXCEPT !.loc.oldTail = i] \in Reads
           /\ [r EXCEPT !.loc.new = i] \in Reads
           /\ [r EXCEPT !.stat = s] \in Reads
           /\ NoRead \in Reads
BY LocalsUpdate, NoLocalsType DEF Reads, NoRead, Locals

LEMMA TypeFetch ==
    ASSUME TypeOK, NEW c \in Consumers, fetch(c)
    PROVE  TypeOK'
<1> USE DEF TypeOK, SyncPlaces, FetchPlaces
<1>a. rd \in [Consumers -> Reads] /\ rd[c] \in Reads
    BY DEF Reads
<1>b. /\ rd[c].loc.oldHead \in Indices /\ rd[c].loc.new \in Indices
      /\ rd[c].stat \in Batches \cup {Zero, Old}
    BY <1>a DEF Reads, Locals
<1>c. itemList[rd[c].loc.oldHead] \in Items
    BY <1>b
<1>d. NoRead \in Reads
    BY NoLocalsType DEF Reads, NoRead
<1>1. CASE FetchHead(c)
    <2>1. rd' \in [Consumers -> Reads]
        BY <1>1, <1>a, ReadUpdate DEF FetchHead
    <2> QED
        BY <1>1, <2>1 DEF FetchHead, Reads, ringVars, prodVars, histVars
<1>2. CASE FetchTail(c)
    <2>1. rd' \in [Consumers -> Reads]
        <3>1. [rd[c] EXCEPT !.loc.oldTail = tailIdx] \in Reads
            BY <1>a, ReadUpdate
        <3>2. \/ rd' = [rd EXCEPT ![c] = NoRead]
              \/ rd' = [rd EXCEPT ![c].loc.oldTail = tailIdx]
            BY <1>2 DEF FetchTail, FetchReturn
        <3> QED
            BY <3>1, <3>2, <1>a, <1>d
    <2> QED
        BY <1>2, <2>1
           DEF FetchTail, FetchReturn, Reads, ringVars, prodVars, histVars
<1>3. CASE FetchNext(c)
    <2>1. rd' \in [Consumers -> Reads]
        BY <1>3, <1>a, ReadUpdate, SuccIndex DEF FetchNext
    <2>2. rpc' \in [Consumers -> FetchPlaces]
        BY <1>3 DEF FetchNext
    <2>3. UNCHANGED <<headIdx, tailIdx, itemList, wpc, wr, flushed,
                      claims, takes, fetched>>
        BY <1>3 DEF FetchNext, ringVars, prodVars, histVars
    <2> QED
        BY <2>1, <2>2, <2>3 DEF Reads
<1>4. CASE FetchCas(c)
    <2>1. rd' \in [Consumers -> Reads]
        BY <1>4, <1>a, <1>d DEF FetchCas, FetchReturn
    <2>2. headIdx' \in Indices /\ takes' \in Nat
        BY <1>4, <1>b DEF FetchCas
    <2>3. rpc' \in [Consumers -> FetchPlaces]
        BY <1>4 DEF FetchCas, FetchReturn
    <2> QED
        BY <1>4, <2>1, <2>2, <2>3 DEF FetchCas, Reads, prodVars
<1>5. CASE FetchFront(c)
    <2>1. itemList[rd[c].loc.oldHead].stat \in Batches \cup {Zero, Old}
        BY <1>c DEF Items
    <2>2. rd' \in [Consumers -> Reads]
        BY <1>5, <1>a, <2>1, ReadUpdate DEF FetchFront
    <2> QED
        BY <1>5, <2>2 DEF FetchFront, Reads, ringVars, prodVars, histVars
<1>6. CASE FetchBack(c)
    <2>1. rd' \in [Consumers -> Reads]
        BY <1>6, <1>a, <1>d DEF FetchBack, FetchReturn
    <2>2. fetched' \in Seq(Items)
        <3> DEFINE it == [stat |-> rd[c].stat,
                          ret  |-> itemList[rd[c].loc.oldHead].ret]
        <3>1. it \in Items
            BY <1>b, <1>c DEF Items
        <3> QED
            BY <1>6, <3>1 DEF FetchBack
    <2> QED
        BY <1>6, <2>1, <2>2
           DEF FetchBack, FetchReturn, Reads, ringVars, prodVars
<1> QED
    BY <1>1, <1>2, <1>3, <1>4, <1>5, <1>6 DEF fetch

LEMMA TypeRestart ==
    ASSUME TypeOK, Reattach \/ Recreate
    PROVE  TypeOK'
<1>1. itemList' \in [Indices -> Items]
    BY DEF TypeOK, Reattach, Recreate, LeftOver, Items
<1>2. NoLocals \in Locals /\ 0 \in Indices /\ 0 \in 0 .. MaxFlush
    BY DEF NoLocals, Locals, Indices
<1>3. FreshCalls
    BY DEF Reattach, Recreate
<1> QED
    BY <1>1, <1>2, <1>3
       DEF TypeOK, FreshCalls, NoRead, SyncPlaces, FetchPlaces

(* Every variable of the ring keeps its type, whatever the interleaving:   *)
(* no index ever leaves the array, however many producers and consumers    *)
(* there are (monitor.cpp, syncStat and fetch).                            *)
THEOREM TypeCorrect == Spec => []TypeOK
<1>1. TypeOK /\ [Next]_vars => TypeOK'
    <2> SUFFICES ASSUME TypeOK, [Next]_vars PROVE TypeOK'
        OBVIOUS
    <2>1. CASE UNCHANGED vars
        BY <2>1 DEF TypeOK, vars, ringVars, prodVars, consVars, histVars
    <2> QED
        BY <2>1, TypeSync, TypeFetch, TypeRestart DEF Next
<1> QED
    BY <1>1, TypeInit, PTL DEF Spec
-----------------------------------------------------------------------------
(* Facts about distances in the ring. *)

LEMMA DistRange ==
    ASSUME NEW h \in Indices, NEW t \in Indices
    PROVE  Dist(h, t) \in 0 .. ItemSize - 1 /\ (Dist(h, t) = 0 <=> h = t)
BY DEF Dist, Indices

LEMMA DistPush ==
    ASSUME NEW h \in Indices, NEW t \in Indices, h # Succ(t)
    PROVE  Dist(h, Succ(t)) = Dist(h, t) + 1
BY SuccWraps, SuccIndex DEF Dist, Indices

LEMMA DistTake ==
    ASSUME NEW h \in Indices, NEW t \in Indices, h # t
    PROVE  Dist(Succ(h), t) = Dist(h, t) - 1
BY SuccWraps, SuccIndex DEF Dist, Indices

(* A ring that was not full for an older head is not full for the head. *)
LEMMA DistOlder ==
    ASSUME NEW o \in Indices, NEW h \in Indices, NEW t \in Indices,
           Dist(h, t) <= Dist(o, t), o # Succ(t)
    PROVE  h # Succ(t)
BY SuccWraps, SuccIndex DEF Dist, Indices
-----------------------------------------------------------------------------
SPSC == /\ \A p, q \in Producers : p = q
        /\ \A c, d \in Consumers : c = d

IndInv == TypeOK /\ RingBound /\ IndexInv

(* What the types give to the steps below. *)
LEMMA TypeFacts ==
    ASSUME TypeOK
    PROVE  /\ headIdx \in Indices /\ tailIdx \in Indices
           /\ Len(claims) \in Nat /\ takes \in Nat
           /\ \A p \in Producers : /\ wr[p].oldHead \in Indices
                                   /\ wr[p].oldTail \in Indices
                                   /\ wr[p].new \in Indices
           /\ \A c \in Consumers : /\ rd[c].loc.oldHead \in Indices
                                   /\ rd[c].loc.oldTail \in Indices
                                   /\ rd[c].loc.new \in Indices
BY DEF TypeOK, Locals

LEMMA BoundInit == Init => RingBound /\ IndexInv
BY DEF Init, RingBound, IndexInv, Pushing, Dist

LEMMA BoundRestart ==
    ASSUME FreshCalls
    PROVE  RingBound' /\ IndexInv'
BY DEF FreshCalls, RingBound, IndexInv, Pushing, Dist

LEMMA BoundSync ==
    ASSUME SPSC, IndInv, NEW p \in Producers, syncStat(p)
    PROVE  RingBound' /\ IndexInv'
<1> USE TypeFacts DEF IndInv
<1>0. wr \in [Producers -> Locals] /\ wpc \in [Producers -> SyncPlaces]
    BY DEF TypeOK
<1>p. \A q \in Producers : q = p
    BY DEF SPSC
<1>1. CASE SyncHead(p)
    <2>1. /\ wr'[p].oldHead = headIdx
          /\ wpc'[p] = "head"
        <3>1. wr' = [wr EXCEPT ![p] = [wr[p] EXCEPT !.oldHead = headIdx,
                                                   !.began = Len(claims)]]
            BY <1>1 DEF SyncHead
        <3>2. [wr[p] EXCEPT !.oldHead = headIdx,
                            !.began = Len(claims)].oldHead = headIdx
            BY <1>0 DEF Locals
        <3> QED
            BY <1>1, <1>0, <3>1, <3>2 DEF SyncHead
    <2>2. Dist(headIdx, tailIdx) \in Nat
        BY DistRange
    <2>3. UNCHANGED <<headIdx, tailIdx, rpc, rd, claims, takes>>
        BY <1>1 DEF SyncHead, ringVars, consVars, histVars
    <2> QED
        BY <1>p, <2>1, <2>2, <2>3 DEF RingBound, IndexInv, Pushing
<1>2. CASE SyncTail(p)
    <2>1. /\ wr'[p].oldHead = wr[p].oldHead
          /\ wr'[p].oldTail = tailIdx
          /\ wpc'[p] = "tail"
        BY <1>2, <1>0 DEF SyncTail, Locals
    <2> QED
        BY <1>2, <1>p, <2>1 
           DEF SyncTail, RingBound, IndexInv, Pushing,
               ringVars, consVars, histVars
<1>3. CASE SyncNext(p)
    <2>1. \/ wpc'[p] = "idle"
          \/ /\ wr[p].oldHead # Succ(tailIdx)
             /\ wr'[p].oldHead = wr[p].oldHead
             /\ wr'[p].oldTail = wr[p].oldTail
             /\ wr'[p].new = Succ(tailIdx)
             /\ wpc'[p] = "next"
        BY <1>3, <1>0 DEF SyncNext, SyncReturn, Locals
    <2> QED
        BY <1>3, <1>p, <2>1 
           DEF SyncNext, RingBound, IndexInv, Pushing,
               ringVars, consVars, histVars
<1>4. CASE SyncCas(p)
    <2>1. /\ tailIdx = wr[p].oldTail /\ wr[p].new = Succ(tailIdx)
          /\ wr[p].oldHead # Succ(tailIdx)
          /\ Dist(headIdx, tailIdx) <= Dist(wr[p].oldHead, tailIdx)
        BY <1>4 DEF SyncCas, IndexInv, Pushing
    <2>2. headIdx # Succ(tailIdx)
        BY <2>1, DistOlder
    <2>3. Dist(headIdx, Succ(tailIdx)) = Dist(headIdx, tailIdx) + 1
        BY <2>2, DistPush
    <2>4. /\ tailIdx' = Succ(tailIdx) /\ Len(claims') = Len(claims) + 1
          /\ UNCHANGED <<headIdx, takes, rd, rpc>> /\ wpc'[p] = "front"
        BY <1>4, <1>0, <2>1 DEF SyncCas, consVars, TypeOK
    <2>5. RingBound'
        BY <2>3, <2>4 DEF RingBound
    <2> QED
        BY <2>2, <2>4, <2>5, <1>p DEF IndexInv, Pushing
<1>5. CASE SyncFront(p) \/ SyncBack(p) \/ SyncRet(p)
    <2>1. wpc'[p] \in {"back", "ret", "idle"}
        BY <1>5, <1>0 DEF SyncFront, SyncBack, SyncRet, SyncReturn
    <2>2. UNCHANGED <<headIdx, tailIdx, rpc, rd, claims, takes>>
        BY <1>5 DEF SyncFront, SyncBack, SyncRet, consVars, histVars
    <2> QED
        BY <1>p, <2>1, <2>2 DEF RingBound, IndexInv, Pushing
<1> QED
    BY <1>1, <1>2, <1>3, <1>4, <1>5 DEF syncStat

LEMMA BoundFetch ==
    ASSUME SPSC, IndInv, NEW c \in Consumers, fetch(c)
    PROVE  RingBound' /\ IndexInv'
<1> USE TypeFacts DEF IndInv
<1>0. /\ rd \in [Consumers -> [loc : Locals, stat : Batches \cup {Zero, Old}]]
      /\ rpc \in [Consumers -> FetchPlaces]
    BY DEF TypeOK
<1>c. \A d \in Consumers : d = c
    BY DEF SPSC
<1>1. CASE FetchHead(c)
    <2>1. rd'[c].loc.oldHead = headIdx /\ rpc'[c] = "head"
        BY <1>1, <1>0 DEF FetchHead, Locals
    <2> QED
        BY <1>1, <1>c, <2>1
           DEF FetchHead, RingBound, IndexInv, Pushing,
               ringVars, prodVars, histVars
<1>2. CASE FetchTail(c)
    <2>1. \/ rpc'[c] = "idle"
          \/ /\ rd[c].loc.oldHead # tailIdx
             /\ rd'[c].loc.oldHead = rd[c].loc.oldHead
             /\ rpc'[c] = "tail"
        BY <1>2, <1>0 DEF FetchTail, FetchReturn, Locals
    <2> QED
        BY <1>2, <1>c, <2>1
           DEF FetchTail, RingBound, IndexInv, Pushing,
               ringVars, prodVars, histVars
<1>3. CASE FetchNext(c)
    <2>1. /\ rd'[c].loc.oldHead = rd[c].loc.oldHead
          /\ rd'[c].loc.new = Succ(headIdx)
          /\ rpc'[c] = "next"
        BY <1>3, <1>0 DEF FetchNext, Locals
    <2> QED
        BY <1>3, <1>c, <2>1
           DEF FetchNext, RingBound, IndexInv, Pushing,
               ringVars, prodVars, histVars
<1>4. CASE FetchCas(c)
    <2>1. /\ headIdx # tailIdx
          /\ headIdx' = Succ(headIdx) /\ takes' = takes + 1
          /\ rpc'[c] = "front"
          /\ UNCHANGED <<tailIdx, claims, wpc, wr>>
        BY <1>4, <1>0 DEF FetchCas, IndexInv, prodVars
    <2>2. Dist(Succ(headIdx), tailIdx) = Dist(headIdx, tailIdx) - 1
        BY <2>1, DistTake
    <2>3. Dist(headIdx, tailIdx) \in Nat
        BY DistRange
    <2>4. RingBound'
        BY <2>1, <2>2 DEF RingBound
    <2>5. \A p \in Producers :
             Pushing(p) => Dist(headIdx', tailIdx) <= Dist(wr[p].oldHead, tailIdx)
        <3> SUFFICES ASSUME NEW p \in Producers, Pushing(p)
                     PROVE  Dist(headIdx', tailIdx) <= Dist(wr[p].oldHead, tailIdx)
            OBVIOUS
        <3>1. Dist(headIdx, tailIdx) <= Dist(wr[p].oldHead, tailIdx)
            BY DEF IndexInv
        <3>2. Dist(wr[p].oldHead, tailIdx) \in Nat
            BY DistRange
        <3> QED
            BY <2>1, <2>2, <2>3, <3>1, <3>2
    <2> QED
        BY <2>1, <2>4, <2>5, <1>c DEF IndexInv, Pushing
<1>5. CASE FetchFront(c) \/ FetchBack(c)
    <2>1. rpc'[c] \in {"back", "idle"}
        BY <1>5, <1>0 DEF FetchFront, FetchBack, FetchReturn
    <2>2. UNCHANGED <<headIdx, tailIdx, wpc, wr, claims, takes>>
        BY <1>5 DEF FetchFront, FetchBack, ringVars, prodVars, histVars
    <2> QED
        BY <1>c, <2>1, <2>2 DEF RingBound, IndexInv, Pushing
<1> QED
    BY <1>1, <1>2, <1>3, <1>4, <1>5 DEF fetch

LEMMA BoundStep ==
    ASSUME SPSC, IndInv, [Next]_vars
    PROVE  RingBound' /\ IndexInv'
<1>1. CASE UNCHANGED vars
    BY <1>1 DEF IndInv, RingBound, IndexInv, Pushing,
                vars, ringVars, prodVars, consVars, histVars
<1>2. CASE Reattach \/ Recreate
    BY <1>2, BoundRestart DEF Reattach, Recreate
<1> QED
    BY <1>1, <1>2, BoundSync, BoundFetch DEF Next

(* With one producer and one consumer the tail never laps the head, though *)
(* syncStat reads the head before the tail and takes the new tail from a   *)
(* second read: the indices always give the number of batches that wait.   *)
THEOREM RingNeverLapped == 
    ASSUME SPSC
    PROVE  Spec => []RingBound
<1>1. Init => RingBound /\ IndexInv
    BY BoundInit
<1>2. TypeOK /\ RingBound /\ IndexInv /\ [Next]_vars => (RingBound /\ IndexInv)'
    BY BoundStep DEF IndInv
<1> QED
    BY <1>1, <1>2, TypeCorrect, PTL DEF Spec
-----------------------------------------------------------------------------
(* The queue that the ring stands for. *)

Waiting == SubSeq(claims, takes + 1, Len(claims))

LEMMA QueueSync ==
    ASSUME SPSC, IndInv, NEW p \in Producers, syncStat(p)
    PROVE  \/ \E x \in Batches : Len(Waiting) < ItemSize - 1
                                 /\ Waiting' = Append(Waiting, x)
           \/ Waiting' = Waiting
<1>1. CASE UNCHANGED <<claims, takes>>
    BY <1>1 DEF Waiting
<1>2. CASE ~ UNCHANGED <<claims, takes>>
    <2>1. SyncCas(p) /\ tailIdx = wr[p].oldTail
        BY <1>2 DEF syncStat, SyncHead, SyncTail, SyncNext, SyncCas,
                    SyncFront, SyncBack, SyncRet, histVars
    <2>2. claims' = Append(claims, TmpStat(p)) /\ takes' = takes
        BY <2>1 DEF SyncCas
    <2>3. TmpStat(p) \in Batches
        <3>1. wpc[p] = "next"
            BY <2>1 DEF SyncCas
        <3>2. flushed[p] \in 0 .. MaxFlush /\ flushed[p] < MaxFlush
            BY <3>1 DEF IndInv, TypeOK
        <3>3. flushed[p] + 1 \in 1 .. MaxFlush
            BY <3>2
        <3> QED
            BY <3>3 DEF TmpStat, Batches
    <2>4. claims \in Seq(Batches)
        BY DEF IndInv, TypeOK
    <2>5. RingBound /\ RingBound'
        BY BoundSync DEF IndInv
    <2>6. /\ headIdx \in Indices /\ headIdx' \in Indices
          /\ tailIdx \in Indices /\ tailIdx' \in Indices
          /\ takes \in Nat /\ Len(claims) \in Nat
        BY TypeSync, TypeFacts DEF IndInv, TypeOK
    <2>7. Dist(headIdx, tailIdx) \in 0 .. ItemSize - 1
        BY <2>6, DistRange
    <2>8. Dist(headIdx', tailIdx') \in 0 .. ItemSize - 1
        BY <2>6, DistRange
    <2>9. Len(claims') = Len(claims) + 1
        BY <2>2, <2>3, <2>4
    <2>10. Dist(headIdx, tailIdx) = Len(claims) - takes
        BY <2>5 DEF RingBound
    <2>11. Dist(headIdx', tailIdx') = Len(claims) + 1 - takes
        <3>1. Len(claims') - takes' = Dist(headIdx', tailIdx')
            BY <2>5 DEF RingBound, Dist
        <3> QED
            BY <2>2, <2>6, <2>9, <3>1
    <2>12. takes \in 0 .. Len(claims) /\ Len(claims) - takes < ItemSize - 1
        BY <2>6, <2>7, <2>8, <2>10, <2>11
    <2> QED
        BY <2>2, <2>3, <2>4, <2>12, WaitingFacts DEF Waiting
<1> QED
    BY <1>1, <1>2

LEMMA QueueFetch ==
    ASSUME SPSC, IndInv, NEW c \in Consumers, fetch(c)
    PROVE  \/ Waiting # << >> /\ Waiting' = Tail(Waiting)
           \/ Waiting' = Waiting
<1>1. CASE UNCHANGED <<claims, takes>>
    BY <1>1 DEF Waiting
<1>2. CASE ~ UNCHANGED <<claims, takes>>
    <2>1. FetchCas(c)
        BY <1>2 DEF fetch, FetchHead, FetchTail, FetchNext, FetchCas,
                    FetchFront, FetchBack, histVars
    <2>2. claims' = claims /\ takes' = takes + 1
        BY <2>1, <1>2 DEF FetchCas
    <2>3. headIdx # tailIdx
        BY <2>1 DEF FetchCas, IndInv, IndexInv
    <2>4. Dist(headIdx, tailIdx) \in 1 .. ItemSize - 1
        BY <2>3, TypeFacts, DistRange DEF IndInv
    <2>5. /\ takes \in 0 .. Len(claims) /\ takes < Len(claims)
          /\ claims \in Seq(Batches)
        BY <2>4, TypeFacts DEF IndInv, RingBound, TypeOK
    <2>6. takes' + 1 = takes + 2
        BY <2>2, <2>5
    <2>7. Waiting' = Tail(Waiting)
        BY <2>2, <2>5, <2>6, WaitingFacts DEF Waiting
    <2>8. Len(Waiting) # 0
        BY <2>5, WaitingFacts DEF Waiting
    <2> QED
        BY <2>7, <2>8
<1> QED
    BY <1>1, <1>2

LEMMA QueueRestart ==
    ASSUME FreshCalls
    PROVE  Waiting' = << >>
<1>1. claims' = << >> /\ takes' = 0
    BY DEF FreshCalls
<1>2. SubSeq(claims', takes' + 1, Len(claims')) = << >>
    BY <1>1, SubSeqEmpty
<1> QED
    BY <1>2 DEF Waiting

(* With one producer and one consumer the ring is a bounded FIFO queue:    *)
(* every step of syncStat, fetch and initialize puts one batch, takes the  *)
(* oldest one, empties the queue, or changes nothing.                      *)
THEOREM RingIsQueue ==
    ASSUME SPSC
    PROVE  Spec => IsQueue
<1>1. Init => Queue!Init
    <2>1. Init => SubSeq(claims, takes + 1, Len(claims)) = << >>
        BY SubSeqEmpty DEF Init
    <2> QED
        BY <2>1 DEF Queue!Init
<1>2. TypeOK /\ RingBound /\ IndexInv /\ [Next]_vars
         => [Queue!Next]_(SubSeq(claims, takes + 1, Len(claims)))
    <2> SUFFICES ASSUME IndInv, [Next]_vars
                 PROVE  [Queue!Next]_(SubSeq(claims, takes + 1, Len(claims)))
        BY DEF IndInv
    <2> USE DEF Queue!Next, Queue!Put, Queue!Take, Queue!Reset
    <2>1. ASSUME NEW p \in Producers, syncStat(p)
          PROVE  [Queue!Next]_(SubSeq(claims, takes + 1, Len(claims)))
        BY <2>1, QueueSync DEF Waiting
    <2>2. ASSUME NEW c \in Consumers, fetch(c)
          PROVE  [Queue!Next]_(SubSeq(claims, takes + 1, Len(claims)))
        BY <2>2, QueueFetch DEF Waiting
    <2>3. CASE Reattach \/ Recreate
        BY <2>3, QueueRestart DEF Reattach, Recreate, Waiting
    <2>4. CASE UNCHANGED vars
        BY <2>4 DEF vars, histVars
    <2> QED
        BY <2>1, <2>2, <2>3, <2>4 DEF Next
<1>3. Init => RingBound /\ IndexInv
    BY BoundInit
<1>4. TypeOK /\ RingBound /\ IndexInv /\ [Next]_vars => (RingBound /\ IndexInv)'
    BY BoundStep DEF IndInv
<1> QED
    BY <1>1, <1>2, <1>3, <1>4, TypeCorrect, PTL DEF Spec, IsQueue, Queue!Spec
-----------------------------------------------------------------------------
(* The slots of the batches that wait. *)

(* The slot before the tail is that of the last batch that waits, and of   *)
(* no other.                                                               *)
LEMMA LastSlot ==
    ASSUME headIdx \in Indices, NEW o \in Indices, NEW k \in Nat,
           k < Dist(headIdx, Succ(o))
    PROVE  SlotAt(k) = o <=> k = Dist(headIdx, Succ(o)) - 1
BY SuccWraps, SuccIndex DEF Dist, SlotAt, Indices

LEMMA SlotIndex ==
    ASSUME headIdx \in Indices, NEW k \in 0 .. ItemSize - 1
    PROVE  SlotAt(k) \in Indices
BY DEF SlotAt, Indices

(* Taking one batch shifts the others by one place. *)
LEMMA NextSlot ==
    ASSUME headIdx \in Indices, NEW k \in 0 .. ItemSize - 2,
           headIdx' = Succ(headIdx)
    PROVE  SlotAt(k)' = SlotAt(k + 1)
BY SuccWraps DEF SlotAt, Indices

CopyIndInv == IndInv /\ CopyInv /\ UnreadIntact

LEMMA CopyInit == Init => CopyInv /\ UnreadIntact
BY DEF Init, CopyInv, UnreadIntact, Copying

LEMMA CopyRestart ==
    ASSUME FreshCalls
    PROVE  CopyInv' /\ UnreadIntact'
BY DEF FreshCalls, CopyInv, UnreadIntact, Copying

(* The number of batches that wait. *)
LEMMA Waits ==
    ASSUME IndInv
    PROVE  /\ Len(claims) - takes = Dist(headIdx, tailIdx)
           /\ Len(claims) - takes \in 0 .. ItemSize - 1
BY TypeFacts, DistRange DEF IndInv, RingBound

(* A write into the slot of the batch being copied touches no other batch  *)
(* that waits.                                                             *)
LEMMA OtherSlots ==
    ASSUME SPSC, CopyIndInv, NEW p \in Producers, Copying(p),
           NEW k \in 0 .. Len(claims) - takes - 1
    PROVE  /\ claims[takes + k + 1] \in Batches
           /\ claims[takes + k + 1] = <<p, takes + k + 1>>
           /\ SlotAt(k) \in Indices
           /\ SlotAt(k) = wr[p].oldTail <=> takes + k + 1 = flushed[p] + 1
<1>1. IndInv /\ TypeOK /\ takes + k + 1 \in 1 .. Len(claims)
    BY TypeFacts, Waits DEF CopyIndInv, IndInv
<1>2. claims[takes + k + 1] \in Batches /\ claims[takes + k + 1][2] = takes + k + 1
    BY <1>1, TypeFacts DEF CopyIndInv, CopyInv, TypeOK
<1>3. claims[takes + k + 1] = <<p, takes + k + 1>>
    BY <1>2 DEF SPSC, Batches
<1>4. SlotAt(k) \in Indices /\ headIdx \in Indices
    BY <1>1, TypeFacts, Waits, SlotIndex DEF CopyIndInv
<1>5. Succ(wr[p].oldTail) = tailIdx /\ Len(claims) = flushed[p] + 1
    BY DEF CopyIndInv, CopyInv
<1>6. SlotAt(k) = wr[p].oldTail <=> k = Len(claims) - takes - 1
    <2>1. k < Dist(headIdx, Succ(wr[p].oldTail))
        BY <1>1, <1>5, TypeFacts, Waits DEF CopyIndInv
    <2> QED
        BY <1>1, <1>5, <2>1, TypeFacts, Waits, LastSlot DEF CopyIndInv
<1>7. k = Len(claims) - takes - 1 <=> takes + k + 1 = flushed[p] + 1
    <2>1. takes \in Int /\ Len(claims) \in Int /\ k \in Int
        BY <1>1, TypeFacts DEF TypeOK
    <2> QED
        BY <1>5, <2>1
<1> QED
    BY <1>2, <1>3, <1>4, <1>6, <1>7

LEMMA CopySync ==
    ASSUME SPSC, CopyIndInv, NEW p \in Producers, syncStat(p)
    PROVE  CopyInv' /\ UnreadIntact'
<1> USE TypeFacts DEF CopyIndInv
<1>a. /\ TypeOK /\ itemList \in [Indices -> Items]
      /\ wr \in [Producers -> Locals] /\ wpc \in [Producers -> SyncPlaces]
      /\ flushed \in [Producers -> 0 .. MaxFlush]
      /\ claims \in Seq(Batches)
    BY DEF IndInv, TypeOK
<1>b. wr[p].oldTail \in Indices /\ itemList[wr[p].oldTail] \in Items
    BY <1>a
<1>p. \A q \in Producers : q = p
    BY DEF SPSC
<1>1. CASE SyncHead(p) \/ SyncTail(p) \/ SyncNext(p)
    <2>1. wpc'[p] \in {"idle", "head", "tail", "next"}
        BY <1>1, <1>a DEF SyncHead, SyncTail, SyncNext, SyncReturn
    <2>2. wpc[p] \in {"idle", "head", "tail"}
        BY <1>1 DEF SyncHead, SyncTail, SyncNext
    <2>3. UNCHANGED <<headIdx, tailIdx, itemList, flushed, claims, takes>>
        BY <1>1 DEF SyncHead, SyncTail, SyncNext, ringVars, histVars
    <2>4. CopyInv'
        BY <1>p, <2>1, <2>2, <2>3 DEF CopyInv, Copying
    <2> QED
        BY <2>3, <2>4 DEF UnreadIntact, SlotAt
<1>2. CASE SyncCas(p)
    <2>1. /\ wr[p].oldTail = tailIdx /\ wr[p].new = Succ(tailIdx)
          /\ wpc[p] = "next"
        BY <1>2 DEF SyncCas, IndInv, IndexInv
    <2>2. /\ claims' = Append(claims, TmpStat(p)) /\ wr' = wr
          /\ tailIdx' = Succ(tailIdx) /\ wpc'[p] = "front"
          /\ UNCHANGED <<headIdx, itemList, flushed, takes>>
        BY <1>2, <1>a, <2>1 DEF SyncCas
    <2>3. Len(claims) = flushed[p]
        BY <2>1 DEF CopyInv, Copying
    <2>4. TmpStat(p) \in Batches
        <3>1. flushed[p] \in 0 .. MaxFlush /\ flushed[p] < MaxFlush
            BY <2>1, <1>a DEF TypeOK
        <3> QED
            BY <3>1 DEF TmpStat, Batches
    <2>5. /\ Len(claims') = Len(claims) + 1
          /\ claims'[Len(claims) + 1] = TmpStat(p)
          /\ \A i \in 1 .. Len(claims) : claims'[i] = claims[i]
        BY <1>a, <2>2, <2>4, AppendProperties
    <2>6. TmpStat(p)[1] = p /\ TmpStat(p)[2] = Len(claims) + 1
        BY <2>3 DEF TmpStat
    <2>7. CopyInv'
        <3>1. \A i \in 1 .. Len(claims') : claims'[i][2] = i
            <4> SUFFICES ASSUME NEW i \in 1 .. Len(claims')
                         PROVE  claims'[i][2] = i
                OBVIOUS
            <4>1. CASE i = Len(claims) + 1
                BY <4>1, <2>5, <2>6
            <4>2. CASE i # Len(claims) + 1
                <5>1. i \in 1 .. Len(claims)
                    BY <1>a, <4>2, <2>5
                <5> QED
                    BY <5>1, <2>5 DEF CopyInv
            <4> QED
                BY <4>1, <4>2
        <3>2. ~ (wpc'[p] \in {"back", "ret"}) /\ wpc'[p] # "ret"
            BY <2>2
        <3>3. Len(claims') = flushed'[p] + 1 /\ Succ(wr'[p].oldTail) = tailIdx'
            BY <2>1, <2>2, <2>3, <2>5
        <3>4. Copying(p)'
            BY <2>2 DEF Copying
        <3> QED
            BY <1>p, <3>1, <3>2, <3>3, <3>4 DEF CopyInv, Succ
    <2>8. Len(claims') - takes' - 1 = Len(claims) - takes
        <3>1. takes' = takes
            BY <2>2
        <3>2. Len(claims') = Len(claims) + 1
            BY <2>5
        <3>3. takes \in Nat /\ Len(claims) \in Nat
            BY <1>a
        <3> QED
            BY <3>1, <3>2, <3>3
    <2>9. UnreadIntact'
        <3> SUFFICES ASSUME NEW k \in 0 .. Len(claims) - takes,
                            claims'[takes' + k + 1][2]
                                <= flushed'[claims'[takes' + k + 1][1]]
                     PROVE  /\ itemList'[SlotAt(k)'].stat = claims'[takes' + k + 1]
                            /\ itemList'[SlotAt(k)'].ret
                                 \in {claims'[takes' + k + 1], NoRet}
            BY <2>8 DEF UnreadIntact
        <3>a. takes \in Nat /\ Len(claims) \in Nat
            BY <1>a
        <3>1. takes + k + 1 \in 1 .. Len(claims) + 1
            BY <3>a
        <3>b. SlotAt(k)' = SlotAt(k)
            BY <2>2 DEF SlotAt
        <3>2. takes + k + 1 # Len(claims) + 1
            BY <2>2, <2>3, <2>5, <2>6
        <3>3. k \in 0 .. Len(claims) - takes - 1
            BY <3>a, <3>2
        <3>4. claims'[takes' + k + 1] = claims[takes + k + 1]
            BY <2>2, <2>5, <3>1, <3>2
        <3> QED
            BY <2>2, <3>b, <3>3, <3>4 DEF UnreadIntact
    <2> QED
        BY <2>7, <2>9
<1>3. CASE SyncFront(p)
    <2>1. /\ Copying(p) /\ Copying(p)' /\ wpc'[p] = "back" /\ wpc[p] = "front"
          /\ UNCHANGED <<headIdx, tailIdx, wr, flushed, claims, takes>>
        BY <1>3, <1>a DEF SyncFront, Copying, histVars
    <2>2. /\ itemList'[wr[p].oldTail].stat = TmpStat(p)
          /\ \A i \in Indices : i # wr[p].oldTail => itemList'[i] = itemList[i]
        <3>1. itemList' = [itemList EXCEPT ![wr[p].oldTail] =
                            [itemList[wr[p].oldTail] EXCEPT !.stat = TmpStat(p)]]
            BY <1>3 DEF SyncFront
        <3>2. [itemList[wr[p].oldTail] EXCEPT !.stat = TmpStat(p)].stat = TmpStat(p)
            BY <1>b DEF Items
        <3> QED
            BY <1>a, <1>b, <3>1, <3>2
    <2>3. CopyInv'
        BY <1>p, <2>1, <2>2 DEF CopyInv, TmpStat
    <2>4. UnreadIntact'
        <3> SUFFICES ASSUME NEW k \in 0 .. Len(claims) - takes - 1,
                            claims[takes + k + 1][2]
                                <= flushed[claims[takes + k + 1][1]]
                     PROVE  /\ itemList'[SlotAt(k)].stat = claims[takes + k + 1]
                            /\ itemList'[SlotAt(k)].ret
                                 \in {claims[takes + k + 1], NoRet}
            BY <2>1 DEF UnreadIntact, SlotAt
        <3>1. SlotAt(k) \in Indices /\ SlotAt(k) # wr[p].oldTail
            BY <2>1, OtherSlots, <1>a
        <3> QED
            BY <2>2, <3>1 DEF UnreadIntact
    <2> QED
        BY <2>3, <2>4
<1>4. CASE SyncBack(p)
    <2>1. /\ Copying(p) /\ Copying(p)' /\ wpc'[p] = "ret" /\ wpc[p] = "back"
          /\ UNCHANGED <<headIdx, tailIdx, wr, flushed, claims, takes>>
        BY <1>4, <1>a DEF SyncBack, Copying, histVars
    <2>2. /\ itemList'[wr[p].oldTail].ret = NoRet
          /\ itemList'[wr[p].oldTail].stat = itemList[wr[p].oldTail].stat
          /\ \A i \in Indices : i # wr[p].oldTail => itemList'[i] = itemList[i]
        <3>1. itemList' = [itemList EXCEPT ![wr[p].oldTail] =
                            [itemList[wr[p].oldTail] EXCEPT !.ret = NoRet]]
            BY <1>4 DEF SyncBack
        <3>2. /\ [itemList[wr[p].oldTail] EXCEPT !.ret = NoRet].ret = NoRet
              /\ [itemList[wr[p].oldTail] EXCEPT !.ret = NoRet].stat
                    = itemList[wr[p].oldTail].stat
            BY <1>b DEF Items
        <3> QED
            BY <1>a, <1>b, <3>1, <3>2
    <2>3. CopyInv'
        BY <1>p, <2>1, <2>2 DEF CopyInv, TmpStat
    <2>4. UnreadIntact'
        <3> SUFFICES ASSUME NEW k \in 0 .. Len(claims) - takes - 1,
                            claims[takes + k + 1][2]
                                <= flushed[claims[takes + k + 1][1]]
                     PROVE  /\ itemList'[SlotAt(k)].stat = claims[takes + k + 1]
                            /\ itemList'[SlotAt(k)].ret
                                 \in {claims[takes + k + 1], NoRet}
            BY <2>1 DEF UnreadIntact, SlotAt
        <3>1. SlotAt(k) \in Indices /\ SlotAt(k) # wr[p].oldTail
            BY <2>1, OtherSlots, <1>a
        <3> QED
            BY <2>2, <3>1 DEF UnreadIntact
    <2> QED
        BY <2>3, <2>4
<1>5. CASE SyncRet(p)
    <2>1. /\ Copying(p) /\ wpc[p] = "ret" /\ wpc'[p] = "idle"
          /\ flushed' = [flushed EXCEPT ![p] = flushed[p] + 1]
          /\ UNCHANGED <<headIdx, tailIdx, claims, takes>>
        BY <1>5, <1>a DEF SyncRet, SyncReturn, Copying, histVars
    <2>2. /\ itemList'[wr[p].oldTail].stat = TmpStat(p)
          /\ itemList'[wr[p].oldTail].ret \in {TmpStat(p), NoRet}
          /\ \A i \in Indices : i # wr[p].oldTail => itemList'[i] = itemList[i]
        <3>1. /\ itemList[wr[p].oldTail].stat = TmpStat(p)
              /\ itemList[wr[p].oldTail].ret = NoRet
            BY <2>1 DEF CopyInv
        <3>2. CASE itemList' = itemList
            BY <3>1, <3>2
        <3>3. CASE itemList' = [itemList EXCEPT ![wr[p].oldTail].ret = TmpStat(p)]
            <4>1. itemList' = [itemList EXCEPT ![wr[p].oldTail] =
                            [itemList[wr[p].oldTail] EXCEPT !.ret = TmpStat(p)]]
                BY <3>3
            <4>2. /\ [itemList[wr[p].oldTail] EXCEPT !.ret = TmpStat(p)].ret 
                        = TmpStat(p)
                  /\ [itemList[wr[p].oldTail] EXCEPT !.ret = TmpStat(p)].stat
                        = itemList[wr[p].oldTail].stat
                BY <1>b DEF Items
            <4> QED
                BY <1>a, <1>b, <3>1, <4>1, <4>2
        <3> QED
            BY <1>5, <3>2, <3>3 DEF SyncRet
    <2>3. flushed'[p] = flushed[p] + 1
        BY <1>a, <2>1
    <2>4. CopyInv'
        BY <1>p, <2>1, <2>3 DEF CopyInv, Copying
    <2>5. UnreadIntact'
        <3> SUFFICES ASSUME NEW k \in 0 .. Len(claims) - takes - 1
                     PROVE  /\ itemList'[SlotAt(k)].stat = claims[takes + k + 1]
                            /\ itemList'[SlotAt(k)].ret
                                 \in {claims[takes + k + 1], NoRet}
            BY <2>1 DEF UnreadIntact, SlotAt
        <3>1. /\ claims[takes + k + 1] = <<p, takes + k + 1>>
              /\ SlotAt(k) \in Indices
              /\ SlotAt(k) = wr[p].oldTail <=> takes + k + 1 = flushed[p] + 1
            BY <2>1, OtherSlots, <1>a
        <3>2. CASE SlotAt(k) = wr[p].oldTail
            <4>1. claims[takes + k + 1] = TmpStat(p)
                BY <3>1, <3>2 DEF TmpStat
            <4> QED
                BY <2>2, <3>2, <4>1
        <3>3. CASE SlotAt(k) # wr[p].oldTail
            <4>1. takes + k + 1 <= flushed[p]
                <5>1. Len(claims) = flushed[p] + 1
                    BY <2>1 DEF CopyInv
                <5> QED
                    BY <3>1, <3>3, <5>1, <1>a
            <4>2. claims[takes + k + 1][2] <= flushed[claims[takes + k + 1][1]]
                BY <3>1, <4>1
            <4> QED
                BY <2>2, <3>1, <3>3, <4>2 DEF UnreadIntact
        <3> QED
            BY <3>2, <3>3
    <2> QED
        BY <2>4, <2>5
<1> QED
    BY <1>1, <1>2, <1>3, <1>4, <1>5 DEF syncStat

LEMMA CopyFetch ==
    ASSUME SPSC, CopyIndInv, NEW c \in Consumers, fetch(c)
    PROVE  CopyInv' /\ UnreadIntact'
<1> USE TypeFacts, Waits DEF CopyIndInv
<1>1. UNCHANGED <<tailIdx, itemList, wpc, wr, flushed, claims>>
    BY DEF fetch, FetchHead, FetchTail, FetchNext, FetchCas, FetchFront,
           FetchBack, ringVars, prodVars, histVars
<1>2. CopyInv'
    BY <1>1 DEF CopyInv, Copying, TmpStat
<1>3. CASE UNCHANGED <<headIdx, takes>>
    BY <1>1, <1>2, <1>3 DEF UnreadIntact, SlotAt
<1>4. CASE ~ UNCHANGED <<headIdx, takes>>
    <2>1. FetchCas(c)
        BY <1>4 DEF fetch, FetchHead, FetchTail, FetchNext, FetchCas,
                    FetchFront, FetchBack, ringVars, histVars
    <2>2. headIdx' = Succ(headIdx) /\ takes' = takes + 1
        BY <1>4, <2>1 DEF FetchCas, IndInv, IndexInv
    <2>3. IndInv /\ TypeOK
        BY DEF IndInv
    <2>4. UnreadIntact'
        <3> SUFFICES ASSUME NEW k \in 0 .. Len(claims) - (takes + 1) - 1,
                            claims[takes + 1 + k + 1][2]
                                <= flushed[claims[takes + 1 + k + 1][1]]
                     PROVE  /\ itemList[SlotAt(k)'].stat = claims[takes + 1 + k + 1]
                            /\ itemList[SlotAt(k)'].ret
                                 \in {claims[takes + 1 + k + 1], NoRet}
            BY <1>1, <2>2 DEF UnreadIntact
        <3>1. /\ k + 1 \in 0 .. Len(claims) - takes - 1
              /\ k \in 0 .. ItemSize - 2
              /\ takes + 1 + k + 1 = takes + (k + 1) + 1
            <4>1. takes \in Nat /\ Len(claims) \in Nat /\ ItemSize \in Nat
                BY <2>3
            <4>2. Len(claims) - takes \in 0 .. ItemSize - 1
                BY <2>3
            <4> HIDE TypeFacts, Waits DEF CopyIndInv
            <4> QED
                BY <4>1, <4>2
        <3>2. headIdx \in Indices
            BY <2>3
        <3>3. SlotAt(k)' = SlotAt(k + 1)
            BY <2>2, <3>1, <3>2, NextSlot
        <3>4. UnreadIntact
            OBVIOUS
        <3> HIDE DEF CopyIndInv
        <3> QED
            BY <3>1, <3>3, <3>4 DEF UnreadIntact
    <2> QED
        BY <1>2, <2>4
<1> QED
    BY <1>3, <1>4

LEMMA CopyStep ==
    ASSUME SPSC, CopyIndInv, [Next]_vars
    PROVE  CopyInv' /\ UnreadIntact'
<1>1. CASE UNCHANGED vars
    BY <1>1 DEF CopyIndInv, CopyInv, UnreadIntact, Copying, TmpStat, SlotAt,
                vars, ringVars, prodVars, consVars, histVars
<1>2. CASE Reattach \/ Recreate
    BY <1>2, CopyRestart DEF Reattach, Recreate
<1> QED
    BY <1>1, <1>2, CopySync, CopyFetch DEF Next

(* With one producer and one consumer what the run checks of the ring's    *)
(* inner state, RingInv, holds always: the indices agree with what was     *)
(* pushed and taken, the copy under way has the slot behind the tail, and  *)
(* the other slots keep what was written to them.                          *)
THEOREM RingInvAlways ==
    ASSUME SPSC
    PROVE  Spec => []RingInv
<1>1. Init => RingInv
    BY BoundInit, CopyInit DEF RingInv
<1>2. TypeOK /\ RingInv /\ [Next]_vars => RingInv'
    BY BoundStep, CopyStep DEF RingInv, CopyIndInv, IndInv
<1> QED
    BY <1>1, <1>2, TypeCorrect, PTL DEF Spec

(* So a batch whose copy is finished stays whole in its slot until it is   *)
(* taken, whatever the size of the ring: the producer never comes round.   *)
THEOREM UnreadStaysIntact ==
    ASSUME SPSC
    PROVE  Spec => []UnreadIntact
<1>1. Spec => []RingInv
    BY RingInvAlways
<1>2. RingInv => UnreadIntact
    BY DEF RingInv
<1> QED
    BY <1>1, <1>2, PTL
-----------------------------------------------------------------------------
(* Several producers and consumers, under the assumptions on timing of     *)
(* PacedSpec.                                                              *)

(* Slots as remainders. *)

LEMMA SlotDivides ==
    ASSUME NEW n \in Nat
    PROVE  /\ n \div ItemSize \in Int /\ SlotOf(n) \in Indices
           /\ n = ItemSize * (n \div ItemSize) + SlotOf(n)
<1>1. n = ItemSize * (n \div ItemSize) + (n % ItemSize)
    BY Z3
<1>2. n % ItemSize \in 0 .. ItemSize - 1 /\ n \div ItemSize \in Int
    BY Z3
<1> QED
    BY <1>1, <1>2 DEF SlotOf, Indices

LEMMA RemainderUnique ==
    ASSUME NEW q \in Int, NEW r \in Indices, NEW n \in Nat,
           n = ItemSize * q + r
    PROVE  SlotOf(n) = r
<1> DEFINE d == n \div ItemSize
<1>1. /\ d \in Int /\ SlotOf(n) \in Indices
      /\ n = ItemSize * d + SlotOf(n)
    BY SlotDivides
<1> HIDE DEF d
<1>2. ItemSize * (q - d) = SlotOf(n) - r
    BY <1>1, Z3 DEF Indices
<1>3. CASE q >= d + 1
    <2>1. ItemSize * (q - d) >= ItemSize
        BY <1>1, <1>3, Z3
    <2> QED
        BY <1>1, <1>2, <2>1 DEF Indices
<1>4. CASE d >= q + 1
    <2>1. ItemSize * (q - d) <= - ItemSize
        BY <1>1, <1>4, Z3
    <2> QED
        BY <1>1, <1>2, <2>1 DEF Indices
<1>5. CASE q = d
    BY <1>1, <1>5 DEF Indices
<1> QED
    BY <1>1, <1>3, <1>4, <1>5

(* Going k places on from a position, less than once round. *)
LEMMA SlotPlus ==
    ASSUME NEW n \in Nat, NEW k \in 0 .. ItemSize
    PROVE  SlotOf(n + k) = IF SlotOf(n) + k < ItemSize
                           THEN SlotOf(n) + k ELSE SlotOf(n) + k - ItemSize
<1> DEFINE d == n \div ItemSize
           r == SlotOf(n)
<1>1. d \in Int /\ r \in Indices /\ n = ItemSize * d + r
    BY SlotDivides
<1>2. r \in Int /\ ItemSize * d \in Int /\ k \in Int /\ n + k \in Nat
    BY <1>1 DEF Indices
<1>3. d + 1 \in Int /\ ItemSize * (d + 1) = ItemSize * d + ItemSize
    BY <1>1
<1> HIDE DEF d, r
<1>4. CASE r + k < ItemSize
    <2> DEFINE m == n + k
               i == r + k
    <2>1. m \in Nat /\ m = ItemSize * d + i
        BY <1>1, <1>2
    <2>2. i \in Indices
        BY <1>1, <1>4 DEF Indices
    <2>3. SlotOf(m) = i
        <3> HIDE DEF m, i
        <3> QED
            BY <1>1, <2>1, <2>2, RemainderUnique
    <2> QED
        BY <1>4, <2>3 DEF r
<1>5. CASE ~ r + k < ItemSize
    <2> DEFINE m == n + k
               i == r + k - ItemSize
               e == d + 1
    <2>1. m \in Nat /\ e \in Int /\ m = ItemSize * e + i
        BY <1>1, <1>2, <1>3
    <2>2. i \in Indices
        BY <1>1, <1>5 DEF Indices
    <2>3. SlotOf(m) = i
        <3> HIDE DEF m, i, e
        <3> QED
            BY <2>1, <2>2, RemainderUnique
    <2> QED
        BY <1>5, <2>3 DEF r
<1> QED
    BY <1>4, <1>5

LEMMA SlotSucc ==
    ASSUME NEW n \in Nat
    PROVE  SlotOf(n + 1) = Succ(SlotOf(n))
<1>1. SlotOf(n) \in Indices /\ 1 \in 0 .. ItemSize
    BY SlotDivides
<1>2. SlotOf(n + 1) = IF SlotOf(n) + 1 < ItemSize
                      THEN SlotOf(n) + 1 ELSE SlotOf(n) + 1 - ItemSize
    BY <1>1, SlotPlus
<1>3. Succ(SlotOf(n)) = IF SlotOf(n) = ItemSize - 1 THEN 0 ELSE SlotOf(n) + 1
    BY <1>1, SuccWraps
<1> QED
    BY <1>1, <1>2, <1>3 DEF Indices

(* Two positions less than one round apart have different slots. *)
LEMMA SlotSame ==
    ASSUME NEW m \in Nat, NEW n \in Nat, n - m < ItemSize, m - n < ItemSize,
           SlotOf(m) = SlotOf(n)
    PROVE  m = n
<1>1. ASSUME NEW a \in Nat, NEW b \in Nat, a <= b, b - a < ItemSize,
             SlotOf(a) = SlotOf(b)
      PROVE  a = b
    <2>1. b - a \in 0 .. ItemSize /\ b = a + (b - a) /\ SlotOf(a) \in Indices
        BY <1>1, SlotDivides
    <2>2. SlotOf(b) = IF SlotOf(a) + (b - a) < ItemSize
                      THEN SlotOf(a) + (b - a) ELSE SlotOf(a) + (b - a) - ItemSize
        BY <2>1, SlotPlus
    <2> QED
        BY <1>1, <2>1, <2>2 DEF Indices
<1> QED
    BY <1>1

LEMMA SlotDist ==
    ASSUME NEW m \in Nat, NEW n \in Nat, m <= n, n - m < ItemSize
    PROVE  Dist(SlotOf(m), SlotOf(n)) = n - m
<1>1. n - m \in 0 .. ItemSize /\ n = m + (n - m) /\ SlotOf(m) \in Indices
    BY SlotDivides
<1>2. SlotOf(n) = IF SlotOf(m) + (n - m) < ItemSize
                  THEN SlotOf(m) + (n - m) ELSE SlotOf(m) + (n - m) - ItemSize
    BY <1>1, SlotPlus
<1> QED
    BY <1>1, <1>2 DEF Dist, Indices

LEMMA SlotAfterHead ==
    ASSUME takes \in Nat, headIdx = SlotOf(takes), NEW k \in 0 .. ItemSize - 1
    PROVE  SlotAt(k) = SlotOf(takes + k)
BY SlotPlus DEF SlotAt
-----------------------------------------------------------------------------
PosInv == TypeOK /\ PacedInv

(* How far the counts and the calls in progress can be apart. *)
LEMMA PosFacts ==
    ASSUME TypeOK, Paced, CountsInv
    PROVE  /\ takes \in Nat /\ Len(claims) \in Nat /\ takes <= Len(claims)
           /\ Len(claims) - takes <= ItemSize - 1
           /\ \A p \in Producers :
                 /\ wr[p].began \in Nat
                 /\ wpc[p] # "idle" => Len(claims) - wr[p].began < ItemSize
           /\ \A c \in Consumers :
                 /\ rd[c].loc.began \in Nat
                 /\ rpc[c] # "idle" => Len(claims) - rd[c].loc.began < ItemSize
<1>1. takes \in Nat /\ Len(claims) \in Nat
    BY TypeFacts
<1>2. Cardinality({p \in Producers : Pushing(p)}) \in Nat
    <2>1. IsFiniteSet({p \in Producers : Pushing(p)})
        BY ProcessAssumption, FS_Subset
    <2> QED
        BY <2>1, FS_CardinalityType
<1>3. Len(claims) - takes <= ItemSize - 1
    BY <1>1, <1>2 DEF Paced, RoomForAll
<1>4. /\ \A p \in Producers : wr[p].began \in Nat
      /\ \A c \in Consumers : rd[c].loc.began \in Nat
    BY DEF TypeOK, Locals
<1> QED
    BY <1>1, <1>3, <1>4 DEF Paced, NoLap, CountsInv

LEMMA RecentSlots ==
    ASSUME TypeOK, NEW m \in Recent, NEW n \in Recent, SlotOf(m) = SlotOf(n)
    PROVE  m = n
<1>1. Len(claims) \in Nat
    BY TypeFacts
<1> QED
    BY <1>1, SlotSame DEF Recent

(* Where a copy goes to. *)
LEMMA CopyPlace ==
    ASSUME TypeOK, Paced, CountsInv, NEW p \in Producers, ProducerInv(p),
           Copying(p)
    PROVE  /\ ~ Finished(TmpStat(p))
           /\ \E n \in Recent : /\ claims[n + 1] = TmpStat(p)
                               /\ wr[p].oldTail = SlotOf(n)
<1>1. flushed[p] \in Nat
    BY DEF TypeOK
<1>2. ~ Finished(TmpStat(p))
    BY <1>1 DEF Finished, TmpStat
<1>3. PICK n \in wr[p].began .. Len(claims) - 1 :
          claims[n + 1] = TmpStat(p) /\ wr[p].oldTail = SlotOf(n)
    BY DEF ProducerInv
<1>4. n \in Recent
    <2>1. /\ wr[p].began \in Nat /\ Len(claims) \in Nat
          /\ Len(claims) - wr[p].began < ItemSize
        BY PosFacts DEF Copying
    <2> QED
        BY <1>3, <2>1 DEF Recent
<1> QED
    BY <1>2, <1>3, <1>4

(* What a producer's step leaves alone. *)
LEMMA SyncFrame ==
    ASSUME TypeOK, NEW p \in Producers, syncStat(p)
    PROVE  /\ UNCHANGED <<headIdx, rpc, rd, takes, fetched>>
           /\ \A r \in Producers : r # p =>
                 /\ wpc'[r] = wpc[r] /\ wr'[r] = wr[r]
                 /\ flushed'[r] = flushed[r]
BY DEF syncStat, SyncHead, SyncTail, SyncNext, SyncCas, SyncFront, SyncBack,
       SyncRet, SyncReturn, TypeOK, ringVars, consVars, histVars
-----------------------------------------------------------------------------
(* A producer's step before the swap, or one after which it gives up. *)
LEMMA PushingStep ==
    ASSUME PosInv, NEW p \in Producers, syncStat(p),
           UNCHANGED <<ringVars, flushed, histVars>>,
           ~ Copying(p), ~ Copying(p)', ProducerInv(p)'
    PROVE  /\ CountsInv' /\ ClaimsInv' /\ SlotsInv'
           /\ \A r \in Producers : ProducerInv(r)'
           /\ \A c \in Consumers : ConsumerInv(c)'
           /\ TakersDiffer' /\ FetchedInv'
<1>0. TypeOK
    BY DEF PosInv, PacedInv
<1>1. UNCHANGED <<headIdx, tailIdx, itemList, flushed, claims, takes, fetched,
                  rpc, rd>>
    BY <1>0, SyncFrame DEF ringVars, histVars
<1>2. \A r \in Producers : r # p => wpc'[r] = wpc[r] /\ wr'[r] = wr[r]
    BY <1>0, SyncFrame
<1>3. CountsInv'
    BY <1>1 DEF PosInv, PacedInv, CountsInv, SlotOf
<1>4. \A r \in Producers : TmpStat(r)' = TmpStat(r)
    BY <1>1 DEF TmpStat
<1>5. \A r \in Producers : Copying(r)' <=> Copying(r)
    BY <1>2 DEF Copying
<1>6. ClaimsInv'
    BY <1>1, <1>4, <1>5 DEF PosInv, PacedInv, ClaimsInv, Finished
<1>7. SlotsInv'
    BY <1>1 DEF PosInv, PacedInv, SlotsInv, Recent, Finished, SlotOf
<1>8. \A r \in Producers : ProducerInv(r)'
    <2> SUFFICES ASSUME NEW r \in Producers, r # p
                 PROVE  ProducerInv(r)'
        OBVIOUS
    <2>1. ProducerInv(r)
        BY DEF PosInv, PacedInv
    <2>2. /\ wpc'[r] = wpc[r] /\ wr'[r] = wr[r]
          /\ TmpStat(r)' = TmpStat(r) /\ (Copying(r)' <=> Copying(r))
        BY <1>2, <1>4, <1>5
    <2> HIDE DEF PosInv, PacedInv
    <2> QED
        BY <1>1, <2>1, <2>2 DEF ProducerInv, SlotOf
<1>9. \A c \in Consumers : ConsumerInv(c)'
    BY <1>1 DEF PosInv, PacedInv, ConsumerInv, Taking, SlotOf
<1>10. TakersDiffer' /\ FetchedInv'
    BY <1>1 DEF PosInv, PacedInv, TakersDiffer, FetchedInv, ExactlyOnce, Taking
<1> QED
    BY <1>3, <1>6, <1>7, <1>8, <1>9, <1>10

LEMMA SyncBeforeSwap ==
    ASSUME PosInv, NEW p \in Producers,
           \/ SyncHead(p) \/ SyncTail(p) \/ SyncNext(p)
           \/ SyncCas(p) /\ tailIdx # wr[p].oldTail
    PROVE  /\ CountsInv' /\ ClaimsInv' /\ SlotsInv'
           /\ \A r \in Producers : ProducerInv(r)'
           /\ \A c \in Consumers : ConsumerInv(c)'
           /\ TakersDiffer' /\ FetchedInv'
<1>0. /\ wr \in [Producers -> Locals] /\ wpc \in [Producers -> SyncPlaces]
      /\ Len(claims) \in Nat /\ wr[p].began \in Nat
      /\ ProducerInv(p) /\ CountsInv /\ syncStat(p)
    BY PosFacts DEF PosInv, PacedInv, TypeOK, syncStat
<1>1. UNCHANGED <<ringVars, flushed, histVars>>
    BY DEF SyncHead, SyncTail, SyncNext, SyncCas, ringVars, histVars
<1>2. Len(claims') = Len(claims)
    BY <1>1 DEF histVars
<1>3. ~ Copying(p) /\ ~ Copying(p)'
    BY <1>0 DEF SyncHead, SyncTail, SyncNext, SyncCas, SyncReturn, Copying
<1>4. ProducerInv(p)'
    <2>1. CASE wpc'[p] = "idle"
        BY <1>3, <2>1 DEF ProducerInv
    <2>2. CASE SyncHead(p)
        <3>1. wpc'[p] = "head" /\ wr'[p].began = Len(claims)
            BY <1>0, <2>2 DEF SyncHead, Locals
        <3> QED
            BY <1>0, <1>2, <1>3, <3>1 DEF ProducerInv
    <2>3. CASE SyncTail(p)
        <3>1. /\ wpc[p] = "head" /\ wpc'[p] = "tail"
              /\ wr'[p].began = wr[p].began /\ wr'[p].oldTail = tailIdx
            BY <1>0, <2>3 DEF SyncTail, Locals
        <3>2. /\ Len(claims) \in wr[p].began .. Len(claims)
              /\ wr'[p].oldTail = SlotOf(Len(claims))
            BY <1>0, <3>1 DEF ProducerInv, CountsInv
        <3> QED
            BY <1>0, <1>2, <1>3, <3>1, <3>2 DEF ProducerInv, SlotOf
    <2>4. CASE SyncNext(p) /\ wpc'[p] # "idle"
        <3>1. /\ wpc[p] = "tail" /\ wpc'[p] = "next"
              /\ wr'[p].began = wr[p].began
              /\ wr'[p].oldTail = wr[p].oldTail
              /\ wr'[p].new = Succ(tailIdx)
            BY <1>0, <2>4 DEF SyncNext, SyncReturn, Locals
        <3>2. PICK a \in wr[p].began .. Len(claims) : wr[p].oldTail = SlotOf(a)
            BY <1>0, <3>1 DEF ProducerInv
        <3>3. /\ wr'[p].new = SlotOf(Len(claims) + 1)
              /\ Len(claims) \in a .. Len(claims)
            BY <1>0, <3>1, <3>2, SlotSucc DEF CountsInv
        <3> QED
            BY <1>0, <1>2, <1>3, <3>1, <3>2, <3>3 DEF ProducerInv, SlotOf
    <2>5. CASE SyncCas(p) /\ tailIdx # wr[p].oldTail
        BY <1>0, <2>1, <2>5 DEF SyncCas, SyncReturn
    <2> QED
        BY <2>1, <2>2, <2>3, <2>4, <2>5
<1> QED
    BY <1>0, <1>1, <1>3, <1>4, PushingStep

(* The swap succeeds only if the tail has not moved since it was read: it  *)
(* cannot have gone once round.                                            *)
LEMMA SwapMovesOne ==
    ASSUME PosInv, NEW p \in Producers, SyncCas(p), tailIdx = wr[p].oldTail
    PROVE  wr[p].new = SlotOf(Len(claims) + 1)
<1>1. /\ CountsInv /\ TypeOK /\ Paced /\ ProducerInv(p) /\ wpc[p] = "next"
    BY DEF PosInv, PacedInv, SyncCas
<1>2. PICK a \in wr[p].began .. Len(claims) :
          /\ wr[p].oldTail = SlotOf(a)
          /\ \E b \in a .. Len(claims) : wr[p].new = SlotOf(b + 1)
    BY <1>1 DEF ProducerInv
<1>3. /\ wr[p].began \in Nat /\ Len(claims) \in Nat
      /\ Len(claims) - wr[p].began < ItemSize
    BY <1>1, PosFacts
<1>4. a = Len(claims)
    <2>1. SlotOf(a) = SlotOf(Len(claims))
        BY <1>1, <1>2 DEF CountsInv
    <2>2. a \in Nat /\ Len(claims) - a < ItemSize /\ a - Len(claims) < ItemSize
        BY <1>2, <1>3
    <2> QED
        BY <1>3, <2>1, <2>2, SlotSame, Zenon
<1> QED
    BY <1>2, <1>3, <1>4

LEMMA SyncSwap ==
    ASSUME PosInv, NEW p \in Producers, SyncCas(p), tailIdx = wr[p].oldTail
    PROVE  /\ CountsInv' /\ ClaimsInv' /\ SlotsInv'
           /\ \A r \in Producers : ProducerInv(r)'
           /\ \A c \in Consumers : ConsumerInv(c)'
           /\ TakersDiffer' /\ FetchedInv'
<1> DEFINE b == TmpStat(p)
           C == Len(claims)
<1>0. /\ wpc \in [Producers -> SyncPlaces] /\ claims \in Seq(Batches)
      /\ C \in Nat /\ takes \in Nat /\ takes <= C
      /\ TypeOK /\ Paced /\ CountsInv /\ ClaimsInv /\ SlotsInv
      /\ \A r \in Producers : flushed[r] \in Nat
      /\ \A r \in Producers : ProducerInv(r) /\ wr[r].began \in Nat
      /\ \A c \in Consumers : ConsumerInv(c) /\ rd[c].loc.began \in Nat
      /\ TakersDiffer /\ FetchedInv
    BY PosFacts DEF PosInv, PacedInv, TypeOK
<1>1. /\ wpc[p] = "next" /\ wpc'[p] = "front"
      /\ tailIdx' = SlotOf(C + 1) /\ claims' = Append(claims, b)
      /\ UNCHANGED <<headIdx, itemList, wr, flushed, rpc, rd, takes, fetched>>
      /\ \A r \in Producers : r # p => wpc'[r] = wpc[r]
    BY <1>0, SwapMovesOne DEF SyncCas, consVars
<1>2. b \in Batches
    <2>1. flushed[p] \in 0 .. MaxFlush /\ flushed[p] < MaxFlush
        BY <1>0, <1>1 DEF TypeOK
    <2> QED
        BY <2>1 DEF TmpStat, Batches
<1>3. /\ Len(claims') = C + 1 /\ claims'[C + 1] = b
      /\ \A i \in 1 .. C : claims'[i] = claims[i]
    BY <1>0, <1>1, <1>2, AppendProperties
<1>4. /\ \A r \in Producers : TmpStat(r)' = TmpStat(r)
      /\ \A r \in Producers : r # p => (Copying(r)' <=> Copying(r))
      /\ Copying(p)' /\ ~ Copying(p)
    BY <1>1 DEF TmpStat, Copying
<1>5. ~ Finished(b) /\ \A i \in 1 .. C : claims[i] # b
    <2>1. ~ Finished(b)
        BY <1>0 DEF Finished, TmpStat
    <2>2. \A r \in Producers : Copying(r) => TmpStat(r) # b
        BY <1>4 DEF TmpStat
    <2> QED
        BY <1>0, <2>1, <2>2 DEF ClaimsInv
<1> HIDE DEF b
<1>6. CountsInv'
    <2>1. tailIdx' = SlotOf(Len(claims'))
        BY <1>1, <1>3
    <2> QED
        BY <1>0, <1>1, <1>3, <2>1 DEF CountsInv, SlotOf
<1>7. ClaimsInv'
    <2>1. \A i \in 1 .. C + 1 : i \in 1 .. C \/ i = C + 1
        BY <1>0
    <2>2. \A i, j \in 1 .. C + 1 : claims'[i] = claims'[j] => i = j
        BY <1>0, <1>3, <1>5, <2>1 DEF ClaimsInv
    <2>3. \A i \in 1 .. C + 1 :
            \/ Finished(claims'[i])
            \/ \E r \in Producers : Copying(r)' /\ claims'[i] = TmpStat(r)
        <3> SUFFICES ASSUME NEW i \in 1 .. C + 1
                     PROVE  \/ Finished(claims'[i])
                            \/ \E r \in Producers : /\ Copying(r)'
                                                   /\ claims'[i] = TmpStat(r)
            OBVIOUS
        <3>1. CASE i = C + 1
            BY <1>3, <1>4, <3>1 DEF b
        <3>2. CASE i \in 1 .. C
            BY <1>0, <1>3, <1>4, <3>2 DEF ClaimsInv
        <3> QED
            BY <2>1, <3>1, <3>2
    <2> QED
        BY <1>1, <1>3, <1>4, <2>2, <2>3 DEF ClaimsInv, Finished
<1>8. SlotsInv'
    <2> SUFFICES ASSUME NEW n \in Recent', Finished(claims'[n + 1])
                 PROVE  /\ itemList[SlotOf(n)].stat = claims'[n + 1]
                        /\ itemList[SlotOf(n)].ret \in {claims'[n + 1], NoRet}
        BY <1>1 DEF SlotsInv, SlotOf, Finished
    <2>1. n \in 0 .. C /\ C + 1 - n <= ItemSize /\ n # C
        BY <1>0, <1>3, <1>5 DEF Recent
    <2>2. n \in Recent /\ n + 1 \in 1 .. C
        BY <1>0, <2>1 DEF Recent
    <2> QED
        BY <1>0, <1>3, <2>2 DEF SlotsInv
<1>9. \A r \in Producers : ProducerInv(r)'
    <2>1. ProducerInv(p)'
        <3>1. wr[p].began <= C
            BY <1>0, <1>1 DEF ProducerInv
        <3>2. C \in wr[p].began .. C + 1 - 1 /\ claims'[C + 1] = TmpStat(p)
            BY <1>0, <1>3, <3>1 DEF b
        <3>3. wr[p].oldTail = SlotOf(C)
            BY <1>0 DEF CountsInv
        <3> QED
            BY <1>0, <1>1, <1>3, <1>4, <3>1, <3>2, <3>3 DEF ProducerInv, SlotOf
    <2>2. ASSUME NEW r \in Producers, r # p
          PROVE  ProducerInv(r)'
        <3>1. /\ ProducerInv(r) /\ wpc'[r] = wpc[r] /\ wr' = wr
              /\ TmpStat(r)' = TmpStat(r) /\ (Copying(r)' <=> Copying(r))
              /\ itemList' = itemList
            BY <1>0, <1>1, <1>4, <2>2
        <3>2. Len(claims') = C + 1 /\ wr[r].began \in Nat
            BY <1>0, <1>3
        <3>3. wpc'[r] # "idle" => wr'[r].began <= Len(claims')
            BY <1>0, <3>1, <3>2 DEF ProducerInv
        <3>4. ASSUME wpc'[r] \in {"tail", "next"}
              PROVE  \E a \in wr'[r].began .. Len(claims') :
                        /\ wr'[r].oldTail = SlotOf(a)
                        /\ wpc'[r] = "next" =>
                              \E k \in a .. Len(claims') : wr'[r].new = SlotOf(k + 1)
            <4>1. PICK a \in wr[r].began .. C :
                         /\ wr[r].oldTail = SlotOf(a)
                         /\ wpc[r] = "next" =>
                               \E k \in a .. C : wr[r].new = SlotOf(k + 1)
                BY <3>1, <3>4 DEF ProducerInv
            <4>2. a \in wr'[r].began .. Len(claims')
                BY <1>0, <3>1, <3>2
            <4>3. \A k \in a .. C : k \in a .. Len(claims')
                BY <1>0, <3>2
            <4> QED
                BY <3>1, <4>1, <4>2, <4>3
        <3>5. ASSUME Copying(r)'
              PROVE  \E n \in wr'[r].began .. Len(claims') - 1 :
                        claims'[n + 1] = TmpStat(r)' /\ wr'[r].oldTail = SlotOf(n)
            <4>1. PICK n \in wr[r].began .. C - 1 :
                         claims[n + 1] = TmpStat(r) /\ wr[r].oldTail = SlotOf(n)
                BY <3>1, <3>5 DEF ProducerInv
            <4>2. n \in wr'[r].began .. Len(claims') - 1
                BY <1>0, <3>1, <3>2
            <4>3. claims'[n + 1] = claims[n + 1]
                BY <1>0, <1>3, <3>2
            <4> QED
                BY <3>1, <4>1, <4>2, <4>3
        <3>6. /\ wpc'[r] \in {"back", "ret"} =>
                     itemList'[wr'[r].oldTail].stat = TmpStat(r)'
              /\ wpc'[r] = "ret" => itemList'[wr'[r].oldTail].ret = NoRet
            BY <3>1 DEF ProducerInv
        <3> QED
            BY <3>3, <3>4, <3>5, <3>6 DEF ProducerInv, SlotOf
    <2> QED
        BY <2>1, <2>2
<1>10. ASSUME NEW c \in Consumers PROVE ConsumerInv(c)'
    <2>1. /\ ConsumerInv(c) /\ rd[c].loc.began \in Nat
          /\ UNCHANGED <<rpc, rd, takes>> /\ Len(claims') = C + 1
        BY <1>0, <1>1, <1>3
    <2>2. ASSUME rd[c].loc.began < takes
          PROVE  claims'[rd[c].loc.began + 1] = claims[rd[c].loc.began + 1]
        <3>1. takes \in Nat /\ C \in Nat /\ takes <= C
            BY <1>0
        <3>2. rd[c].loc.began + 1 \in 1 .. C
            BY <2>1, <2>2, <3>1
        <3> QED
            BY <1>3, <3>2
    <2>3. rd[c].loc.began < C => rd[c].loc.began < C + 1
        BY <1>0
    <2> QED
        BY <2>1, <2>2, <2>3 DEF ConsumerInv, Taking, SlotOf
<1>11. TakersDiffer'
    BY <1>0, <1>1 DEF TakersDiffer, Taking
<1>12. FetchedInv'
    <2>1. \A c \in Consumers : Taking(c)' <=> Taking(c)
        BY <1>1 DEF Taking
    <2>2. {claims[k] : k \in 1 .. C} \subseteq {claims'[k] : k \in 1 .. C + 1}
        BY <1>0, <1>3
    <2>3. \A n \in 0 .. takes - 1 : claims'[n + 1] = claims[n + 1]
        <3>1. \A n \in 0 .. takes - 1 : n + 1 \in 1 .. C
            BY <1>0
        <3> QED
            BY <1>3, <3>1
    <2>4. ExactlyOnce'
        <3>1. ExactlyOnce
            BY <1>0 DEF FetchedInv
        <3>2. {c \in Consumers : Taking(c)}' = {c \in Consumers : Taking(c)}
            BY <1>1 DEF Taking
        <3>3. UNCHANGED <<takes, fetched>> /\ Len(claims') = C + 1
            BY <1>1, <1>3
        <3> QED
            BY <2>2, <3>1, <3>2, <3>3 DEF ExactlyOnce
    <2>5. ASSUME NEW i \in 1 .. Len(fetched)
          PROVE  \E n \in 0 .. takes - 1 :
                    /\ fetched[i].stat = claims'[n + 1]
                    /\ \A c \in Consumers : Taking(c)' => rd[c].loc.began # n
        <3>1. PICK n \in 0 .. takes - 1 :
                     /\ fetched[i].stat = claims[n + 1]
                     /\ \A c \in Consumers : Taking(c) => rd[c].loc.began # n
            BY <1>0 DEF FetchedInv
        <3> QED
            BY <2>1, <2>3, <3>1
    <2>6. UNCHANGED <<takes, fetched, rd>>
        BY <1>1
    <2> QED
        BY <2>4, <2>5, <2>6 DEF FetchedInv
<1> QED
    BY <1>6, <1>7, <1>8, <1>9, <1>10, <1>11, <1>12

(* Copies under way at the same time go to different slots, and no copy    *)
(* goes to the slot of a finished batch that is not overdue.               *)
LEMMA CopiesApart ==
    ASSUME PosInv, NEW p \in Producers, Copying(p)
    PROVE  /\ \A r \in Producers :
                 r # p /\ Copying(r) => wr[r].oldTail # wr[p].oldTail
           /\ \A n \in Recent :
                 Finished(claims[n + 1]) => SlotOf(n) # wr[p].oldTail
<1>0. /\ TypeOK /\ Paced /\ CountsInv
      /\ \A r \in Producers : ProducerInv(r)
    BY DEF PosInv, PacedInv
<1>1. /\ ~ Finished(TmpStat(p))
      /\ \E n \in Recent : claims[n + 1] = TmpStat(p) /\ wr[p].oldTail = SlotOf(n)
    BY <1>0, CopyPlace
<1>2. \A r \in Producers : Copying(r) =>
         \E n \in Recent : claims[n + 1] = TmpStat(r) /\ wr[r].oldTail = SlotOf(n)
    BY <1>0, CopyPlace
<1>3. \A r \in Producers : r # p => TmpStat(r) # TmpStat(p)
    BY DEF TmpStat
<1>4. \A m, n \in Recent : SlotOf(m) = SlotOf(n) => m = n
    BY <1>0, RecentSlots
<1> QED
    BY <1>1, <1>2, <1>3, <1>4

(* A step that copies a part of the batch into its slot. *)
LEMMA SyncCopies ==
    ASSUME PosInv, NEW p \in Producers, SyncFront(p) \/ SyncBack(p)
    PROVE  /\ CountsInv' /\ ClaimsInv' /\ SlotsInv'
           /\ \A r \in Producers : ProducerInv(r)'
           /\ \A c \in Consumers : ConsumerInv(c)'
           /\ TakersDiffer' /\ FetchedInv'
<1>0. /\ wpc \in [Producers -> SyncPlaces] /\ itemList \in [Indices -> Items]
      /\ wr[p].oldTail \in Indices /\ itemList[wr[p].oldTail] \in Items
      /\ TypeOK /\ CountsInv /\ ClaimsInv /\ SlotsInv
      /\ \A r \in Producers : ProducerInv(r)
      /\ \A c \in Consumers : ConsumerInv(c)
      /\ TakersDiffer /\ FetchedInv
    BY TypeFacts DEF PosInv, PacedInv, TypeOK
<1>1. /\ UNCHANGED <<headIdx, tailIdx, wr, flushed, rpc, rd, claims, takes, fetched>>
      /\ \A r \in Producers : r # p => wpc'[r] = wpc[r]
      /\ \A i \in Indices : i # wr[p].oldTail => itemList'[i] = itemList[i]
      /\ Copying(p) /\ Copying(p)'
    BY <1>0 DEF SyncFront, SyncBack, consVars, histVars, Copying
<1>2. /\ wpc[p] = "front" => /\ wpc'[p] = "back"
                            /\ itemList'[wr[p].oldTail].stat = TmpStat(p)
      /\ wpc[p] # "front" => /\ wpc[p] = "back" /\ wpc'[p] = "ret"
                             /\ itemList'[wr[p].oldTail].ret = NoRet
                             /\ itemList'[wr[p].oldTail].stat
                                   = itemList[wr[p].oldTail].stat
    BY <1>0 DEF SyncFront, SyncBack, Items
<1>3. /\ \A r \in Producers : TmpStat(r)' = TmpStat(r)
      /\ \A r \in Producers : Copying(r)' <=> Copying(r)
    BY <1>1 DEF TmpStat, Copying
<1>4. /\ \A n \in Nat : SlotOf(n) \in Indices
      /\ \A r \in Producers : wr[r].oldTail \in Indices
    BY <1>0, SlotDivides, TypeFacts
<1>5. CountsInv'
    BY <1>0, <1>1 DEF CountsInv, SlotOf
<1>6. ClaimsInv'
    BY <1>0, <1>1, <1>3 DEF ClaimsInv, Finished
<1>7. SlotsInv'
    <2>1. Recent' = Recent /\ Recent \subseteq Nat
        BY <1>0, <1>1, TypeFacts DEF Recent
    <2>2. ASSUME NEW n \in Recent, Finished(claims[n + 1])
          PROVE  itemList'[SlotOf(n)] = itemList[SlotOf(n)]
        BY <1>1, <1>4, <2>1, <2>2, CopiesApart
    <2>3. ASSUME NEW n \in Recent, Finished(claims[n + 1])
          PROVE  /\ itemList'[SlotOf(n)].stat = claims[n + 1]
                 /\ itemList'[SlotOf(n)].ret \in {claims[n + 1], NoRet}
        BY <1>0, <2>2, <2>3 DEF SlotsInv
    <2> QED
        BY <1>1, <2>1, <2>3 DEF SlotsInv, Finished, SlotOf
<1>8. ProducerInv(p)'
    <2>1. ProducerInv(p)
        BY <1>0
    <2> QED
        BY <1>1, <1>2, <1>3, <2>1 DEF ProducerInv, SlotOf, Copying
<1>9. ASSUME NEW r \in Producers, r # p
      PROVE  ProducerInv(r)'
    <2>1. ProducerInv(r) /\ wpc'[r] = wpc[r]
        BY <1>0, <1>1, <1>9
    <2>2. wpc[r] \in {"back", "ret"} =>
             itemList'[wr[r].oldTail] = itemList[wr[r].oldTail]
        BY <1>1, <1>4, <1>9, CopiesApart DEF Copying
    <2> HIDE DEF PosInv, PacedInv
    <2> QED
        BY <1>1, <1>3, <2>1, <2>2 DEF ProducerInv, SlotOf
<1>10. \A c \in Consumers : ConsumerInv(c)'
    BY <1>0, <1>1 DEF ConsumerInv, Taking, SlotOf
<1>11. TakersDiffer' /\ FetchedInv'
    <2>1. UNCHANGED <<rpc, rd, claims, takes, fetched>>
        BY <1>1
    <2>2. TakersDiffer /\ FetchedInv
        BY <1>0
    <2> QED
        BY <2>1, <2>2 DEF TakersDiffer, FetchedInv, ExactlyOnce, Taking
<1> QED
    BY <1>5, <1>6, <1>7, <1>8, <1>9, <1>10, <1>11

(* The end of the copy makes the batch a finished one. *)
LEMMA SyncFinishes ==
    ASSUME PosInv, NEW p \in Producers, SyncRet(p)
    PROVE  /\ CountsInv' /\ ClaimsInv' /\ SlotsInv'
           /\ \A r \in Producers : ProducerInv(r)'
           /\ \A c \in Consumers : ConsumerInv(c)'
           /\ TakersDiffer' /\ FetchedInv'
<1> DEFINE o == wr[p].oldTail
           b == TmpStat(p)
<1>0. /\ wpc \in [Producers -> SyncPlaces] /\ itemList \in [Indices -> Items]
      /\ flushed \in [Producers -> 0 .. MaxFlush]
      /\ claims \in Seq(Batches)
      /\ o \in Indices /\ itemList[o] \in Items
      /\ TypeOK /\ Paced /\ CountsInv /\ ClaimsInv /\ SlotsInv
      /\ \A r \in Producers : ProducerInv(r)
      /\ \A c \in Consumers : ConsumerInv(c)
      /\ TakersDiffer /\ FetchedInv
    BY TypeFacts DEF PosInv, PacedInv, TypeOK
<1>1. /\ UNCHANGED <<headIdx, tailIdx, rpc, rd, claims, takes, fetched>>
      /\ flushed' = [flushed EXCEPT ![p] = flushed[p] + 1]
      /\ wpc[p] = "ret" /\ wpc'[p] = "idle" /\ Copying(p) /\ ~ Copying(p)'
    BY <1>0 DEF SyncRet, SyncReturn, consVars, histVars, Copying
<1>2. \A r \in Producers : r # p => /\ wpc'[r] = wpc[r] /\ wr'[r] = wr[r]
                                    /\ TmpStat(r)' = TmpStat(r)
                                    /\ (Copying(r)' <=> Copying(r))
    <2>1. syncStat(p)
        BY DEF syncStat
    <2> QED
        BY <1>0, <2>1, SyncFrame DEF TmpStat, Copying
<1>3. itemList[o].stat = b /\ itemList[o].ret = NoRet
    BY <1>0, <1>1 DEF ProducerInv
<1>4. /\ itemList'[o].stat = b /\ itemList'[o].ret \in {b, NoRet}
      /\ \A i \in Indices : i # o => itemList'[i] = itemList[i]
    <2>1. CASE itemList' = itemList
        BY <1>3, <2>1
    <2>2. CASE itemList' = [itemList EXCEPT ![o].ret = b]
        BY <1>0, <1>3, <2>2 DEF Items
    <2> QED
        BY <2>1, <2>2 DEF SyncRet
<1>5. \A x \in Batches : Finished(x)' => Finished(x) \/ x = b
    <2> SUFFICES ASSUME NEW q \in Producers, NEW k \in 1 .. MaxFlush,
                        k <= flushed'[q], ~ k <= flushed[q]
                 PROVE  <<q, k>> = b
        BY DEF Finished, Batches
    <2>1. flushed[q] \in Nat /\ flushed[p] \in Nat
        BY <1>0
    <2> QED
        BY <1>0, <1>1, <2>1 DEF TmpStat
<1>6. \A x \in Batches : Finished(x) \/ x = b => Finished(x)'
    <2> SUFFICES ASSUME NEW q \in Producers, NEW k \in 1 .. MaxFlush,
                        k <= flushed[q] \/ <<q, k>> = b
                 PROVE  k <= flushed'[q]
        BY DEF Finished, Batches
    <2>1. flushed[q] \in Nat /\ flushed[p] \in Nat
        BY <1>0
    <2> QED
        BY <1>0, <1>1, <2>1 DEF TmpStat
<1>7. PICK n0 \in Recent : claims[n0 + 1] = b /\ o = SlotOf(n0)
    BY <1>0, <1>1, CopyPlace
<1>8. /\ Recent' = Recent
      /\ \A n \in Recent : n \in Nat /\ n + 1 \in 1 .. Len(claims)
      /\ \A i \in 1 .. Len(claims) : claims[i] \in Batches
    BY <1>0, <1>1, TypeFacts DEF Recent
<1>9. /\ \A n \in Nat : SlotOf(n) \in Indices
      /\ \A r \in Producers : wr[r].oldTail \in Indices
    BY <1>0, SlotDivides, TypeFacts
<1>10. CountsInv'
    BY <1>0, <1>1 DEF CountsInv, SlotOf
<1>11. ClaimsInv'
    <2>1. ASSUME NEW i \in 1 .. Len(claims)
          PROVE  \/ Finished(claims[i])'
                 \/ \E r \in Producers : Copying(r)' /\ claims[i] = TmpStat(r)'
        <3>1. CASE Finished(claims[i]) \/ claims[i] = b
            BY <1>1, <1>6, <1>8, <3>1 DEF Finished
        <3>2. CASE ~ Finished(claims[i]) /\ claims[i] # b
            <4>1. PICK r \in Producers : Copying(r) /\ claims[i] = TmpStat(r)
                BY <1>0, <3>2 DEF ClaimsInv
            <4>2. r # p
                BY <3>2, <4>1
            <4> QED
                BY <1>2, <4>1, <4>2
        <3> QED
            BY <3>1, <3>2
    <2>2. \A i \in 1 .. Len(claims) : claims'[i] = claims[i]
        BY <1>1
    <2> QED
        BY <1>0, <1>1, <2>1 DEF ClaimsInv, Finished
<1>12. SlotsInv'
    <2>1. ASSUME NEW n \in Recent, Finished(claims[n + 1])'
          PROVE  /\ itemList'[SlotOf(n)].stat = claims[n + 1]
                 /\ itemList'[SlotOf(n)].ret \in {claims[n + 1], NoRet}
        <3>1. CASE claims[n + 1] = b
            <4>1. n = n0
                BY <1>0, <1>7, <1>8, <3>1 DEF ClaimsInv
            <4> QED
                BY <1>4, <1>7, <3>1, <4>1
        <3>2. CASE claims[n + 1] # b
            <4>1. Finished(claims[n + 1])
                BY <1>1, <1>5, <1>8, <2>1, <3>2 DEF Finished
            <4>2. SlotOf(n) # o
                BY <1>1, <4>1, CopiesApart
            <4>3. itemList'[SlotOf(n)] = itemList[SlotOf(n)]
                BY <1>4, <1>8, <1>9, <4>2
            <4> QED
                BY <1>0, <4>1, <4>3 DEF SlotsInv
        <3> QED
            BY <3>1, <3>2
    <2> QED
        BY <1>1, <1>8, <2>1 DEF SlotsInv, Finished, SlotOf
<1>13. ProducerInv(p)'
    BY <1>1 DEF ProducerInv
<1>14. ASSUME NEW r \in Producers, r # p
       PROVE  ProducerInv(r)'
    <2>1. /\ ProducerInv(r) /\ wpc'[r] = wpc[r] /\ wr'[r] = wr[r]
          /\ TmpStat(r)' = TmpStat(r) /\ (Copying(r)' <=> Copying(r))
        BY <1>0, <1>2, <1>14
    <2>2. wpc[r] \in {"back", "ret"} =>
             itemList'[wr[r].oldTail] = itemList[wr[r].oldTail]
        BY <1>1, <1>4, <1>9, <1>14, CopiesApart DEF Copying
    <2> HIDE DEF PosInv, PacedInv
    <2> QED
        BY <1>1, <2>1, <2>2 DEF ProducerInv, SlotOf
<1>15. \A c \in Consumers : ConsumerInv(c)'
    BY <1>0, <1>1 DEF ConsumerInv, Taking, SlotOf
<1>16. TakersDiffer' /\ FetchedInv'
    BY <1>0, <1>1 DEF TakersDiffer, FetchedInv, ExactlyOnce, Taking
<1> QED
    BY <1>10, <1>11, <1>12, <1>13, <1>14, <1>15, <1>16
-----------------------------------------------------------------------------
(* What a consumer's step leaves alone. *)
LEMMA FetchFrame ==
    ASSUME TypeOK, NEW c \in Consumers, fetch(c)
    PROVE  /\ UNCHANGED <<tailIdx, itemList, wpc, wr, flushed, claims>>
           /\ \A d \in Consumers : d # c => rpc'[d] = rpc[d] /\ rd'[d] = rd[d]
BY DEF fetch, FetchHead, FetchTail, FetchNext, FetchCas, FetchFront, FetchBack,
       FetchReturn, TypeOK, ringVars, prodVars, histVars

(* Nothing a consumer does reaches the batches and the producers. *)
LEMMA FetchOthers ==
    ASSUME PosInv, NEW c \in Consumers, fetch(c)
    PROVE  /\ ClaimsInv' /\ SlotsInv'
           /\ \A p \in Producers : ProducerInv(p)'
<1>1. /\ UNCHANGED <<itemList, wpc, wr, flushed, claims>>
      /\ ClaimsInv /\ SlotsInv /\ \A p \in Producers : ProducerInv(p)
    BY FetchFrame DEF PosInv, PacedInv
<1>2. /\ \A p \in Producers : TmpStat(p)' = TmpStat(p)
      /\ \A p \in Producers : Copying(p)' <=> Copying(p)
    BY <1>1 DEF TmpStat, Copying
<1>3. ClaimsInv'
    BY <1>1, <1>2 DEF ClaimsInv, Finished
<1>4. SlotsInv'
    BY <1>1 DEF SlotsInv, Recent, Finished, SlotOf
<1>5. ASSUME NEW p \in Producers PROVE ProducerInv(p)'
    <2>1. ProducerInv(p)
        BY <1>1
    <2> HIDE DEF PosInv, PacedInv
    <2> QED
        BY <1>1, <1>2, <2>1 DEF ProducerInv, SlotOf
<1> QED
    BY <1>3, <1>4, <1>5

(* A consumer copies a batch out that is whole in its slot. *)
LEMMA TakerFinished ==
    ASSUME PosInv, NEW c \in Consumers, Taking(c)
    PROVE  /\ rd[c].loc.began \in Recent
           /\ Finished(claims[rd[c].loc.began + 1])
<1>0. /\ TypeOK /\ Paced /\ CountsInv /\ ClaimsInv /\ ConsumerInv(c)
      /\ \A p \in Producers : ProducerInv(p)
    BY DEF PosInv, PacedInv
<1> DEFINE n == rd[c].loc.began
<1>1. /\ n \in Nat /\ n < takes /\ takes <= Len(claims) /\ takes \in Nat
      /\ Len(claims) \in Nat /\ Len(claims) - n < ItemSize
      /\ rd[c].loc.oldHead = SlotOf(n)
    BY <1>0, PosFacts DEF ConsumerInv, Taking
<1> HIDE DEF n
<1>2. n \in Recent
    BY <1>1 DEF Recent
<1>3. Finished(claims[n + 1])
    <2>1. SUFFICES ASSUME NEW p \in Producers, Copying(p),
                          claims[n + 1] = TmpStat(p)
                   PROVE  FALSE
        BY <1>0, <1>1 DEF ClaimsInv
    <2>2. PICK m \in Recent : claims[m + 1] = TmpStat(p) /\ wr[p].oldTail = SlotOf(m)
        BY <1>0, <2>1, CopyPlace
    <2>3. m = n
        <3>1. m + 1 \in 1 .. Len(claims) /\ n + 1 \in 1 .. Len(claims)
            BY <1>1, <2>2 DEF Recent
        <3>2. m + 1 = n + 1
            BY <1>0, <2>1, <2>2, <3>1 DEF ClaimsInv
        <3> QED
            BY <1>1, <2>2, <3>2 DEF Recent
    <2> QED
        BY <1>0, <1>1, <2>1, <2>2, <2>3 DEF Paced, CopyFirst
<1> QED
    BY <1>2, <1>3 DEF n

Takers == {c \in Consumers : Taking(c)}

LEMMA TakersFinite == IsFiniteSet(Takers) /\ Cardinality(Takers) \in Nat
<1>1. IsFiniteSet(Takers)
    BY ProcessAssumption, FS_Subset DEF Takers
<1> QED
    BY <1>1, FS_CardinalityType

(* Steps of fetch that take nothing and return nothing. *)
LEMMA FetchLocal ==
    ASSUME PosInv, NEW c \in Consumers,
           \/ FetchHead(c) \/ FetchTail(c) \/ FetchNext(c) \/ FetchFront(c)
           \/ FetchCas(c) /\ headIdx # rd[c].loc.oldHead
    PROVE  /\ CountsInv' /\ \A d \in Consumers : ConsumerInv(d)'
           /\ TakersDiffer' /\ FetchedInv'
<1>0. /\ TypeOK /\ Paced /\ CountsInv /\ TakersDiffer /\ FetchedInv
      /\ \A d \in Consumers : ConsumerInv(d)
      /\ rpc \in [Consumers -> FetchPlaces] /\ fetch(c)
      /\ rd \in [Consumers -> [loc : Locals, stat : Batches \cup {Zero, Old}]]
    BY DEF PosInv, PacedInv, TypeOK, fetch
<1>1. /\ UNCHANGED <<headIdx, tailIdx, itemList, claims, takes, fetched>>
      /\ \A d \in Consumers : d # c => rpc'[d] = rpc[d] /\ rd'[d] = rd[d]
    <2>1. UNCHANGED <<headIdx, takes, fetched>>
        BY DEF FetchHead, FetchTail, FetchNext, FetchFront, FetchCas,
               ringVars, histVars
    <2> QED
        BY <1>0, <2>1, FetchFrame
<1>2. /\ takes \in Nat /\ Len(claims) \in Nat /\ takes <= Len(claims)
      /\ rd[c].loc.began \in Nat
    BY <1>0, PosFacts
<1>3. ConsumerInv(c)'
    <2>1. CASE rpc'[c] = "idle"
        BY <2>1 DEF ConsumerInv, Taking
    <2>2. CASE FetchHead(c)
        <3>1. /\ rpc'[c] = "head" /\ rd'[c].loc.began = takes
              /\ rd'[c].loc.oldHead = SlotOf(takes)
            BY <1>0, <2>2 DEF FetchHead, Locals, CountsInv
        <3> QED
            BY <1>1, <1>2, <3>1 DEF ConsumerInv, Taking, SlotOf
    <2>3. CASE FetchTail(c) /\ rpc'[c] # "idle"
        <3>1. /\ rpc[c] = "head" /\ rpc'[c] = "tail"
              /\ rd'[c].loc.began = rd[c].loc.began
              /\ rd'[c].loc.oldHead = rd[c].loc.oldHead
              /\ rd[c].loc.oldHead # tailIdx
            BY <1>0, <2>3 DEF FetchTail, FetchReturn, Locals
        <3>2. /\ rd[c].loc.began <= takes
              /\ rd[c].loc.oldHead = SlotOf(rd[c].loc.began)
            BY <1>0, <3>1 DEF ConsumerInv
        <3>3. rd[c].loc.began # Len(claims)
            BY <1>0, <3>1, <3>2 DEF CountsInv
        <3>4. rd[c].loc.began < Len(claims)
            BY <1>2, <3>2, <3>3
        <3> QED
            BY <1>1, <3>1, <3>2, <3>4 DEF ConsumerInv, Taking, SlotOf
    <2>4. CASE FetchNext(c)
        <3>1. /\ rpc[c] = "tail" /\ rpc'[c] = "next"
              /\ rd'[c].loc.began = rd[c].loc.began
              /\ rd'[c].loc.oldHead = rd[c].loc.oldHead
              /\ rd'[c].loc.new = Succ(headIdx)
            BY <1>0, <2>4 DEF FetchNext, Locals
        <3>2. /\ rd[c].loc.began <= takes /\ rd[c].loc.began < Len(claims)
              /\ rd[c].loc.oldHead = SlotOf(rd[c].loc.began)
            BY <1>0, <3>1 DEF ConsumerInv
        <3>3. /\ takes \in rd[c].loc.began .. takes
              /\ rd'[c].loc.new = SlotOf(takes + 1)
            <4>1. headIdx = SlotOf(takes)
                BY <1>0 DEF CountsInv
            <4>2. SlotOf(takes + 1) = Succ(SlotOf(takes))
                BY <1>2, SlotSucc
            <4> QED
                BY <1>2, <3>1, <3>2, <4>1, <4>2
        <3> QED
            BY <1>1, <3>1, <3>2, <3>3 DEF ConsumerInv, Taking, SlotOf
    <2>5. CASE FetchFront(c)
        <3>1. /\ rpc[c] = "front" /\ rpc'[c] = "back"
              /\ rd'[c].loc = rd[c].loc
              /\ rd'[c].stat = itemList[rd[c].loc.oldHead].stat
            BY <1>0, <2>5 DEF FetchFront
        <3>2. /\ rd[c].loc.began <= takes /\ rd[c].loc.began < takes
              /\ rd[c].loc.oldHead = SlotOf(rd[c].loc.began)
            BY <1>0, <3>1 DEF ConsumerInv, Taking
        <3>3. itemList[rd[c].loc.oldHead].stat = claims[rd[c].loc.began + 1]
            BY <3>1, <3>2, TakerFinished DEF PosInv, PacedInv, SlotsInv, Taking
        <3> QED
            BY <1>1, <3>1, <3>2, <3>3 DEF ConsumerInv, Taking, SlotOf
    <2>6. CASE FetchCas(c) /\ headIdx # rd[c].loc.oldHead
        BY <1>0, <2>1, <2>6 DEF FetchCas, FetchReturn
    <2> QED
        BY <2>1, <2>2, <2>3, <2>4, <2>5, <2>6
<1>4. ASSUME NEW d \in Consumers, d # c
      PROVE  ConsumerInv(d)'
    <2>1. ConsumerInv(d) /\ rpc'[d] = rpc[d] /\ rd'[d] = rd[d]
        BY <1>0, <1>1, <1>4
    <2> HIDE DEF PosInv, PacedInv
    <2> QED
        BY <1>1, <2>1 DEF ConsumerInv, Taking, SlotOf
<1>5. \A d \in Consumers : /\ Taking(d)' <=> Taking(d)
                           /\ Taking(d) => rd'[d].loc.began = rd[d].loc.began
    <2>1. /\ Taking(c)' <=> Taking(c)
          /\ Taking(c) => rd'[c].loc.began = rd[c].loc.began
        BY <1>0 DEF FetchHead, FetchTail, FetchNext, FetchFront, FetchCas,
                    FetchReturn, Taking
    <2> QED
        BY <1>1, <2>1 DEF Taking
<1>6. TakersDiffer'
    <2>1. TakersDiffer
        BY <1>0
    <2> QED
        BY <1>5, <2>1 DEF TakersDiffer
<1>7. FetchedInv'
    <2>1. FetchedInv
        BY <1>0
    <2>2. Takers' = Takers
        BY <1>5 DEF Takers
    <2>3. ExactlyOnce'
        <3>1. ExactlyOnce /\ Len(fetched) + Cardinality(Takers) = takes
            BY <2>1 DEF FetchedInv, ExactlyOnce, Takers
        <3>2. (Len(fetched) + Cardinality(Takers) = takes)'
            BY <1>1, <2>2, <3>1
        <3> QED
            BY <1>1, <3>1, <3>2 DEF ExactlyOnce, Takers
    <2> QED
        BY <1>1, <1>5, <2>1, <2>3 DEF FetchedInv
<1>8. CountsInv'
    BY <1>0, <1>1 DEF CountsInv, SlotOf
<1> QED
    BY <1>3, <1>4, <1>6, <1>7, <1>8

(* The swap gives the consumer the oldest batch that waits. *)
LEMMA SwapTakesOne ==
    ASSUME PosInv, NEW c \in Consumers, FetchCas(c), headIdx = rd[c].loc.oldHead
    PROVE  /\ rd[c].loc.began = takes /\ takes < Len(claims)
           /\ rd[c].loc.new = SlotOf(takes + 1)
<1>1. /\ CountsInv /\ TypeOK /\ Paced /\ ConsumerInv(c) /\ rpc[c] = "next"
    BY DEF PosInv, PacedInv, FetchCas
<1> DEFINE n == rd[c].loc.began
<1>2. /\ n \in Nat /\ n <= takes /\ takes \in Nat /\ Len(claims) \in Nat
      /\ takes <= Len(claims) /\ Len(claims) - n < ItemSize /\ n < Len(claims)
    BY <1>1, PosFacts DEF ConsumerInv
<1>3. PICK b \in n .. takes : rd[c].loc.new = SlotOf(b + 1)
    BY <1>1 DEF ConsumerInv
<1>4. n = takes
    <2>1. SlotOf(n) = SlotOf(takes)
        BY <1>1 DEF ConsumerInv, CountsInv
    <2> HIDE DEF n
    <2> QED
        BY <1>2, <2>1, SlotSame
<1> QED
    BY <1>2, <1>3, <1>4

LEMMA FetchSwap ==
    ASSUME PosInv, NEW c \in Consumers, FetchCas(c), headIdx = rd[c].loc.oldHead
    PROVE  /\ CountsInv' /\ \A d \in Consumers : ConsumerInv(d)'
           /\ TakersDiffer' /\ FetchedInv'
<1>0. /\ CountsInv /\ TakersDiffer /\ FetchedInv
      /\ \A d \in Consumers : ConsumerInv(d) /\ rd[d].loc.began \in Nat
      /\ rpc \in [Consumers -> FetchPlaces]
      /\ takes \in Nat /\ Len(claims) \in Nat
    BY PosFacts DEF PosInv, PacedInv, TypeOK
<1>1. /\ UNCHANGED <<tailIdx, rd, claims, fetched>>
      /\ headIdx' = SlotOf(takes + 1) /\ takes' = takes + 1
      /\ rpc[c] = "next" /\ rpc'[c] = "front"
      /\ \A d \in Consumers : d # c => rpc'[d] = rpc[d]
    BY <1>0, SwapTakesOne DEF FetchCas
<1>2. /\ rd[c].loc.began = takes /\ takes < Len(claims)
      /\ rd[c].loc.oldHead = SlotOf(takes)
    BY <1>0, SwapTakesOne DEF CountsInv
<1>3. CountsInv'
    <2>1. headIdx' = SlotOf(takes')
        BY <1>1
    <2> QED
        BY <1>0, <1>1, <1>2, <2>1 DEF CountsInv, SlotOf
<1>4. ConsumerInv(c)'
    BY <1>0, <1>1, <1>2 DEF ConsumerInv, Taking, SlotOf
<1>5. ASSUME NEW d \in Consumers, d # c
      PROVE  ConsumerInv(d)'
    <2>1. /\ ConsumerInv(d) /\ rpc'[d] = rpc[d] /\ rd[d].loc.began \in Nat
          /\ takes \in Nat
        BY <1>0, <1>1, <1>5
    <2>2. /\ \A b \in rd[d].loc.began .. takes : b \in rd[d].loc.began .. takes + 1
          /\ rd[d].loc.began <= takes => rd[d].loc.began <= takes + 1
          /\ rd[d].loc.began < takes => rd[d].loc.began < takes + 1
        BY <2>1
    <2> HIDE DEF PosInv, PacedInv
    <2> QED
        BY <1>1, <2>1, <2>2 DEF ConsumerInv, Taking, SlotOf
<1>6. /\ Taking(c)' /\ ~ Taking(c)
      /\ \A d \in Consumers : d # c => (Taking(d)' <=> Taking(d))
      /\ \A d \in Consumers : Taking(d) => rd[d].loc.began < takes
    BY <1>0, <1>1 DEF Taking, ConsumerInv
<1>7. TakersDiffer'
    <2>1. TakersDiffer
        BY <1>0
    <2>2. \A d \in Consumers : Taking(d)' => d = c \/ rd[d].loc.began # takes
        BY <1>0, <1>6
    <2> QED
        BY <1>1, <1>2, <1>6, <2>1, <2>2 DEF TakersDiffer
<1>8. FetchedInv'
    <2>1. Takers' = Takers \cup {c} /\ c \notin Takers
        BY <1>6 DEF Takers
    <2>2. Cardinality(Takers)' = Cardinality(Takers) + 1
        BY <2>1, TakersFinite, FS_AddElement
    <2>3. Len(fetched) + Cardinality(Takers) = takes
        BY <1>0 DEF FetchedInv, ExactlyOnce, Takers
    <2>4. (Len(fetched) + Cardinality(Takers) = takes)'
        <3>1. Len(fetched) \in Nat
            BY DEF PosInv, PacedInv, TypeOK
        <3> QED
            BY <1>0, <1>1, <2>2, <2>3, <3>1, TakersFinite
    <2>5. ExactlyOnce'
        <3>1. ExactlyOnce
            BY <1>0 DEF FetchedInv
        <3> QED
            BY <1>1, <2>4, <3>1 DEF ExactlyOnce, Takers
    <2>6. ASSUME NEW i \in 1 .. Len(fetched)
          PROVE  \E n \in 0 .. takes' - 1 :
                    /\ fetched[i].stat = claims[n + 1]
                    /\ \A d \in Consumers : Taking(d)' => rd[d].loc.began # n
        <3>1. PICK n \in 0 .. takes - 1 :
                     /\ fetched[i].stat = claims[n + 1]
                     /\ \A d \in Consumers : Taking(d) => rd[d].loc.began # n
            BY <1>0 DEF FetchedInv
        <3>2. n \in 0 .. takes' - 1 /\ n # takes
            BY <1>0, <1>1
        <3> QED
            BY <1>2, <1>6, <3>1, <3>2
    <2> QED
        BY <1>1, <2>5, <2>6 DEF FetchedInv
<1> QED
    BY <1>3, <1>4, <1>5, <1>7, <1>8

LEMMA FetchReturns ==
    ASSUME PosInv, NEW c \in Consumers, FetchBack(c)
    PROVE  /\ CountsInv' /\ \A d \in Consumers : ConsumerInv(d)'
           /\ TakersDiffer' /\ FetchedInv'
<1> DEFINE n0 == rd[c].loc.began
           it == [stat |-> rd[c].stat, ret |-> itemList[rd[c].loc.oldHead].ret]
<1>0. /\ TypeOK /\ CountsInv /\ TakersDiffer /\ FetchedInv /\ SlotsInv /\ ClaimsInv
      /\ \A d \in Consumers : ConsumerInv(d)
      /\ rpc \in [Consumers -> FetchPlaces]
      /\ takes \in Nat /\ Len(claims) \in Nat /\ takes <= Len(claims)
      /\ n0 \in Nat /\ fetched \in Seq(Items) /\ claims \in Seq(Batches)
      /\ itemList[rd[c].loc.oldHead] \in Items
    BY PosFacts, TypeFacts DEF PosInv, PacedInv, TypeOK
<1>1. /\ UNCHANGED <<headIdx, tailIdx, claims, takes>>
      /\ rpc[c] = "back" /\ rpc'[c] = "idle" /\ Taking(c) /\ ~ Taking(c)'
      /\ \A d \in Consumers : d # c => rpc'[d] = rpc[d] /\ rd'[d] = rd[d]
    <2>1. fetch(c)
        BY DEF fetch
    <2> QED
        BY <1>0, <2>1, FetchFrame
           DEF FetchBack, FetchReturn, ringVars, Taking
<1>2. /\ n0 \in 0 .. takes - 1 /\ n0 + 1 \in 1 .. Len(claims)
      /\ claims[n0 + 1] \in Batches
      /\ it.stat = claims[n0 + 1] /\ it.ret \in {claims[n0 + 1], NoRet}
    <2>1. /\ n0 < takes /\ rd[c].loc.oldHead = SlotOf(n0)
          /\ rd[c].stat = claims[n0 + 1]
        BY <1>0, <1>1 DEF ConsumerInv
    <2>2. itemList[SlotOf(n0)].ret \in {claims[n0 + 1], NoRet}
        BY <1>0, <1>1, TakerFinished DEF SlotsInv
    <2>3. n0 \in 0 .. takes - 1 /\ n0 + 1 \in 1 .. Len(claims)
        BY <1>0, <2>1
    <2>4. claims[n0 + 1] \in Batches
        BY <1>0, <2>3
    <2> QED
        BY <2>1, <2>2, <2>3, <2>4
<1>3. fetched' = Append(fetched, it)
    <2>1. it.stat # Zero /\ it.ret # Zero
        BY <1>2, MarkerAssumption
    <2> QED
        BY <2>1 DEF FetchBack
<1>4. it \in Items
    BY <1>0, <1>2 DEF Items
<1> HIDE DEF it
<1>5. /\ Len(fetched') = Len(fetched) + 1 /\ fetched'[Len(fetched) + 1] = it
      /\ \A i \in 1 .. Len(fetched) : fetched'[i] = fetched[i]
      /\ Len(fetched) \in Nat
    BY <1>0, <1>3, <1>4, AppendProperties
<1>6. \A d \in Consumers : Taking(d)' <=> Taking(d) /\ d # c
    BY <1>1 DEF Taking
<1>7. CountsInv'
    BY <1>0, <1>1 DEF CountsInv, SlotOf
<1>8. ConsumerInv(c)'
    BY <1>1 DEF ConsumerInv, Taking
<1>9. ASSUME NEW d \in Consumers, d # c
      PROVE  ConsumerInv(d)'
    <2>1. ConsumerInv(d) /\ rpc'[d] = rpc[d] /\ rd'[d] = rd[d]
        BY <1>0, <1>1, <1>9
    <2> HIDE DEF PosInv, PacedInv
    <2> QED
        BY <1>1, <2>1 DEF ConsumerInv, Taking, SlotOf
<1>10. TakersDiffer'
    <2>1. TakersDiffer
        BY <1>0
    <2> QED
        BY <1>1, <1>6, <2>1 DEF TakersDiffer
<1>11. \A i \in 1 .. Len(fetched') :
          \/ i \in 1 .. Len(fetched) /\ fetched'[i] = fetched[i]
          \/ i = Len(fetched) + 1 /\ fetched'[i] = it
    BY <1>5
<1>12. \A i \in 1 .. Len(fetched) : fetched[i].stat # it.stat
    <2> SUFFICES ASSUME NEW i \in 1 .. Len(fetched), fetched[i].stat = it.stat
                 PROVE  FALSE
        OBVIOUS
    <2>1. PICK n \in 0 .. takes - 1 :
                 /\ fetched[i].stat = claims[n + 1]
                 /\ \A d \in Consumers : Taking(d) => rd[d].loc.began # n
        BY <1>0 DEF FetchedInv
    <2>2. n # n0
        BY <1>1, <2>1
    <2>3. n + 1 \in 1 .. Len(claims) /\ claims[n + 1] = claims[n0 + 1]
        BY <1>0, <1>2, <2>1
    <2>4. \A j, k \in 1 .. Len(claims) : claims[j] = claims[k] => j = k
        BY <1>0 DEF ClaimsInv
    <2>5. n + 1 = n0 + 1
        <3>1. n0 + 1 \in 1 .. Len(claims)
            BY <1>2
        <3> QED
            BY <2>3, <2>4, <3>1
    <2>6. n \in Int /\ n0 \in Int
        BY <1>0
    <2> HIDE DEF n0
    <2> QED
        BY <2>2, <2>5, <2>6
<1>13. ExactlyOnce'
    <2>1. Takers = Takers' \cup {c} /\ c \notin Takers'
        BY <1>1, <1>6 DEF Takers
    <2>2. Takers' = Takers \ {c} /\ c \in Takers
        BY <2>1
    <2>3. Cardinality(Takers)' = Cardinality(Takers) - 1
        BY <2>2, TakersFinite, FS_RemoveElement
    <2>4. ExactlyOnce /\ Len(fetched) + Cardinality(Takers) = takes
        BY <1>0 DEF FetchedInv, ExactlyOnce, Takers
    <2>5. (Len(fetched) + Cardinality(Takers) = takes)'
        BY <1>0, <1>1, <1>5, <2>3, <2>4, TakersFinite
    <2>6. ASSUME NEW i \in 1 .. Len(fetched')
          PROVE  /\ fetched'[i].stat \in {claims[k] : k \in 1 .. Len(claims)}
                 /\ fetched'[i].ret \in {fetched'[i].stat, NoRet}
                 /\ \A j \in 1 .. i - 1 : fetched'[j].stat # fetched'[i].stat
        <3>1. CASE i \in 1 .. Len(fetched)
            <4>1. \A j \in 1 .. i - 1 : j \in 1 .. Len(fetched)
                BY <1>5, <3>1
            <4> QED
                BY <1>5, <2>4, <3>1, <4>1 DEF ExactlyOnce
        <3>2. CASE i = Len(fetched) + 1
            <4>1. \A j \in 1 .. i - 1 : j \in 1 .. Len(fetched)
                BY <1>5, <3>2
            <4>2. fetched'[i] = it
                BY <1>5, <3>2
            <4> QED
                BY <1>2, <1>5, <1>12, <4>1, <4>2
        <3> QED
            BY <1>11, <3>1, <3>2
    <2> QED
        BY <1>1, <2>5, <2>6 DEF ExactlyOnce, Takers
<1>14. FetchedInv'
    <2>1. ASSUME NEW i \in 1 .. Len(fetched')
          PROVE  \E n \in 0 .. takes - 1 :
                    /\ fetched'[i].stat = claims[n + 1]
                    /\ \A d \in Consumers : Taking(d)' => rd'[d].loc.began # n
        <3>1. CASE i \in 1 .. Len(fetched)
            <4>1. PICK n \in 0 .. takes - 1 :
                         /\ fetched[i].stat = claims[n + 1]
                         /\ \A d \in Consumers : Taking(d) => rd[d].loc.began # n
                BY <1>0, <3>1 DEF FetchedInv
            <4> QED
                BY <1>1, <1>5, <1>6, <3>1, <4>1
        <3>2. CASE i = Len(fetched) + 1
            <4>1. fetched'[i].stat = claims[n0 + 1]
                BY <1>2, <1>5, <3>2
            <4>2. \A d \in Consumers : Taking(d)' => rd'[d].loc.began # n0
                BY <1>0, <1>1, <1>6 DEF TakersDiffer
            <4> QED
                BY <1>2, <4>1, <4>2
        <3> QED
            BY <1>11, <3>1, <3>2
    <2> QED
        BY <1>1, <1>13, <2>1 DEF FetchedInv
<1> QED
    BY <1>7, <1>8, <1>9, <1>10, <1>14
-----------------------------------------------------------------------------
LEMMA PacedInit == Init => PacedInv
<1> SUFFICES ASSUME Init PROVE PacedInv
    OBVIOUS
<1>1. /\ \A p \in Producers : wpc[p] = "idle"
      /\ \A c \in Consumers : rpc[c] = "idle"
      /\ Len(claims) = 0 /\ takes = 0 /\ Len(fetched) = 0
      /\ headIdx = 0 /\ tailIdx = 0
    BY DEF Init
<1>2. SlotOf(0) = 0
    <2>1. 0 = ItemSize * 0 + 0 /\ 0 \in Indices
        BY DEF Indices
    <2> QED
        BY <2>1, RemainderUnique
<1>3. /\ Cardinality({p \in Producers : Pushing(p)}) = 0
      /\ Cardinality({c \in Consumers : Taking(c)}) = 0
    <2>1. /\ {p \in Producers : Pushing(p)} = {}
          /\ {c \in Consumers : Taking(c)} = {}
        BY <1>1 DEF Pushing, Taking
    <2> QED
        BY <2>1, FS_EmptySet
<1>4. Paced
    BY <1>1, <1>3 DEF Paced, RoomForAll, NoLap, CopyFirst, Copying
<1>5. CountsInv /\ ClaimsInv /\ SlotsInv
    BY <1>1, <1>2 DEF CountsInv, ClaimsInv, SlotsInv, Recent
<1>6. /\ \A p \in Producers : ProducerInv(p)
      /\ \A c \in Consumers : ConsumerInv(c)
    BY <1>1 DEF ProducerInv, ConsumerInv, Copying, Taking
<1>7. TakersDiffer /\ FetchedInv
    BY <1>1, <1>3 DEF TakersDiffer, FetchedInv, ExactlyOnce, Taking
<1> QED
    BY <1>4, <1>5, <1>6, <1>7 DEF PacedInv

LEMMA PacedRestart ==
    ASSUME FreshCalls, Paced'
    PROVE  PacedInv'
<1>1. /\ \A p \in Producers : wpc'[p] = "idle"
      /\ \A c \in Consumers : rpc'[c] = "idle"
      /\ Len(claims') = 0 /\ takes' = 0 /\ Len(fetched') = 0
      /\ headIdx' = 0 /\ tailIdx' = 0
    BY DEF FreshCalls
<1>2. SlotOf(0) = 0
    <2>1. 0 = ItemSize * 0 + 0 /\ 0 \in Indices
        BY DEF Indices
    <2> QED
        BY <2>1, RemainderUnique
<1>3. Cardinality({c \in Consumers : Taking(c)'}) = 0
    <2>1. {c \in Consumers : Taking(c)'} = {}
        BY <1>1 DEF Taking
    <2> QED
        BY <2>1, FS_EmptySet
<1>4. CountsInv'
    BY <1>1, <1>2 DEF CountsInv, SlotOf
<1>5. ClaimsInv' /\ SlotsInv'
    BY <1>1 DEF ClaimsInv, SlotsInv, Recent
<1>6. /\ \A p \in Producers : ProducerInv(p)'
      /\ \A c \in Consumers : ConsumerInv(c)'
    BY <1>1 DEF ProducerInv, ConsumerInv, Copying, Taking
<1>7. TakersDiffer' /\ FetchedInv'
    BY <1>1, <1>3 DEF TakersDiffer, FetchedInv, ExactlyOnce, Taking
<1> QED
    BY <1>4, <1>5, <1>6, <1>7 DEF PacedInv

LEMMA PacedSync ==
    ASSUME PosInv, Paced', NEW p \in Producers, syncStat(p)
    PROVE  PacedInv'
<1> USE DEF PacedInv
<1>1. CASE \/ SyncHead(p) \/ SyncTail(p) \/ SyncNext(p)
           \/ SyncCas(p) /\ tailIdx # wr[p].oldTail
    BY <1>1, SyncBeforeSwap
<1>2. CASE SyncCas(p) /\ tailIdx = wr[p].oldTail
    BY <1>2, SyncSwap
<1>3. CASE SyncFront(p) \/ SyncBack(p)
    BY <1>3, SyncCopies
<1>4. CASE SyncRet(p)
    BY <1>4, SyncFinishes
<1> QED
    BY <1>1, <1>2, <1>3, <1>4 DEF syncStat

LEMMA PacedFetch ==
    ASSUME PosInv, Paced', NEW c \in Consumers, fetch(c)
    PROVE  PacedInv'
<1> USE FetchOthers DEF PacedInv
<1>1. CASE \/ FetchHead(c) \/ FetchTail(c) \/ FetchNext(c) \/ FetchFront(c)
           \/ FetchCas(c) /\ headIdx # rd[c].loc.oldHead
    BY <1>1, FetchLocal
<1>2. CASE FetchCas(c) /\ headIdx = rd[c].loc.oldHead
    BY <1>2, FetchSwap
<1>3. CASE FetchBack(c)
    BY <1>3, FetchReturns
<1> QED
    BY <1>1, <1>2, <1>3 DEF fetch

LEMMA PacedStep == PosInv /\ [Next /\ Paced']_vars => PosInv'
<1> SUFFICES ASSUME PosInv, [Next /\ Paced']_vars PROVE PosInv'
    OBVIOUS
<1>1. CASE UNCHANGED vars
    <2>1. TypeOK'
        BY <1>1 DEF PosInv, TypeOK, vars, ringVars, prodVars, consVars, histVars
    <2>2. UNCHANGED <<headIdx, tailIdx, itemList, wpc, wr, flushed, rpc, rd,
                      claims, takes, fetched>>
        BY <1>1 DEF vars, ringVars, prodVars, consVars, histVars
    <2>3. /\ \A p \in Producers : TmpStat(p)' = TmpStat(p)
          /\ \A p \in Producers : /\ Copying(p)' <=> Copying(p)
                                  /\ Pushing(p)' <=> Pushing(p)
          /\ \A c \in Consumers : Taking(c)' <=> Taking(c)
        BY <2>2 DEF TmpStat, Copying, Pushing, Taking
    <2>4. Paced'
        <3>1. Paced
            BY DEF PosInv, PacedInv
        <3> QED
            BY <2>2, <3>1
               DEF Paced, RoomForAll, NoLap, CopyFirst, Pushing, Copying, Taking
    <2>5. CountsInv' /\ ClaimsInv' /\ SlotsInv'
        <3>1. CountsInv /\ ClaimsInv /\ SlotsInv
            BY DEF PosInv, PacedInv
        <3> QED
            BY <2>2, <2>3, <3>1
               DEF CountsInv, ClaimsInv, SlotsInv, Recent, Finished, SlotOf
    <2>6. ASSUME NEW p \in Producers PROVE ProducerInv(p)'
        <3>1. ProducerInv(p)
            BY DEF PosInv, PacedInv
        <3> QED
            BY <2>2, <2>3, <3>1 DEF ProducerInv, SlotOf
    <2>7. ASSUME NEW c \in Consumers PROVE ConsumerInv(c)'
        <3>1. ConsumerInv(c)
            BY DEF PosInv, PacedInv
        <3> QED
            BY <2>2, <2>3, <3>1 DEF ConsumerInv, SlotOf
    <2>8. TakersDiffer' /\ FetchedInv'
        <3>1. TakersDiffer /\ FetchedInv
            BY DEF PosInv, PacedInv
        <3> QED
            BY <2>2, <3>1 DEF TakersDiffer, FetchedInv, ExactlyOnce, Taking
    <2> QED
        BY <2>1, <2>4, <2>5, <2>6, <2>7, <2>8 DEF PosInv, PacedInv
<1>2. CASE Next /\ Paced'
    <2>1. TypeOK'
        BY <1>2, TypeSync, TypeFetch, TypeRestart DEF Next, PosInv
    <2>2. PacedInv'
        BY <1>2, PacedSync, PacedFetch, PacedRestart DEF Next, Reattach, Recreate
    <2> QED
        BY <2>1, <2>2 DEF PosInv
<1> QED
    BY <1>1, <1>2

LEMMA PosAlways == PacedSpec => []PosInv
<1>1. Init => PosInv
    BY TypeInit, PacedInit DEF PosInv
<1> QED
    BY <1>1, PacedStep, PTL DEF PacedSpec

(* With any numbers of producers and consumers, as long as no call lasts   *)
(* for a round of the ring, everything the calls in progress rely on       *)
(* holds: a swap that succeeds found the index where it was read, and two  *)
(* copies never meet in a slot (monitor.cpp, syncStat and fetch).          *)
THEOREM PacedAlways == PacedSpec => []PacedInv
<1>1. PosInv => PacedInv
    BY DEF PosInv
<1> QED
    BY <1>1, PosAlways, PTL

(* Then every batch that was taken has come out of fetch once and whole,   *)
(* or is being copied out: no two consumers count the same second.         *)
THEOREM TakenExactlyOnce == PacedSpec => []ExactlyOnce
<1>1. PosInv => ExactlyOnce
    BY DEF PosInv, PacedInv, FetchedInv
<1> QED
    BY <1>1, PosAlways, PTL

LEMMA PacedBound ==
    ASSUME PosInv
    PROVE  RingBound
<1>1. /\ takes \in Nat /\ Len(claims) \in Nat /\ takes <= Len(claims)
      /\ Len(claims) - takes < ItemSize /\ ItemSize \in Nat
      /\ headIdx = SlotOf(takes) /\ tailIdx = SlotOf(Len(claims))
    BY PosFacts DEF PosInv, PacedInv, CountsInv
<1> QED
    BY <1>1, SlotDist DEF RingBound

(* Then the tail never laps the head, however many producers there are.    *)
THEOREM PacedNeverLapped == PacedSpec => []RingBound
BY PacedBound, PosAlways, PTL

(* Then no producer overwrites a finished batch before it is taken.        *)
THEOREM PacedStaysIntact == PacedSpec => []UnreadIntact
<1>1. PosInv => UnreadIntact
    <2> SUFFICES ASSUME PosInv, NEW k \in 0 .. Len(claims) - takes - 1,
                        Finished(claims[takes + k + 1])
                 PROVE  /\ itemList[SlotAt(k)].stat = claims[takes + k + 1]
                        /\ itemList[SlotAt(k)].ret
                             \in {claims[takes + k + 1], NoRet}
        BY DEF UnreadIntact, Finished
    <2>1. /\ takes \in Nat /\ Len(claims) \in Nat
          /\ Len(claims) - takes <= ItemSize - 1 /\ ItemSize \in Nat
          /\ headIdx = SlotOf(takes) /\ SlotsInv
        BY PosFacts DEF PosInv, PacedInv, CountsInv
    <2>2. takes + k \in Recent /\ k \in 0 .. ItemSize - 1
        BY <2>1 DEF Recent
    <2>3. SlotAt(k) = SlotOf(takes + k)
        BY <2>1, <2>2, SlotAfterHead
    <2> QED
        BY <2>1, <2>2, <2>3 DEF SlotsInv
<1> QED
    BY <1>1, PosAlways, PTL
-----------------------------------------------------------------------------
LEMMA PacedPut ==
    ASSUME PosInv, Paced', NEW p \in Producers, syncStat(p)
    PROVE  \/ \E x \in Batches : Len(Waiting) < ItemSize - 1
                                 /\ Waiting' = Append(Waiting, x)
           \/ Waiting' = Waiting
<1>1. CASE UNCHANGED <<claims, takes>>
    BY <1>1 DEF Waiting
<1>2. CASE ~ UNCHANGED <<claims, takes>>
    <2>1. SyncCas(p) /\ tailIdx = wr[p].oldTail
        BY <1>2 DEF syncStat, SyncHead, SyncTail, SyncNext, SyncCas,
                    SyncFront, SyncBack, SyncRet, histVars
    <2>2. /\ claims' = Append(claims, TmpStat(p)) /\ takes' = takes
          /\ wpc[p] = "next"
        BY <2>1 DEF SyncCas
    <2>3. TmpStat(p) \in Batches
        <3>1. flushed[p] \in 0 .. MaxFlush /\ flushed[p] < MaxFlush
            BY <2>2 DEF PosInv, TypeOK
        <3>2. flushed[p] + 1 \in 1 .. MaxFlush
            BY <3>1
        <3> QED
            BY <3>2 DEF TmpStat, Batches
    <2>4. /\ claims \in Seq(Batches) /\ takes \in Nat /\ Len(claims) \in Nat
          /\ takes <= Len(claims)
        BY PosFacts DEF PosInv, PacedInv, TypeOK
    <2>5. Len(claims') = Len(claims) + 1
        BY <2>2, <2>3, <2>4
    <2>6. TypeOK' /\ CountsInv'
        BY <2>1, TypeSync, SyncSwap DEF PosInv
    <2>7. (Len(claims) - takes <= ItemSize - 1)'
        <3>1. Cardinality({q \in Producers : Pushing(q)'}) \in Nat
            <4>1. IsFiniteSet({q \in Producers : Pushing(q)'})
                BY ProcessAssumption, FS_Subset
            <4> QED
                BY <4>1, FS_CardinalityType
        <3>2. Len(claims') - takes' \in Int
            BY <2>2, <2>4, <2>5
        <3>3. Len(claims') - takes' + Cardinality({q \in Producers : Pushing(q)'})
                 <= ItemSize - 1
            BY DEF Paced, RoomForAll
        <3> QED
            BY <3>1, <3>2, <3>3
    <2>8. takes \in 0 .. Len(claims) /\ Len(claims) - takes < ItemSize - 1
        BY <2>2, <2>4, <2>5, <2>7
    <2> QED
        BY <2>2, <2>3, <2>4, <2>8, WaitingFacts DEF Waiting
<1> QED
    BY <1>1, <1>2

LEMMA PacedTake ==
    ASSUME PosInv, NEW c \in Consumers, fetch(c)
    PROVE  \/ Waiting # << >> /\ Waiting' = Tail(Waiting)
           \/ Waiting' = Waiting
<1>1. CASE UNCHANGED <<claims, takes>>
    BY <1>1 DEF Waiting
<1>2. CASE ~ UNCHANGED <<claims, takes>>
    <2>1. FetchCas(c) /\ headIdx = rd[c].loc.oldHead
        BY <1>2 DEF fetch, FetchHead, FetchTail, FetchNext, FetchCas,
                    FetchFront, FetchBack, histVars
    <2>2. claims' = claims /\ takes' = takes + 1
        BY <2>1 DEF FetchCas
    <2>3. takes < Len(claims)
        BY <2>1, SwapTakesOne
    <2>4. /\ claims \in Seq(Batches) /\ takes \in 0 .. Len(claims)
          /\ takes' + 1 = takes + 2
        BY <2>2, <2>3 DEF PosInv, TypeOK
    <2>5. Waiting' = Tail(Waiting)
        BY <2>2, <2>3, <2>4, WaitingFacts DEF Waiting
    <2>6. Len(Waiting) # 0
        BY <2>3, <2>4, WaitingFacts DEF Waiting
    <2> QED
        BY <2>5, <2>6
<1> QED
    BY <1>1, <1>2

(* Then the ring is a bounded FIFO queue for all of them together: every   *)
(* batch is put once, by the swap of the tail, and taken once, in the same *)
(* order, by the swap of the head.                                         *)
THEOREM PacedRingIsQueue == PacedSpec => IsQueue
<1>1. Init => Queue!Init
    <2>1. Init => SubSeq(claims, takes + 1, Len(claims)) = << >>
        BY SubSeqEmpty DEF Init
    <2> QED
        BY <2>1 DEF Queue!Init
<1>2. PosInv /\ [Next /\ Paced']_vars
         => [Queue!Next]_(SubSeq(claims, takes + 1, Len(claims)))
    <2> SUFFICES ASSUME PosInv, [Next /\ Paced']_vars
                 PROVE  [Queue!Next]_(SubSeq(claims, takes + 1, Len(claims)))
        OBVIOUS
    <2> USE DEF Queue!Next, Queue!Put, Queue!Take, Queue!Reset
    <2>1. ASSUME NEW p \in Producers, syncStat(p), Paced'
          PROVE  [Queue!Next]_(SubSeq(claims, takes + 1, Len(claims)))
        BY <2>1, PacedPut DEF Waiting
    <2>2. ASSUME NEW c \in Consumers, fetch(c)
          PROVE  [Queue!Next]_(SubSeq(claims, takes + 1, Len(claims)))
        BY <2>2, PacedTake DEF Waiting
    <2>3. CASE Reattach \/ Recreate
        BY <2>3, QueueRestart DEF Reattach, Recreate, Waiting
    <2>4. CASE UNCHANGED vars
        BY <2>4 DEF vars, histVars
    <2> QED
        BY <2>1, <2>2, <2>3, <2>4 DEF Next
<1> QED
    BY <1>1, <1>2, PosAlways, PTL DEF PacedSpec, IsQueue, Queue!Spec
=============================================================================
