------------------------------ MODULE Monitor ------------------------------
(***************************************************************************)
(* The statistics ring of src/src/comm/monitor.cpp: a shared-memory array  *)
(* of IntfStat items with a head and a tail index.  Producers (the tb      *)
(* child processes, the benchmark threads of a node) push one batch of     *)
(* statistics per call of syncStat; consumers (the tb parent, the node's   *)
(* query handler, a thread that starts a task) drain it with fetch.        *)
(*                                                                         *)
(* One action is one access to the shared memory: the code takes no lock   *)
(* and relies on compare-and-swap of the two indices alone.                *)
(***************************************************************************)
EXTENDS Integers, Sequences, FiniteSets

CONSTANTS Producers,    \* who call syncStat
          Consumers,    \* who call fetch
          ItemSize,     \* StatCache::itemSize, the slots of the ring
          MaxFlush,     \* bound: batches one producer pushes in one run
          Zero,         \* contents of memory that was cleared: flags unset
          Old,          \* a valid item that an earlier run left in its slot
          NoRet         \* an empty retCount string

ASSUME SizeAssumption == ItemSize \in Nat \ {0} /\ MaxFlush \in Nat

ASSUME ProcessAssumption == IsFiniteSet(Producers) /\ IsFiniteSet(Consumers)

(* A batch is what tmpStat and retCount of one producer hold between two   *)
(* resets; it is named by the producer and a running number.               *)
Batches == Producers \X (1 .. MaxFlush)

ASSUME MarkerAssumption == 
    /\ {Zero, Old, NoRet} \cap Batches = {}
    /\ Zero # Old /\ Zero # NoRet /\ Old # NoRet

Indices == 0 .. ItemSize - 1

(* An item in memory: the part that ends with totalRecvBytes, and the part *)
(* that starts with retCount and ends with endFlag.                        *)
Items == [stat : Batches \cup {Zero, Old},
          ret  : Batches \cup {Zero, Old, NoRet}]

VARIABLES
    headIdx, tailIdx, itemList,  \* the shared StatCache
    wpc, wr, flushed,            \* producers: place in syncStat, its locals,
                                 \*   batches handed over so far
    rpc, rd,                     \* consumers: place in fetch, its locals
    claims,    \* history: the batches in the order of the tail's swaps
    takes,     \* history: how often the head was swapped
    fetched    \* history: the items fetch returned, over all consumers

ringVars == <<headIdx, tailIdx, itemList>>
prodVars == <<wpc, wr, flushed>>
consVars == <<rpc, rd>>
histVars == <<claims, takes, fetched>>
vars == <<ringVars, prodVars, consVars, histVars>>

Locals == [oldHead : Indices, oldTail : Indices, new : Indices, began : Nat]
NoLocals == [oldHead |-> 0, oldTail |-> 0, new |-> 0, began |-> 0]
NoRead == [loc |-> NoLocals, stat |-> Zero]

SyncPlaces == {"idle", "head", "tail", "next", "front", "back", "ret"}
FetchPlaces == {"idle", "head", "tail", "next", "front", "back"}

TypeOK ==
    /\ headIdx \in Indices /\ tailIdx \in Indices
    /\ itemList \in [Indices -> Items]
    /\ wpc \in [Producers -> SyncPlaces]
    /\ wr \in [Producers -> Locals]
    /\ flushed \in [Producers -> 0 .. MaxFlush]
    /\ \A p \in Producers : wpc[p] # "idle" => flushed[p] < MaxFlush
    /\ rpc \in [Consumers -> FetchPlaces]
    /\ rd \in [Consumers -> [loc : Locals, stat : Batches \cup {Zero, Old}]]
    /\ claims \in Seq(Batches)
    /\ takes \in Nat
    /\ fetched \in Seq(Items)
-----------------------------------------------------------------------------
(* The batch producer p is filling, or pushing. *)
TmpStat(p) == <<p, flushed[p] + 1>>

(* Mutant of Succ: the index is not wrapped. *)
SuccUnwrapped(idx) == idx + 1

(* (idx + 1) % itemSize *)
Succ(idx) == (idx + 1) % ItemSize

(* The effect of initialize on the indices, the end of every call in       *)
(* progress, and the start of a new account.                               *)
FreshCalls ==
    /\ headIdx' = 0 /\ tailIdx' = 0
    /\ wpc' = [p \in Producers |-> "idle"]
    /\ wr' = [p \in Producers |-> NoLocals]
    /\ flushed' = [p \in Producers |-> 0]
    /\ rpc' = [c \in Consumers |-> "idle"]
    /\ rd' = [c \in Consumers |-> NoRead]
    /\ claims' = << >> /\ takes' = 0 /\ fetched' = << >>

(* initialize, first branch: the segment is created and cleared. *)
Init ==
    /\ headIdx = 0 /\ tailIdx = 0
    /\ itemList = [i \in Indices |-> [stat |-> Zero, ret |-> Zero]]
    /\ wpc = [p \in Producers |-> "idle"]
    /\ wr = [p \in Producers |-> NoLocals]
    /\ flushed = [p \in Producers |-> 0]
    /\ rpc = [c \in Consumers |-> "idle"]
    /\ rd = [c \in Consumers |-> NoRead]
    /\ claims = << >> /\ takes = 0 /\ fetched = << >>

(* What a slot holds for the program that attaches to it. *)
LeftOver(item) ==
    [stat |-> IF item.stat \in Batches THEN Old ELSE item.stat,
     ret  |-> IF item.ret \in Batches THEN Old ELSE item.ret]

(* The program stops at any point and starts again.  The segment outlives  *)
(* it: initialize attaches and resets the two indices, but leaves the      *)
(* items unless the size has changed.                                      *)
Reattach ==
    /\ itemList' = [i \in Indices |-> LeftOver(itemList[i])]
    /\ FreshCalls

Recreate ==
    /\ itemList' = [i \in Indices |-> [stat |-> Zero, ret |-> Zero]]
    /\ FreshCalls
-----------------------------------------------------------------------------
(* syncStat: a producer whose second is over. *)

SyncReturn(p) ==
    /\ wpc' = [wpc EXCEPT ![p] = "idle"]
    /\ wr' = [wr EXCEPT ![p] = NoLocals]

SyncHead(p) ==
    /\ wpc[p] = "idle" /\ flushed[p] < MaxFlush
    /\ wr' = [wr EXCEPT ![p].oldHead = headIdx, ![p].began = Len(claims)]
    /\ wpc' = [wpc EXCEPT ![p] = "head"]
    /\ UNCHANGED <<ringVars, flushed, consVars, histVars>>

SyncTail(p) ==
    /\ wpc[p] = "head"
    /\ wr' = [wr EXCEPT ![p].oldTail = tailIdx]
    /\ wpc' = [wpc EXCEPT ![p] = "tail"]
    /\ UNCHANGED <<ringVars, flushed, consVars, histVars>>

(* Mutant of SyncNext: the test for a full ring is missing. *)
SyncNextUntested(p) ==
    /\ wpc[p] = "tail"
    /\ wr' = [wr EXCEPT ![p].new = Succ(tailIdx)]
    /\ wpc' = [wpc EXCEPT ![p] = "next"]
    /\ UNCHANGED <<ringVars, flushed, consVars, histVars>>

(* newTail comes from a second read of the tail; if the ring is full the   *)
(* call returns and tmpStat goes on accumulating.                          *)
SyncNext(p) ==
    /\ wpc[p] = "tail"
    /\ IF wr[p].oldHead = Succ(tailIdx)
       THEN SyncReturn(p)
       ELSE /\ wr' = [wr EXCEPT ![p].new = Succ(tailIdx)]
            /\ wpc' = [wpc EXCEPT ![p] = "next"]
    /\ UNCHANGED <<ringVars, flushed, consVars, histVars>>

(* Mutant of SyncCas: a plain store instead of the compare-and-swap. *)
SyncCasStore(p) ==
    /\ wpc[p] = "next"
    /\ tailIdx' = wr[p].new
    /\ claims' = Append(claims, TmpStat(p))
    /\ wpc' = [wpc EXCEPT ![p] = "front"]
    /\ UNCHANGED <<headIdx, itemList, wr, flushed, consVars, takes, fetched>>

(* The swap publishes the slot, before anything is copied into it. *)
SyncCas(p) ==
    /\ wpc[p] = "next"
    /\ IF tailIdx = wr[p].oldTail
       THEN /\ tailIdx' = wr[p].new
            /\ claims' = Append(claims, TmpStat(p))
            /\ wpc' = [wpc EXCEPT ![p] = "front"]
            /\ wr' = wr
       ELSE SyncReturn(p) /\ UNCHANGED <<tailIdx, claims>>
    /\ UNCHANGED <<headIdx, itemList, flushed, consVars, takes, fetched>>

(* Mutant of SyncFront: the copy goes to the slot of the new tail. *)
SyncFrontAtNew(p) ==
    /\ wpc[p] = "front"
    /\ itemList' = [itemList EXCEPT ![wr[p].new].stat = TmpStat(p)]
    /\ wpc' = [wpc EXCEPT ![p] = "back"]
    /\ UNCHANGED <<headIdx, tailIdx, wr, flushed, consVars, histVars>>

(* memcpy of tmpStat, front to back; its own retCount is always empty. *)
SyncFront(p) ==
    /\ wpc[p] = "front"
    /\ itemList' = [itemList EXCEPT ![wr[p].oldTail].stat = TmpStat(p)]
    /\ wpc' = [wpc EXCEPT ![p] = "back"]
    /\ UNCHANGED <<headIdx, tailIdx, wr, flushed, consVars, histVars>>

SyncBack(p) ==
    /\ wpc[p] = "back"
    /\ itemList' = [itemList EXCEPT ![wr[p].oldTail].ret = NoRet]
    /\ wpc' = [wpc EXCEPT ![p] = "ret"]
    /\ UNCHANGED <<headIdx, tailIdx, wr, flushed, consVars, histVars>>

(* Mutant of SyncRet: tmpStat is not reset, and is pushed again. *)
SyncRetKept(p) ==
    /\ wpc[p] = "ret"
    /\ itemList' = [itemList EXCEPT ![wr[p].oldTail].ret = TmpStat(p)]
    /\ SyncReturn(p)
    /\ UNCHANGED <<headIdx, tailIdx, flushed, consVars, histVars>>

(* The return codes follow, unless their text is too long for the slot;    *)
(* then tmpStat, retCount and queueCost are reset.                         *)
SyncRet(p) ==
    /\ wpc[p] = "ret"
    /\ \/ itemList' = [itemList EXCEPT ![wr[p].oldTail].ret = TmpStat(p)]
       \/ UNCHANGED itemList
    /\ flushed' = [flushed EXCEPT ![p] = @ + 1]
    /\ SyncReturn(p)
    /\ UNCHANGED <<headIdx, tailIdx, consVars, histVars>>

syncStat(p) ==
    \/ SyncHead(p) \/ SyncTail(p) \/ SyncNext(p) \/ SyncCas(p)
    \/ SyncFront(p) \/ SyncBack(p) \/ SyncRet(p)
-----------------------------------------------------------------------------
(* fetch: one turn of its loop.  The reads at the end of a turn are those  *)
(* at the start of the next one, or of the next call.                      *)

FetchReturn(c) ==
    /\ rpc' = [rpc EXCEPT ![c] = "idle"]
    /\ rd' = [rd EXCEPT ![c] = NoRead]

FetchHead(c) ==
    /\ rpc[c] = "idle"
    /\ rd' = [rd EXCEPT ![c].loc.oldHead = headIdx, ![c].loc.began = takes]
    /\ rpc' = [rpc EXCEPT ![c] = "head"]
    /\ UNCHANGED <<ringVars, prodVars, histVars>>

(* Mutant of FetchTail: an empty ring is not noticed. *)
FetchTailUntested(c) ==
    /\ rpc[c] = "head"
    /\ rd' = [rd EXCEPT ![c].loc.oldTail = tailIdx]
    /\ rpc' = [rpc EXCEPT ![c] = "tail"]
    /\ UNCHANGED <<ringVars, prodVars, histVars>>

(* Mutant of FetchTail: a tail that went round the end looks like no tail. *)
FetchTailOrdered(c) ==
    /\ rpc[c] = "head"
    /\ IF rd[c].loc.oldHead >= tailIdx
       THEN FetchReturn(c)
       ELSE /\ rd' = [rd EXCEPT ![c].loc.oldTail = tailIdx]
            /\ rpc' = [rpc EXCEPT ![c] = "tail"]
    /\ UNCHANGED <<ringVars, prodVars, histVars>>

FetchTail(c) ==
    /\ rpc[c] = "head"
    /\ IF rd[c].loc.oldHead = tailIdx
       THEN FetchReturn(c)
       ELSE /\ rd' = [rd EXCEPT ![c].loc.oldTail = tailIdx]
            /\ rpc' = [rpc EXCEPT ![c] = "tail"]
    /\ UNCHANGED <<ringVars, prodVars, histVars>>

FetchNext(c) ==
    /\ rpc[c] = "tail"
    /\ rd' = [rd EXCEPT ![c].loc.new = Succ(headIdx)]
    /\ rpc' = [rpc EXCEPT ![c] = "next"]
    /\ UNCHANGED <<ringVars, prodVars, histVars>>

(* Mutant of FetchCas: a plain store instead of the compare-and-swap. *)
FetchCasStore(c) ==
    /\ rpc[c] = "next"
    /\ headIdx' = rd[c].loc.new
    /\ takes' = takes + 1
    /\ rpc' = [rpc EXCEPT ![c] = "front"]
    /\ UNCHANGED <<tailIdx, itemList, rd, prodVars, claims, fetched>>

FetchCas(c) ==
    /\ rpc[c] = "next"
    /\ IF headIdx = rd[c].loc.oldHead
       THEN /\ headIdx' = rd[c].loc.new
            /\ takes' = takes + 1
            /\ rpc' = [rpc EXCEPT ![c] = "front"]
            /\ rd' = rd
       ELSE FetchReturn(c) /\ UNCHANGED <<headIdx, takes>>
    /\ UNCHANGED <<tailIdx, itemList, prodVars, claims, fetched>>

(* memcpy out of the slot, after the slot was given back to the producers. *)
FetchFront(c) ==
    /\ rpc[c] = "front"
    /\ rd' = [rd EXCEPT ![c].stat = itemList[rd[c].loc.oldHead].stat]
    /\ rpc' = [rpc EXCEPT ![c] = "back"]
    /\ UNCHANGED <<ringVars, prodVars, histVars>>

(* The item counts when both its flags are set. *)
FetchBack(c) ==
    /\ rpc[c] = "back"
    /\ LET item == [stat |-> rd[c].stat, 
                    ret  |-> itemList[rd[c].loc.oldHead].ret]
       IN  fetched' = IF item.stat # Zero /\ item.ret # Zero
                      THEN Append(fetched, item) ELSE fetched
    /\ FetchReturn(c)
    /\ UNCHANGED <<ringVars, prodVars, claims, takes>>

fetch(c) ==
    \/ FetchHead(c) \/ FetchTail(c) \/ FetchNext(c) \/ FetchCas(c)
    \/ FetchFront(c) \/ FetchBack(c)
-----------------------------------------------------------------------------
Next ==
    \/ \E p \in Producers : syncStat(p)
    \/ \E c \in Consumers : fetch(c)
    \/ Reattach
    \/ Recreate

Spec == Init /\ [][Next]_vars

(* A consumer polls for ever: the tb parent once a second, the             *)
(* administrator through query.  Nothing is assumed of the producers, and  *)
(* nothing stops the program from being restarted.                         *)
FairSpec == Spec /\ \A c \in Consumers : WF_vars(fetch(c))
-----------------------------------------------------------------------------
(* The number of slots from index h up to index t, going round. *)
Dist(h, t) == IF t >= h THEN t - h ELSE t - h + ItemSize

(* The slot that is k places after the head. *)
SlotAt(k) == IF headIdx + k < ItemSize THEN headIdx + k
                                       ELSE headIdx + k - ItemSize

(* The indices say how many batches were pushed and not yet taken: never   *)
(* less than none, never as many as there are slots.  When it breaks the   *)
(* tail has lapped the head, a full ring looks empty, and itemSize         *)
(* batches are lost at once (syncStat, lines 118-130).                     *)
RingBound == Len(claims) - takes = Dist(headIdx, tailIdx)

Pushing(p) == wpc[p] \in {"head", "tail", "next"}
Copying(p) == wpc[p] \in {"front", "back", "ret"}

(* A batch whose copy is finished stays whole in its slot until the slot   *)
(* is taken: no producer comes round and overwrites it (lines 126-134).    *)
(* The one exception the code makes is a return-code text too long to fit. *)
UnreadIntact ==
    \A k \in 0 .. Len(claims) - takes - 1 :
        LET b == claims[takes + k + 1]
        IN  b[2] <= flushed[b[1]] =>
                /\ itemList[SlotAt(k)].stat = b
                /\ itemList[SlotAt(k)].ret \in {b, NoRet}

Taking(c) == rpc[c] \in {"front", "back"}

(* Every batch that was taken comes out of fetch once and whole, unless it *)
(* is being copied out at the moment: none is lost, counted twice or mixed *)
(* with another (fetch, lines 156-165).                                    *)
ExactlyOnce ==
    /\ Len(fetched) + Cardinality({c \in Consumers : Taking(c)}) = takes
    /\ \A i \in 1 .. Len(fetched) :
        /\ fetched[i].stat \in {claims[k] : k \in 1 .. Len(claims)}
        /\ fetched[i].ret \in {fetched[i].stat, NoRet}
        /\ \A j \in 1 .. i - 1 : fetched[j].stat # fetched[i].stat

(* What is pushed is eventually taken (or the program is restarted).       *)
Drained ==
    \A n \in 1 .. MaxFlush :
        (Len(claims) >= n) ~> (takes >= n \/ Len(claims) < n)

(* The ring is a bounded FIFO queue of its batches. *)
Queue == INSTANCE BoundedQueue
            WITH Items <- Batches, Capacity <- ItemSize - 1,
                 queue <- SubSeq(claims, takes + 1, Len(claims))

IsQueue == Queue!Spec
-----------------------------------------------------------------------------
(* With one producer and one consumer: what the calls in progress know.    *)
(* The producer's view of the head may be old, but the head only gets      *)
(* closer to the tail; the consumer's view of the tail likewise.           *)
IndexInv ==
    /\ \A p \in Producers :
        /\ Pushing(p) =>
               Dist(headIdx, tailIdx) <= Dist(wr[p].oldHead, tailIdx)
        /\ wpc[p] \in {"tail", "next"} => wr[p].oldTail = tailIdx
        /\ wpc[p] = "next" => /\ wr[p].new = Succ(tailIdx)
                              /\ wr[p].oldHead # wr[p].new
    /\ \A c \in Consumers :
        /\ rpc[c] \in {"head", "tail", "next"} => rd[c].loc.oldHead = headIdx
        /\ rpc[c] \in {"tail", "next"} => headIdx # tailIdx
        /\ rpc[c] = "next" => rd[c].loc.new = Succ(headIdx)

(* ... and how far the producer's copy has come.                           *)
CopyInv ==
    /\ \A i \in 1 .. Len(claims) : claims[i][2] = i
    /\ \A p \in Producers :
        /\ Len(claims) = IF Copying(p) THEN flushed[p] + 1 ELSE flushed[p]
        /\ Copying(p) => Succ(wr[p].oldTail) = tailIdx
        /\ wpc[p] \in {"back", "ret"} =>
               itemList[wr[p].oldTail].stat = TmpStat(p)
        /\ wpc[p] = "ret" => itemList[wr[p].oldTail].ret = NoRet

RingInv == RingBound /\ IndexInv /\ CopyInv /\ UnreadIntact
-----------------------------------------------------------------------------
(* The assumptions on timing under which the ring serves several producers *)
(* and consumers; the code enforces none of them, its size (about 900      *)
(* slots, one push a second and producer) makes them likely.               *)

(* There is room for everybody who is in syncStat before the swap. *)
RoomForAll ==
    Len(claims) - takes + Cardinality({p \in Producers : Pushing(p)}) 
        <= ItemSize - 1

(* No call lasts while the others go once round the ring. *)
NoLap ==
    /\ \A p \in Producers :
        wpc[p] # "idle" => Len(claims) - wr[p].began < ItemSize
    /\ \A c \in Consumers :
        rpc[c] # "idle" => Len(claims) - rd[c].loc.began < ItemSize

(* A batch is copied in before a consumer gets to it. *)
CopyFirst ==
    \A p \in Producers, c \in Consumers :
        ~ (Copying(p) /\ Taking(c) /\ wr[p].oldTail = rd[c].loc.oldHead)

Paced == RoomForAll /\ NoLap /\ CopyFirst

PacedSpec == Init /\ [][Next /\ Paced']_vars
-----------------------------------------------------------------------------
(* What holds of the calls in progress under these assumptions.  Batches   *)
(* are known by their position: the one the n-th swap of the tail claimed  *)
(* has position n - 1.                                                     *)

(* The slot of a position. *)
SlotOf(n) == n % ItemSize

(* The positions whose slot no later batch has claimed. *)
Recent == {n \in 0 .. Len(claims) - 1 : Len(claims) - n <= ItemSize}

Finished(b) == b[2] <= flushed[b[1]]

(* The indices are the slots of the two counts. *)
CountsInv ==
    /\ headIdx = SlotOf(takes) /\ tailIdx = SlotOf(Len(claims))
    /\ takes <= Len(claims)

(* Every batch is claimed once, and is finished or being copied in.        *)
ClaimsInv ==
    /\ \A i, j \in 1 .. Len(claims) : claims[i] = claims[j] => i = j
    /\ \A i \in 1 .. Len(claims) :
        \/ Finished(claims[i])
        \/ \E p \in Producers : Copying(p) /\ claims[i] = TmpStat(p)

(* The two reads of the tail gave what it was at some point of the call,   *)
(* the second no earlier than the first; a copy goes to the slot of the    *)
(* position it was claimed for.                                            *)
ProducerInv(p) ==
    /\ wpc[p] # "idle" => wr[p].began <= Len(claims)
    /\ wpc[p] \in {"tail", "next"} =>
           \E a \in wr[p].began .. Len(claims) :
               /\ wr[p].oldTail = SlotOf(a)
               /\ wpc[p] = "next" =>
                      \E b \in a .. Len(claims) : wr[p].new = SlotOf(b + 1)
    /\ Copying(p) =>
           \E n \in wr[p].began .. Len(claims) - 1 :
               claims[n + 1] = TmpStat(p) /\ wr[p].oldTail = SlotOf(n)
    /\ wpc[p] \in {"back", "ret"} => itemList[wr[p].oldTail].stat = TmpStat(p)
    /\ wpc[p] = "ret" => itemList[wr[p].oldTail].ret = NoRet

(* A finished batch is whole in its slot until the slot is claimed again,  *)
(* whether or not it was taken.                                            *)
SlotsInv ==
    \A n \in Recent : Finished(claims[n + 1]) =>
        /\ itemList[SlotOf(n)].stat = claims[n + 1]
        /\ itemList[SlotOf(n)].ret \in {claims[n + 1], NoRet}

(* The position at which fetch began is the one it copies out after the    *)
(* swap.                                                                   *)
ConsumerInv(c) ==
    /\ rpc[c] # "idle" => /\ rd[c].loc.began <= takes
                          /\ rd[c].loc.oldHead = SlotOf(rd[c].loc.began)
    /\ rpc[c] \in {"tail", "next"} => rd[c].loc.began < Len(claims)
    /\ rpc[c] = "next" => \E b \in rd[c].loc.began .. takes :
                              rd[c].loc.new = SlotOf(b + 1)
    /\ Taking(c) => rd[c].loc.began < takes
    /\ rpc[c] = "back" => rd[c].stat = claims[rd[c].loc.began + 1]

(* No two consumers copy out the same position. *)
TakersDiffer ==
    \A c, d \in Consumers :
        Taking(c) /\ Taking(d) /\ rd[c].loc.began = rd[d].loc.began => c = d

(* What came out was at a position that was taken and is not being copied. *)
FetchedInv ==
    /\ ExactlyOnce
    /\ \A i \in 1 .. Len(fetched) : \E n \in 0 .. takes - 1 :
        /\ fetched[i].stat = claims[n + 1]
        /\ \A c \in Consumers : Taking(c) => rd[c].loc.began # n

(* The assumptions on timing, and all that holds under them. *)
PacedInv ==
    /\ Paced /\ CountsInv /\ ClaimsInv /\ SlotsInv
    /\ \A p \in Producers : ProducerInv(p)
    /\ \A c \in Consumers : ConsumerInv(c)
    /\ TakersDiffer /\ FetchedInv
=============================================================================
