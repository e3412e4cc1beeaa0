# TarsBenchmark: a TLA+ model

TarsBenchmark (`tb` and its online service) puts load on a server and reports
how it answered.  This directory holds TLA+ modules of its concurrent core, the
TLC configurations that check them on small instances, and proofs that TLAPS
checks for every instance.  Paths below are relative to the repository's `src/src`
directory unless they start with `README`.

## 1. Inventory

| Component | Source | State | Operations | Interacts with |
|---|---|---|---|---|
| Statistics ring | `comm/monitor.*` | a shared-memory array of `IntfStat` with `headIdx`, `tailIdx`; per user `tmpStat`, `retCount`, `queueCost` | `initialize`, `report*`, `syncStat`, `fetch`, `clear` | filled by whoever sends load, drained by whoever displays it; other processes or threads, without a lock |
| Thread pool of a node | `server/NodeServer/NodeImp.*` | `_taskconf` of each benchmark thread | `startup`, `shutdown`, `query`, `capacity` | writes the threads' configurations, drains their rings, called by the administrator |
| Benchmark thread | `server/NodeServer/BenchmarkThread.*` | its copy of the configuration, its connections, the shared `seq_num` | `init`, `run`, `do_task`, `terminate` | reads what the handlers write, drives transports, pushes to the ring |
| Transport | `comm/transport.*` | a connection: status, send and receive buffers, `_sendQueue` of unanswered requests | `trySend`, `handleRead/Write/Error/Process`, `checkTimeOut`, `checkConnect`, `checkSocket`, `close` | the server under test through a socket; reports to the ring's user side |
| Administrator | `server/AdminServer/*` | the table of tasks, their results, the nodes and their free speed | handlers `startup`, `query`, `shutdown`, `test`; a scheduler thread `daemon` with `scanActiveNode` | calls the nodes; its handlers and its thread share the table |
| `tb` | `tool/main.cpp` | run flag, accumulated statistics | parent: fork, poll, stop, print; child: `run` | parent and children share a ring and signals |
| Protocols | `comm/proto/*`, `comm/proto_factory.h` | parameters of one protocol | `initialize`, `input`, `encode`, `decode` | called by the transport |
| Helpers | `comm/commdefs.h` | none | `str2map`, `map2str`, `PROC_TRY_*` | used everywhere |
| Option parser | `comm/licote/*` | the parsed options | a vendored library, run once | `tb` at its start |

What is hard here:

* **The ring** takes no lock.  `syncStat` and `fetch` read head and tail one
  after the other, decide on the pair, and protect one index each by a
  compare-and-swap; the copy of a batch comes after the swap on both sides.  The
  segment survives the program.  *Correct* means: a bounded FIFO queue, every
  batch taken at most once and whole, nothing lost while there is room.
* **The pool** divides a task's rate and links by integer division, over threads
  that other tasks may hold in between.  *Correct*: a task has all the threads it
  needs or none, the rate granted and no more, and connections on each.
* **The hand-over** of a configuration from a handler to a thread is a plain copy
  of a structure that another thread may be writing.  *Correct*: the thread's
  loop comes to run on the configuration in force, leaves a task that was stopped, and (this one
  fails) never works on a mixture.
* **The transport** meets late and missing answers, refused and broken
  connections.  *Correct*: an answer is reported once and for the request it
  belongs to; a request that was counted as sent ends as succeeded or failed.
* **The administrator** keeps its table consistent between concurrent handlers, a
  scheduler, and nodes that refuse, fail or restart.  *Correct*: no task runs twice,
  a stopped or forgotten task is eventually stopped on every node, quotas on a
  node stay within its capacity.
* **`tb`** is several processes that share a ring and are told to stop by signals which
  only reset a flag.  Children die, cannot be forked, or are forked after the signal.
  *Correct*: everything counted as sent gets into the figures or was in the hands of
  a child that ended, the figures are taken when nobody can push any more, and tb and
  its children end.
* **Protocols** take texts with brackets, commas and escapes apart by counting, and find
  packets in a stream that comes in any pieces.  *Correct*: a test case becomes the
  items that its values have in the Tars encoding, an answer is shown as a case would
  write it, a packet is decoded once it is whole and not before.
* **Figures** are means of means on the way through batches, nodes and the
  administrator.  *Correct*: each call is counted once as what it was.

The full list of hazards, each at its line, is in `PROJECT.json`.

## 2. Plan

1. `BoundedQueue`, `Monitor` (done): the ring against a FIFO queue, and its proofs.
2. `NodeImp`, `NodeServer` (done): the pool, the hand-over, and their proofs.
3. `Transport` (done): one connection against a server that answers late, twice or
   never, with and without sequence numbers, and its proofs.
4. `Admin` (done): task table, handlers, daemon and nodes, with failed and late
   calls and restarts of either side, and its proofs.
5. `Tool` (done): parent and children with signals, over `BoundedQueue`; the pacing of
   requests; and its proofs.
6. `Framing`, `TarsCase`, `JsonCase`, `Figures` (done): the algorithms, against what a
   user may expect of them (`CaseTrees` and the calls of a test), and the proofs about
   `Framing` and `Figures`.
7. `Sums` (done): sums over finite sets, for the pool and the administrator, and what is
   to be proved of them.

Left: what the threads of a node share when they send, that is the sequence counter
(`BenchmarkThread.cpp:110`) and the static encode buffer (`transport.cpp:162`); the
results of tasks and the time of the last query in the administrator. The number of runs
is kept small: each answers one question.

## 3. Modules

| Module | Models | State and actions |
|---|---|---|
| `BoundedQueue` | what the ring promises | `queue`; `Put`, `Take`, `Reset` |
| `Monitor` | `monitor.cpp`, the shared side | one action per access to shared memory |
| `MonitorProofs` | | theorems of section 6 |
| `Sums` | the sum of a function over a finite set | operator |
| `SumsProofs` | | induction, and the lemmas about sums of section 6, which the other proofs use |
| `NodeImp` | `startup`, `shutdown`, `capacity` | `taskconf`; one action per handler |
| `NodeServer` | pool + `do_task` + `query` | `place`, `work`, `ring`; one action per section of `do_task` |
| `NodeProofs` | | theorems of section 6, of the pool and of the node |
| `Transport` | one connection and its owner's loop | `conn`, with the outcome of each request; turns, events, the peer |
| `TransportProofs` | | theorems of section 6 |
| `Admin` | the administrator and its calls to the nodes | `task`, `left`, `executors`, `pending`, `load`; one action per section of `daemon` between its calls and locks |
| `AdminProofs` | | theorems of section 6 |
| `Tool` | `tool/main.cpp`: main, its children, signals, pacing | `ppc`, `pid_list`, `cpc`, `tmpStat`, `ring`, ...; one action per section of `main` and of the loop of `run` |
| `ToolProofs` | | theorems of section 6 |
| `Framing` | `input`, `encode`, `decode` of the protocols, and the buffers of a connection | the two buffers, what arrived and what was sent; `handleRead`, `Frame`, `trySend`, `handleWrite`, `close` |
| `FramingProofs` | | theorems of section 6 |
| `TarsStream` | the streams of the Tars library, as used here (external) | operators |
| `TarsCase`, `JsonCase` | `tars_protocol.cpp`, `json_protocol.cpp`: a case to a request, an answer to a text | operators |
| `CaseTrees` | what a test case means: its texts, its items | operators, the reference for the two |
| `Figures` | a batch, its text of return codes, sums of batches and nodes | operators; `queries`, the calls of a test as they were divided |
| `FiguresProofs` | | theorems of section 6 |
| `MCMonitor`, `MCNodeImp`, `MCNodeServer`, `MCAdmin`, `MCProtocols` | | values of constants for TLC; `MCProtocols` also puts the algorithms beside `Framing` and states what they should compute |

**`Monitor`.**  `syncStat` is split at each access to shared memory: `SyncHead` (line
119), `SyncTail` (120), `SyncNext` (a *second* read of the tail and the test, 121-125),
`SyncCas` (127), `SyncFront` and `SyncBack` (the `memcpy` of line 132 in two parts),
`SyncRet` (133-143).  `fetch` likewise: `FetchHead`, `FetchTail`, `FetchNext`,
`FetchCas`, `FetchFront`, `FetchBack`.  The reads at the end of a turn of its loop are
those at the start of the next.  A batch is a name, the producer and a running number:
what is accumulated is one batch until `tmpStat` is reset, so a call that finds the ring
full or loses the swap keeps it.  An item has two halves, because the copy is not atomic
and because the return codes are written last; `Zero` is cleared memory (flags unset),
`Old` a valid item of an earlier run.  `Reattach` and `Recreate` are a stop of the
program at any point followed by `initialize`, with the segment found or made anew.
`claims`, `takes`, `fetched` and the local `began` are histories; no action's guard
reads them.  Accesses are sequentially consistent: they are volatile, the swaps are
locked instructions, and the builds are for x86, where the only reordering left is of a
store with a later load of the same processor.  `clear` (53-57) is a `fetch` whose
result is dropped, hence a consumer.

**`NodeImp`.**  A thread's `TaskConf` has the task's key (protocol and service, the
key by which `>=` and `<=` compare), links, speed, the number of endpoints and the run
flag; `paralist` goes with the key.  Handlers are atomic with respect to each
other because `initialize` refuses a second servant thread (lines 13-17).  Requests are
those the administrator can send: it starts a task only on nodes to which it gives
positive links and a positive speed, and lets no task without endpoints in
(`AdminImp.cpp:97`, `AdminServer.cpp:66`).  `granted` is a history.

**`NodeServer`.**  `do_task` is `Copy` and `Tear` (line 68), `Enter` (69-73), `Clear`
(78-104), `Refuse` (81-87, and the exception for an unknown protocol), `Report` (a
turn of the loop with a push), `Leave` (126), `Finish` (132-148).  `PROC_TRY_EXIT` is a
`break`: inside the loop it leaves only the loop, so lines 133-134 run.  The copy of
line 68 races with the handlers.  The model lets the strings and vectors come
from one version and the numbers from another; a race on a C++ string can also
crash, which is not modelled.  All threads use one ring, as line 27 of `NodeImp.cpp`
has it.  Here the ring is the queue of `BoundedQueue`; `Monitor` says how far
that is justified.

**`Transport`.**  The owner is one thread, so a step is a turn of its loop (`Turn`:
lines 114-121 of `BenchmarkThread.cpp` for one connection) or one event (`handle`).  The
functions call each other and each may close or reopen the socket on the way; they are
modelled as operators from a connection to the connections they may leave, composed as
in the code: `trySend` ends in `handleWrite`, `handleRead` in `handleProcess`, which
ends in `checkTimeOut`, all of which begin with `checkSocket`.  Two transports and two
kinds of protocol are choices of `Init`.  Between the owner's steps the network refuses
and breaks connections, the server closes its side, answers in any order (in order on
TCP without numbers), twice on UDP, unreadably, or not at all.  Requests and answers are
whole (`Framing` is about their bytes); how much of the send buffer gets out is a
choice.  Time is a choice as well: any prefix of the waiting requests may be overtime,
since they were sent in their order with one timeout, and a connection that is being
established may be. The loop of `handleProcess` over the answers that have come is
`Answers`: with numbers an answer settles the request of its number, once; without them
the n-th answer settles the n-th request that waits. `fate` and `by` are histories: what
became of each request, and whose answer it was.  `fate = "waiting"` is membership of
`_sendQueue`; what recv and send report of a connection is only a return code
(`monitor.cpp:59-62`) and left out.  A failed `encode` is a refusal, as is a connection
not established.  Requests have distinct numbers, as in `tb`; that the threads of a node
can give one number twice is in the hazards.

**`Admin`.**  `daemon` is split where a handler or a failure can come between: the scan
(lines 151-175), each check and each call of the clean-up (178-193), each entry of the
walk (51-53), each call to a node (69, 117), and each locked section (77-83, 106,
120-124). `capacity` of all nodes is one step, since only the daemon changes what they
answer.  A handler is two steps, the copy it decides on (`startup`, `shutdown`) and
`updateTask`; in between it is an element of the bag `pending`.  A call is executed, or
lost, or given up and delivered later; a lost answer is an executed call, because the
daemon does not look at results.  `load` is what runs on the nodes; its changes are
those of `NodeImp`'s handlers for one endpoint.  `_next_scan_time` counts turns of the
daemon.  Other time is a choice: a running task may be over whenever it is looked at,
which covers `duration` and the 300 s since the last query.  When `updateTask` assigns
the quota under the iterator of line 115, the behaviour is undefined; the model lets the
loop go on with any of the old and the new nodes (a crash is the restart, which is
modelled).  Line 64 reads the entry's links again in each turn of its
loop, after a handler may have written others.  A task may ask for a speed of 0 or for
negative links; only its links may not be 0, by which line 109 of `AdminImp.cpp`
divides.  `NoWrongStop` is about the daemon's steps: a stop that is given up and executed
by the node later can reach a task that was started in the meantime.  Left out: the results
(`queryResult`, `result`, `total_result`), `test`,
which keeps no state, and races of the daemon's reads of the table with an insertion
other than the one named.

**`Tool`.**  `Fork`, `Forked`, `View`, `ViewEnds`, `Kill`, `KillEnds` and `printFinal`
are the sections of `main` (lines 319-353); `Turn`, `Stop` and `Finish` those of `run`
(143-177) in a child.  A request has a name, a batch of statistics is the set of
requests it counts, so that a double or a loss shows; the ring is the queue of
`BoundedQueue`, whose swap another child may win.  Signals reset `gRunFlag` and nothing
else; a child begins with the flag as it is in its parent at the fork.  `fork` may fail,
and -1 is then kept as a process number, to which `kill` sends a signal later: that is
every process of the user, and `stray` records it.  The clock ticks between any two
steps.  Connections are left to `Transport`: a turn sends on some of them.

**`Framing`.**  One connection's bytes.  `_recvBuffer` is filled piece by piece
(`handleRead`), and `Frame` is a turn of the loop of `handleProcess`: `input` says how
much is a packet, `decode` what it is, `erase` takes it off; when `input` asks for more
than there is, `overrun` records it.  `_sendBuffer` gets what `encode` makes, and the
socket takes as much as it likes (`Written`).  A tars or json packet is its length, its
number and a body of some bytes; an http answer a sequence of marks (a head, line ends,
sizes of chunks, data), which is what `input` looks at.

**`TarsCase`, `JsonCase`.**  A text is a sequence of words and marks, as blanks are
trimmed; JSON is a tree; a stream is a sequence of items (kind, tag, value), as
`TarsStream` says of the Tars library.  `caseOfFile`, `parseCase`, `encode*` and
`decode*` are translated function by function, with the order of their tests: what is
nested is found by counting brackets, a member of a struct may say its tag or follow the
one before it.  In JSON the default of a number is a text, and a description that has
anything else there is refused; bytes are given as a text of hexadecimal digits or as a
list of numbers, and shown as such a text.  `CaseTrees` is independent of them: from a tree of types and a value it
writes the text a user writes, and the items the Tars encoding has for it.

**`Figures`.**  `report`, `syncStat`'s batch with its percentiles and its text of return
codes, `map2str` and `str2map` character by character of a small alphabet (the point is
what the conversion loses), and both `operator+=`.  A batch is what a process
reports between two pushes: the requests it sent, the calls that ended, and the errors
of sockets, which leave nothing but a code.  A loop of the code is `Folded` over
its turns (`Reported`, `Read`, the sums).  `queries` says what each query of a node
found, batch by batch; `Calls` puts the calls of it one after the other, and the
properties compare the figures with those.

**`MCProtocols`.**  A behaviour is of one of three kinds: a `Framing` of a connection, a
test case with its answer, or the calls of a test with their way through batches and
nodes.  A behaviour of the last two kinds stays in its initial state, since what is
asked is about functions: the initial states run through all the cases and all the
calls.

Operators whose comment begins with "Mutant of" are not part of the model.  Each is
a plausible mistake in the definition it names, kept to show that a property
would notice.

## 4. Runs

| Run | Question | Instance | Result |
|---|---|---|---|
| `monitor_spsc` | Is the ring a FIFO queue for one producer and one consumer, and is it drained? | 3 slots, 4 batches | holds |
| `monitor_paced` | Is it for several, if they keep to its timing assumptions? | 3 slots, 2+2 processes, 2 batches each | holds |
| `monitor_stale` | Does it lose nothing without those assumptions? | 3 slots, 1+1 | violated: `fetch` takes the slot before it is filled, and the new batch is lost (in the trace it returns nothing; it may as well return an old item) |
| `node_pool` | Are tasks given whole, at the rate granted, with connections? | 4 threads, 2 tasks, up to 4 links, rate 16 and 2 endpoints | holds |
| `node_threads` | Does a thread's loop come to run on the configuration in force, and is a stopped task left? | 2 threads, 2 tasks | holds |
| `transport` | Is each request settled once, by its own answer, and at last? | 3 requests, 2 answers on the way | holds |
| `transport_lost` | Is what was counted as sent also counted as a success or a failure? | the same | violated: a closed connection drops its requests |
| `admin` | Are orphans stopped and running tasks left alone, and is every task started and ended? | 2 tasks, 2 nodes, 2 handlers, 1 fault | holds |
| `tool` | Is every request counted once, and do tb and its children end? | 2 children, a ring of 1, one of them dies | holds |
| `tool_rate` | Does a process keep to the limit of `-s`? | 1 child, 2 requests a second of 4 ticks | violated: it sends in every turn |
| `protocols` | Are packets found whole; do test cases, answers and figures come out as meant? | answers of up to 3 packets; the types of `Types`, up to 3 levels; up to 2 calls in up to 3 batches | holds |
| `http_framing` | Are http answers found whole? | the same, with http | violated: a body that has not come is taken off the buffer |

**Bounds.**  Three slots hold two batches: the smallest ring with an order to get wrong.
Four batches take both indices round the end and let a slot be reused while its first
content is under way.  Two producers with two consumers have every pair of interleaved
calls; with `MaxFlush` 2 a producer comes back while the other's call hangs.  In the
pool, a thread sends 4 a second and a connection 2, so that 4 threads see tasks of one
to four threads, remainders, fragmentation and refusals; two endpoints show the rounding
(a real node has 25000 and 1000).  In `node_threads` one shape of a task needs one
thread and the other needs two, with a remainder, so threads change tasks in all combinations.  Three requests
on a connection are one answered, one overtime and one behind them, and two answers on
their way can be doubled or swapped; the refusals and breaks are not bounded. For the
administrator two tasks of one node and a half share two nodes, so that each task has
nodes of its own and a shared one, and two accepted requests can be of one task or of
two.  One fault at any point makes an orphan of each kind; the handlers' late writes
make some without a fault.  A node that never answers is more than one fault and not
tried; the tasks of the run ask for positive speed and links, the theorems cover the rest.

`tb` has two children, the fewest that compete for the ring; a ring of one batch is full
at once, and with two requests each a child keeps a batch and adds to it.  A second is
one tick, a test two seconds, and tb can be interrupted at any point, also before its
children are made.  `Grace` is 1, so that the division of `printFinal` by 0 happens.  In
`tool_rate` the clock shows two seconds at the start, which is little for a time since
1970.

A packet of `protocols` is 5 bytes to 7; every way to cut up to three of them into
pieces is tried, and one connection is closed with a rest in both buffers.  A case has
two parameters, of which the second runs through all types of `Types`: every container
of a number and a text, and each in one another to the depth of three, in three variants
of the value (lists and maps of two and three elements, texts with marks in them).  Byte lists
are there in the json protocol, in both forms.  The times of calls are at the limits of
the cost classes.  A slot has room for the codes of a success and one kind of failure
or for one code with its count, but not for two kinds of failure in one batch, so that
there are batches whose codes are kept and batches whose codes are lost.

**Fairness.**  `Monitor!FairSpec` assumes only that a consumer keeps running `fetch`, as
the display loop of `tb` does each second; producers may stop at any point and the
program may be restarted at any point.  Without producers' help a batch is taken,
because it was published before it was copied.  `NodeServer!FairSpec` assumes that a
benchmark thread keeps running its `while` loop and comes to the comparison of line 126
again and again; handlers may never be called. `Transport!FairSpec` assumes that the
owner's loop turns for ever and that its clock goes on, so that some turn comes after a
request's timeout; it assumes nothing of the network and the server.  While the request
waits such a turn is always possible, because each turn ends in `checkTimeOut` whatever
`trySend` returned.

`Admin!FairSpec` assumes that the daemon loops and that a handler at work comes to its
end; calls end, by their timeout if need be.  The bounds on requests and faults matter
here: under endless changes of the table the next scan can be put off for ever (lines 68
and 114 set it to three seconds later each time), and orphans with it.

`Tool!FairSpec` assumes that the main process runs on and that a child which is told to
stop gets to the test of its flag and through its end (`Stop`, `Finish`).  Nothing is
assumed of the clock, of signals, or of a child that is sending: the main process counts
its own seconds, and all it waits for is the end of children.

**Timing assumptions** (`Paced`).  The code protects several producers only by its
proportions: some 900 slots, one push per producer and second.  `Paced` states what
that must ensure: there is room for all who are pushing, no call lasts a lap of
the ring, and a batch is copied in before a consumer takes it.  It constrains
every step of `PacedSpec`; nothing in the code enforces it.  `monitor_paced` checks what
is promised under it, `ExactlyOnce` and `UnreadIntact`, and `PacedInv`, the inductive
invariant from which section 6 proves them for any number of processes.

## 5. Disagreements found

Four are runs that TLC finds violated, listed with the quoted line under `findings`: the
slot that is published before it is filled (`monitor_stale`); the requests that a closed
connection forgets (`transport_lost`); the limit of `-s`, whose next time to send starts
at 0 and never reaches the clock (`tool_rate`); http answers that are taken before their
body has come (`http_framing`).

Four formulas of the modules have no run and do not hold in the configurations named
here; TLC finds each violated in seconds when it is made the invariant there:

* `Monitor!RingBound` with two producers, in a ring of two slots (`MCMonitorStale.cfg`):
  both see room for one, and the tail laps the head.
* `NodeServer!OwnBatches` (`MCNodeServer.cfg`): all tasks of a node push into one ring,
  so what query returns for a task may be of another.
* `Admin!NoOrphans` (`MCAdmin.cfg`, `MaxFaults = 0`): a late write of a handler takes a
  task out of the table while it runs.
* `Admin!Placed` (the same, `Confs <- WideOrNarrow`): a task is marked running on a node
  that refused it because it had no thread left.

More is in the models and contradicts no line of the docs, or is met on the
way to another property:

* A thread works on a mixture of two configurations for a turn (`Tear`).
* A thread has no connection if there are so many endpoints that the ratio
  check passes a task with fewer links than threads (26 on a real node), or a rate
  of 0, that is no limit, if its share is less than one per endpoint.
* Without sequence numbers the answer to a request that is overtime is taken for the
  answer to the next (`transport.cpp:98`).
* Two startups of one task are both accepted by the administrator.
* When a fork fails, tb sends SIGTERM to process number -1, which is every process of
  the user (`tool/main.cpp:346-349`).
* `printFinal` divides by the seconds of the test and by the number of requests; either
  may be 0 (`tool/main.cpp:288-290`).
* The tars protocol writes a `bool` but does not read one in an answer; it shows a
  `vector<byte>` as of an unknown type; an empty vector or map becomes one element; the
  type of a container with attributes loses its `<...>`, and a map of vectors of maps
  comes out empty.  `MCProtocols!Types` leaves these out, except what the json protocol
  does well.
* For a `vector<byte>` of a case the tars protocol writes each byte as an integer with a
  head, where the encoding has the bytes alone (`tars_protocol.cpp:361-370`).  This
  is left out as well.
* Both protocols give the head that says what a list of bytes consists of the tag of the
  field, where the encoding has 0 (`json_protocol.cpp:197`, `tars_protocol.cpp:364`).
  Who reads it looks at the type alone; `JsonRequest` compares but for this tag.
* A task that asks for a speed of 0 or for negative links is marked running and gets no
  node; links of 0 are a division by zero (`AdminImp.cpp:109`).

## 6. Proofs

Theorems hold for every value of the constants under the named `ASSUME`s of the
modules (a ring has at least one slot; markers differ from batches; producers and
consumers are finitely many; limits are positive; a request to a node has links, speed
and endpoints; a task of the administrator does not ask for 0 links).

* `MonitorProofs!TypeCorrect`: `Spec => []TypeOK`, for any number of producers and
  consumers.
* `RingNeverLapped`, `RingIsQueue`, `UnreadStaysIntact`: `RingBound`, the refinement of
  `BoundedQueue` and `UnreadIntact`, assuming `SPSC` (at most one producer and one
  consumer; the first two fail with two producers, see section 5). `RingBound` alone is
  not inductive: that a push keeps the tail behind the head depends on what the call in
  progress read earlier.  `IndexInv` says what such readings are still worth: the
  producer's head may be old, but the true head is only nearer to the tail; the
  consumer's tail likewise; so the tests err on the safe side. `CopyInv` says which slot
  a copy in progress writes, and that it is not one of those that hold finished batches.
  `RingInv`, their conjunction with the two properties, is inductive; TLC checks it in
  `monitor_spsc`.  Each access is one step of the proof; only `SyncCas`, `FetchCas`, the
  copies and the restarts disturb anything.  For the refinement, `SyncCas` is a `Put`,
  `FetchCas` a `Take`, a restart a `Reset`, and every other step a stutter.
* `RingInvAlways`: `RingInv` itself, from which `UnreadStaysIntact` follows.
* `PacedAlways`, `TakenExactlyOnce`, `PacedNeverLapped`, `PacedStaysIntact`,
  `PacedRingIsQueue`: `PacedInv`, `ExactlyOnce`, `RingBound`, `UnreadIntact` and the
  refinement of `BoundedQueue` under `PacedSpec`, for any finite numbers of producers and
  consumers. The argument is about positions: the n-th claim has the slot `n % ItemSize`,
  and two positions less than a round apart have different slots.  An index that a call
  read may be old, but as no call lasts a lap (`NoLap` of `Paced`), the position it was
  read at is less than a round back; so if the swap finds the same index, nothing was
  claimed in between, and the swap is not fooled by an index that has come round
  (`ProducerInv`, `ConsumerInv`).  Hence two producers never copy to one slot, two
  consumers never from one (`TakersDiffer`), a claimed slot holds its batch once the copy
  is finished (`SlotsInv`), which `Paced` has happen before the take, and what has been
  fetched is what was taken, once (`FetchedInv`).  The room for all who push is needed at
  the swap of the tail: each of the others can have passed the test of line 122 with the
  same reading of the head.
* `SumsProofs`: `SumAdd`, `SumNat`, `SumUpdate`, `SumZero`, about sums over any finite
  set.  The sum is a recursive function of the library; that it exists and does not
  depend on which element is chosen first is proved by induction on the number of
  elements.  The library's induction rule takes an operator and cannot be used;
  `SetInduction` states induction for a *set* of numbers and follows from the least
  element of its complement (`WFMin`).
* `NodeProofs!PoolTypeCorrect`: `PoolSpec => []PoolTypeOK`; the loop stops when no
  speed is left, hence no thread gets a negative rate.
* `RunnersConnect`: `PoolSpec => []RunningWorks` if `RatioFits`, that is if the full ratio
  on all endpoints of any request is within one thread's limit.  From
  the ratio check follows that the total is at most links times the limit
  (`TotalBound`), so no more threads are needed than there are links (`NeedBound`), and
  the division leaves at least one link each (`DivPositive`).  The
  assumption is needed: see section 5.
* `PoolWhole`: `PoolSpec => []WholeTask`, for any number of threads and any limits.
  `Assign` goes through the threads in order and gives what is left; the rates of the
  first k idle threads sum up to the least of the total and k times the limit, but for
  what the division by the number of endpoints drops on each (`Slack`), and whatever busy
  threads lie between them (`Dealt`).  The invariant also says that idle threads have no key
  to be counted under.  The endpoints are those of the
  request, for each of its threads.  `shutdown` frees a key's threads all at once.
* `NodeIsPool`: `Spec => PoolSpec`.  The threads and `query` leave the
  configurations alone, so what is proved of the pool holds of a node at work;
  `NodeRunnersConnect` and `NodeWhole` are instances.
* `NodeTypeCorrect`: `Spec => []TypeOK`.  That
  every batch in the ring is of some task needs `WorksForKey`: a thread that gets past
  setting up has a key, though it may have read its configuration in halves, because
  there is no protocol of an empty name.
* `AdminProofs`: `AdminTypeCorrect` and `NeverWrongStop`, for any numbers of tasks, nodes
  and handlers, any failures, and tasks that may ask for no speed or for negative links.  That a node runs no more threads than it has rests on
  `startup` looking at the free threads, a sum (`Room`); that handlers stay within their
  number, on counting a bag.  `NoWrongStop` is about steps: the invariant says what the
  daemon holds between its calls, namely that the key it is about to stop is not a
  running task of the table (`DaemonOK`).  No handler can make it one in between, because
  what handlers have copied and are about to write back is never marked as running
  (`HandlersOK`): only the daemon does that.
* `TransportProofs`: `TransportTypeCorrect`, `AnswersAreOwn`, `OnePending`,
  `StartsClean`, `SettledOnce`, for any number of requests and answers.  Since the
  functions of the transport call each other, the invariant is a predicate `Good` of a
  connection, and there is a lemma for each function: from a good connection it leaves
  good ones, and changes the fate of no request but those that wait (`Settles`).  A
  composition of functions is a composition of lemmas.  `trySend` is the exception, as
  it settles a new request; so `ToCome` (requests from `next` on are new) is in the
  invariant. `OneAtATime` rests on the test of line 155, `CleanStart` on `close`
  emptying queue and buffer together.
* `ToolProofs`: `ToolTypeCorrect`, `RequestsCountedOnce` and `FiguresFinal`, for any
  number of children, ring and duration. `CountedOnce` is not inductive: `OwnBatch` is
  needed (a batch has only requests its child has sent, so that the next ones are new to
  every place), and for the final figures `Quiet` (after `printFinal` the ring is empty
  and no child is left to push) and `FewPids`, with which a fork makes a child that was
  not there before.
* `FramingProofs!WireStaysWhole`: what the server has got and what is still to be sent
  are the requests in their order, for requests of any number and length.
* `FramesStayWhole`: `WholeFrames` assuming `Packeted`, that is with tars and json and a
  server that sends packets which say how long they are and are longer than that field
  (`PacketIsOne`: those of `encode` are; with http the property fails, see section 5).
  `BufferInv` says that the buffer is the stream from the end of the last packet taken up
  to what has arrived; then `input` reads the next packet's own length or asks for more
  (`InputFinds`).  Where a packet lies in the stream (`PacketPlace`) is proved from the
  recursion that joins the packets, by `SetInduction` again.

* `FiguresProofs!CallsAreCounted`: `CallsCounted`, for any calls, divided in any way into
  batches, queries and nodes, and with no assumption.  The total that the administrator or
  `tb` has at the end is that of the requests sent; successes, failures, the classes of
  duration and the extremes are those of all the calls; and the return codes are
  those of the batches whose text is shorter than the slot (`CodesFit`), each as often as
  it was reported, by a call or a socket, while those of the other batches are missing
  (`monitor.cpp:133`).  A loop is a run of states (`LoopRuns`); after n turns of `report`
  each counter is the number of the first n calls that it is for (`CountedTo`), and the
  sum of two sets of figures tells of the calls of both, one after the other (`SumTells`).
  That the classes partition durations as `tb` prints them is `StepClass`.
* `NoCodeLost`: if the text of every batch's codes fits, the return codes at the end are
  all that were reported.  The assumption is needed; a slot has 1024 characters in the
  code (`monitor.h:39`), room for at least 44 codes of a batch.
* `PercentilesInOrder`: `Percentiles`, for any calls.  In a batch the percentiles are
  costs at places that are in order (`SortedInOrder`).  A sum makes rounded means of them,
  which keep their order, because the weights are the same for all three and division
  rounds monotonely (`MeanMonotone`); and a mean is not beyond the greater of its parts,
  hence not beyond the longest call.
* `MapsReturn`: `str2map(map2str(mm)) = mm` for every map of integers to counts.  The
  digits of a number are read back to it, a minus sign included (`DecimalRead`).  The
  entries lie in the text in the order of their keys, with commas between them and none
  at the end (`TextLaid`): where one lies is known from when `map2str` wrote it, since what
  comes later leaves it alone.  The parser passes over an entry from state to state
  (`EntryRead`) and has one more key of the map after it (`NextEntry`); the last value is
  ended by the text's end and not by a comma, which is the case of lines 143-146 of
  `commdefs.h`.

Out of TLAPS's reach are liveness under fairness and `ENABLED`, and `RECURSIVE`
operators, which only `TarsStream`, `TarsCase`, `JsonCase`, `CaseTrees` and
`MCProtocols` use or reach.  The library's induction rules take an operator as a
parameter and cannot be applied; induction over numbers goes through `SetInduction`,
and `Figures` has its loops and numerals as recursive functions, whose existence is
proved by it.

Only model-checked: the liveness properties (`Drained`, `TakenUp`, `Stops`, `Ends`,
`OrphansStop`, `Progress`, `ChildrenStop`), and what the recursive algorithms compute
(`TarsRequest`, `TarsAnswer`, `JsonRequest`, `JsonAnswer`), which are about nested data
of any depth and are written with `RECURSIVE` operators.

## 7. Not modelled

* What the threads of a node share when they send: the sequence counter
  (`BenchmarkThread.cpp:110`), which two threads can set back so that a number is given
  twice, and the static buffer of `encode` (`transport.cpp:162`).
* When results are handed out and reset in the administrator (`query`, `queryResult`),
  and its times.
* How an http request is put together (`fill_http_body`; the Tars library does it), the
  width of numbers in requests, the fields of a packet around a request, and the cache
  of `proto_factory.h`.
* Overflow of `speed * endpoints`, a segment smaller than an item, and two programs
  attached to one segment at a time.  Parts of packets in the statistics and byte
  counts.
* The option parser (vendored), the layout of what is printed, the mains, and the Tars
  framework, which hold no protocol of their own.
