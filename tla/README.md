# A verification of ndnSIM_Fukuda

ndnSIM_Fukuda is a fork of ndnSIM, the ns-3 simulator of Named Data Networking.
It runs a copy of the NFD forwarding daemon on every simulated node. The fork adds
*hash-guided forwarding*: an Interest with a `HashFlag` is sent towards the face
that the cached Data with the nearest hash came from, or to a random face, and
falls back to the FIB when a Nack comes back. *Consumer-hash* Interests
(`HashFlag` 11) are answered with the nearest cached Data, whatever its name.

This directory holds TLA+ modules for the parts of the repository that keep state and
decide: the forwarding daemon with its tables and strategies, the ContentStore and its
replacement policies, fragmentation and reassembly, the consumer applications, and the
two Python programs with threads, the parallel test runner `test.py` and the visualizer
PyViz. TLC checks them on small instances; TLAPS proves theorems about them for every
value of the constants.

Paths below are relative to `src/ndnSIM/ns-3/src/ndnSIM/`; the files of `NFD/daemon` and
of `apps` are named without their directory, `test.py` is `src/ndnSIM/ns-3/test.py`
and `core.py` is `src/ndnSIM/ns-3/src/visualizer/visualizer/core.py`.

## The system

| part | state | operations | talks to |
|---|---|---|---|
| forwarding pipelines (`forwarder.cpp`) | none of their own | one pipeline per packet kind and per timer | all tables, the strategy of the name, faces |
| PIT (`pit.cpp`, `pit-entry.cpp`) | entries: in-records, out-records, two timers, `HashStartFlag`, `ConsumerHashFlag` | insert, find, match Data, erase, delete a face's records | pipelines, strategies, clean-up |
| strategies (`best-route-strategy2.cpp`, `multicast-strategy.cpp`, `best-route-strategy.cpp`) | measurements, not used here | after Interest, after Nack | FIB, ContentStore, face table; call back outgoing pipelines |
| ContentStore (`cs.cpp`) and policies (`cs-policy-priority-fifo.cpp`, `cs-policy-lru.cpp`) | table of Data with staleness and the face it came from; queues and timers of the policy; limit | insert, refresh, find, nearest-hash search, set limit, evict | pipelines, strategies, scheduler |
| Dead Nonce List (`dead-nonce-list.cpp`) | queue of hashes and marks, capacity | add, has, mark, adjust capacity | pipelines |
| FIB (`fib.cpp`) | nexthops by cost | longest-prefix match, remove nexthop | strategies, clean-up, RIB |
| face table (`face-table.cpp`, `cleanup.cpp`) | faces by FaceId, last FaceId | add, remove | pipelines by signals |
| unsolicited Data policy | admitted scope | decide | pipelines |
| link service (`generic-link-service.cpp`, `lp-fragmenter.cpp`, `lp-reassembler.cpp`) | last sequence number, partial packets with drop timers | send, fragment, receive, reassemble, drop | transports, pipelines, scheduler |
| consumers (`ndn-consumer*.cpp`, `ndn-rtt-*.cpp`) | sequence numbers, timeouts, retransmission list, round-trip estimator, window | send, receive, time out, stop | a face of kind "app", ns-3 scheduler |
| producers (`ndn-producer.cpp`) | none | answer | a face of kind "app" |
| stack and transports (`model/`) | a node's forwarder and its net devices | install, send, receive | ns-3 |
| RIB, management (`NFD/rib`, `NFD/daemon/mgmt`) | routes, commands | register, unregister, update | FIB, face table |
| test runner (`test.py`) | two queues, worker threads, counters, report | dispatch, run, collect, interrupt | processes under test |
| visualizer (`core.py`) | lock, go event, quit flag, pause messages, update timers | run a period, update the view, play, change speed, quit | ns-3 simulator, GTK main loop |

**What is hard.** One process runs all nodes and each event handler runs to
completion, so inside the daemon there are no data races. The difficulty is in the
*order of events*: Interests of several downstreams, their retransmissions, Data,
Nacks, two timers per entry and the removal of faces meet the same PIT entry in any
order; packets and fragments are lost, repeated and reordered; timers race the packets
that should cancel them; and state read in one event is used in a later one (the
face a cached Data came from, the Nack recorded on an out-record, the flags a hash
Interest leaves on an entry). The fork adds shortcuts past checks the original
pipelines make (nonces, scope, the existence of a face). The Python programs have
real threads: the test runner's workers and its signal handler, and the visualizer's
simulation thread beside a GTK thread whose callbacks nest.

**What makes each part correct.**

* *PIT.* An entry lives while somebody waits and dies afterwards: it always has
  exactly one armed timer, it does not expire under a downstream, it has no
  downstream once satisfied, every entry is erased in the end.
* *Pipelines.* Data goes only to faces that asked for it.
* *Strategies.* Scope is kept; the hash part never uses a face that is not there
  and its random draw ends.
* *Face table.* Nothing refers to a face that is gone.
* *ContentStore.* Bounded; queues, timers and table agree; what is evicted is what the
  policy announces; the searches by hash find the nearest Data.
* *Link service.* A packet is delivered only whole and as it was sent; what stays
  incomplete is dropped, and not before its time.
* *Consumers.* A request that is not answered is repeated until it is; the estimator
  learns from unambiguous answers only.
* *Test runner.* Each job is counted once, the runner ends, 0 means a clean run.
* *Visualizer.* Nobody touches the simulator while it runs; pause, play and quit do
  what they say; each message is shown once.

PROJECT.json lists the hazards one by one, each at its line with the properties
that cover it.

## The modules

| module | models | content |
|---|---|---|
| `Packets` | the fields of Interest, Data and Nack that forwarding reads; FaceIds | constants and their assumptions, packet sets |
| `PitEntry` | `pit::Entry` and its records, `fw/algorithm.cpp` | the set `Entry` and operators on one entry |
| `Node` | the tables of the daemons, the outgoing pipelines | the variables, `TypeOK`, tails of handlers |
| `Strategies` | the three strategies the fork changes | `AfterReceiveInterest`, `NackTrigger` |
| `Forwarder` | `Forwarder`, `Cs`, `DeadNonceList`, `FaceTable`, clean-up | one action per event, `Spec`, `FairSpec` |
| `ForwarderProps` | | what is checked and proved of it |
| `ContentStore` | `Cs` with `PriorityFifoPolicy` and `LruPolicy` | operations, timers, searches, properties |
| `BoundedCache` | what forwarding relies on in a ContentStore | abstract specification |
| `LpReassembler` | `GenericLinkService`, `LpReassembler` on a lossy link | operations, drop timer, properties |
| `DatagramLink` | what a link promises for whole packets | abstract specification |
| `Consumer` | `Consumer`, `RttMeanDeviation` | state and the parts of handlers |
| `ConsumerHash`, `ConsumerWindow` | the two subclasses | their handlers, `Next`, properties |
| `TestRunner` | `worker_thread`, `run_tests`, `sigint_hook` | thread steps, properties |
| `Visualizer` | `SimulationThread`, the callbacks of `Visualizer` | thread steps, properties |
| `MC...` | | instances for TLC |
| `...Proofs` | | theorems and proofs |

From `Packets` to `ForwarderProps` each module EXTENDS the one above it.

### Forwarding

**State.** `pit[n][k]` is the PIT entry of node `n` for the key `k` (a name with
MustBeFresh, the one selector the pipelines read). A record's `expires` counts the
ticks left; a tick is the 100 ms of the straggler timer. `in[f].behind` keeps the
order of the `std::list` of in-records, because the fallback takes the first one.
`cs[n]` holds Data with the tag that tells where it came from, `dnl[n]` pairs of
name and nonce, `face[n][f]` the kind of a face ("net", "lan" for multi-access,
"app", "internal", "none"), `last[n]` the last FaceId. `sent` holds the packets the
last step put on faces; properties about packets are action properties over it.
`status` becomes "crashed" where the code dereferences a face that is not there or
returns a reference without a return statement (`strategy.cpp:136-143`), and
"spinning" where the random draw can find no face.

**Actions.** `ReceiveInterest`, `ReceiveData`, `ReceiveNack` are the three incoming
pipelines with everything they call, down to the strategy and the outgoing
pipelines; `UnsatisfyTimer` and `StragglerTimer` are the two timer callbacks with
`onInterestFinalize`; `Tick` lets time pass and never jumps over a timer that is
due; `DataBecomesStale`, `DeadNonceForgotten`, `AddFace` and `RemoveFace` are the
other events. Operators such as `ContentStoreMiss(n, k, e, f, i)` are the tails of
a handler: they take the entry `e` as the handler has changed it so far and fix the
next state, so one action is one whole handler.

**Abstractions.**

* Names are model values; `Under`, `Freshness`, `Hash`, `Localhost`, `HasLocalhost`
  and `Localhop` say what the code would compute from them. The comparison of a name with
  `"localhost/"` in `multicast-strategy.cpp:48` fails for every name that is longer
  than its one component, so multicast treats all names alike.
* The random face and the eviction victim are nondeterministic choices.
  `ContentStore` models how the victim is chosen.
* A Dead Nonce can be forgotten at any time, Data can become stale at any time.
* Data that came from a local face may be refused by the ContentStore (`CsInsert`): its
  object may carry a CachePolicyTag that says NO_CACHE (`cs.cpp:99-106`). Links ignore
  that field, since their local fields are off (`generic-link-service.cpp:289-297`).
* The answer SUPPRESS of the retransmission suppression is ignored by the code
  (commented out) and so by the model; NEW is `IsNew`.
* `CanArrive` and the constants `InterestIn`, `DataIn`, `NackIn` are the
  environment: applications, links and other nodes. A local application shares its
  packet objects with the forwarder, a link decodes them anew.
* Whether a process that draws for ever or dereferences a missing face does
  anything else is not modelled: `status` stops it.

### The ContentStore

`table[d]` is the entry of Data `d` (whether it is unsolicited, and the ticks left to
its staleTime), `info[d]` the `EntryInfo` of the policy: the queue and the set of
entries ahead, which together say what the `std::list` says. `timer[d]` is the
event `moveStaleEventId`. An action is one call: `InsertNew`, `Refresh` and
`InsertRefused` (no capacity, or Data tagged NO_CACHE) are the three ways through `Cs::insert`, with the policy's
`afterInsert` or `afterRefresh` and the eviction that follows; `Find` is a lookup that
meets `d` (lru moves it to the back); `SetLimit` is `Policy::setLimit` with its
eviction; `MoveToStaleQueue` is the timer. One tick later than its timer an entry counts
as stale, since `isStale` compares strictly. The policy is chosen while the store is
empty, as `cs.hpp:132-133` demands.

`Nearest` is the one pass of `searchNearestHashData` over the table in its order;
`NoData` is the iterator it dereferences without having set it.
`searchNearestConsumerIDData` runs the same pass. `checkForConsumerID` and
`getNearConsumerIDData` (`cs.cpp:281-338`), which would ask whether that Data is near
enough to the ConsumerID, are not modelled: nothing calls the second, and the calls of the
first are commented out (`forwarder.cpp:193`, 200-203), so a node answers a consumer-hash
Interest whenever it has anything cached (`ConsumerHashHit` of `Forwarder`).

`BoundedCache` knows only absent, fresh and stale Data and a limit.
`ImplementsBoundedCache` maps `table` to it: whatever the policy does with queues and
timers, an insertion puts the Data in and takes at most one victim out, at the
limit only. `Put` is what `CsInsert` does in `Forwarder`, for a constant limit, so the
arbitrary victim there covers both policies.

### The link service

A sender's `m_lastSeqNo` starts at the largest sequence number but one, as
`m_lastSeqNo(-2)` does (`generic-link-service.cpp:51`), so that numbers wrap around
between the first fragments. `link` keeps every fragment sent: receiving one any number
of times, late, out of order or never is loss, repetition and reordering at once. A key
is the sender's endpoint and the number of the first fragment. `StorePiece`, `FastPath`
and `Drop` are the three ends of `receiveFragment`, in the order of its checks; `Stray`
holds fragments that must be dropped. Without `allowReassembly` the link service drops
fragments before they get there (`generic-link-service.cpp:175-179`); the run has it
on, as `StackHelper` sets it (`ndn-stack-helper.cpp:276`, 314), the theorems hold for both. An
IDLE packet (170-173) changes nothing. `waited` counts, independently of the timer, how
long a partial packet has had no new fragment.

`DatagramLink` is a link of whole packets that loses, repeats and reorders.
`ImplementsDatagramLink` maps a delivered set of fragments to the packet that just those
fragments make up, and to garbage if there is none.

In a simulation with the transports of this fork the case is rarer than the model
allows: `NetDeviceTransport` leaves the MTU unset, so nothing is fragmented, and its
endpoint is always 0; the transports of the vendored daemon (Ethernet) set both. `EndpointOf`
tells senders apart, as those do. A sender that restarts with its first sequence number
is not modelled.

### Consumers

`Consumer` holds what `ndn-consumer.cpp` keeps per sequence number and the estimator
`RttMeanDeviation`; time is counted in runs of `CheckRetxTimeout`. `ConsumerHash` and
`ConsumerWindow` add their `SendPacket`, `OnData`, `ScheduleNextPacket` and the timeout.
The network may lose, repeat or delay an Interest or its Data: `network` holds the
sequence numbers under way, `OnData` may leave its number there. What the round-trip time
and its variance come to is a choice from `Estimates`.

### The test runner

Each Queue operation and each read of `thread_exit` is a step of its own; a worker stands
at "get", "check", "running", "exit" or "dead". `Raise` is an exception that leaves
`run()`, in which Python ends the thread. `Collect` is one turn of the loop over
`output_queue`, with the counters and what is written to the report. A Python signal
handler runs between two steps of the main thread, not while it waits in `get()` or
`join()`: `SigintHook`.

### The visualizer

The simulation thread is at one of the steps of `SimulationThread.run`, from the loop
test to the release of the lock. The GTK thread is a stack of callbacks: while
`update_view_timeout` cannot have the lock it dispatches further events, so a second
timer, a drag, a toggle of play, a change of speed or `_quit` may run inside it
("pump"). `timers` are the GLib sources attached, `update_timeout_id` the one the
visualizer remembers. User callbacks that take the lock do it in the same way and are
one action, `UserEvent`. `reached` says whether the clock is at `target_time`.

## The runs

Deadlock is checked in every run of the forwarder, the ContentStore and the consumers.
The others may really stop: the runner returns, the visualizer is closed, a link has
nothing to do when all is delivered.

| run | instance | shows |
|---|---|---|
| `fib` | one best-route name with MustBeFresh, two links and an application, two nonces, lifetimes 1 and 2, Data and NoRoute Nacks from anywhere | `TypeOK`, `OneTimer`, `NoEarlyExpiry`, `SatisfiedHasNoDownstream`, `ErasedOnlyWhenDone`, `PitDrains` |
| `faces` | a /localhost name (multicast) and a /localhop name (first best-route), a link, a multi-access face and an application; the first and the last may be removed, a link may be added; an Interest with a NextHopFaceId | `RecordsOnLiveFaces`, `LocalhostInterestsStay`, `LocalhopInterestsStop` |
| `hash` | hash-guided Interests that follow the hash or leave at random, a consumer-hash and an ordinary one, their Nacks, plain Data of one name and a reply that wraps Data of the other, a cache of one | `NeverCrashes`, `NeverSpins`, `OneTimer`, `DataOnlyOnDemand` |
| `content_store` | four Data with freshness 0, 1, 2 and none, limits 0 to 3, both policies, 5-bit hashes of which two are at the ends and two tie | `TypeOK`, `QueuesMatchTable`, `TimersMatchFifo`, `RecentIsKept`, `EvictsByPriority`, `SearchFindsNearest`, `ImplementsBoundedCache` |
| `reassembler` | two senders of two packets, in three, two or one fragments, numbers below 8, a timeout of 2, three stray fragments | `TypeOK`, `PartialPacketsAreSound`, `DropsOnlyIdle`, `NothingStays`, `ImplementsDatagramLink` |
| `consumer_hash` | three packets to ask for, timeouts from 1 to 5 checks | `TypeOK`, `EveryRequestIsKept`, `RetxIsScheduled`, `MeasuresUnrepeated`, `AllAnswered` |
| `test_runner` | a suite, an example and a job to skip on two workers, all outcomes, exceptions, Control-C | `JobsAreConserved`, `BreaksComeLast`, `SuccessIsEarned`, `Terminates` |
| `visualizer` | two timer identifiers, one pause message, callbacks nested as deep as they come | `NobodyElseInside`, `MessagesShownOnce`, `PlayingHasTimer`, `QuitEnds`, `PausedRests`, `PlayingAdvances` |

Four runs expect a violation; each is a disagreement between the code and what the
repository says about it:

| run | property | what happens |
|---|---|---|
| `stale_nack` | `SentInterestIsPending` | a retransmission renews an out-record and keeps its Nack, because `clearIncomingNack` is never called; the documentation says the outgoing Interest pipeline calls it |
| `valgrind` | `ValgrindIsReported` | the VALGR entry of a suite is written in a branch that a return code of 2 never takes, so the report shows PASS alone |
| `stray_timer` | `PausedStopsTimer` | a speed change nested in `update_view_timeout` attaches a timer that the outer callback, ending after a pause, forgets; the next play runs two timers |
| `window` | `WindowIsKept` | `Consumer::SendPacket` never calls `WillSendOutInterest`, so nothing counts as in flight, the window never closes and nothing is retransmitted |

**Bounds, and why they are enough.** *Forwarder*: one node, because a handler touches the
tables of its node only; two nonces are the least with which a retransmission differs
from a duplicate, two upstreams the least with which a Nack leaves another upstream
pending, lifetimes of different length let one downstream expire before another. Nonces
are permuted by symmetry only in `faces`, which has no liveness and treats them alike.
*ContentStore*: with four Data and a limit of three, each queue of priority-fifo may hold
two while a victim is chosen, and the limit may drop by more than one. *Reassembler*: the numbers of a
sender wrap around within its first packet, senders use the same numbers, a
packet of three can lack a middle piece. *Consumer*: `MaxSent` stops a count that only a
trace reads, `MaxRto` an age that no comparison tells from a larger one; three
requests let one be answered, one wait and one be repeated. *Test runner*: two workers
can hold jobs at once while the third job or a break job waits. *Visualizer*: with two
identifiers a timer can be attached while another one's callback runs, which is what a
stale or a forgotten timer takes. It is a real bound: while both are in use, as when
two callbacks nest, `StartTimer` cannot attach a third, which GLib would do. The theorems
about the visualizer hold for any number of identifiers; only the liveness properties rest on the
bound, since with three their check takes too long. The stack is as deep as there are
timers, plus one callback.

`NeverCrashes` holds in `hash` because no face is removed there: every way into
the ContentStore either tags the Data (`forwarder.cpp:507`) or needs a Content with
sub-blocks, which `DataIn` of that run does not contain. `NeverSpins` holds there
because the link and the application's face stay, so one of them is left to draw
whichever the Interest came from. Both reasons are the hypotheses of the theorems
`HashForwardingIsDefined` and `RandomDrawEnds`.

`OneTimer` is checked in `hash` as well as in `fib`, because there an entry ends its
pipelines in ways that ordinary Interests do not take: a reply made from the
nearest Data, a hash Interest rejected after it has set the entry's flags, a Nack that
becomes a fallback.

`LocalhopInterestsStop` asks of each /localhop Interest on a link that a *local* downstream
sent just that Interest, told by the nonce of its in-record, so that an application that
shares the entry does not excuse the Interest of another node. After a hash failure
(`FallsBack`) the Interest sent is the one the Nack carries, so any local downstream that
still waits will do.

The scope properties have an exception, `DrawnAtRandom`: the random draw looks at no
scope. `faces` sends no hash-guided Interests, so there the exception is never used;
the theorems `LocalhostIsConfined` and `LocalhopIsConfined` hold with them.

**Fairness.**

* `Forwarder!FairSpec`: weak fairness of `Tick` and of the two timer actions of every
  entry: ns-3 executes every scheduled event at its time and simulated time goes on.
  Nothing is assumed of the arrival of packets. `PitDrains` has as its premise that
  Interests and Data cease: an application that repeats an Interest for ever may keep its
  entry for ever, and so may an upstream that repeats a Data, which arms the straggler
  timer of a satisfied entry anew each time (`forwarder.cpp:557-580`). Nacks may go on: a
  Nack arms no timer of an entry that is not hash-guided, and `fib` has only such
  entries; the fallback of a hash-guided entry is not in its instance.
* `LpReassembler!FairSpec`: time passes and due timers fire; nothing of the link.
* `ConsumerHash!FairSpec`: events happen at their time. Strong fairness of `OnData` says
  of the network that what is sent again and again gets through now and then; without it
  no retransmission helps.
* `TestRunner!FairSpec`: threads run and started processes return. Nobody has to
  interrupt. `Terminates` is stated for executions in which no thread dies, because
  `run_tests` waits for the job of a dead one for ever.
* `Visualizer!FairSpec`: both threads are scheduled (weak); a lock that is free again and
  again is had at last, GLib dispatches each source that is ready again and again, and
  the inner loop of `update_view_timeout` runs out of pending events (strong). CPython's
  locks wake a waiting thread, and GLib serves sources of one priority in turn.

## The proofs

Each theorem holds for every value of the constants that satisfies the named assumptions
of its module, which TLC evaluates in the runs. All state invariants follow one pattern:
an inductive invariant, `Init` implies it, each action keeps it (a lemma per action), and
it implies what the run checks.

**`ForwarderProofs`** (`PacketsAssumption`, `PitEntryAssumption`, `NodeAssumption`,
`StrategiesAssumption`, `ForwarderAssumption`). `Invariance` proves `Spec => []Inv`, with
`Inv == TypeOK /\ EntriesGood`, for any number of nodes, faces, names and nonces, all
strategies, hash-guided Interests and face removals at once. The safety invariants are not
inductive one by one. That the unsatisfy timer outlasts the in-records is kept by a Data
only because it clears the in-records; that a satisfied entry has no downstream is kept by a
ContentStore hit only because the lookup is made for an entry without in-records, and by
a new Interest only because that cancels the straggler timer; and an Interest that is
rejected as a duplicate may leave an entry alone only because an entry that holds a
nonce is an old one, with a timer. So `Good(n, e)` says all of it of one entry. The proof
has three layers: lemmas about the operators on an entry (`WithoutInRecordsInv`, ...),
lemmas that each tail of a handler ends with a good entry (`Outcome(n, k)`:
`BestRouteOutcome`, `ContentStoreMissOutcome`, ...), and one lemma per action.
`NoPendingEntryIsErased` uses that only `Finalize` erases and that at that moment one
timer is zero and the other is not armed.

**`FlowProofs`** follows what a step sends, over the same invariant: `Balanced` says of
every packet in `sent'` what `DataOnlyOnDemand` and the scope properties ask of it. The
strategies send only to faces of which `MayLeave` holds (`OutgoingInterestForwarding` and
one lemma per strategy); the handlers then supply a downstream that justifies the face. For
a miss it is the face the Interest came from, whose in-record the handler has just
added with the Interest's nonce (`GoodWithUnsatisfyTimer`, `AskedFor`); with a NextHopFaceId it is local, since
`CanArrive` lets applications alone set it; after a hash failure it is the face of the
first in-record, not the one the Nack came from. `DataFollowsInterests`,
`LocalhostIsConfined` and `LocalhopIsConfined` need no further hypothesis: they hold with
hash-guided Interests, NextHopFaceIds and face removals together.

The two ways the process can stop are traced to their causes in `NextStops`: cached Data
whose tag names no face, and a node with no face to draw. Each theorem then has as
hypothesis what keeps the cause away, and needs an invariant of its own:

* `HashForwardingIsDefined` proves `NeverCrashes` from `NothingWrapped` and
  `TaggedFacesStay`. The producers of this repository fill the Content with a plain
  buffer (`ndn-producer.cpp:111`), so the forwarder never caches Data without a tag; and a
  scenario that takes down no face leaves all of them. The invariant is that every tag in
  every ContentStore is 254 or the FaceId of a live face: an insertion takes the tag of
  the face the Data came from, a refresh keeps the tag of the old object, a hit
  re-tags it, eviction and staleness do not matter.
* `RandomDrawEnds` proves `NeverSpins` from `TwoFacesStay`. A node in the middle of a network
  has two links or a link and an application; a node with a single face that is not
  internal can spin. The invariant (`FacesStand`) is that FaceIds are handed out upwards
  and never again, so a new face replaces none, and the range `256 .. last` from which the
  number is drawn contains every live face.

**`ContentStoreProofs`** (`ContentStoreAssumption`). `IInv` adds to what the run checks the
strict order of a queue, that entries of STALE which `isStale` confirms stand before
those whose timer has just fired (`StaleInOrder`: without it `EvictsByPriority` fails
between the timer and the next tick), that under lru all others stand before the one used
last, and that the store is within its limit. `DetachedAt`, `AttachedAt` and their like
are proved once; `EvictEntries` is treated in one lemma for all its callers.
`StoreImplementsBoundedCache` proves the refinement: each operation is a `Put`, a
`SetLimit`, a `GrowStale` or a stutter; the victims of an insertion are counted with the
cardinality theorems. The searches by hash are proved for tables of any length and
hashes of any width: `NearestIsScanned` unrolls the recursive function of the scan,
`ScanFinds` shows by induction on the number of Data looked at that the pass holds a
nearest one so far or has seen only Data that are `SIZE_MAX - 1` or more away. The induction is
over a *set* of numbers (`Induction`, from the well-founded order of Nat), because a
rule with an operator parameter cannot be instantiated here.

**`ReassemblerProofs`** (`ReassemblerAssumption`, `NumbersLast`, `StrayAssumption`). `Inv`
says where numbers come from: the first number of a packet lies before the next one of its
sender in the order in which the sender hands them out (`Place`, which unrolls the
wrap-around), so that two packets of a sender never share one (`NumbersDiffer`); a piece on
the link is what its packet's first number makes it (`LinkIsHonest`); the pieces of a
partial packet have its key, hence one packet, and differ in their index, so that as
many as fragCount are all of them. `NumbersLast` (no sender comes around to a number it has used)
is needed: otherwise an old fragment completes a new packet. `StrayAssumption` limits
foreign fragments to those the receiver must drop. `DropsOnlyIdle` follows from
`waited + dropTimer = reassemblyTimeout`.

**`ConsumerProofs`** (`ConsumerAssumption`): the three invariants together are inductive;
`ConsumerTypes` adds that the multiplier of the estimator, which doubles at a timeout,
is a power of two and so never passes its maximum. **`TestRunnerProofs`**
(`TestRunnerAssumption`): for any number of jobs and workers; the invariant gives each job
one place (`InOnePlace`, `OnceInAPlace`), from which the counted form `JobsAreConserved`
follows; `SuccessMeansSuccess` needs a counting argument: PASS and SKIP are disjoint, and
as large together as the set of jobs, so nothing else was counted.
**`VisualizerProofs`** (`VisualizerAssumption`): for any depth of nesting, any number of
timers and messages; only the innermost callback is at work, the others are at "pump"
(`StackIsSound`).

**Model-checked only.** Liveness (`PitDrains`, `NothingStays`, `AllAnswered`, `Terminates`,
`QuitEnds`, `PausedRests`, `PlayingAdvances`) is out of the prover's reach under fairness.
Every safety property that a passing run checks is stated by a theorem.
`TypeOK` of `Visualizer` and `TestRunner` is part of the proved invariants and
not a run of its own.

## What the models show beside the runs

Some behaviours contradict comments of the repository or look unintended, and no run keeps them:

* A hash-guided /localhost Interest under multicast may be sent to a random link: the
  name check in front of the draw never takes effect (`multicast-strategy.cpp:48`, 71-82),
  while `algorithm.hpp:46-47` restricts such Interests to local faces. Without its exception
  `DrawnAtRandom`, `LocalhostInterestsStay` is violated once such an Interest is among
  `FacesInterests`; with it the theorem shows that this is the only gap beside the
  NextHopFaceId.
* A Nack for a hash-guided Interest deletes the out-record with its nonce
  (`forwarder.cpp:750`), which enters no Dead Nonce List, while `dead-nonce-list.hpp:40`
  says that an erased nonce does; and a fallback after Data has satisfied the entry
  forwards a nonce that the list holds.
* The iterator in the nearest-hash search is dereferenced unset when every Data is
  `SIZE_MAX - 1` or more away; `SearchFindsNearest` states this exception.
* A dead worker thread of `test.py` makes `run_tests` wait for ever.
* A `go` set before a pause lets the simulator run one more period after it.

## Not modelled, and why

* *Dead Nonce List*, capacity and marks: `Forwarder` lets any nonce be forgotten at any
  time, which covers every capacity; only how long a nonce is kept is lost.
* *A network of nodes*: HashTTL and nonces bound the path of a hash-guided Interest only
  across nodes. `Forwarder` has any number of nodes but no links between them; what
  arrives is arbitrary, which covers every neighbour for the invariants above.
* *Other strategies* (access, asf, ncc, client-control): unchanged by the fork,
  driven by round-trip measurements. *Name tree, strategy choice, measurements, network
  regions*: lookup structures. *RIB and management*: untouched by the fork, used before
  a simulation starts. *Transports and channels*: socket I/O that a simulation does not
  run. *Packet codec, helpers, tracers, ns-3 itself*: vendored or without state that matters here.
* *Consumers*: cbr, Zipf-Mandelbrot and batches differ in when they schedule; changing
  RetxTimer while running is left out. *Producers* keep no state.
* *Visualizer*: `scan_topology` (`core.py:759-860`) and `autoscale_view` read ns-3 without
  the lock; whether that meets a running simulation depends on when the generated
  bindings release the interpreter lock, which the sources do not show. The IPython shell
  holds the lock around user code (`core.py:1165-1175`).
* *Generated code.* Most of the repository's lines of code are Python bindings
  (`modulegen__gcc_*.py`): registrations of classes and methods without state or
  control. They are not modelled, and what is modelled is a small part of the repository's
  lines for that reason.

## What is left

1. `Network`: several nodes of `Forwarder` joined by links, the bound on a path, and an
   abstract service "an Interest is answered at most once".
2. `DeadNonceList`: queue, marks and capacity, shown to implement `DeadNonceForgotten`.
3. The schedules of the remaining consumers over `Consumer`.
4. Theorems: which action properties follow for the Dead Nonce List; a refinement of
   the pipelines to an abstract PIT.

## Checking it

    tlc -workers 2 -config fib.cfg MCForwarder
    tlapm ForwarderProofs.tla

and likewise each configuration with the module PROJECT.json names for it, and each
`...Proofs` module.
