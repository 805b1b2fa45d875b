# A TLA+ model of bprd

bprd (`src/`) is a backpressure routing daemon.  On every station it holds the
packets of each *commodity* (the UDP traffic to one destination) in a kernel
queue, tells its neighbors how long the queues are, chooses for every commodity
the neighbor with the largest difference of backlogs as next hop, and releases
packets of the commodity with the largest difference.

This directory holds the TLA+ modules that model it, the TLC configurations that
check them on small instances, and TLAPS proofs for all values of the constants.
Paths below are relative to the repository (`src/router.c` is the daemon's,
`lib/` the vendored libraries).

## 1. Inventory

| Part | State it keeps | Operations |
|---|---|---|
| fifo queue (`fifo_queue.c`) | `head`, `tail`: ids of the last packet decided and of the last announced | `fifo_add_packet` (callback), `fifo_send_packet`, `fifo_drop_packet`, `fifo_delete`, `fifo_length` |
| backlogger thread (`backlogger.c`) | the netfilter handle | start-up (queues, then iptables rules), `recv` loop, `backlogger_packet_release` (called by main) |
| router thread (`router.c`) | `backlog` and `backdiff` of each commodity, kernel routes, the interface's forwarding flag | `router_init`, `router_update`, `router_route_update` |
| hello reader thread (`hello_reader.c`) | the neighbor being parsed | receive, lock, four parser callbacks, of which some end the process, unlock |
| hello writer thread (`hello_writer.c`) | sequence number | lock, refresh the table, list neighbors and commodities, unlock, send |
| neighbor table (`ntable.c`, `neighbor.c`) | list of neighbors with `bidir`, `clist`, `update_time`; a mutex | `ntable_refresh`, find, insert |
| commodity and linked lists (`commodity.c`, `list.c`) | `bprd.clist`, `n->clist` | find, insert, remove |
| main (`bprd.c`) | the configuration | start-up, then release packets every `release_interval` |
| daemonizer, pidfile (`daemonizer.c`, `pidfile.c`) | the pidfile | fork, create exclusively, SIGTERM handler |
| logger (`logger.c`), procfile (`procfile.c`) | `logger_mutex`; -- | log (an error message ends the process); read and write the forwarding flag |
| packetbb writer (`lib/packetbb/pbb_writer.c`, `*_generator.c`, `pbb_tlv_writer.c`) | message and packet buffers with their header, TLV and address sizes | begin a message, its header, TLVs and addresses, finish it, flush the packet |
| packetbb reader (`lib/packetbb/pbb_reader.c`) | consumers; the datagram being parsed and what was dropped of it | register a consumer, handle a packet: parse, call back, forward, clean up |
| common (`lib/common`) | AVL trees; -- | insert, remove, find, clear; addresses, buffers, strings |

How they interact.  Five threads share `bprd`.  The neighbor table has a lock
(reader, writer and router take it); the commodity list and the queues' counters
have none: the router writes `backlog` and `backdiff`, main and the writer read
them, the backlogger moves `tail`, main moves `head`, the router reads both.
Stations interact through multicast hellos only, which the packetbb writer makes
out of what the hello writer's callbacks add and the packetbb reader takes apart into
the hello reader's callbacks; both keep everything sorted in AVL trees.  The kernel holds packets until
a verdict names their id, and routes.  `BPRD_LOG_ERR` calls `exit`.

What is hard: unlocked counters; the packet id of a verdict is *guessed* from a
counter; a table that three threads change and whose errors end the process; a parser's callbacks
that end it too, over content they do not know;
differentials that are stale when packets are released on them; hellos that are
lost, late, repeated or out of order against a timeout; stations that restart;
a start-up ordered by `sleep(1)`; a signal handler that logs; a parser whose
consumers may end or hide any part of what it is in the middle of; a tree that is
rebalanced; message sizes computed in several places; a clock that is set.
`PROJECT.json` lists these hazards line by line with the properties about them.

What makes the parts correct:

- the counters stand for the kernel's queue: no packet is lost, skipped or
  decided twice, and the length the router sees can be trusted;
- the next hop is the best bidirectional neighbor, ties are fair;
- the process ends for a real reason only, never over a hello of another bprd station, no lock is kept, routes lead to
  stations that hear this one, packets are released only along a route, and
  all packets for a reachable destination are released;
- a hello is read as it was written, whatever happens meanwhile, and the table shows
  the last hello of each neighbor;
- the parser starts and ends its callbacks in pairs, shows each consumer what it should
  see and nothing that was dropped, and finishes with every datagram;
- the tree is a balanced search tree and behaves as a sorted list;
- live neighbors are kept, silent ones forgotten in time, and stations in range
  find each other;
- the pidfile follows the daemon, and SIGTERM ends it.

## 2. Modules

| Module | Models | Uses |
|---|---|---|
| `PacketQueue` | what a commodity queue promises: packets are queued in order, decided first in first out | |
| `FifoQueue` | `fifo_queue.c` with its three threads and the kernel; every load and store is a step | refines `PacketQueue` |
| `Backpressure` | the differential of two backlogs, and the declarative choice of next hops | |
| `NextHop` | the one-pass loop of `router_update()` over one neighbor table | `Backpressure` |
| `Daemon` | one process: five threads, table, mutex, lists, routes | `Backpressure` |
| `HelloNet` | the hello protocol between stations, with time, loss and crashes | |
| `Lifecycle` | processes on one machine: start-up, pidfile, signals, logger mutex | |
| `SortedList` | what the tree promises: a list in order of keys, equal keys in order of insertion | |
| `AvlTree` | `lib/common/avl.c`, `avl.h`: the tree and the ring threaded through it, pointer by pointer | refines `SortedList` |
| `PbbReader` | `lib/packetbb/pbb_reader.c`: parsing, consumers and their callbacks | |
| `PbbWriter` | the packetbb writer as functions on its buffers, and the bytes it makes | |
| `HelloPath` | a hello from `hello_writer.c` to the table filled by `hello_reader.c`, with the wall clock | extends `PbbWriter`, instantiates `PbbReader` |
| `MCAvlTree`, `MCPbbReader`, `MCHelloPath` | keys; datagrams and consumers; stations and lists for TLC | |
| `MCDaemon` | destinations and hellos for TLC's instances of `Daemon` | `Daemon` |
| `FifoQueueProofs`, `NextHopProofs`, `DaemonProofs`, `HelloNetProofs`, `LifecycleProofs`, `PbbReaderProofs`, `PbbDeliveryProofs`, `PbbBracketProofs` | the theorems | |

Definitions keep the names of the functions they model where there is one
(`fifo_add_packet`, `hello_cons_msg_tlv`, `ntable_refresh`, ...); `PROJECT.json`
maps every one to its lines.  Definitions whose comment begins "Mutant:" are
deliberately wrong variants of the definition that follows; no specification uses
them.  They show that a property notices that mistake.

**FifoQueue.**  `tail` is moved by the backlogger's callback, `head` by main, which
tests the length, moves `head`, and only then asks for the verdict of the packet
with that id, a request the kernel may refuse.  `fifo_length()` is two loads in an
optimized build and four in the default one (`Optimized`).  Packets are named by
order of arrival; the kernel numbers them modulo `W`.  The refinement maps the
abstract queue to the packets after the last decided one.

**NextHop.**  Every test of the loop is an action: unknown commodity, not
bidirectional, destination found (leave the loop), smaller, larger, tie.  The
random draw of a tie is not resolved; `odds[k]` counts, over all outcomes of the draws
for the current tie (`draws` of them), how many end with neighbor `k`.  `Daemon` uses the declarative `BestHops`, which
`NextHopProofs` shows the loop to compute.

**Daemon.**  One action per critical section or unlocked access.  A neighbor's age is
abstracted (a refresh may expire any set), and hellos come in any order from any neighbor,
each carrying the commodities `Advertised[n]` with any backlog.  A queue is two counters:
`tail` is the number of arrivals and `head` that of releases, and the router's
`fifo_length()` loads them one by one (`RouterLength`, `RouterTail`, `RouterHead`), in the
default build (`Optimized` false) each a second time after the test.  The second load of
`tail` is put at the time of the first, which loses nothing because `tail` only grows.  A
release between the loads of `head` makes the length underflow, modulo `W`; backlogs,
differentials and main's allowance go on with that number.  `listed` is a history
variable: the neighbors that have listed this station since they entered the table.
`exited` tells the three ways in which the process ends: a disagreement about commodities in
the router ("commodities"), content the hello reader does not know ("hello", where
`ForeignHellos` allows it) and a failed system call ("system").

**HelloNet.**  Time advances in ticks, but not past the writer's due time nor past a
hello's latest arrival.  An entry's `elapsed` is `now - update_time`, modulo `W` as
in the code; `heard` is a history variable that no action reads.  A multicast hello
is one message for each receiver.  Loopback is off, as in `socket_init()`.

**AvlTree.**  A tree is a record of functions, one for each field of `struct avl_node`,
over a fixed set of elements.  One action per operation; rotations and rebalancing are
functions from tree to tree with the names of the code's.  The removal cases (leaf,
one child, two children, leader with duplicates) are operators of their own.

**PbbReader.**  One step parses a header, a TLV or an address block, or makes one
callback, in the order of `pbb_reader_handle_packet()` and its callees; `rd.stage` is
where it is.  A callback returns anything `Returns` allows, so that every context may
be dropped at every place.  `held` counts allocations; `Failures` says which of them
fails.  `open`, `gone` and `seen` are histories of what was started, dropped and shown.
A datagram is a sequence of numbers; one constant, `BYTE`, scales every place where a
number takes two bytes, so that both cases appear in short datagrams.  Flags keep their
values.  Three things the code does are at the edge of the model.  Datagrams whose head and
tail are longer than an address are outside it: the code computes with negative sizes there
and nothing it documents applies.  A TLV of several values whose `count` is 0 (without an
index, or with a second index one below the first) makes the code divide by zero:
`parse_tlv` returns `SIGFPE` and no step follows.  And `InsertTlv` sorts by the type, which
is what the code's 32-bit comparison of a 16-bit key does where the padding behind the key
is zero (section 4).

`add_consumer` follows the code's order of insertion and flag: a consumer has the key of a
message consumer when it is inserted, so that once a message consumer of its order leads,
all later ones queue behind it whatever their kind, and those before it go to the front,
each a leader of its own.  The message consumers of an order stand before its address
consumers (`SortedConsumers`) exactly when no message consumer was registered after a
message and then an address consumer; where that matters it is a hypothesis.
`ConsumersAssumption` says of the consumers only what `enum pbb_result` says, that a
callback that may drop returns one of its codes that is not an error, and that entries are
in order without duplicates.  `open` follows the consumers that have both a start and an end
callback.  `held` is compared with `Objects`, what hangs in the message's lists.

**PbbWriter.**  The writer with one interface and one message type, as bprd sets it up.
Without `DO_ADDR_COMPRESSION`, which the build does not define, every address is a
block of its own.  `Overruns` says when the assembled message is longer than its buffer.

**HelloPath.**  The sender's thread takes one commodity per step while the router stores
new backlogs (the list has no lock), then the neighbors under the lock, then writes and
sends.  What was sent stays in `air` and may arrive at any time, again, or never, among
the hellos of a third station and messages that no bprd station writes (`Foreign`).  The
receiver is `PbbReader` with the daemon's consumers:
every step that makes a callback also does what `hello_reader.c` does in it, and that may be
to end the process: a message without an originator fails an assertion ("abort"), a message
TLV that is not a commodity and a TLV of an address are fatal errors ("error"), and so are a
failing `recvfrom` ("system") and `sendto`.  `exited` says which.  The two
stations share only the air, so one does not move while the other is inside a message
(`NotReading`, `NotWriting`); the threads of one station do interleave.  Table times are
taken modulo `W` from a clock that advances and is set.

**Lifecycle.**  `main()` step by step, the backlogger's and the router's
initialisation, one message of the router under `logger_mutex`, and the handler of
SIGTERM on any thread.  `End` is `exit()`: nothing is cleaned up.  `ending` says how a process
has ended: "term" by its handler, "unlink" by a handler that could not remove the pidfile,
"killed" by a signal whose default action applied, "fatal" by an error, "null" by the race
at start-up.

## 3. Runs

| Run | Result | Shows |
|---|---|---|
| `fifo_queue` | holds, 171 044 states | with arrivals, drops, deletes, refused verdicts and a dying backlogger: undecided packets are exactly those behind `head`; nothing is decided before it is announced; lengths are right; `PacketQueue` is implemented |
| `fifo_queue_default_build` | holds, 4 756 | four loads: a length read with no release in between is positive and at most the backlog; every packet is decided in the end |
| `next_hop` | holds, 197 631 | every table of up to three neighbors: the loop chooses by the declarative rule, stores the largest differential, and breaks ties evenly |
| `daemon_two_neighbors` | holds, 2 210 934 | two neighbors come, go and compete, in the default build with its four loads: types, reasons to exit, routes |
| `daemon_less` | holds, 4 084 508 | a neighbor lacking a commodity beside one that does not, foreign hellos and failing system calls: the router ends the process only while that neighbor is in the table |
| `daemon_two_commodities` | holds, 148 134 | default build: own traffic is left alone, releases have routes, locks are returned, backlogs drain, although lengths underflow |
| `hello_net` | holds, 572 926 | losses, delays, duplicates, reordering, a crash, a one-way failure: who is kept, forgotten, marked, and that links become bidirectional |
| `avl_tree` | holds, 31 262 | insertions, removals and clearings in every order: balanced, searches exact, a sorted list |
| `pbb_reader` | holds, 123 616 | whole, cut and contradictory datagrams, drops at any callback, failing allocations: brackets, delivery, drops, termination |
| `hello_path` | holds, 1 839 328 | hellos read as written and stored as read, none of them fatal to the receiver, with losses, repetitions, reordering, foreign messages, changing lists, a wrapping and a set clock |
| `lifecycle` | holds, 4 014 | starts, failures, kills and one SIGTERM each in any order: the pidfile follows the daemon, SIGTERM completes |
| `pbb_reader_mixed` | **violated** | consumers registered as message, address, message of one order: an end callback without a start |

**Bounds.**  `W = 8` with four packets is "no wrap"; four packets let the three
threads be in any relation to each other.  Three neighbors make every order of
destination, tie and better neighbor.  Two packets and advertised backlogs 0..1
give negative, zero, equal and positive differentials; two commodities give
main's scan something to compare; with `W = 4` a length that underflows is larger than any
real one.  `HelloNet` uses one tick per interval, three
losses in a row and one tick of delay: exactly what five intervals bridge
(`TimingAssumption`), so that the comparison in `ntable_refresh()` is met at its
boundary.  Two stations suffice for relations between pairs (hellos carry nothing
of a third station that a receiver uses), two processes for a file one may take
from another.  `AvlTree` has eleven elements with eight keys: trees of four levels, in
which every case of a removal is followed by single and double rotations on either side
and by changes of balance above them (a second rotation in one removal needs twelve keys,
more than a run has time for), and keys with two and three elements, so that leaders are
replaced; the keys looked up reach past both ends.
`PbbReader` has two datagrams that between them use every flag, all their prefixes, one
datagram for each error, two drops per packet and consumers of two orders and three
message types; `BYTE = 8` makes lengths and orders of two digits.  One order has its address consumer
registered first, the other its message consumer.  `HelloPath` has room
for two of three commodities (`Mtu = 33`), two neighbors that overrun it beside them,
two hellos, one foreign message for each way its content can be fatal, and a clock that starts two ticks before it wraps; the timeout of one tick
is met and exceeded.  Symmetry is used in `daemon_two_neighbors` only, where the
neighbors are interchangeable and the temporal property is one of single steps.

Deadlock is checked where the system cannot stop; not where it may: after a fatal
error (`daemon_less`, `hello_path`, where also the bounded sender ends), when the loop of
`next_hop` is left, and when all processes of `lifecycle` have ended.

**Fairness.**  Weak fairness of every thread: the scheduler runs it.  Strong fairness
of `pthread_mutex_lock`: whoever holds `ntable.mutex` gives it back and then
sleeps or waits for the network, so a waiting thread finds it free again and again.
In `HelloNet` weak fairness of time, writers and readers; nothing makes a lost hello
arrive, the bound on losses in a row does.  In `Lifecycle` strong fairness of the
handler, whose wait for `logger_mutex` competes with the other threads.  In
`PbbReader` weak fairness of its steps: it is a function call, nothing it waits for.
Arrivals, failures, signals, expiry and system-call errors are never fair.

## 4. Disagreements between code and documents

Shown by a run (details under `findings` in `PROJECT.json`): `pbb_reader.c:1024`
(`pbb_reader_mixed`), the end callbacks of a message's consumers (`pbb_reader.c:1007`, "Call
end callbacks for message tlvblock consumer.") also reach an address consumer that was
registered between two message consumers of its order.  bprd registers one of each and is not
affected.  Met while modelling, visible in the models, without a run:

- `ntable.c:57`: an entry is removed when it is *older* than five hello intervals;
  `doc/bprd-overview/bprd-overview.tex:607` removes a neighbor "who has not been updated for
  five or more" of them.  `LiveNeighborKept` and `OnlySilentForgotten` say what the code
  does, and need that boundary: in `hello_net` entries of exactly five intervals occur, and by
  the overview's rule a live neighbor whose hellos are lost and late as far as
  `TimingAssumption` allows would be dropped.
- `daemonizer.c:38`: a second SIGTERM, handled by another thread, unlinks the pidfile of a
  successor started meanwhile; `pidfile.c:14` speaks of "a PID file associated with the
  running process".  (`Lifecycle` with `MaxSignals = 2` violates `PidfileFollowsDaemon`.)
- `fifo_queue.c:130`: in the default build `fifo_length()` loads the counters again after
  comparing them; an arrival and its release between the loads make the difference
  2^32-1.  (`FifoQueue`, `ReloadTail` and `ReloadHead`; `LengthExactBetweenReleases` is
  limited to calls without a release in between.  In `Daemon` such a length becomes a
  backlog and a differential, which are corrected by the next update; for a
  neighbor without backlog `diff + 1` in `backlogger.c:62` then wraps to 0 and nothing is
  released on it.)  Its comment: "Returns the number of
  packets currently enqueued."
- `backlogger.c:62`: nothing decreases the stored differential when packets are released,
  so several releases between two updates send more than half of it, although the comment
  above says "otherwise gradient will grow in the reverse direction".
- `hello_writer.c:89`: commodities without room are left out of the hello (`Carried` in
  `HelloPath`); `doc/bprd-overview/bprd-overview.tex:547` has a hello contain "the
  backlogs of each of its commodities", and the receiver's router exits over a missing one
  (`ExitOnlyOnDisagreement` allows it: the hello does disagree).
- `hello_reader.c:125`: nothing clears `bidir` while hellos keep coming, so a link that
  fails in one direction stays a next hop; `bprd-overview.tex:550` explains the flag as
  "two-way communication is possible".  (`TableReflectsHello` says "this or an earlier
  hello".)
- `pbb_msg_generator.c:255`: the size compared with the limit is one address without the
  header, the TLVs and the other addresses, so that messages are never fragmented and a
  long one is assembled beyond its buffer, although `pbb_writer.c:62` calls the limit
  "maximum number of bytes in a message".  With 512 bytes 18 commodities and 2
  neighbors are enough.  (`PbbWriter`, `Overruns`.)
- `pbb_reader.c:1239`: only `PBB_DROP_MESSAGE` is kept from the caller;
  `PBB_DROP_MSG_BUT_FORWARD` and `PBB_DROP_ADDRESS` from a message's callback also end the
  rest of the packet, although `pbb_context.h:47` orders the codes by how much they drop.
- `pbb_reader.c:751`: the second pointer of the merge advances on the order of a TLV it has
  not yet been compared with: an entry that takes any type extension is passed over when
  its TLVs have a larger one, and if it is mandatory that is not reported.  The TLV callback is repeated for a TLV while
  entries of lower order are passed.  (`TlvDelivery` speaks of exact entries, and of
  "once" for consumers without entries.)
- `list.h:211`: `list_merge()` puts the second list in front, its comment says after.
- `netaddr.c:807`: `_subnetmask_to_prefixlen()` starts at 31 for a mask of 32 ones, so
  every prefix length is one too small.
- `fifo_queue.c:128`: the counters wrap; from then on `tail < head` and
  `fifo_length()` is 0.  (`FifoQueue` with `W <= MaxPackets` violates
  `LengthCountsEnqueued`; the proofs assume `NoWrap`.)
- `router.c:318-321`: the comment says a differential "less than zero" is ignored,
  but differentials are clamped at zero and `diffopt` starts there, so such a
  neighbor ties and is taken when there is none better.  `BestHops` says what the
  code does.
- `bprd.c:473`: `hello_interval * 5` overflows 32 bits above 858 s.  (`HelloNet`
  with `W <= 5 * HelloInterval` violates `LiveNeighborKept`; the proofs assume
  `NoWrap`.)
- `bprd.c:508`: `sleep(1)` is all that keeps the router from `fifo_length(NULL)`;
  known to the code's README.  (`Lifecycle`, `ending = "null"`.)
- `router.c:140`: `router_cleanup()` is never called, so the forwarding flag stays
  set after SIGTERM too, not only after SIGINT as the README says.
- `daemonizer.c:93`: a SIGTERM after the pidfile was created and before `sigaction()` ends
  the process by default and leaves the file.  (`Lifecycle`, ending "killed".)
- `daemonizer.c:101`: with a relative pidfile path `unlink()` fails after
  `chdir("/")`, the handler logs, and waits for ever if its thread was inside
  `logger_log()`; the file is left in any case.  (`TerminationCompletes` and the second part of
  `PidfileFollowsDaemon` leave out the processes in `Relative`.)
- `pbb_reader.c:553`: `count` is a `uint8_t`.  A TLV with several values and no index
  (0..255), or with `index2 = index1 - 1`, makes it 0, and `length % count` ends the process.
  (`PbbReader`, `SIGFPE`.)
- `pbb_reader.c:165`, `1061` and `1132`: the trees of TLVs compare with `avl_comp_uint32` a
  key that is a `uint16_t` (`pbb_reader.h:94`; that of consumer entries is an `int`).  The two bytes behind it are padding in a 64-bit build, zero in every copy of the cleared
  buffer; elsewhere they may be anything, and the order of the list with them.
- `hello_reader.c:53-57`, `103` and `137`: content that bprd does not write ends the process
  (the code: "TODO: softer error handling").  (`Daemon`, `UnknownContent`; `HelloPath`,
  `Ends`.)

## 5. Proofs

`tlapm` checks every leaf.  Assumptions on constants are the modules' `ASSUME`s,
which TLC evaluates; anything stronger is a named hypothesis of the theorem.

- **FifoQueueProofs** (hypothesis `NoWrap`: fewer than `W` packets).  Invariant:
  `head <= tail <= arrived`, the packets with a fate are `1..Decided`, and those
  after it are held.  The properties alone do not say which packet a verdict meets;
  the invariant pins it to `head`.  Theorems: types, `CountersNameHeldPackets`,
  `OnlyAnnouncedPacketsAreDecided`, `LengthCountsEnqueued`, `LengthNeverShort` for
  the optimized build, `LengthExactBetweenReleases` for the default one (what the first
  pair of loads saw is at most what the second one sees), and the refinement of
  `PacketQueue`.
- **NextHopProofs** (no hypothesis).  Invariant: no neighbor scanned so far has a
  differential above `diffopt`, the current choice attains it, and there is no choice
  only if no neighbor qualified.  For the ties: each of the `num` neighbors tied so
  far wins `draws / num` of the draws, all others none; the next tie multiplies the
  draws by `num + 1` and gives the newcomer one part of them.
  Theorems: types, `SelectionIsBest`, `LargestDifferential`, `TiesEquallyLikely`, for
  every table.
- **DaemonProofs** (no hypothesis).  Invariant: each thread holds the mutex exactly in
  its critical section; entries are whole except the one the reader is filling;
  a positive differential, wherever it is between router and main, has a route.
  Both `Optimized` and the default build are covered, so that the types are those of
  unsigned numbers: a backlog may be anything below `W`, a queue's real length stays within
  what has arrived.  A bidirectional entry belongs to a neighbor in `listed`, which shrinks
  with the table.  Theorems: types, `ExitOnlyOnDisagreement`, `RoutesLeadToListeners` (of
  each step that changes a route), `ReleaseOnlyWithRoute`, and `OwnTrafficLeftAlone`, which follows the router's working
  copies through its unlocked steps.
- **HelloNetProofs** (hypothesis `NoWrap`: six intervals fit the counters).  Invariant:
  an entry's age is the time since its neighbor was heard and exceeds the timeout by
  no more than the writer has slept; a station on a hello's list had been heard when
  the hello was sent.  Theorems: types, `SilentNeighborForgotten`,
  `MarkedWhileHeard`.  `LiveNeighborKept` rests on a second invariant that counts
  periods: the time since a neighbor was last heard is covered by one period for each hello
  lost since and for each one in flight, and, counted back from any hello in flight, by the
  losses and the older ones alone.  The oldest in flight has only losses before it and is
  no older than `MaxDelay`, which `TimingAssumption` makes fit the timeout.
- **LifecycleProofs** (any number of processes).  Invariant: a process that has passed the
  exclusive creation owns the pidfile until a handler of its own has unlinked it; a handler
  runs only in such a process, after a signal, and on one thread; the file is not the
  process's once that handler has unlinked it.  A handler that could not (relative path) and a
  signal before `sigaction()` leave the file, and the property excepts them.
  `PidfileUntilSecondSignal`
  says `PidfileFollowsDaemon` holds until some process is sent a second SIGTERM, whatever
  `MaxSignals` is; `PidfileFollows` is the case of the run (`MaxSignals <= 1`), and section
  4 says what a second signal does.  Types hold without a hypothesis.
- **PbbReaderProofs** (any datagrams, consumers, results, failing allocations).  The
  property compares callbacks with a history, `gone`, of all drops; the reader itself
  keeps only the result, a set of addresses for each block and a set of indices for each
  TLV.  The invariant says that these remember the history: a dropped packet or message by
  a result that ends it, a dropped address by its block (or, until its end callback has
  been made, by the result), a dropped TLV by itself, and that nothing in a message is
  dropped before its consumers run.  It needs the shape of parsed lists, which consumer each
  stage belongs to, and with which results a stage is reached.  Theorems: the invariant,
  and `DropsRespected`.
- **PbbDeliveryProofs** (any consumers, results, failing allocations; hypothesis
  `WellFormed`).  `TlvDelivery` is about a merge with two pointers.  The invariant says,
  on the orders of TLVs and entries alone, that every entry passed is below every TLV to
  come and no TLV passed is above an entry to come, that an exact entry knows the first
  applying TLV of its order among those passed and whether there was another, and that the
  callback was given the applying TLVs before the pointer, in order.  It needs both lists sorted: the entries by `ConsumersAssumption`, the
  TLVs because every insertion keeps them so, through parsing, packet, message and
  address blocks.  `WellFormed` is what section 2 says lies outside the model, stated of the
  step that parses: a TLV's type and extension are bytes (the model's datagrams hold numbers,
  because flags keep their values while `BYTE` is small, so an order above
  `TLVTYPE_ORDER_INFINITE` could be written down), and a block's head and tail fit its
  addresses.  The datagrams of `MCPbbReader` satisfy it.
- **PbbBracketProofs** (any datagrams, results, failing allocations; hypothesis
  `SortedConsumers(MessageConsumers)` for the contexts).  Contexts have a fixed nesting order:
  packet consumers, message consumers, the address consumer.  For each stage the invariant
  names the set of contexts that must be open, and says that the history is that set in nesting
  order; a start callback adds the innermost, an end callback removes it.  That the loop of end
  callbacks reaches exactly the started message consumers is where the hypothesis is needed,
  and `pbb_reader_mixed` shows that it is.  A second part counts: what is held is what hangs in
  the packet, the message and the block being parsed, so that freeing these leaves nothing; it
  needs no hypothesis.  Theorems: `Bracketed`, and `EverythingFreed` for any consumers.

Only model-checked: liveness (`EveryPacketDecided`, `MutexReleased`, `BacklogDrains`,
`LinksBecomeBidirectional`, `TerminationCompletes`, `HandlingEnds`), which is out of this prover's
reach; everything about `AvlTree`, whose walks and rotations are recursive over the tree;
and `HelloPath`, where bytes are concatenated and taken apart by folds and filters
(`SelectSeq`).  For the last two one would have to reason by induction over the data, which
the installed provers cannot.

## 6. Not modelled

- Parsing of options and of the commodity file, `util.c`, `netif.c`: no state that
  later behaviour depends on beyond the configuration itself.
- The text of log messages, of iptables commands and of procfile paths.
- Of `lib/packetbb`: address TLVs, address compression and preallocated TLVs in the
  writer, which bprd does not use or the build leaves out; `pbb_writer_forward_msg()`
  (bprd sets no forwarding callback); printing.
- Of `lib/common`: `autobuf.c`, `string.c` and the textual conversions of `netaddr.c`,
  which work on text and keep no state; `daemonize.c`, of which bprd has its own.
- Datagrams for which the reader computes with negative sizes (see `PbbReader` in section
  2); what comes after a division by zero.
- IPv6: the options accept it, but the repository's README (line 64) says that it is not
  supported, and `socket_init()` opens an `AF_INET` socket only.
- Memory exhaustion in the daemon itself (its allocations are unchecked).
- The pointers of `src/list.c`: lists are sequences or functions.

## 7. Plan

In order of what is left:

1. Proofs: that `SortedList` stays sorted.
2. That `NextHop`'s loop refines the choice `Daemon` makes.
3. The writer with address TLVs and compression, read back by `PbbReader`.
