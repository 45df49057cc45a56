# A TLA+ verification of hyLISP

hyLISP is a LISP edge router for FreeBSD in three layers: a data plane in the kernel (`hylisp-dp`),
control plane processes (`hylisp-cp`), and between them a hypervisor (`hylisp-hv`) that lets several
control planes share one data plane. This directory holds TLA+ modules for the concurrent core of
the system, the TLC configurations that check them, and proofs, checked by TLAPS, that hold for
every value of the constants.

Contents: [inventory](#inventory), [modules](#modules-and-the-code), [runs](#runs),
[fairness](#fairness), [proofs](#proofs),
[disagreements](#where-the-code-and-its-documentation-disagree), [plan](#plan), [what is not
modelled](#not-modelled).

## Inventory

### Hypervisor (`hylisp-hv/src`)

One process, four threads that `main.c` starts in no particular order, two shared tables, each with
a read-write lock.

| component | state | operations |
|---|---|---|
| `controlplanes/connected.c` | `control_planes`, an array that doubles; counter, capacity, next id | add at the end, remove and shift down |
| `controlplanes/assignments.c` | `assignments`, an array of pointers to malloc'ed pairs of an EID prefix and the index of a control plane | add or overwrite, remove, remove all of one plane |
| `controlplanes/sorting.c` | none | longest-prefix match of an EID in `assignments` |
| `controlplanes/register.c` (rs) | the eastbound socket, the connected ping socket | register: add, ACK, ping; deregister: remove, sweep, ping |
| `mapmessages/mux.c` (mmm) | `mmm_poll`, a private copy of the planes' sockets | poll; on a ping copy the sockets again; relay a plane's message to the kernel, recording the EIDs it announces |
| `mapmessages/demux.c` (mmd) | none | read a kernel message, find its plane, write it there, or to all |
| `controlpackets/demux.c` (cpd) | the westbound descriptor | read a UDP packet, find its plane's port, inject it there, to the default one, or to all |
| `mapmessages/parsemessage.c`, `controlpackets/parsedatagram.c` | none | find the EID of a message |
| `controlpackets/inject.c` | none | rebuild headers and checksums on a raw socket |

The threads share the tables, and talk through datagram sockets: planes to rs (`register`), rs to
mmm (`poll_update`, the ping), planes to mmm and mmd to planes (one northbound pair per plane). rs
hands every plane the descriptor cpd has opened.

What is hard here: the threads start in any order and rs depends on two of them; the planes die
whenever they like and many of their failures are `fatal()` to the hypervisor; mmm updates
`assignments` under a read lock; deregistration works in two locked halves; indices into one table
are stored in the other and survive shifts; `add_assignment` and `remove_assignment` take the index
of a plane for one of an entry; pings and messages are lost when a socket is full.

What makes it correct: the tables stay memory safe and within capacity; the muxer listens to exactly
the registered planes; every registration is answered and every message taken up; the process ends
only for the reasons its authors wrote down. (That an EID leads to the plane that announced it would
belong here, and is false: see [below](#where-the-code-and-its-documentation-disagree).)

### Control plane (`hylisp-cp`)

One process with a receive loop, a pool of workers, and one thread each for the resolver, for
registering (on an xTR) and for the plugin that talks to the kernel.

| component | state | operations |
|---|---|---|
| `thr_pool/` | job queue, workers, counters of threads and of idle ones, two flags, three condition variables | queue a job, wait for all, destroy; workers linger, time out, exit, are replaced |
| `plugin_hv/` | the virtual map socket, descriptors of the hypervisor | register and wait for the ACK; send |
| `udp.c`, receive loop | `ipq_no`, the packets in process, and its limit | poll, read, queue a job, wait below the limit |
| `udp.c`, map resolver | `mr_lookups`, a table of pending requests | new lookup, retry on timeout, follow a referral, give up |
| `udp.c`, map server | mappings in the database, the last hash of every site | validate a Map-Register, replace the site's mappings, Map-Notify |
| `udp.c`, xTR | a counter | register every mapping once a minute |
| `server.c` | none | which answer a request calls for |
| `plugin_openlisp.c` | `lookups`, a table of cache misses with retries; the kernel's tables | install the local mappings; miss, request, reply, write to the cache |
| `db.c`, `radix/` | a trie of prefixes with flags and mappings, and locks on its nodes | insert, delete, exact and longest-prefix match |
| `parser.c` | the database at start-up | ranges, sites and delegations, with a check of overlaps |
| `cli.c`, `list/`, `hmac/` | none; lists; none | |

Receive loop and workers share the packets and `ipq_no` (with a lock); workers and the resolver's
loop share `mr_lookups`, workers share the database, workers and the plugin's loop share `lookups`
(all without one). Requests that need resolving go from a worker to the resolver through
`pending_request`; answers come back to the main port, hence to a worker, or to the lookup's own
socket, hence to the loop.

What is hard here: signals that fall on workers already awake and timeouts that race with jobs;
tables searched, filled and freed by several threads without a lock; late, repeated and lost
datagrams; limits that are tested once; counters that pass through zero; replacing a site's mappings
in a trie whose inner nodes come and go; a hash that stands for the contents of a table; a restart
over tables that the kernel kept.

What makes it correct: packets are counted exactly and every one is released; every lookup ends, and
for a reason; the table holds what the sites registered and answers come from the closest mapping;
the trie is a map; the kernel's tables say what was configured and announced.

### Data plane (`hylisp-dp`)

Patches to the FreeBSD kernel. Here it is only the environment that sends map messages at any time
and takes every message written to the mapping socket.

## Modules and the code

`PROJECT.json` maps every definition to its lines. In short:

**Sorting** (`sorting.c`). An EID is `Width` bits (128 in the code) and a length up to `MaxLength`
(255: it is a `uint8_t`). `flex_sort` is a closed form: no plane or `::/128` is `ERR`, `::/0` is
`ALL`, otherwise the longest entry that covers the EID, the later of two as long, otherwise the
default plane.

**SortingLoop** is the same function as the code computes it, with `memcmp` over whole bytes, the
table of masks, the length that is cut to `Width` on the way and the running maximum. A byte is the
sequence of its bits. The run compares the two on every table, and a theorem says that they never
differ.

**Tables** (`connected.c`, `assignments.c`). Arrays are functions from the slots that were ever
written; slots at or above the counter keep their old contents, as they do in memory, and `heap`
holds the allocated chunks, so stale, dangling and uninitialised accesses are all expressible. One
action per function; `remove_assignee` is one action per iteration of its loop. Where the code uses
a wrong index the model does the same: an index that happens to be a live slot touches that entry,
one that is not may crash, do nothing visible or hit any other assignment. `TablesSpec` is the
abstract specification of the tables under callers that keep to the locks; `Hypervisor` is shown to
implement it.

**Hypervisor** composes the tables with the four threads and the planes.

| thread | actions | code |
|---|---|---|
| rs | `RsStart`, `RsRecv`, `RsRegister` (up to the unlock), `RsAck`, `RsPing`, `RsDeregister` (first lock), `RsClean` and `RsSweep` (second lock) | `register.c` |
| mmm | `MuxStart`, `MuxPoll`, `MuxDrain`, `MuxCopy`, `MuxRelay`, `MuxLock`, `MuxAssign` | `mux.c` |
| mmd | `MmdRead`, `MmdSort`, `MmdDeliver` | `mapmessages/demux.c` |
| cpd | `CpdStart`, `CpdRead`, `CpdSort`, `CpdInject` | `controlpackets/demux.c` |
| planes | `CpRegister`, `CpReceive`, `CpSend`, `CpEast`, `CpCrash` | `plugin_hv.c`, `plugin_openlisp.c` |

An action ends where the code releases a lock, blocks, or hands something to another thread. Read
locks are implied by the program counters; write locks last one action or one sweep. When mmm
changes the table while a demuxer is between taking and releasing its locks, that demuxer is marked
`torn` and its scan may end in any way, a crash included: the undefined outcome of the data race.

Abstractions of this module, all of them deliberate:
- messages carry their EID; a message of the wrong length is an `UNKNOWN` one;
- `recv` and the two read locks that follow are one action, as are the second read lock of a
  broadcast and its writes, and the muxer's opening of its two sockets;
- a northbound socket registers once in the life of a process (`mkstemp` names it);
- failures of `socket`, `bind` and `malloc` (fatal on the spot) and of `recv` (a warning) are left
  out, and so is what becomes of a lock initialised while a demuxer holds it;
- what is written to the kernel, or injected, leaves the model.

**ThrPool** (`thr_pool.c`). `pool_mutex` makes every critical section one action; a worker is in one
of seven states, among them the two the counters cannot see, signalled or timed out without the
mutex yet. Spurious wake-ups, `pthread_exit` in a job, cancellation and a failing `pthread_create`
are included; the list of all pools and `malloc` failures are not.

**DbTable** (`radix/db_table.c`). The trie as functions from a table to a table, one per function of
the code: a node is named by its prefix and has a parent, two links, a lock count, data and flags.
`PNBBY` is the number of bits in a byte, `MaxLen` that of an address. **Db** drives it: nodes are
got (and locked), given data, looked up and released in any order, under the precondition that
`db_node_delete` asserts. **PrefixMap** is what a prefix table promises: a map with longest-prefix
match. `Db` implements it, with the nodes that carry data as the map; forks, stubs and locks
disappear.

**Resolver** (`udp.c`) is the receive loop, the workers' handling of a packet and the resolver, on
the table they share.

| thread | actions | code |
|---|---|---|
| receive loop | `udp_get_pk`, `CountPacket` (count, wait, wake) | `udp_start_communication`, `udp_get_pk` |
| worker | `_lisp_process`, `FreeOwn`, `SignalOwn`, `pending_request`, `claim_slot`, `keep_packet`, `copy_nonce`, `mr_new_lookup`, `get_mr_ddt` | the functions of those names; the slot is filled in four steps, `udp.c:3745-3785`; `udp_free_pk` |
| worker or event loop | `process_record`, `SendOn`, `free_lookups`, `ClearLookup` | `get_mr_ddt`, `read_mr_ddt`, `free_lookups` |
| event loop | `scan_lookup`, `poll_timeout`, `poll_closed`, `poll_signal`, `poll_ready`, `read_mr_ddt`, `recvfrom`, `events_done` | `mr_event_loop`, `read_mr_ddt` |
| system | `Spurious` (wake-ups), `Datagram`, `Descriptor0`, `Tick` | `pthread_cond_wait`, the sockets, the clock |

A step ends where a thread touches what others share. So a slot can be freed, or filled again,
between the search for it and its use, and a slot that is being filled is active before it has its
packet, its nonce and its locators (3749, 3750, 3762, 3769): until then the other threads find there
what its last lookup left. What is then undefined (a released packet used or released again, a
destroyed list of locators used, an entry past an array) sets `crashed`, where the model ends;
properties speak of what happens before. The work on one record is one step.

Time is counted: every lookup has an age, `delta` is the time until its next send (half a time-out
for an overdue one, as in 4207-4213), and `poll` waits for the least of them; the clock moves while
the loop is in `poll` or blocked.

`mr_event_loop` gives `poll` two entries for each lookup but fills in the descriptor of the first
only (the second descriptor goes to `mr_fds6`, 4221-4222, which nothing polls), so every second
entry is descriptor 0. The model has that descriptor with the three states that matter: quiet,
readable, closed. When it is readable the loop reads the socket `rx6` of the lookups, and blocks in
`recvfrom` until a datagram comes there, which may be never; when it is closed (or `rx` is), `poll`
returns at once. Two entries per lookup also run over arrays of `MAX_LOOKUPS + 1`, which is a crash
here. Abstractions: a socket holds at most one datagram; of the descriptor numbers only 0 is reused;
a send fails or succeeds.

**MapServer** (`server.c`, `db.c`, `udp.c`, and what `parser.c` does to the database) is a map
server with the xTRs that register with it. The configuration is read element by element; then the
workers take Map-Registers off the network (`Take`), validate them against the sites' nodes and the
stored hash (`_register`), clean the site's mappings (`CleanSite`), add the records one by one
(`AddRecord`) and notify (`Registered`). These steps of several workers interleave in any order, and
so do the referrals that the resolver's thread writes (`_process_referral_record`). An xTR sends its
mappings again and again (`general_register_process`) and is restarted with others (`Restart`). A
request changes nothing: its answer is an operator, `generic_process_request` (or
`xtr_generic_process_request`), and `AnswersRight` evaluates it in every state, so also in the
middle of an update. The prefix table is `DbTable`'s.

- *Authentication.* The validation compares as many bytes of hash and key as the packet says it has
  (2890, 2936, 2950). A register is sent with authentication data or without any (`auth`); without,
  the comparison with a stored hash always succeeds and the one with the key is passed (`SameHash`,
  `_ms_validate_register`).
- *Nested sites* are part of the configuration, as `parser.c:142-145, 183` accepts them. Cleaning
  the outer site frees the nodes of the inner one, to which that site's list still points;
  `AllThere` ends the model (`line = 0`) where such a pointer is used.
- *History.* `raced` holds the sites whose mappings are not those of one update alone: another
  worker was updating the site or one that meets it (`Meeting`, `Busy`, `Other`), a site that meets
  it was updated since, or a mapping was delegated or referred inside it. A site leaves the set with
  an update that begins alone and whose hash is the stored one.

Abstractions:
- a hash is what it covers, the notify bit included (it is not masked before the hash is computed);
  that two hashes may be equal by accident is left out, and so is that `strncmp` stops at a zero
  byte;
- validating a register, cleaning a site and entering one record are a step each; races within one
  of them, on the same node or list, are undefined and left out;
- a register can be lost while some worker is idle. As long as no worker takes it, a loss later on
  is the same;
- no caller releases the node a lookup has locked, so locks only grow and are left out (`Settle`);
- one address family (the two tables never meet), and no explicit paths (`lisp_te` off).

**OpenLisp** (`plugin_openlisp.c`). One action per return of `poll` in `event_loop`: a miss, any
other wake-up, a reply to a lookup's socket, a retry; and `get_mr`, by which a worker handles
replies when there are no random source ports. Both configurations are initial states of one run.
Time is an age per lookup that `Tick` moves on. The kernel's two tables are external: adding what is
there and deleting what is not have no effect, and the entries outlive the process. Sending a
request and storing its nonce are one step. A miss is handled whether or not its EID has been cached
since. `NextDue` is the set of slots the loop may choose to wait for, or NULL when none is due within
one time-out (the wait is then endless, 874-907); a slot that `get_mr` freed meanwhile is sent for
all the same, and keeps its EID, age and nonces. Replies are compared with one cell more than there
are nonces (780, 837): it holds the nonce of no request. Explicit paths shorter than 20 hops are
modelled hop by hop, with the arithmetic the code does on them (`elp_hop`). A write past an array
sets `corrupted`, where the model ends.

**MCTables**, **MCHypervisor**, **MCDb**, **MCResolver**, **MCMapServer**, **MCOpenLisp** give the
constants their values. **SortingLoop_proofs**, **Hypervisor_proofs** (with the facts about
`Sorting` and `Tables`), **ThrPool_proofs**, **DbTable_proofs**, **Db_proofs**, **Resolver_proofs**,
**MapServer_proofs** and **OpenLisp_proofs** hold the theorems.

Names that end in a suffix after the name of another definition, such as `RsPing_Unbounded`, are
mutants: faulty variants of that definition, each of which violates a property named in
`PROJECT.json`. They take no part in any specification.

## Runs

Runs that pass:

| run | what it shows | instance |
|---|---|---|
| `sorting_loop` | the loop is longest-prefix match, for every EID, exact or not | 4-bit addresses in 2-bit bytes, so prefixes end within, at and beyond a byte; every table of up to 2 entries; lengths up to 6; 6 481 states |
| `tables` | types, `EntriesAllocated`, `AssigneesInitialised`, `WithinCapacity`, `OneEntryPerEid` | 3 registrations, 3 chunks, 4 EIDs of which three nest and one is `::/0`, both arrays start with capacity 1, so they grow twice; symmetric sockets and chunks; about 700 000 states |
| `start_up` | types; why the process may end; registrations are answered, messages taken up | 2 planes running the start-up of `plugin_openlisp` with disjoint EIDs, an endlessly busy demuxer, an eastbound message of no known action; 95 000 states |
| `churn` | `PollSetFresh`; the threads implement `TablesSpec` | 2 planes that announce the same EID, deregister and die, one demuxer busy, room for one ping; 449 000 states |
| `pool` | types, `CountersExact`, `FreedPoolUnused`, `NoStrandedJob`, `EveryJobRuns`, `WaitReturns` | 3 workers of which one is kept, lingering or not, 3 jobs that may exit, `pthread_create` may fail; 16 000 states |
| `db` | `WellFormed`; the trie implements `PrefixMap` | 4-bit addresses in 2-bit bytes; 5 keys that nest and part within the second byte; up to 2 locks; 50 000 states |
| `resolver` | types, `CountExact`, `InProcessBounded`, `PendingHeld`, `ReferralsDescend`, `LookupsEnd`, `ReceiveLoopResumes` | a worker beside the two loops, 3 slots, one send and one more try, a time-out of 2, a limit of 1 packet, 2 requests with the same nonce or not, and 1 other event (packet, datagram, spurious wake-up, signal, change of descriptor 0); 4 kinds of records in 3 answers; 399 000 states |
| `map_server` | types, `UnracedExactly`, `AnswersRight`, `SitesIsolated`, `NotifyTrue`, `EventuallyRegistered` | 3 sites in one range of which one is inside another, a range that overlaps and a delegation, a referral into a site; 2 xTRs, of which one may register without authentication data and in another site than its own, each with one register on its way, one configuration change; 2 workers; 141 000 states |
| `openlisp` | types, `OneLookupPerEid`, `EndsForAReason`, `LocalsInstalled`, `CacheAsAnnounced`, `LookupsEnd` | 2 slots, 2 requests per lookup, 3 lookups, with and without random source ports, xTR and RTR, leftovers of an earlier process; 361 000 states |

Why the bounds are enough. Every socket has room for one or two datagrams, so that full sockets,
hence lost pings and fatal ACKs, occur. Two planes give every collision of indices that a shift can
cause, and three occur in `tables`. One-bit addresses are enough for the threads, which only compare
verdicts; nesting prefixes are in `tables` and `sorting_loop`. What the proofs cover does not depend
on any of these bounds.

The limit of one packet in `resolver` makes the receive loop wait for every packet, and the count,
an unsigned of three bits, pass through its maximum. Two requests are enough for two lookups side by
side, for a slot that is filled a second time while an answer to its first lookup is under way, and
for a lost packet. With three slots two lookups poll four descriptors and run over none of the
arrays of four; a third lookup would. One other event is enough for each of the events that break
something: descriptor 0 readable or closed, a spurious wake-up, a datagram. What two of them do
together is covered by the theorems, whose invariants hold for every number of them, and not by the
liveness properties.

In `map_server` three bits of address in the sites give a mapping above, one below and one beside
the node that the site's list holds, and the inner site (four bits) is freed by the outer one. Two
registers, of two xTRs or one that is taken and one that is on its way, meet in the two workers in
every order of their steps; the third that could be under way would wait for a worker. Every
register asks for a notification here (`NotifyEvery` is 15 in the code), so that each of them is
confirmed. Three lookups over two slots in `openlisp` let a slot be used again while answers to its
first lookup are still to come.

Deadlock is not checked in any run: a process that has called `fatal()`, a script that is finished,
a pool that is freed and a model that met undefined behaviour all stop.

`FatalHasCause` is the exact list of reasons for which the hypervisor exits after its threads have
started: a thread not yet running, a plane that died, or a socket filled by the data plane's
messages before the ACK.

Several properties name exceptions, because the code has them:
- `PendingHeld` excepts a slot of which a thread is inside `free_lookups`, and one that is active
  but has not its packet yet (`udp.c:3749-3750`);
- `LookupsEnd` and `ReceiveLoopResumes` of the resolver except `Hangs`: a `recvfrom` that never
  returns, or descriptor 0 closed for ever; the second excepts packets that are in nobody's hands
  (`Lost`), which is what `duplicate_request` is about;
- `UnracedExactly` and `NotifyTrue` except a site whose last update was not alone (`raced`), which
  is what `stale_registration` is about, and `NotifyTrue` a register without authentication data,
  which is confirmed whatever it says;
- `AnswersRight` is about an address whose sites nobody is updating, and not `raced`: during an
  update a registered EID can get a negative answer. For the same address a range or delegation that
  the configuration places inside the site is excepted;
- `EventuallyRegistered` is about an xTR whose site meets no other; nested sites delete each other's
  mappings again and again;
- `LookupsEnd` of the plugin excepts the endless wait of a loop that found no lookup due within a
  time-out;
- `EndsForAReason` is about random source ports. Without, a late answer ends whichever lookup has
  the slot, and nothing stops a lookup after `COUNT` requests, so that `LookupsEnd` is excused by
  `corrupted` there.

Runs that fail, each showing a disagreement described
[below](#where-the-code-and-its-documentation-disagree): `duplicate_request`, `stale_registration`,
`explicit_path`.

## Fairness

`Hypervisor`: weak fairness of rs, of mmm, of a demuxer that has read a message, of cpd's start, and
of a plane's reading its socket. Threads of a process are scheduled, and a plane's event loop polls
its socket. Messages need not arrive, planes need not register, nobody need die.
`RegistrationAnswered` also needs the read-write lock to hold back new readers while a writer waits
(`WriterPreference`), which FreeBSD's does; without it the demuxers, whose reading may overlap for
ever, starve rs, and the mutant of that property is exactly this lock.

`ThrPool`: weak fairness of every worker that can go on, of a job's return, of a waiter and a
destroyer that were woken. Nobody need queue a job, linger times need not run out.

`Resolver`: weak fairness of the receive loop, of every worker, of the event loop and of the clock.
The last two make `poll` run out: the loop is in `poll` with a time left, the clock takes it away.
The network need not deliver anything, and nobody need send anything to a socket the loop blocks on.
The number of other events is bounded, so stray datagrams or signals that come for ever and keep
`poll` from running out are outside the model.

`MapServer`: the parser and a worker that has taken a register go on; an xTR sends for ever
(`sleep(60)` in an endless loop); and of what an xTR sends again and again the network delivers
something again and again. The last two are strong fairness, because an xTR may be held up by the
others again and again. The conditions are stated on the variables that only these steps change
(`WF_line`, `WF_<<line, wk>>`, `SF_<<count, net>>`, `SF_net`), each worker for itself.

`OpenLisp`: weak fairness of the start, of the clock, and of a retry whose time-out has passed
(`Progress`: it is sent or the lookup is given up, since sending does not fail for ever). There is
no fairness of `Wakes`: when the loop polls without a time-out, because it found no active lookup or
none that is due within one time-out, only a message of the kernel wakes it, and `LookupsEnd` says
so (`<>[](l = NULL)`).

## Proofs

All theorems hold for every value of the constants allowed by the named assumptions
(`WidthAssumption`, `TablesAssumption`, `HypervisorAssumption`, `ThrPool`'s, `ResolverAssumption`,
`DbTableAssumption`, `DbAssumption`, `MapServerAssumption`, `OpenLispAssumption`), which say that
EIDs, ports, scripts and answers have their types, that capacities and socket buffers are not zero,
that there are finitely many workers, and that the null pointer is no prefix. TLC evaluates them in
the runs. Every property that a theorem states was checked with TLC first, and so were the inductive
invariants as far as TLC can evaluate them.

**Sorting.** `SortIsLongestPrefixMatch`: a verdict `ONE` is the assignee of an entry that covers the
EID and no entry that covers it is longer. The closed form is a `CHOOSE`; the content is that
something satisfies it. `GreatestBounded` (from the well-foundedness of the naturals) gives the
greatest length among the matches and then the last index among those.

**SortingLoop.** `LoopIsFlexSort`: the loop returns what the closed form does, for every table, EID,
default plane and width of a byte, so that everything proved about `flex_sort` holds for the code's
loop. Three facts carry it: whole bytes that are equal and leftover bits that are equal under the
mask are the bits of the prefix (a bit of the address is bit `b` of byte `n` for one `n` and `b`);
cutting the length of the EID to `Width` in the middle of the loop changes the outcome of no later
comparison, because no entry is longer (`exact` included: an EID that is longer than `Width` equals
no entry before and is never cut); and after `i` rounds the maximum and the index are those of the
longest match among the first `i` entries, the last of several. `SortingLoopCorrect` states the
invariant of the run with it.

**Tables.** `TablesInv` is types, `EntriesAllocated`, `AssigneesInitialised` and `WithinCapacity`.
None of the last three is inductive alone: a removal closes the gap over slots that must have been
written, two entries stay distinct only if all were, an appended slot lies below the capacity only
if the counter did. The argument for `EntriesAllocated` is that `memmove` maps the slots that remain
one to one onto all but the freed one (`MovedIsBijection`), wherever the wrong index pointed.
`TablesUnique` is separate: an exact search that finds nothing means that no entry has that prefix
(`ExactSearchFinds`), so only then, or for `::/0`, is one appended.

**Hypervisor.** `HypervisorInv` adds to types and `TablesInv`:
- `LocksInv`: the write lock of `assignments` is held exactly during a sweep, and never beside the
  muxer's read lock. Without it `MuxAssign` would not be a step of `TablesSpec`;
- `PendingInv`: a plane registers once, so `add_control_plane` never adds a socket twice;
- `IdsInv`: what `RsClean` passes to `remove_assignee` is an id;
- `MuxLocalsInv`, `ReadyInv`: a socket that poll() has reported still has its message when the muxer
  comes to it, so `recv` does not block.

From it follow `HypervisorTyped`; `HypervisorImplementsTables`, step by step, with the tables'
variables mapped to themselves; `HypervisorMemorySafe`, by the refinement and `TablesMemorySafe`;
and `PollSetIsFresh`: rs is on its way to a ping from the moment it changes the table, a ping that
is lost finds another queued, and the muxer drains before it copies, under a lock that keeps rs out
in between.

`HypervisorFatalHasCause` needs one more invariant, `AckInv`: the plane rs is about to answer is
registered, no socket holds more than `NorthRoom` datagrams, and a plane that has had no ACK has
messages of the data plane at most in its socket. `Unanswered` names these planes by where their
request is: not sent, in `eastbound`, in `rs.msg` or in `rs.to`. A request only moves forward
through these places, so nobody becomes unanswered, and the ACK ends it; a full socket of the plane
that waits for its ACK is therefore full of map messages.

**ThrPool.** `PoolInv` is `TypeOK`, `CountersExact`, `FreedPoolUnused` and four facts they lean on:
`AwakeEnough` (while a worker sleeps, at least as many others are awake, or signalled, as jobs are
queued: a job that finds `pool_idle` above zero has woken somebody, even if that one has not the
mutex yet), `ThreadOrFailure` (jobs without a thread mean that a creation has failed),
`NobodyBlocked` (no worker sleeps once the pool is being destroyed) and `DestroyerKnown` (the flag
is set by the one who is inside `thr_pool_destroy`). The counters are cardinalities of sets of
workers, so each step adds or removes an element. `NoStrandedJob` follows from `AwakeEnough` and
`ThreadOrFailure`.

**DbTable, Db.** The loops of `db_table.c` are recursive functions here. The library's induction
rules cannot be used by the installed provers, so the proofs take induction in the form of the
least-number principle: a set of naturals that is not empty has a least element (`LeastNatural`),
hence one that holds 0 and all successors is `Nat` (`Induction`), hence every loop of `N` rounds has
its values (`Iterates`), which is what makes `Walk`, `Subtree` and `db_node_delete` equal to their
rounds. What is proved with it, for tables of any size and addresses of any width:
- `PrefixMatchIs`, `RouteCommonIs`: comparing bytes and odd bits is comparing the bits of the
  prefixes;
- in a linked table (`Linked`: parent and child pointers agree, and a child is on the side of its
  own bit) the walk from the top visits exactly the nodes that include the prefix (`VisitedIs`) and
  reaches all nodes (`SubtreeIs`). The first is an induction over the length of the node: its parent
  is visited before it and does not stop the walk;
- `GetEffect`: when the loop of `db_node_get` ends, what it holds is the node of `p`, or hangs below
  the last node that includes `p` on `p`'s side, or is the top (`GetFinds`); the glue node is then
  new, lies strictly below that last node and parts its two children (`GlueIs`), so that linking it
  in keeps the table linked (`ForkLinked`);
- `DeleteEffect`: between two rounds of `db_node_delete` every node but the one at hand is settled,
  and the nodes removed had no data (`Deleting`); each round climbs, so `MaxLen + 1` rounds suffice.

`DbInv` is the type of the table, `Linked`, an exact counter and that unheld nodes are forks without
data. It implies `WellFormed` (`DbWellFormed`). For `DbImplementsMap`, `Get` and `Unlock` change no
data and are stutters of the map, `SetInfo` puts or drops, and `Match` finds the longest of the
visited nodes that have data (`MatchIsLongest`).

**Resolver.** `ResolverInv` says who owns a packet (`Owned`): it is in the queue once (`QueueOwns`),
with one worker (`WorkersOwn`) or in one slot (`SlotsOwn`), and that of an active lookup is released
only by a thread that is still at its slot, unless a worker is about to replace it there
(`ActiveHeld`). A worker that fills a slot gives its packet away when it stores it (3750) and reads
the nonce from a packet that the event loop may have released meanwhile. `Places` says which thread
can be where and with which slot. `Counted` relates the wrapping `ipq_no` to the number of packets
not released, and `Room` bounds that number together with the releases not yet signalled: each
spurious wake-up makes room for one more (`Fits`). No packet is then released twice, which
`CountExact` needs; `InProcessBounded` follows from `Room`, `PendingHeld` from the ownership.
`ReferralsDescend` is an action property, proved action by action from the types.

**MapServer.** The four theorems hold for any number of workers and any configuration, nested sites
and registers without authentication included. The invariant `MSInv` says of the table that it is
linked and of its type (`MsTable`), that a node with a site is an EID element of the configuration
with that site (`Sited`) and that the lists of the sites hold such EIDs (`TableInv`); and of the
workers what each step knows of its register (`WkInv`). All four ways of changing the table, an
element of the configuration, a record, a referral and a clean-up, are brought down to two facts, on
top of `GetEffect`, `SubtreeBelow` and `VisitedIs` of `DbTable_proofs`: a mapping that is entered
changes one prefix and adds at most a glue node without data (`Updated`), and cleaning removes what
is below the EID nodes and resets these (`AreCleaned`).

- `MapServerTyped`: a node that a site's list points to stays in the table and stays the site's if
  the configuration has no other EID at its place or above it (`Lone`). The others are freed when
  the site around them registers; a step that uses one is where the model ends.
- `MapServerSitesIsolated`: the records of a validated register all climb to EID nodes of one site,
  so that an update for it changes the mappings of a site only where the two meet, and only with
  that site's key or without authentication data.
- `MapServerUnracedExactly` has what the proof is about in `RacedInv`: of a site outside `raced`,
  either nobody is updating it or a site that meets it, and the stored hash describes the table; or
  one worker is, the stored hash is that of its register, and the table holds the records already
  done and nothing else (`Alone`, `Entering`). The history variable is what makes this inductive
  with several workers: the moment a second update starts at a meeting site, the site is `raced`,
  and it leaves that state only with a clean-up that finds nobody else there and its own hash
  stored. A record in the list of locators is a fold (`RegisterBest`: each address once, with its
  best priority).
- `MapServerNotifyTrue` follows: a notification is sent either when the hash is equal or when the
  last record is done.

The last two have one hypothesis, about what an xTR configures (`PlainMappings`): a mapping has one
record per EID, as the table of the xTR has it, and says one thing of an address with one priority.
Where two records of one register contradict each other, which of them the table holds depends on
their order, and the stored hash does not say.

**OpenLisp.** `OpenLispInv` relates the slots to the history `opened` of the lookups: `Agree` (a
slot has the number of a lookup, which no other slot has, and the count of its requests; with random
source ports an active slot has the socket of its lookup) and `Waited` (the slot the loop waits for
has a lookup). Both are claimed until memory is corrupted. `OneLookupPerEid` and `EndsForAReason`
are conjuncts.

`OpenLispLocals` and `OpenLispCache` are about loops over lists (`FoldLeft`, `FoldSet`). The provers
cannot take an operator as a parameter, so the loops are told apart by a kind (`FoldOp`), and one
lemma for all of them (`FoldRuns`) says that a fold has the value its rounds give it. For the cache:
after `k` locators of a record the list has each of the first `k` addresses once with the best
priority so far (`LocatorsBest`), hence an accepted record is entered as it was announced. For the
locals: every round of the start-up sets the entry of its prefix and keeps the others
(`LocalsFold`). The latter needs that different prefixes are different entries of the kernel.
`opl_add_mapp` passes a host without a mask, and the default prefix as address 0 without one, so the
theorem has the hypothesis `NoZeroHostBesideDefault`: a site does not configure both `0/0` and the
host `0.0.0.0`. Where it does, the second replaces nothing and one of the two mappings is missing.

Only model-checked: all liveness and `ENABLED`, which are out of reach of the prover, and
`AnswersRight`. Every other invariant and action property of the runs is stated by a theorem.

## Where the code and its documentation disagree

| run | says | does |
|---|---|---|
| `duplicate_request` | `udp.c:2229` "get next packet if number packet waitting < PK_POOL_MAX" | a Map-Request with the nonce of a pending one (`udp.c:3809`), or one that finds the table full (`3674`), is neither kept nor released: it stays counted, and after `PK_POOL_MAX` of them the receive loop waits for ever |
| `stale_registration` | `udp.c:2868` "Validate map-register ... check if need update db or not ... if not, ignore" | two workers may store the hash of one register and the mappings of another; from then on the register whose mappings are missing is ignored (`2936`) |
| `explicit_path` | `plugin_openlisp.c:557` "if not lisp_te --> get last hop" | a misplaced parenthesis (`620`) makes the test always true: the first hop is taken. For IPv6, `656` counts in units of 20 bytes and does not ask for `lisp_te` |

Others that the models contain and no run is devoted to:

- `assignments.c:72` says "Overwriting in place"; line 73 indexes `assignments` with the plane's
  index that `exact_sort` returned and changes another entry;
- `assignments.c:65, 100` say "Requires assignments wrlock"; `mux.c:214` takes it for reading;
- `plugin_hv.c:114` waits for the ACK; `register.c:172` unlocks before it is sent, and a map message
  may come first and is taken for it;
- `register.c:206-207` skips the sweep for the last plane, sweeps an id instead of an index, and
  leaves the indices of the others as they were, so that EIDs lead to planes that never announced
  them;
- `thr_pool.h:130` says "Cancel all queued jobs and destroy the pool."; with jobs queued behind an
  active one the broadcast that destroy waits for never comes (`thr_pool.c:48, 318`). The program
  never destroys its pool;
- a worker that is signalled but has not yet the mutex still counts as idle (`thr_pool.c:276`), so
  that a second job waits for the first although a thread could be created for it; `NoStrandedJob`
  and `EveryJobRuns` show that it costs time only;
- `server.c:377-450`: the prefix of a negative answer is compared at the wrong bytes below nodes
  that end after the first;
- `parser.c:142` says "EID must belong to GEID and overlap each other", and the prefix of a site may
  indeed lie within another site's; `udp.c:3025-3052` frees every node below an EID node when that
  site registers, while the list of the inner site still points to its own;
- a register with the stored hash is acknowledged whatever its key (`udp.c:2926-2942`), and as many
  bytes of hash and key are compared as the register says it has (`2890, 2936, 2950`): one that says
  0 is taken as nothing new, or applied if nothing is stored yet;
- `udp.c:4219-4223`: `rx6` is entered in `mr_fds6`, which is not polled, and the events that belong
  to it in `mr_fds`, whose descriptor there stays 0. When descriptor 0 is readable, `read_mr_ddt`
  reads `rx6` without a datagram (`3871`) and the loop stands still; the two entries per lookup need
  an array twice as long (`3561-3564`);
- `udp.c:2235` tests with `if` what a spurious wake-up of `pthread_cond_wait` (`2236`) makes untrue
  again;
- `udp.c:3749` makes a slot active before its packet (`3750`), nonce (`3762`) and locators (`3769`)
  are in it: until then the resolver's loop may send, expire or release what the slot held before;
- `plugin_openlisp.c:874-877` says "If there are no active lookups, we wait in poll() until a
  mapping socket event is received"; a lookup whose first request was just sent is due in two
  time-outs (`889`), more than the one time-out that the minimum starts from, so that the loop waits
  without a time-out for it too, until the kernel has another message;
- without random source ports a lookup of `plugin_openlisp.c` is never given up (`274`) and its
  nonces are written past their arrays (`436`); a reply that matches none writes the slot after the
  last (`847`).

## Plan

Worth modelling next: the parsers of the hypervisor with the `uint8_t` of a length
(`parsedatagram.c:162`).

## Not modelled

- The kernel patches and tools (the environment of the hypervisor and of the plugin here).
- HMAC and SHA: third-party, a Boolean or an injective hash to their callers. That hashes are
  compared with `strncmp`, which stops at a zero byte (`udp.c:2936`), is left out with them.
- The syntax of the configuration, the command line, logging, option parsing; the lists, which are
  sequences here.
- The building and parsing of packets (`udp_reply_*`, `udp_referral_*`, the checksums and headers of
  `inject.c`, the parsers of the hypervisor): no state, and bytes rather than decisions.
- `opl_get` and `opl_sockaddr2mask`, which nothing calls.
- Sockets of the resolver that get a descriptor number which a closed one had (only descriptor 0 is
  reused in the model), and streams of stray datagrams, signals or kernel messages that never end
  and keep a `poll` from running out.
- Races inside one step of the map server: two workers that change the same node or list of locators
  at once.
- Initialising the locks of the hypervisor while a demuxer holds them (`connected.c:54`), which is
  undefined.
