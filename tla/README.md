# TLA+ models of c-bootstrap

The repository is a collection of programs around the MongoDB C driver: an
application example (`hello-mongoac`), reproduction programs for driver
behaviour (`investigations`), small tools (`tools`) and helper headers (`util`).
One investigation holds a whole copy of the driver
(`print-invalid-arrays/mongo-c-driver-2.2.1`), and the programs that use a pool
run on its threads. There is no single system; the parts with logic of their own
are the ones where threads, sockets or remote state are shared. This directory
models those parts, checks the models with TLC and proves the central ones with
TLAPS.

## Inventory

| Component | State | Operations | What is hard | What makes it correct |
|---|---|---|---|---|
| `hello-mongoac` (`db-queue.cpp`, `db-requests.hpp`, `mongoac.hpp`) | script index, vector `inflight` and flag `shutdown_requested` under a mutex, futures, an error object per thread | main: await, start, push, notify, shut down, join; worker: wait, copy handles, drive, move completed, report | two threads, lost notifications, handles used outside the lock, a timeout left in `err`, draining at shutdown | each request reported once with its true outcome; live handles; no lost wakeup; clean shutdown; termination |
| client pool (`mongoc-client-pool.c`, `mongoc-queue.c`) | queue of clients, size, limit, last known server ids, condition variable | pop, try_pop, push, max_size, destroy | any number of threads, barging, timeouts, topology changes during a check-out | one owner per client, pruned connections, no sleeping thread beside an unclaimed client |
| descriptions (`mongoc-topology-description.c`, `mongoc-server-description.c`) | type, set name and servers of the deployment, newest election seen, largest id | apply a hello reply, an error or a DNS answer; select servers | replies of several servers in any order, partitions, misconfigured members, removed servers | one primary, of the newest election; types that agree; ids never reused; a known primary is selectable |
| SRV polling (`mongoc-topology.c`, `mongoc-topology-background-monitoring.c`) | the polling thread | check the type, query, reconcile, sleep | the type changes during the query | assertions hold, the limit is met |
| application errors (`mongoc-topology.c`, `mongoc-cluster.c`) | connections with a generation, the topologyVersion | fetch or open a stream, handshake, command, handle an error | errors noticed by several threads, applied late | no stale connection, one clear per outage, convergence |
| monitors (`mongoc-server-monitor.c`, `mongoc-topology-background-monitoring.c`) | a thread, a state, two flags and a condition variable per monitor; the state of the scanner | check, wait, request a scan, cancel, reconcile, stop | threads that retire each other or themselves, shutdown during a wait, requests dropped with an old reply | joined once, stopping ends, no request lost, every listed server monitored |
| `HELP-59749/main.c` | `is_running`, one client per worker | start, pop-update-push loop, stop, join, destroy | workers in `pop` or holding a client when main stops | contract of the pool kept, everything returned, the program ends |
| `minpoolsize/main.c` | `clients[]`, `server_ids` | discover, pop all, ping all, release all | failure half way, stale server ids, LIFO reuse | success = `num_clients` distinct warm clients; nothing kept |
| `tools/miniclient` | socket, `request_id`, receive buffer | connect, send, receive, parse, close | short reads, late replies, ignored `responseTo` | a reply belongs to its request; the stream stays framed |
| `tools/replace-evergreen-vars` | variables read, variables to write | GET, match, PATCH | edits between GET and PATCH, chained values | all or nothing, simultaneous, other variables untouched |
| other pool workloads (`HELP-69502`, `CXX2086`, `cdriver4002`, `long_runner`) | counters, one client per thread | pop, command, push | error paths that keep a client, racy counters | planned |
| `mismatched_reply`, `DRIVERS-2757` | connection, DNS datagrams | command, cancel; lookup, answer, drop | late or lost answers | planned |
| pure algorithms (`print-invalid-arrays.c`, `mongoc-array-example.c`, `util/hex.h`) | none | visit, append, encode, decode | boundary cases | planned |
| other investigations, `kmip_dump`, `print_libmongocrypt_version.py`, `amongoc`, `2.0`, `etc`, `docs`, the other parts of the vendored driver | | | | not modelled: sequential input and output, templates, scripts, notes, third-party code |

The workloads call the pool, and pushing to it reads the topology. The monitors,
the SRV poll and the threads that run commands all change that topology, under
one mutex; the threads that select a server wait for its changes.
`hello-mongoac` and the tools share nothing with them.

`PROJECT.json` lists every component, run, mapped definition and hazard.

## Modules

| Module | Models |
|---|---|
| `RequestService` | what `db-queue.cpp` promises: every executed request is reported once, truthfully, before the service closes |
| `DbQueue` | `db-queue.cpp` with the script of `db-requests.hpp`; maps to `RequestService` |
| `DbQueueCounts` | `DbQueue` with the outcome of the drop remembered, for the promise about the counts |
| `DbQueueProofs` | inductive invariant, safety theorems and the refinement of `DbQueue` |
| `ClientPool` | `mongoc_client_pool_t` used by any program that keeps its contract |
| `ClientPoolProofs` | inductive invariant and safety theorems of `ClientPool` |
| `TopologyDescription` | the description and every change of it, with the SRV poll |
| `TopologySwings` | `TopologyDescription` with the elections believed in remembered, for primaries of one release or of both |
| `TopologyDescriptionProofs` | inductive invariants and theorems of `TopologyDescription` and `TopologySwings` |
| `Topology` | application threads and a monitor that share a `TopologyDescription`; extends it |
| `TopologyProofs` | inductive invariant and safety theorems of `Topology` |
| `ServerMonitor` | the life of the monitor threads, of the SRV thread and of server selection |
| `ServerMonitorProofs` | inductive invariant and theorems of `ServerMonitor` |
| `PoolWorkers` | `HELP-59749/main.c` composed with `ClientPool` |
| `PoolWarmup` | `minpoolsize/main.c` composed with `ClientPool` |
| `PoolProgramsProofs` | inductive invariants of `PoolWorkers` and `PoolWarmup`, their refinement of `PoolSpec` and their safety theorems |
| `MiniClient` | `miniclient.py` over a TCP byte stream |
| `MiniClientProofs` | inductive invariant and safety theorems of `MiniClient` |
| `EvergreenVars` | `replace-evergreen-vars.py` against a project others edit |
| `EvergreenVarsProofs` | inductive invariant and theorems of `EvergreenVars` |

Operators named `Mutant...` are broken variants of the definition that follows
them. No specification uses them; they document which mistake each property
would catch.

### DbQueue

A critical section of `mtx` is one action, because nothing inside one blocks or
calls out except `cv.wait_for`, which releases the mutex and is the state
`"waiting"`. Everything outside the mutex is an action of its own, so main's
push and its `notify_one` are separate steps. `notify_one` reaches the worker
only if it waits. `wait_for` may also return after its 10 ms whatever the
predicate says, or wake for no reason. Driving the runtime has three outcomes:
a future is ready, the 10 ms are over (then `err` holds a timeout), or nothing
was pending (`makeProgress`). Futures go through none, running, ready and
destroyed; they resolve only while the worker drives the runtime (`Resolve`,
external). A failed insert may have taken effect. The vectors are sets because
requests stay in script order in all of them.

The model leaves out: operations that fail to start (`error` is not examined
there and what the library returns is not visible in the repository), and
failures of `getDatabase` and `getCollection`. `Client::shutdown` is called by
`db-queue.cpp` but not declared in the `mongoac.hpp` of this commit; it is
modelled from its use, as a call that succeeds or fails.

### ClientPool, PoolWorkers, PoolWarmup

Each pass through the pool's mutex is one action. A thread inside `pop` is
`"trying"` (about to run the code at `again`) or `"waiting"`. `push` compares
the server ids with the last known ones, prunes all pooled clients if they
differ, prunes the incoming client in any case, puts it at the head and signals
one waiter: one action. The signalled waiter runs later, so another thread may
barge in first. The topology and the opening of connections are external.

`PoolWorkers` and `PoolWarmup` extend `ClientPool` and use its operations inside
their own actions. `PoolWorkers` includes the pop and push that
`mongoc_client_pool_destroy` makes to end sessions. A pop that would wait with
nobody left to push shows as a deadlock, which TLC checks in both. In
`PoolWarmup` the names carry a prefix (`WarmupInit`, `WarmupSpec`...) so that one
proof module can extend both programs.

### TopologyDescription

`td` is the published `mongoc_topology_description_t`. The driver changes a
private copy under `tpld_modification_mtx` and then swaps it in, so a change is
one action: `Hello` and `NetworkError` for a reply or an error of any server
that has ever been listed, and the steps of the SRV thread. `Transition` is
`gSDAMTransitionTable`, with an operator per handler; `Stale` and
`RememberElection` are the rules on `electionId` and `setVersion`, before and
since MongoDB 6.0; as in the code, the server that replies decides which applies
(`modern`, its `max_wire_version`). `Suitable` is `mongoc_topology_description_select` by type and
read mode. Replies are any that a server could send, also one of another set, of
a member that reports another address, or of a primary without an election.

`TopologySwings` adds what the question of oscillation needs and the description
does not hold: whether the primaries that reply are before 6.0, since 6.0 or of
both kinds (`rules`), and, unless they are of both kinds, the elections the client
believed in and gave up. With both kinds its behaviours are those of
`TopologyDescription`, so the run of `TopologySwings` checks the properties of both
modules. The client may still alternate between primaries before 6.0 that report no
`electionId`: no rule of the code orders them, and the property says nothing of
them.

The SRV thread checks the type, asserts it again without a lock in between and
applies the DNS answer later, as the code does; a failed `BSON_ASSERT` is the
state `"aborted"`.

Left out: load-balanced mode, tags, staleness, the latency window, session
timeouts, cluster time.

### Topology

A thread selects, fetches its stream or opens one, shakes hands and runs a
command. What it reads before the lock and what it does under the lock are
separate actions (`CheckNetworkError`, `HandleNetworkError`), since
`_mongoc_topology_handle_app_error` looks twice. A connection carries the
generation the code labels it with and, for the properties only, the generation
at the time it was really opened (`born`). The monitor checks, fails to (a refused
or broken connection, a reply with `ok: 0`), is cancelled, and clears the pool and
marks the server unknown in two steps.
The server is external: it changes its role, and it restarts, which breaks the
connections to it. It is never removed from the description, so the generation 0
that the code gives for an unknown server does not occur; that a late error finds
its server gone is in `TopologyDescription`. A handshake that fails counts with
generation 0, as in the code, and `OneClearPerOutage` is about errors after the
handshake only. A cursor may be destroyed by any idle thread. Authentication, compression, retries, sessions, the wire
protocol and single-threaded clients are left out.

### ServerMonitor

`mon` holds a record for each server monitor and each round trip time monitor:
`shared.state`, the two flags of `shared` and where the thread is. A critical
section of a monitor's mutex is one action, and so is what runs under
`tpld_modification_mtx`, which waits only for threads that have left their loop.
A signal reaches a thread only while it sleeps. `Reconcile` is part of every
action that publishes a description for a reply or a handshake, and not of
`SrvScan`, as in the code. `Stop` has the steps of
`_mongoc_topology_background_monitoring_stop`: announce, count under the lock,
signal and then join one by one without it. `RequestShutdown` sets the state and
requests the cancellation in one step, the code in two critical sections of the
monitor's mutex with nothing in between; a monitor that runs between them sees
the state at its next look, as it would after them. What a reply does to the
description is abstracted to which servers are listed and which are known
(`Describe`). A thread that cannot be created is left out, and so are the bytes
of the exchanges and the heartbeat events.

### MiniClient

A byte is a pair of request and position, so the model can tell whose bytes are
received. `recv` is asked for `want` bytes on every turn, as in the code. After
any exception the tests drop the connection (`tearDown`), which is what keeps a
late reply from being read as another's.

### EvergreenVars

Project variables are functions from keys to values. A PATCH sets the variables
it names. One that reports failure may have been applied.

## Runs

| Run | Checks | Bounds |
|---|---|---|
| `DbQueue` | types, `NothingLost`, `HandlesAlive`, `NoLostWakeup`, `DrainedBeforeShutdown`; refinement of `RequestService`, also of its fair form; `Termination` if the server answers | 2 seeding inserts, then insert and count: several operations in flight at once, both kinds, a batch with some ready and some not, one unanswered for ever; one leftover document |
| `DbQueue_counts` | violation: counts are not deterministic, although the drop succeeded and no insert failed | 5 requests, up to one leftover document |
| `ClientPool_safety` | `OneOwner`, `PooledConnectionsKnown`, `NoStrandedClient` | 3 threads, up to 2 clients: two waiters and a barger; 2 server ids: one replaced by the other |
| `PoolWorkers` | `AllReturnedAtDestroy`, `NoMoreClientsThanWorkers`, `KeepsPoolContract`, `Ends` | 3 workers (as in the code) with 2 clients, or with room for 4; timeouts on |
| `PoolWarmup` | `WarmedUp`, `WarmupEnds` | 3 clients, 2 servers and one that appears; limit equal to `num_clients`, the tightest case that works |
| `MiniClient_framing` | `ReplyIsForRequest`, `FramingKept` | 3 requests; replies with a body shorter and one longer than the 4-byte header, cut anywhere |
| `MiniClient_recvall` | violation: `_recvall` returns more than `want` | 1 request |
| `EvergreenVars` | `Replaced`, `EditsElsewhereSurvive`, `NoGuess` | 2 keys, 3 values, 2 replacements (chains, swaps, duplicates), 1 edit |
| `TopologyDescription` | of module `TopologySwings`: `AtMostOnePrimary`, `TypesAgree`, `PrimaryIsNewest`, `OneIdPerAddress`, `SrvSafeWhenSharded`, `PrimarySelectable`, `NeverOscillates`, `RemovedStaysRemoved` | 3 hosts, two of them seeds and one that only DNS knows; replies list both seeds or one, so that a host is removed and comes back under a new id; 3 ids; 2 set names (symmetric), so that one is wrong; 2 elections and none, by old, new and both kinds of primaries; `srvMaxHosts` 2 |
| `TopologyDescription_srv` | violation: the assertions of the SRV thread | those of `TopologyDescription`, 1 election |
| `Topology` | `NoStaleConnection`, `ClearsBounded`, `OneClearPerOutage`, `VersionNeverBack`, `Converges` | 2 threads and a monitor on one server (both counters are per server); 2 changes: a restart and a role change in either order, or two role changes; one refused connection, failed check or killed cursor |
| `ServerMonitor` | `NothingLeftBehind`, `ShutdownIsSeen`, `ScanNotLost`, `StopEnds`, `ListedIsMonitored` | 2 servers, one of which streams, so 3 monitors at once that can retire each other and themselves; 1 selecting thread |

Deadlock is checked in the `DbQueue`, `PoolWorkers`, `PoolWarmup`, `Topology` and
`ServerMonitor` runs, where a state without a step that is not the end is a hang. `ClientPool` on its own
may stop after it was destroyed, and with threads that all wait because their
program never pushes; `MiniClient` stops when its requests are used up;
`EvergreenVars` stops when the tool ends; `TopologyDescription` stops when the process
was aborted.

### What the violations show

* `db-queue.cpp:60` promises deterministic counts. Inserts and counts run
  concurrently, so a count may miss an insert that precedes it in the script or
  see one that follows it, even when the drop succeeded and no insert fails.
* `miniclient.py:106` promises exactly `want` bytes. After a short read the loop
  asks for `want` bytes again, so a header that arrives in two segments can
  swallow bytes of the body. `struct.unpack` or `bson.decode` then raises, which
  is why `ReplyIsForRequest` still holds.
* `mongoc-topology.c:827` leaves it to the caller to ensure the precondition that
  line 845 asserts. `srv_polling_run` looks, but holds no lock until the
  assertion, so a reply applied in between ends the process. While the
  deployment stays unknown or sharded the assertions hold
  (`SrvSafeWhenSharded`).

### Observations without a violation

Some behaviour that a reader of the code might not expect is in the models and
the properties are stated so as to allow it:

* a member that reports another address is removed without `_update_rs_type`;
  `TypesAgree` and `PrimarySelectable` show that this does no harm;
* a DNS answer that is under way when the deployment turns out to be a single
  server still adds its hosts (the exception in `TypesAgree`);
* `mongoc-topology-description.c:1658` says that the rule on elections prevents
  the client from oscillating between an old and a new primary. It does if all
  primaries follow one rule (`NeverOscillates`). In a set that is being upgraded,
  a server before 6.0 with the higher `setVersion` and one since 6.0 with the
  higher `electionId` each look newer than the other by their own rule, and the
  client follows whoever replied last: three replies suffice to bring it back to
  the one it gave up;
* `mongoc-cluster.c:2081` says, in a TODO, that only a network error during the
  handshake should mark the server unknown and clear the pool. A `killCursors`
  for which the client has no usable connection does so too (`StreamFailed` after
  `KillCursor`): after a command that timed out, destroying a cursor makes a
  healthy primary unknown to every thread. `ClearsBounded` bounds the damage to one
  clear for each such cursor;
* `mongoc-topology.c:775` says that newly found servers will start getting
  monitored. The SRV poll leaves this to the next thread that reconciles. When
  the last monitor has been retired there is none, and the servers that the poll
  finds stay unknown. `ListedIsMonitored` has this one exception: while a monitor
  is left they do get monitored.

## Fairness

* `DbQueue`: weak fairness of main and of the worker, because the operating
  system schedules both and the calls return: `blockOnAnyWithTimeout` has a
  timeout. The timeout of `cv.wait_for` and spurious wakeups get no fairness:
  the notifications alone must suffice. `Termination` adds strong fairness of
  each `Resolve` as its premise: an operation that is driven again and again is
  answered. The fair `RequestService` is implemented without it.
* `PoolWorkers`: weak fairness of main and of each worker. Commands return,
  well or badly, and ten seconds pass. Neither the timeout of pop nor a
  spurious wakeup is fair, and no waiter is preferred over a barging thread, so
  nothing is claimed about a particular waiter.
* `PoolWarmup`: weak fairness of the thread that warms the pool; the topology may
  do anything.
* `Topology`: weak fairness of each application thread and of the monitor, whose
  waits all have timeouts. Nothing that the server does is fair.
* `ServerMonitor`: weak fairness of each monitor thread, of the SRV thread and of
  the thread that stops the pool, for the steps that need no timer. Sleeps
  and awaited replies are not fair: signals have to end them. Only
  `ListedIsMonitored` has the premise that sleeps end (`SleepsEnd`).

  In these two modules weak fairness is written as infinitely often "not able
  to move" or "has moved", with variables that no other thread changes for ever;
  TLC evaluates this form much faster than `WF_vars` of a large action.

## Proofs

Every safety property of the passing runs is a theorem. The only assumptions are those on the constants:
`StreamAssumption` (natural numbers, `Seeded <= NumValues`), `PoolAssumption`
(finitely many threads, initial sizes between 1 and `MaxPoolSize`,
`Seeds <= MaxServers`), `WorkersAssumption` (the threads are the workers and
main), `WarmupAssumption` (the thread that warms the pool is one of the threads,
and `num_clients` does not exceed `maxPoolSize`; only `WarmupEnds` needs the
latter), `DescriptionAssumption` (finitely many hosts, some of them seeds; `None`
is neither a host nor a name), `TopologyAssumption` (one server,
finitely many threads; `None` is no process id),
`MonitorAssumption` (at least one server id), `MiniAssumption` (the size field
and bodies are not empty) and `EvergreenAssumption` (finitely many variables).

`DbQueueProofs` proves, for every script length:

* `TypeCorrect`, `Conservation` (`NothingLost` and `NothingTwice`),
  `DriveIsSafe` (`HandlesAlive`), `WakeupsArrive` (`NoLostWakeup`),
  `CleanShutdown` (`DrainedBeforeShutdown`);
* `Refinement`: `DbQueue` implements `RequestService`.

They follow from one inductive invariant `IInv`. The properties are not
inductive alone: that a moved future is not destroyed while its handle is in
use needs to know which program points of the worker may hold `pending` and
`completed`; a clean shutdown needs that main reaches the join only after the
whole script, and that the worker exits only with an empty vector after the
shutdown flag is set. `IInv` adds these as `Control` (how the two program
counters, the flag and the locals relate), `Futures` (the state of each future
follows from where its request is) and `Reports` (what is printed agrees with
the outcome). The step lemmas go action by action. The refinement uses `IInv`
to show that each step maps to one step of the service or to a stutter.

`ClientPoolProofs` proves, for any number of threads, clients and servers,
`ExclusiveOwnership` (`OneOwner`), `PruningWorks` (`PooledConnectionsKnown`) and
`NobodySleepsBesideClient` (`NoStrandedClient`), from the invariant that joins
the first two with the types. Pruning needs ownership: connections are opened
only on held clients, and a held client is not pooled. The third is inductive by
itself: a push adds one client and, if anybody sleeps, one woken thread; a
thread that stops trying either takes a client with it or saw an empty queue.
The lemmas count threads with the theorems on finite sets, hence the assumption
that there are finitely many.

`PoolProgramsProofs` proves of `PoolWorkers`, for any number of workers, any `maxPoolSize` and any
topology, `ContractKept` (the program implements `PoolSpec`, so it inherits the
theorems of the pool: `WorkersSharePool`), `ClientPerWorker`
(`NoMoreClientsThanWorkers`) and `AllReturned` (`AllReturnedAtDestroy`). The
invariant ties the program counters to the pool: a worker is inside `pop`, or
holds exactly its client, or has nothing (`WorkerOK`); main uses the pool only
to end sessions (`MainOK`); workers are born and joined in order (`Phases`).
That is what makes every push legal and the pool unused when it is destroyed.
It holds until a failed command aborts the process. A client is created only
when the queue is empty; then each client is with a different worker and none is
with the one that asks, so there are fewer clients than workers.

Of `PoolWarmup` it proves, for any `num_clients`, any `maxPoolSize` and any changes
of the topology, `WarmupContractKept` (the program implements `PoolSpec` on every
path through its gotos) and `WarmupWorks` (`WarmedUp`). The invariant says what
the thread holds at each place (`WarmupHolds`: one client during the discovery,
then exactly `clients[]`, which has no repeats) and which of `clients[]` are
connected to which servers (`WarmupReach`). The push of a client may prune the
others that are pooled already. That it takes no connection `WarmedUp` asks for
needs `WarmupKnown`: ids are not used twice, so a server that was found and is
still there was there at the last push, too. `clients[]` is then an injection
into the warm clients of the pool. `WorkersAssumption` and `WarmupAssumption` are
both in force in this module, but each proof uses only its own, and neither
restricts the other: `NumClients = 0` and `NumWorkers = 0` are allowed.

`TopologyDescriptionProofs` proves, for any hosts, names, elections and bounds,
`OnePrimaryAlways`, `TypesAlwaysAgree`, `PrimaryAlwaysNewest`,
`AlwaysOneIdPerAddress`, `PrimaryAlwaysSelectable` and the action property
`IdsNeverReused`. The invariant `Inv` joins the types of
the description, `IdsOK` (ids are at most `max_server_id` and hosts are listed
once) and `Good` (the types agree, and in a replica set there is one primary at
most, of the newest election). `From(d, e)` says that `e` has the servers of `d`,
some of them gone or reset, and new unknown ones. It is transitive, each
helper is shown to keep it, and a handler, which is a chain of helpers, keeps it
therefore. There is one lemma per handler of the transition table.
The prover has no induction over data here; that a finite set of hosts can be
listed comes from the theorems on finite sets.

`NeverBackToOldPrimary` (`NeverOscillates`) is proved of `TopologySwings` for any
number of hosts. `SwingInv` says that, if all primaries follow one rule, the
election last believed in is at most the newest seen in the order of that rule
(setVersion first, or electionId first) and those given up are strictly older
(`Ordered`). A step never takes the newest election back in that order
(`Forward`, shown for each handler), and an election that is believed anew is the
newest. In a mixed set the two orders disagree and `Ordered` is lost.

`SrvNeverAbortsSharded` (`SrvSafeWhenSharded`) is proved there for every
`srvMaxHosts`. It needs that the limit holds while the poll runs on an unknown
or sharded deployment (`SrvInv`). Replies and errors keep that: no handler that
leaves the type unknown or sharded adds a server, and the type never returns to
one of these (`NothingAdded`). A DNS answer keeps it by counting: what is kept
has different addresses, all of them in the answer, and what is drawn fills the
room that is left.

`TopologyProofs` proves, for any number of threads, restarts and faults,
`NeverStale` (`NoStaleConnection`) and the action properties `OneClear`
(`OneClearPerOutage`) and `VersionsForward` (`VersionNeverBack`). The invariant
keeps the label of a connection at most the generation it was really opened
under (`born`), that at most the current one, and the generation a thread has
seen at most `born` from the handshake to the command. A label may lag behind,
because it is read from a snapshot; it never runs ahead, and that is the side
the test in `_cluster_fetch_stream_pooled` depends on.

`ClearsPaid` (`ClearsBounded`) is proved there as well. The bound is not inductive:
a clear is paid for when the server restarts or changes, and happens much later.
The invariant `Charged` counts the clears that are still to come: generation,
plus the threads that are bound to clear the pool whatever the others do
(`Committed`: they have no stream, or lose it in the handshake), plus the
monitor's, is within the bound. The threads that may clear for an error of an
established connection count as one (`Ready`): whoever clears first makes the
connections of all others unusable, and an error on such a connection is
ignored. So no sum over the threads is needed. A late reply of an old process,
which makes the same version look new again, is paid by the restart its
connection has not used, which is why a handshake on a lost connection counts
among the committed. `Control` adds what the place of a thread says of its
connection and its reply.

`MiniClientProofs` proves, for any number of requests, reply lengths and
segmentation, `OwnReply` (`ReplyIsForRequest`), `FramingHolds` (`FramingKept`)
and `BodyExact`: `_recvall` can return too much for the size field only, never
for the body. The properties say nothing of the bytes on their way, so they
are not inductive. The invariant is about the whole stream: what `_recvall`
holds, the socket's buffer and the wire are together exactly what is left of the
reply to the request in progress. Receiving and delivering move bytes inside
it; the answers come in order, so only the request in progress can add to it.

`EvergreenVarsProofs` proves, for any finite set of variables, any file and any
edits, `FileCarriedOut` (`Replaced`), `EditsKept` (`EditsElsewhereSurvive`) and
the action property `NeverGuesses` (`NoGuess`). The invariant says that each
entry handled so far had one match, that the payload holds what these entries
give, and that the project is what GET read, overwritten by the edits, with the
payload somewhere among them once the PATCH was sent.

`ServerMonitorProofs` proves, for any number of servers and of selecting threads,
`StopLeavesNothing`, `ShutdownAlwaysSeen` and `ScanNeverLost`. The invariant has
four parts: `MonitorsSound` (the state of a monitor tells where its thread is,
and one that is shutting down is awake or has its cancellation pending),
`ThreadsSound` (types), `StopSound` (what each phase of stop implies: once it has
counted, no monitor appears or is freed behind its back, because `scanner_state`
is no longer running; when it joins, it holds all that exist) and `ScanSound`
(while a thread waits, each running server monitor is alert, which includes
those that have decided to sleep and do not sleep yet, and those that await a
reply or are about to, which still have the request pending). A check that is
cancelled publishes nothing and wakes nobody, so the sleep after it must find the
request: it does, because a monitor awaits a reply only after an update that woke
every waiting thread. `Rested` (a monitor that sleeps does not await the next reply
at once) rules out another way. `ScanNotLost` is not inductive without these, `NothingLeftBehind` not without the phases.

Only model-checked:

* the liveness properties (`ImplementsFairService`, `Termination`, `Ends`,
  `WarmupEnds`, `Converges`, `StopEnds`, `ListedIsMonitored`), which are out of the
  prover's reach.

The inductive invariants of `PoolWorkers`, `PoolWarmup` and `MiniClient`, `SrvInv`
and `Charged` were checked with TLC before they were proved: the first ones on the
instances of the runs, `PoolWarmup`'s with a second, idle thread, `Charged` with two
threads, two restarts and three changes, and with one thread, a fault and four
changes.

## Plan

1. Done: `DbQueue` with its abstract specification, `ClientPool`, `PoolWorkers`,
   `MiniClient`, `EvergreenVars`, `TopologyDescription`, `Topology`,
   `ServerMonitor` and `PoolWarmup`, all with proofs of their safety properties.
2. Further pool programs: `HELP-69502`, `CXX2086` (threads and a reporter that
   resets counters), `cdriver4002` and `long_runner` (clients kept on error
   paths), `mismatched_reply` (a cancelled thread leaves a reply behind).
3. The DNS server and its clients (`DRIVERS-2757`): dropped and late datagrams.
4. Pure algorithms against reference definitions: the visit of
   `print-invalid-arrays.c`, the growth of `mongoc_array_t`, `hex.h`.

## Not modelled

Nearly all lines of the repository belong to the vendored driver and the
libraries it bundles: BSON, URI parsing, CRUD helpers, client-side encryption,
TLS, utf8proc (tables), zlib and kms-message. They are sequential code of third
parties, most of it parsing, encoding and data, and no program here depends on
their internals. Modelled are the parts of the driver that share state between
threads. The map therefore covers a small share of all lines, although it covers
most of the repository's own stateful code.

Also left out: the one-time setters of the pool; the wire protocol,
authentication, compression, sessions and retries of `mongoc-cluster.c`;
load-balanced mode and single-threaded clients; the bytes of OP_MSG and the size
limits the miniclient tests probe, which are the server's; reading the YAML file
of `replace-evergreen-vars`; the sequential investigation programs.
