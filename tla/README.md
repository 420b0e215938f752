# Formal models of the distributed file system

TLA+ models of the file system in this repository: a Java name server, Java
nodes on a ring, the agents that travel or poll on that ring, and a browser
dashboard. The modules are checked by TLC on small instances and some of them
are proved about with TLAPS for every instance. Paths below are relative to
`src/src/main/java/` unless they start with `src/`.

    RingOrder ──┬── AtomicRing                  one membership change at a time
      (pure)    ├── Ring                        the packets, pings and crashes
                ├── NameServer ── NameServerDirectory ── NameServerMC
                │                     │ implements
                ├── Directory ◄───────┘         the name server's promise
                ├── SyncAgent ── SyncAgentMC      file list and file locks
                ├── Replication ── ReplicationMC  files, transfers, failure agent
                └── Cluster                     the system as a browser sees it
                      ├── Monitor ── MonitorMC    the network monitor and its tab
                      │     └── FileTable, NodeHash (pure)
                      └── NetworkMonitor          its first, single page

    theorems:  RingOrderProofs ── AtomicRingProofs, RingProofs, NameServerProofs,
               ReplicationProofs, SyncAgentProofs, MonitorProofs, NetworkMonitorProofs

## 1. Inventory

### Components and their state

| Component | Source | State | Operations |
|---|---|---|---|
| Name server map | `NameServer/NameServer.java` | `ipMapping` (TreeMap id → ip), `nameServerMap.json`, `ipMapLock` (ReentrantReadWriteLock) | `addNode`, `updateNode`, `deleteNode`, `getNextNode`, `getPrevNode`, `nodeToJson`, `saveMapping`, `loadMapping`, `launchFailureAgent` |
| REST controller | `NameServer/NameServerController.java` | none of its own; one thread per request | get/put/post/delete node, `failNode`, `getFile`, status |
| DiscoveryHandler | same file, inner class | one thread, a UDP socket | register a node, offer or deny, post `/files` to its previous node, fail that node |
| Node | `Node/Node.java`, `startupNode/startup.java` | id, `nextNodeId`/`prevNodeId` and addresses, `setUpComplete` | `discoverNameServer`, `shutdown`, `failureHandler`, restarts |
| N2NListener | `Node/N2NListener.java` | writes the node's pointers and the ping counters | handlers for Discovery, Shutdown, Failure, Ping, PingAck, PingNack |
| PingNode | `Node/PingNode.java` | two counters of unanswered pings | ping both neighbours every 5 s, report one after 4 |
| Sync agent | `Agents/SyncAgent.java` | file list, table of locked files, a write lock and the object's monitor | poll and merge, `lockFile`, `unlockFile`, multicast listener, `addLocalFile`, `deleteLocalFile`, GET/DELETE handlers |
| File manager | `Node/FileManager.java` | local, replica and log folders | replicate, `update`, `shutDown`, directory watcher |
| File transfer | `Node/FileTransfer.java` | sockets, half-written files | send, receive, delete |
| Failure agent | `Agents/FailureAgent.java` | the failed id, the id it started at, a copy of the map | go once round the ring and replicate again |
| Node REST API | `Node/NodeAPI.java` | thread of the running agent | `POST /files`, `POST /agent`, queries |
| Network monitor, data | `src/src/main/NetworkMonitor/scripts/GetData.js` | the last mapping, the last answer of each node and its age, a flag for new data, a copy of these in the tab's `sessionStorage`, two counters of pending requests | poll the name server and the nodes, store, save, load |
| Network monitor, pages | `RefreshDashboard.js`, `RefreshNodeTable.js`, `RefreshFileManager.js`, `DrawNetwork.js` | the selected node, the sorting, the places on the map, what is on the screen | draw, select, sort, refresh, terminate or shut down a node, open another page |
| Network monitor, first page | `NetworkMonitor.js` | the rows of a table, from which it also reads whom to ask | two timers that write the same rows, a click |
| Network monitor, hash | `utils.js` | none | the 15-bit hash of a file name |
| Utilities | `Utils/` | none | hash, address lookup, printing |
| API documentation | `src/JavaDocs/` | none | generated HTML with jQuery; not part of the system |

### How they interact

* Node → everybody, UDP broadcast: *Discovery*. Name server → node, UDP: the
  *offer* (id and address of both neighbours) or a denial.
* Node → neighbours, UDP: *Shutdown*, *Ping*, *PingAck*, *PingNack*; name server →
  nodes, UDP: *Failure*.
* Node → name server, REST: deregister, report a failure, own configuration,
  owner of a file. Name server → node, REST, **while a read lock is held**:
  `POST /files` and `POST /agent`; both make the node ask the name server again.
* Sync agent → next agent, HTTP: the list (GET), a deletion (DELETE). Sync agent
  → everybody, multicast: lock and unlock.
* Browser → name server and nodes, REST: queries every few seconds, of which many
  may be pending; one tab, whose pages follow one another and hand their data on in
  `sessionStorage`; JavaScript runs one callback at a time.
* Within a node, shared memory: pointers and counters are written by the
  listener and the ping thread without synchronisation; the sync agent's state is
  shared by four threads.

### What is hard, and what makes each component correct

| Component | Hard | Correct when |
|---|---|---|
| Name server map | nested locks, a reader that makes five lookups, a file rewritten in place | readers see one map; every operation is atomic to its caller; a restart finds the map; nobody keeps a lock |
| DiscoveryHandler | two requests with an unlocked gap, a remote call under the lock | the offer is the new node's place in the ring; only dead nodes are failed; the thread gets back to its socket |
| Node and listener | packets in any order, lost, to processes that are not yet (or no longer) there | when all is quiet every pointer leads to the neighbour; after the last change the ring repairs itself |
| PingNode | counters that belong to pointers and not to nodes | crashes are detected; nodes that are up are not reported; one that was reported learns it |
| Sync agent | polls, multicasts and deletions overtake each other; two locks | a lock is exclusive; the tables agree and are true; a deleted file stays deleted; calls return |
| File manager, transfer | five places decide where a replica belongs; transfers nobody waits for; an owner that changes | when all is quiet every file has one replica, at the right node; no replica is lost on its way |
| Failure agent | a ring that changes under way | it goes round once, and ends |
| Network monitor | rounds of requests that overlap, answers in any order and after the node has left, another page opened between two callbacks, drawing that ends in an exception | data of exactly the nodes in the last mapping; pending requests are counted and limited; the screen shows the data unless a redraw is announced; when all is quiet it shows the ring |

`PROJECT.json` lists every hazard at its line with the properties that would
catch it.

## 2. Modules and the code

**`RingOrder`** – pure. `GetNextNode`, `GetPrevNode` are the TreeMap lookups
(`higherKey` or else `firstKey`; −1 for an empty map). `DiscoveryMoves` is the case
analysis of `discoveryHandler`: which of its two pointers a node moves when a new
node broadcasts. `IsNext`, `IsPrev` are the reference: no member lies strictly
between, going round. Hashes of names are distinct ids in `0 .. MaxId`.

**`AtomicRing`** – the abstract ring. `Join`, `Leave`, `Fail` carry one membership
change out at all nodes at once. It says what the handlers establish together
when nothing interferes.

**`Ring`** – the same ring with its packets. `msgs` is the set of datagrams in
flight, `reg` the name server's map, `next`/`prev` the pointers,
`nextUn`/`prevUn` the counters, `pinger` the point in `PingNode.run` between the
two checks, `nsTask` the new node whose previous node DiscoveryHandler is still
to tell. One action per handler: `Start`, `Resend` (discoverNameServer and its
retry), `Register`, `TellPrevious` (DiscoveryHandler), `RecvOffer`, `RecvDenied`,
`Leave`, `SendShutdown` (shutdown: deregister, then the two packets), `Crash`,
`RecvDiscovery`, `RecvShutdown`, `RecvFailure`, `RecvPing`, `RecvPingAck`,
`RecvPingNack`, `SendPings`, `CheckNext`, `CheckPrev`, `Ignore` (a packet for a
process that is not set up), `Lose`. The name server is atomic here. The lost
update between an increment and a reset of a counter has the effect of losing
the packet that caused the reset, and is covered by `Lose`.

**`NameServer`** – the name server alone, with its threads. `pc[t]` is a thread's
label: a `lock()` call, or code between two points at which others can see or
disturb something. `wholds`, `rholds`, `queue` are the ReentrantReadWriteLock:
reentrant holds, barging, a reader that parks behind a waiting writer. Every
handler is followed with its own `lock()` and `unlock()` calls, the wrong ones
included. A change of the map, the truncation of its file and the end of the writing are
three instants (`Change`, `Truncate`, `Save`): `torn` says that the file has been truncated
and not rewritten; `Restart` reads it back. `RemoteAsks`, `RemoteDone` are the node that gets
`POST /files`: external to the module, it asks for owners or does not.

**`Directory`**, **`NameServerDirectory`** – the promise of the name server: a map
on which every operation takes effect at one instant. A crash forgets the operations
under way; it leaves the directory alone unless a change was being saved, when it leaves the
directory last saved (`saved`: the file was not truncated yet) or an empty one.
`NameServerDirectory` gives the refinement mapping: the map is the map, `saved` is the
file as last written, an operation is under way until `res` is set, a change is unsaved at
label `save`.

**`SyncAgent`** – the agents on a ring that only grows. `files`, `owner` are
each agent's list and table (`fileLocks` and `lockOwner` as one). `Folders` says what may
be in a node's folder when it starts, which may be nothing. `leak` names the
thread that returned with the write lock: `makeLocalList` does so when the folder is empty,
`deleteLocalFile` when the file is not listed. `call` is a user inside the monitor,
`deleting` the file manager inside the write lock and waiting for the monitor; the file
manager does not ask whether a user is there, so the two can wait for each other. `Jammed`
names the nodes whose write lock is never given back, for either reason. `poll` holds what
`getNeighbourList` has got so far: the next node's handler reads the file list
without a lock (`Poll`), the table under the read lock (`Answer`), and the agent
merges them later (`Merge`). `chan` are the multicast packets, in order per sender
and receiver; `deletes` the DELETE requests on their way. `held`, `removed` are
history: what users were granted, what was deleted.

**`Replication`** – where the files are. `local`, `replica`, `log` are the three
folders (a log is the origin it names), `wire` the transfers and deletions under
way, each carried out by a thread of its own. `job` is what a node does in the
file manager's monitor: `StartupCount`, `StartupFile` (startup), `UpdateBegin`, `UpdateAsk`,
`UpdateMove` (update, with its two questions to the name server apart), `ShutBegin`,
`ShutMove`, `Exit` (shutdown, which waits for the monitor). `wants` are calls of update
that wait for it: the post to the new node's previous node, and the thread of each
other node's `discoveryHandler`, which may run before the registration. The watcher
(`Watch`, one event: `Created`, `Modified`, `Deleted`) and the failure agents (`Report`,
`AgentVisit`) run beside the monitor. `ReportAgain` is the report of the other neighbour: the
node is not registered any more, and a second agent is sent out. `AgentVisit` is one step; its
decisions use the map of the launch, its transfers the name server's answers of the moment.
The watcher, the agent and `shutDown` also call the sync agent, which waits for its
write lock: `writer` is the thread that keeps it for good (`makeLocalList` at a node without
local files, `deleteLocalFile` of a file that is not in `listed`, or whose DELETE throws),
`waiting` the watchers and agents that wait for it, for ever, and `ShutHangs` the shutdown
that does. The ring's pointers are those
of the map (module `Ring`), except that a node that leaves keeps the previous
pointer it had.

**`Cluster`** – the system as a browser sees it: `registered` (the name server's map),
`up` (the nodes whose API answers), `nsUp`. Nodes register, are set up, crash, are
reported; the name server goes away and comes back. The pages' modules extend it.

**`Monitor`** – the four pages. `nameServerData`, `nodeData`, `nodeLastPing`,
`newDataAvailable` are the globals of `GetData.js`, `sessionStorage` what `saveData`
writes. A round of requests to the nodes (`rounds[k]`: who has not answered, and the
answers) is one `Promise.all`; `nodeRequest` and `nameserverRequests` are the code's
counters and are kept apart from what they count. One action per callback: `Interval`
(`updateData` on its timer, with `UpdateNS`, `UpdateNodes` and `getNodeData`),
`ScreenRefresh` (the timer of 1000 ms), `NameServerAnswers` (the moment the map is
read), `MappingArrives`, `NoMappingArrives`, `NodeAnswers`, and the user's
`ClickRefresh`, `SelectNode`, `SortBy`, `TerminateNode`, `ShutdownNode`, `OpenPage`.
`loaded` says that the page's script has run to its end: an exception of the first drawing,
at line 46, aborts it before `getNodeData` and `getNameserverData` are defined, after which
`updateData` asks nobody (`TimePasses`) and only the other callbacks go on.
`Screen` is what each page draws of given data, down to the exception in which drawing
can end, and `FlagAfter` when the flag goes down: the file manager takes it down
after drawing, the others before.

**`FileTable`** – pure. The rows of the file manager (`updateFileTable`: last local copy,
last replica, `islocked`, `lockOwner`) and `SortTable`, the exchange sort on the rows.
`Sorted`, `TableIsTrue` are the references. **`NodeHash`** – pure. `utils.js`'s MD5 on words of two
16-bit halves, its `BytesToShort`, and `Hash`, what `Hashing.java` makes of Java's digest.

**`NetworkMonitor`** – the first page. `nodesTable` are the rows, each with the
index its click handler was given; the name server's timer rewrites them
(`UpdatedTable`), the nodes' timer reads ids from them, awaits the answers and writes
into the rows with the same *index* (`Finish`). Requests are not limited.

**`NameServerMC`**, **`SyncAgentMC`**, **`ReplicationMC`**, **`MonitorMC`** – definitions
for the TLC instances only. `MonitorMC` also has the checks of the pure operators, as
assumptions that TLC evaluates: digests of RFC 1321 and the lengths where padding needs
another block; both hash functions on 15625 digests; `SortTable` against `Sorted` for
up to four rows, all columns and both directions; the file table for all reports of two nodes.

In every module an operator under a comment "Bug in …" is a mutated form of the
definition below it. No action uses it; it is there to show that the property it
belongs to can fail.

### Abstractions

* Ids stand for addresses in `Ring` and `SyncAgent`: both are set together.
* `Replication`: a file's content is whole, cut short by a crash, or of before a
  change. A file that is being received is not there yet, so it is not moved on
  half-written. Names are unique across nodes. Of a log only the origin counts: no
  code reads its owner or its downloads. A new process finds empty folders, as
  `launch.sh` leaves them; a node that is shut down by REST and keeps its process
  for the dashboard is taken to be gone. An empty address (`getNodeIp` of nobody)
  is the node itself, as for a Java socket. Of the sync agent there are its write lock and
  what it surely lists of a node's own files (`listed`; a file that is not in it may be listed
  or not, since other agents' lists are merged at any time). A DELETE goes round at once. That
  a user's call keeps `deleteLocalFile` waiting is left to `SyncAgent`.
* An ArrayList that two threads change at once is taken to be atomic
  (`SyncAgent`): an exception in an HTTP handler is a poll that is repeated.
* `Monitor`: time is counted in polling intervals and the age of an answer stops at
  `Limit`, from where on the node is shown offline. A name server's answer is the map
  at one instant, a node's the ring at one instant (module `Ring` says how far that is
  true). What a node reports of its files does not change. Requests of a page that is
  left are aborted by the browser, and one page is open at a time; a second tab has its
  own `sessionStorage`. Positions, colours, the legend and the animation are left out.
* `unlockFile` is called by a holder only, `deleteLocalFile` for a local file.
* Distinct names have distinct hashes; a collision is refused at registration
  as a node that exists already.

## 3. Runs

| Run | Module | Question | Result |
|---|---|---|---|
| `atomic_ring` | AtomicRing | every change in every ring of up to 7 nodes keeps all pointers right | holds |
| `ring_serial` | Ring | the same with packets in any order and lost pings, changes one at a time; no live node is reported | holds |
| `ring_heal` | Ring | after a crash, joins and leaves the ring repairs itself, the crash is detected, nobody stays outside | holds |
| `ring_joins` | Ring | three nodes joining at the same moment with a lost broadcast end in one ring | holds |
| `ns_all` | NameServerMC | consistent readers, offers, status and file; NameServer implements Directory | holds |
| `ns_live` | NameServerMC | every request is answered, idle threads hold no lock | holds for the handlers that unlock what they lock |
| `ns_stall` | NameServerMC | DiscoveryHandler fails only dead nodes | **violated** |
| `sync_serial` | SyncAgentMC | one lock or unlock at a time, with polls overlapping it: locks are exclusive, holders known to all, lists equal, deletions stick; only at a node whose write lock is never given back do calls and GETs wait for ever | holds |
| `sync_race` | SyncAgentMC | locks and unlocks at any time, one packet lost: the tables agree in the end | holds |
| `repl_serial` | ReplicationMC | after each change every file has one up-to-date replica with its log at the right node, and nothing else is kept; no replica is lost on the way; the agent goes round once; everything comes to rest, but for the threads that wait for a write lock the sync agent never gives back | holds |
| `monitor` | MonitorMC | data of exactly the nodes of the last mapping, also on the next page; counters that count; a screen that shows the data; every page whose first drawing succeeded comes to show the ring when the cluster is quiet | holds |
| `old_page` | NetworkMonitor | the rows stay a table of one mapping with the right handlers although two timers write them; they come to show the ring | holds |

### Bounds, and why they are enough

* `AtomicRing`: ids {0,1,3,4,6,8,9} with `MaxId` 9. Every case of
  `discoveryHandler` depends only on how three ids compare, on rings of one, two or
  more nodes; gaps and the smallest and largest id are included.
* `ring_serial`: four nodes (two neighbours that differ, and one that is
  neither), 5 starts (so that a node comes back), 3 leaves, 2 lost pings or
  answers against the code's limit of 3. `ring_heal`, `ring_joins`: three nodes,
  because liveness is checked on the whole graph; 4 starts, 1 leave, 1 crash, 1
  loss and 3 starts, 1 loss. Three nodes are where a neighbour of a neighbour is
  first someone else.
* `Calm` keeps a kind of change until the ring is quiet; `Prompt` says that
  packets are delivered within the ping period (5 s); `Losable` names the
  packets that may be lost. Each run states the three it uses.
* `NameServer`: three ids of which two are registered, two web threads and the
  discovery thread, three requests, one crash: a reader, a writer and the
  discovery thread at once, with one request left for what happens after them.
  Web threads are symmetric. `CHECK_DEADLOCK FALSE` because the system stops when
  its requests are used up, or when a handler has kept the lock.
* `SyncAgent`: three agents, so that the list of one reaches another only through
  a third; two of them have a file of the same name. `sync_serial` has three calls
  out of lock, unlock, add and delete (a lock, its unlock and whatever meets them); an
  agent may start at any settled moment, the first one with an empty folder; one file may be
  deleted before it is listed. `Overlap` says which calls' packets a poll may overlap:
  those of locks and unlocks in `sync_serial`, all in `sync_race`. `CHECK_DEADLOCK FALSE`
  because agents whose write locks are never given back wait for ever.
* `Replication`: four nodes, so that the owner, the node before it and the origin
  can all differ; hashes so that a file belongs to another node, to its origin, and
  to its origin across the wrap; 5 starts (a node comes back), 2 leaves, 2 crashes, 1
  second report, 2 edits. Node 7 has no local files, so its sync agent keeps the write lock
  from its start. `repl_serial` has every kind of change in `Calm`, and `Prompt`:
  registrations are made and transfers have arrived before anybody looks. Within a
  change startup, updates, transfers, shutdown and agents of all nodes interleave.
  `CHECK_DEADLOCK FALSE`: when the changes are used up, everything stops.

* `Monitor`, `NetworkMonitor`: two nodes, ids 1 and 2. `MaxEvents` = 3 bounds, together, changes of
  the cluster, intervals that end before the requests of the one before, and the
  user's clicks; intervals in time are not bounded. So a node that leaves, one that comes
  and an answer late enough to fall between them are in, as are an outage with two
  late intervals. In `monitor` `Calls` has one round more than `MaxEvents`, so that polling is
  never held up by the bound; in `old_page` it has as many, and a fourth round waits until one
  has ended. `Limit` = 2 intervals, which is what `nodeOnline` makes of
  the slowest rate. Two files, one local at each node and each a replica of the
  other's, one locked.

### Fairness

* `Ring`: listeners read their sockets, the discovery thread goes on, a process
  that began to join or leave carries on: weak fairness. `SendPings` has strong
  fairness: it is a timer, and `Prompt` disables it while packets are in flight.
  Starting, leaving, crashing and losing have none.
* `NameServer`: weak fairness of every handler step and of the remote node's
  answer; a thread in `ipMapLock` is woken in the order of the queue. Requests
  and crashes have none.
* `SyncAgent`: weak fairness of each agent's polling loop, and of each node's
  other threads together (one that can act does). Users have none.
* `Replication`: weak fairness of each node's job and watcher, of transfers, of the
  report of a crash (`ring_heal` shows that pings make it) and of agents. Changes
  have none.
* `Monitor`, `NetworkMonitor`: weak fairness of the timers, and of the end of requests: a
  browser ends every fetch, with an answer or an error. For the nodes' requests it is
  per node, since a round waits for each of them. The cluster and the user have none.

### What the runs found

* **`ns_stall`** – `NameServerController.java:468-484`. DiscoveryHandler posts
  `/files` under the read lock; the receiving node asks the name server for
  owners; those lookups park behind any waiting writer, which waits for the read
  lock. The post times out and the healthy previous node is deleted.

Some further claims are stated in the modules, or follow from changing a constant,
and TLC refutes them; no run is kept for them:

* `OnlyFailedAreReported` with a crash (`Ring`; `Node` {0, 3, 5}, `MaxId` 9, `Calm`
  {"start", "leave", "crash"}, `Prompt` TRUE, `Losable` {}, 3 starts, 1 crash): the
  counters belong to the pointers (`PingNode.java:81`). A node that joins next to the
  pinger of a crashed node inherits its unanswered pings and is reported at its
  first one.
* `DeletionSticks` with `Calm` and `Overlap` empty (`SyncAgentMC`; `Additions` and
  `Lockable` <- `Nothing`, one call): the list travels from a node to its previous
  one, the DELETE the other way, and it stops at a node that does not list the file
  (`SyncAgent.java:142`). A file deleted before its name has gone round comes back
  everywhere.
* `PostReleasesLock` with `PostRequests`: `postNode` takes the write lock and
  releases it only when the node exists already (`NameServerController.java:226-236`);
  after one successful POST every other request waits for ever.
* `PutUnlocksItsOwnLock` with `PutRequests`: `putNode` unlocks twice when the node
  is new (line 191), so the call throws after it has registered the node.
* `NotFoundReleasesLock` with `RaceRequests`: a node deleted between its
  registration and the offer ends the discovery thread with a read hold left.
* `FailsContactedNode` with `ReportRequests`: the previous node is looked up again
  after the lock was released, and another node is failed than did not answer.
* `CrashIsDetected` with `Calm = {"leave", "crash"}`: of two nodes that join at
  once one drops the other's broadcast; a crash is then noticed by nobody. With
  `"Offer" \in Losable`: the entry of a node that was refused on its second
  broadcast can outlive every node that could notice.
* `RingHeals` with `"ShutdownNext" \in Losable`: the packet is not repeated; a
  pointer to a node that is up but no neighbour can stay wrong, since both ends
  answer each other's pings.
* That every GET is answered, contrary to the constructor's Javadoc
  (`SyncAgent.java:82-83`): `makeLocalList` returns with the write lock when the local folder is
  empty (`:236-238`), `deleteLocalFile` when the file is not listed (`:281-283`), and the
  handler waits for the read lock for ever. `GetIsAnswered` says that nothing else keeps a
  GET waiting.
* That every call returns: `lockFile` holds the monitor and wants the write lock
  (`:347-349`), `deleteLocalFile` the other way round (`:279-287`). Both, and the listener and
  every poll of that node, wait for ever. `CallsReturn` says that nobody else does.
* That tables are true of free locks: a list fetched before an unlock (`:307`) and merged
  after it (`:326-331`) brings the lock back, to be spread by the polls of others, although
  `unlockFile` says "Make sure the file is unlocked!" (`:410`). Nobody
  can lock the file then until somebody unlocks it again. `HoldersAreKnown` is what remains.
* `DeletionSticks` and `ListsAgree` with `"delete"` in `Overlap`: a list fetched before the
  deletion brings the file back, on a ring of one node already; on a ring of two, each node can
  list the file again before the DELETE comes round, which then goes on for ever.
* `LockIsExclusive` without `"lock"` in `Calm`: two nodes lock the same file at the
  same moment, and both are told they have it.
* `ReplicasInPlace` with `Prompt = FALSE`, in two ways. A node's update at the
  broadcast may come before the registration, and only the new node's *previous* node
  is told again: a replica at its *next* node stays there, and when that node fails
  the agent, which only computes where replicas should be, does not make it again
  (`ReplicaSurvives`). And a replica and its log are two transfers: an update between
  them does not recognise the origin and sends the replica back to it.
* `ReplicasInPlace` without `"start"`, `"leave"`, `"crash"` or `"modify"` in `Calm`,
  `ReplicaSurvives` without `"leave"`, `"crash"` or `"create"`, `NoStrays` without
  `"start"`, `"leave"`, `"crash"` or `"delete"`: a change in the middle of another strands,
  loses or truncates replicas. A file that is created while its node starts up is
  never replicated: the watcher is registered afterwards.
* `ReplicasInPlace` with `CreateAlone`: a node that is alone sends the new log to
  itself, and the receiving thread truncates it while the sender reads it.
* `AgentPassesOnce` (`FailureAgent.java:34`: "should never pass by the same node
  twice") without `"crash"` in `Calm`: when the node it started at crashes under way
  the agent goes round for ever.
* That everything comes to rest: at a node where the sync agent's lock was kept, the
  failure agent waits for ever as soon as it has a replica to delete there
  (`FailureAgent.java:114`, `121`), the watcher at the next file that is created or deleted
  (`FileManager.java:248`, `264`), and a shutdown at its first local file (`:303`). The
  failure agents that come later join the first (`NodeAPI.runAgent`), so no replica is made again
  beyond that node. In `repl_serial` node 7 is such a node from its start; others become one when a
  deleted file is not listed, or when the next node does not answer the DELETE. `SettlesDown`
  excepts these threads and nothing else.

The monitor's runs hold for the weaker promises stated in them. On the way there these
were refuted, or seen in the traces:

* A page forgets everything when a request to the name server is still pending at the
  next interval or click (`GetData.js:210`, `231`): no answer yet is taken for no name
  server, and `nameServerData` is `undefined` although the server answers. So
  `nameServerData = undefined => ~ nsUp` fails, and `KnowsTheMapping` is about the mapping
  that was stored, not about the name server's.
* `Promise.all` (`GetData.js:207`): one slow node keeps the answers of the healthy
  ones, which are shown offline after two intervals.
* The file table ends at the first file with a node that has not answered
  (`RefreshFileManager.js:89`): `islocked` reads `.locks` of `null`. On a page that is loaded it
  is drawn again only because the exception leaves the flag up.
* On a page that is being opened the same exception, or that of an arc to an unknown
  neighbour, ends the script: `screenRefresh(true)` stands outside any `try`
  (`GetData.js:46`), before the constants `getNodeData` (`:191`) and `getNameserverData`
  (`:209`). Every later `updateData` is a ReferenceError, and the page shows the same data
  until another is opened. So "every page comes to show the ring" is refuted, and
  `ShowsTheRing` is about pages that are `loaded`.
* `draw` takes the flag down before an arc to a neighbour the page does not know ends
  it in an exception (`DrawNetwork.js:86`, `89`): the remaining arcs are missing until the
  next data.
* A node that has never answered counts as heard of at the moment it was first seen
  in the mapping, and is shown online for two intervals.
* In the first page a late node's warning is written to the row where the node was
  when the round began (`NetworkMonitor.js:100-104`), and after a change of the mapping that is
  another node's row, until the table is next rewritten. Data of a node are removed when it
  is no longer in the table, not, as the comment at line 88 has it, when its last ping is too
  long ago.
* `startNode` posts to an endpoint that no controller has, and `askIPofNameserver`
  accepts whatever is typed.

## 4. Proofs

| Theorem | Module | Says |
|---|---|---|
| `GetNextNodeIsNext` | RingOrderProofs | the lookup is the reference successor, for registered ids and others |
| `DiscoveryKeepsNext`, `DiscoveryKeepsPrev` | RingOrderProofs | the nine cases move exactly the pointers that have to move |
| `TypeCorrect` | AtomicRingProofs | `Spec => []TypeOK` |
| `RingStaysClosed` | AtomicRingProofs | `Spec => []RingIsClosed` |
| `NeighboursStayConsistent` | AtomicRingProofs | `Spec => []NeighboursAgree` |
| `TypeCorrect` | RingProofs | `Spec => []TypeOK`, whatever overlaps, crashes or is lost |
| `QuietRingStaysClosed` | RingProofs | `Serial => (Spec => []QuietRingIsClosed)` |
| `NobodyUpIsReported` | RingProofs | `Serial => (Spec => OnlyFailedAreReported)` |
| `TypeCorrect` | NameServerProofs | `Spec => []TypeOK`: with `wholds`, `rholds` naturals, no `unlock()` takes a hold that is not there |
| `ReadersAreIsolated` | NameServerProofs | `Spec => ReadersSeeOneMap` |
| `DiskHoldsTheMap` | NameServerProofs | `Spec => []DiskFollowsMap` |
| `RestartFindsTheMap` | NameServerProofs | `Spec => RestartKeepsMap` |
| `OfferIsCorrect` | NameServerProofs | `Spec => []OfferIsTheRing` |
| `StatusIsConsistent` | NameServerProofs | `Spec => []StatusAgrees` |
| `IdleThreadsHoldNothing` | NameServerProofs | `Balanced => (Spec => []IdleHoldsNothing)` |
| `IsADirectory` | NameServerProofs | `Spec => ImplementsDirectory`: NameServer implements Directory |
| `TypeCorrect` | SyncAgentProofs | `Spec => []TypeOK` |
| `OneUserHoldsTheLock` | SyncAgentProofs | `Serial => (Spec => []LockIsExclusive)` |
| `HoldersBecomeKnown` | SyncAgentProofs | `Serial => (Spec => []HoldersAreKnown)` |
| `TypeCorrect` | ReplicationProofs | `Spec => []TypeOK` |
| `AgentGoesRoundOnce` | ReplicationProofs | `OneAtATime => (Spec => []AgentPassesOnce)` |
| `ReplicasGetInPlace` | ReplicationProofs | `Sequential => (Spec => []ReplicasInPlace)` |
| `NobodyKeepsStrays` | ReplicationProofs | `Sequential => (Spec => []NoStrays)` |
| `ReplicasSurvive` | ReplicationProofs | `Sequential => (Spec => []ReplicaSurvives)` |
| `TypeCorrect` | MonitorProofs | `Spec => []TypeOK` |
| `DataFollowsTheMapping` | MonitorProofs | `Spec => []KnowsTheMapping` |
| `PendingIsBounded` | MonitorProofs | `Spec => []RequestsBounded` |
| `SortTableSorts` | MonitorProofs | `SortTable` of a table of any length is its rows, each once, in the column's order |
| `ScreenStaysCurrent` | MonitorProofs | `Spec => []ScreenIsCurrent` |
| `TableStaysWhole` | NetworkMonitorProofs | `Spec => []TableIsWhole` |

They hold for every set of ids, threads, addresses, requests and broadcasts that
satisfies `NodeIdAssumption`, `RingAssumption` or `NameServerAssumption` (for the agents,
`SyncAgentAssumption`; for the files, `ReplicationAssumption`; for the monitor,
`ClusterAssumption` with `MonitorAssumption` and `FileAssumption`, or with
`NetworkMonitorAssumption`), whatever the bounds. Nine of them have a condition on the
constants in their statement: `Serial` (two of `RingProofs`, two of `SyncAgentProofs`),
`Balanced`, `OneAtATime`, `Sequential` (three). Each is explained below and satisfied by the
run that checks the same property; section 3 lists what TLC refutes without it.

**The ring.** `RingOrderProofs` shows that greatest and least elements of bounded
sets of integers exist (the least because < is well-founded on the naturals, the
greatest because ids are bounded by `MaxId`), that `IsNext` and
`IsPrev` name one node each and are converse, and what adding or removing one member
does to them. `AtomicRingProofs` uses `TypeOK /\ RingIsClosed`, which is inductive as it
stands: one step per action; `Join` from the two `DiscoveryKeeps` theorems.
`NeighboursAgree` follows from it: if *n* is next of *i* then *i* is previous of *n*.

**The ring with its packets.** `TypeCorrect` needs no condition: every packet has one of
nine types and the fields of its type (`MessageOK`), no handler takes "no node" for a pointer, and a counter stops one above
the limit. The other two are proved under `Serial`: nodes start and leave one at a time,
packets arrive within the ping period, only pings and their answers are lost, fewer of them
than `PingLimit`, and nobody crashes. These are the constants of `ring_serial`, for any
number of nodes, starts and leaves. `Phase` says what the ring looks like between two
quiet states: `Resting`; `Joining(i)`, in which a node's pointers are right for the
ring without *i* until it has read *i*'s broadcast and for the ring with *i* afterwards, and *i* has
asked (`Asks`), been offered its place or taken it (`InMap`); `Leaving(i)`, before the two packets
are sent; `Left(i, n, p)`, in which the next pointer of *p* and the previous one of *n* are
corrected in any order. The step from one form of a pointer to the other is `DiscoveryKeepsNext`
and `DiscoveryKeepsPrev` again, for broadcasts that each node reads at its own time, and their
counterparts for a shutdown. `CountsInv` is about failure detection: a counter
is at most the number of packets lost so far, plus one while a ping to that very
neighbour or its answer is on its way. A pointer that moves leaves its counter as it is, so the
bound must not name the neighbour; for the same reason it is false when somebody may
crash, and `OnlyFailedAreReported` with it (section 3).

**The name server.** None of its properties is inductive. The strengthening is
`LockInv == TypeOK /\ Held /\ Exclusive`: `Held` says for each label how many holds
its thread has at least (a thread at `body` or `save` is a writer, at `jsonPrev`, `offer` or
`scanMap` a reader, and DiscoveryHandler at `jsonCheck` and `jsonPrev` two readers),
which is where the nested and the unbalanced calls of the handlers are accounted
for; `Exclusive` says that a writer excludes every other hold. The map changes only
at `body`, so a reader sees one map. `DiskFollowsMap` needs it too: two
threads at `save` would truncate each other's file. `Fresh` says that what a thread
read at `jsonPrev` or `scanMap` (and what is offered at `offer`) is still what the map says.

*The locks balance.* `Held` says "at least" and cannot say that an
idle thread holds nothing. `Exact` gives each label the number of read and write holds its
thread has, no more and no less, and is preserved only where every `unlock()` belongs to a
`lock()`. That excludes `postNode` and `putNode`, which do not balance, and the DiscoveryHandler whose
node disappears between its registration and the offer: `Balanced` says that no
request is a POST or PUT and that nobody deletes or reports a node that may arrive.
`StaysRegistered` then keeps that node in the map until it is offered its place. `ns_live`
satisfies `Balanced`.

*The refinement*. Each step of a handler is shown to be `Ask`, the
one instant at which the operation takes effect, the end of a save, or invisible; `Restart` is
the directory's crash, for which the file is what was last saved until it is truncated and
nothing afterwards. Beside `LockInv` and `Fresh` (what a reader answers is still true when it
answers) the mapping needs `DiskFollowsMap` and `Asking` (an operation is pending exactly
while its thread is at a label before its effect). `Spec => ImplementsDirectory` has no fairness on its right-hand side.

**The sync agents.** `TypeCorrect` needs, beside the types, where things can be (`Places`: an
agent that is not up has no packets, polls and calls; a packet carries its sender's name).
Locks are exclusive only under `Serial`: agents start and users call
`lockFile` and `unlockFile` when the previous such change has settled, and no
packet is lost, as in `sync_serial`. Polls may overlap locks, unlocks and deletions, deletions may
come at any time, and write locks may be kept. The invariant `LocksInv` says nothing of table entries
that name somebody who holds nothing, because merges bring such entries back; an outdated entry
refuses a lock and never grants one. It has, of each file that is not deleted: lock packets
under way are of a holder, and while an unlock packet is, nobody holds the lock
(`PacketsTrue`); one node holds the lock (`OneHolder`); every agent that has merged once names the
holder or is about to hear of the lock (`HoldersKnown`). Two parts are about the actors:
there is one call (`CallsAlone`), and a new agent, the only one that does not know the locks, learns
them from one that does before anybody calls (`NewcomerLearns`). TLC checked these as
invariants of the instance of `sync_serial` before they were proved.

**The files.** `TypeCorrect` adds to the types that only a process that runs shuts down, and
that an update that has asked for an address (`at = "id"`) is about a file it still has to do;
it holds for overlapping changes, too. That an agent goes round once needs a ring that stands
still while it is under way, which is so under `OneAtATime`: starts, leaves and crashes wait for each
other; files are created, changed and deleted at any time. `RingStill` says that either nobody leaves and at
most one node has crashed, or somebody leaves and there is no agent. `OnTheWay` is the
agent's part: it came to each node but the first from a node that it had been to. Since no two
nodes have the same next one (`NextInjective`), an agent that came back to such a node would have been
before at the one it comes from.

*Where the replicas are.* `Sequential` is `repl_serial`'s choice of constants, for any number of
nodes, files, starts, leaves, crashes and edits and any hashes: changes of every kind wait until the last one
has settled, transfers arrive before anybody looks, no file is created by a node that is alone,
each crash is reported once (`MaxRepeats = 0`; `repl_serial` has a second report, too), and
(`OneOrigin`) no two nodes ever have files of the same name, local at their start or made
later. When a watcher or an agent waits for a write lock that is never given back, there is no
further change and nothing is quiet: `PlaceInv` is then only `Stuck`. Otherwise it says of each
file where its copies are, in the one phase of the change the system is in:

* `Settling`, a startup with the updates and transfers that it causes. A file is not sent yet and
  nowhere; or *bound* for its place; or at rest at a node that still is to do an update about it.
* `Editing`, from a user's edit to the watcher's event: that file is nowhere, out of date, or
  to be deleted; every other is in place.
* `Leaving`, from a node's deregistration to its exit: what it keeps for others it has still to hand
  on, and it hands it on to where it belongs in the ring without it.
* `Hanging`, a shutdown that waits for a write lock for ever: the node is deregistered, and the
  files of the others are at rest where they were.
* `Crashed`, from a crash to its report: what was kept at that node is nowhere, what was
  its own may still be kept.
* `Touring`, while the agent is under way: a file that is nowhere belongs to a node where the agent
  has not been, and a file of the failed node is kept only at such nodes.

`Bound(f, p, data, origin)` makes the orders of transfers one case: nobody but *p* has or will get a
copy, and each of its replica and its log is there already or on the wire. Steps are then
followed file by file: `UntouchedKeeps` for the files a step is not about, `SentBound` and
`MoveArrives` for the one it moves. Three facts about rings carry the proof: where a replica goes when the
owner is gone (`TargetWithout`: to the previous node of the one that leaves, or, if that is
its origin, to the one before); that a set of nodes closed under next is the whole ring (`RoundIsAll`),
so that an agent that ends has been everywhere; and `NextInjective`. `Homes` says that processes
that have ended have no files and get none. The
conjunction was checked by TLC as an invariant of `repl_serial` before it was proved, and it is
what `ReplicasInPlace`, `NoStrays` (both say something of quiet states only) and `ReplicaSurvives`
(of every state) follow from.

**The monitor.** `MonitorProofs!Inv`, the conjunction of the three properties (with the
cluster's types), is inductive. The counter of requests needs to be
the cardinality of `Pending` for its bound to be kept: `MayAsk` tests the counter, a
new round adds one request per node in a place that was empty, and each answer, late or
failed, takes one away that was there. That the stored data are those of the stored
mapping needs the guard of `StoreAnswers` and, for `OpenPage`, that the copy in
`sessionStorage` is never older than the page's data. None of this depends on `loaded`: an
aborted page asks and stores nothing.

*The screen.* `ScreenIsCurrent` is inductive together with the fact that what the file manager
shows is a table (`ScreenInv`), because `SortBy` sorts what is shown and not what is known. Two things
had to be shown for it. That the rounds of `sortTable` are enough: each round that
switches two neighbours takes one pair away from those in the wrong order (`SwitchTakesOneAway`),
of which a table has at most as many as pairs of rows, and a round that finds nothing
to switch leaves a table in order (`SortTableSorts`). And that the folds which build the file
table stay within the types (`FoldStaysIn`). Both recur over sequences or numbers; they are
recursive functions, whose existence is proved by taking a least counterexample
(`InductionOver`, `RepetitionExists`, `FoldExists`), since the library's induction theorems
need an operator as a parameter.

**The first page.** `TableIsWhole` is about rows in order, and rows are overwritten by
index: it needs that every mapping on its way is sorted (`MapsInv`, since the name server lists a
TreeMap), that rows keep their shape, and that warnings change neither ids nor handlers. When
the number of rows changes every row gets a handler again, otherwise each keeps its own.

**Only model-checked**: liveness (ping detection, repair, answered requests, the agents'
agreement, files that come to rest, the monitor's pages) and `ENABLED`, which TLAPS does not do;
what holds of `Ring` when joins overlap or nodes crash, and of `SyncAgent` when calls overlap;
the file name's hash (`NodeHash` is recursive). Of overlapping changes in
`Replication` only `TypeOK` and, for edits, `AgentPassesOnce` hold (section 3).

## 5. Not modelled, and why

* Files of the same name at two nodes, and `FileTransfer`'s `getFileLocation`, which
  is unfinished in the code.
* The failure agent under the name server's read lock: `LaunchAgent` in `NameServer`
  ends after any time, and in `Replication` lookups are one step.
* The rest of `NodeAPI`: reads state.
* Network monitor: positions, colours and the animation of the map; the dialogue
  that asks for the name server's address.
* `src/JavaDocs/` (generated documentation with jQuery and jQuery UI): 13.9 thousand of
  the repository's 15.3 thousand lines of JavaScript. It is third-party code and no part of
  the system.
* `Utils`' address lookup and printing, the command line, `launchNode`'s demonstration of
  locks, the scripted HTTP tests: no protocol state. The tests were read for the inputs
  of the handlers.

## 6. Plan

Order, the most important behaviour first; the first seven are done.

1. `RingOrder`, `AtomicRing` and their proofs: the algorithm of the ring.
2. `NameServer`, `Directory`: the shared state everything else relies on, with
   its refinement; type correctness, isolation, offers and persistence proved.
3. `Ring`: discovery, shutdown, failure detection under loss and crashes.
4. `SyncAgent`: file list and locks.
5. `Replication`: FileManager, FileTransfer, FailureAgent.
6. `Cluster`, `Monitor`, `NetworkMonitor`: the browser's pages, and proofs of what they
   store and ask.
7. Proofs of what a quiet ring keeps, of who is reported, of where replicas are and of what is
   on the screen.
8. `Replication` under overlapping changes: which weaker promise survives them (a
   file whose origin is up can be found again after the next change); the failure
   agent composed with `launchFailureAgent`'s read lock and `runAgent`'s join.
9. Extensions: leaving nodes in `SyncAgent`, overlapping leaves in `Ring`, name server
   outages in `Ring`.
10. Proofs: which reports are true when nodes crash (those of a neighbour whose pointer has not
   moved); exclusive locks while agents start.
