# Chunkster in TLA+

A verification project for Chunkster, a peer-to-peer file store written in Go:
nodes split files into content-addressed blocks, replicate them to other nodes
and keep a view of at most 20 peers with the help of a bootstrap server. The
modules below are written from the source under `src/`; documentation is quoted
only where it is compared with what the code does.

## Inventory

| Component | State | Operations | Talks to |
|---|---|---|---|
| Peer registry (`internal/peer`) | map of records, one RWMutex | Upsert, MarkState, Touch, Remove, Snapshot; Sweep and Leave of the manager | called by every loop and handler of a node; with `REDIS_URL` every method writes to Redis and `startRedisSync` (5 s) merges what other nodes wrote |
| Node loops (`coordinator/node.go`, `bootstrap_sync.go`, `scheduler/cleanup.go`) | their position and the snapshot they work through | heartbeat (3 s), cleanup (10 s), bootstrap poll (5 s) | registry, provider records, Ping and JoinNetwork of other nodes, bootstrap server |
| gRPC handlers (`coordinator/grpc_service.go`) | none of their own | Ping, Heartbeat, JoinNetwork, LeaveNetwork, StoreBlock, GetBlock, FindProvider, AddProvider | registry, block store, provider records |
| Bootstrap server (`cmd/bootstrap`) | slice of peers, one mutex; keys in Redis with a TTL | register, list, delete | polled by every node |
| Global catalog (`UpdateGlobalCatalog`) | lock and pointer, in Redis or in the node | append an entry | Redis, AddFile, GetFile |
| Block exchange (`AddFile`, `GetFile`, `internal/dht`, `internal/replication`) | block store on disk, provider records in memory | store, announce, replicate; look up, fetch, verify, cache | StoreBlock, FindProvider, GetBlock of other nodes |
| XOR routing (`internal/dht`) | none (reads a registry snapshot) | distance, closest peers | used by AddFile |
| Merkle nodes (`internal/merkle`) | none | encode, detect type | used by AddFile, GetFile, InspectCID |
| Command line (`internal/cli`) | none of its own | `node add`, `node get`, `node inspect` | the block store of a node, from a process of its own |
| Connection pool, HTTP API, generated code | map of connections; none | | |

What is hard here:

* Everything in a node runs concurrently, each lock covers one operation, and
  three activities (Sweep, RunCleanup, the ping round) decide on a snapshot and
  act on it later, when the entry may have become something else.
* Upsert has three effects that can collide: it prunes an entry with the same
  address, replaces the entry of the id, or evicts a Left peer at capacity.
* Liveness information flows from three sources that contradict each other:
  pings, the bootstrap list (which never forgets) and the peers named in
  JoinNetwork replies (which lose their state on the way).
* The time an Upsert writes is read before it gets the lock, and a reply may name the
  caller itself as the callee remembers it.
* The catalog relies on a lock with a TTL, deleted without a check of its owner,
  and on error paths that carry on.
* With Redis the registries of all nodes write the same keys, nobody checks that a
  command took effect, and the sync merges what it read a while ago. Records of
  dead peers circulate between the registries.
* A restart keeps the blocks of a node and loses its provider records; the
  bootstrap server keeps its Redis keys and loses its list.

What makes each component correct: the registry is bounded, has one entry for an
address and always has the node itself, Active; peers that are gone are retired and
their slots reclaimed, also when the registries copy each other; the bootstrap list is bounded, has no ghosts and lists
whoever runs; the catalog only grows and its answers are truthful; announced
blocks exist, downloads are complete, and they fail only when none of the providers
they could learn of can serve.

No node of this repository ever calls LeaveNetwork, Heartbeat or AddProvider on
another one; the handlers are there for other clients. `Membership` models
them as calls that may come from outside; `BlockExchange`, a closed system, has
none.

## Modules

| Module | What it models |
|---|---|
| `Registry` | the registry as pure operators on its value: `Upsert` and its parts `Pruned`, `WithRoom`, `Accepted`, `Refused`; `MarkState`, `Touch`, `Remove`, `Aged` |
| `Membership` | one node: its three loops and the handlers that touch the registry, interleaved between lock sections, in an environment that may do anything |
| `Neighbourhood` | the same node among neighbours that start, crash and register; extends `Membership` and restricts its inputs to those that can occur; fairness and liveness |
| `SharedRegistry` | the registries of several nodes, the copies in Redis and the sync; extends `Registry` |
| `Gossip` | several full nodes that join each other: how they keep each other's entries alive |
| `BootstrapList` | abstract: the server's list as the nodes rely on it, a bounded set of entries |
| `Bootstrap` | the bootstrap server, its Redis keys, and the nodes that register |
| `CatalogLog` | abstract: an append-only log with truthful answers |
| `Catalog` | `UpdateGlobalCatalog` step by step, with the faults named in `Faults` |
| `XorRouting` | keys, distance and the closest peers to a key, as operators |
| `BlockExchange` | AddFile, GetFile and `node add` of one file among nodes that crash and restart; extends `XorRouting` |
| `RegistryProofs`, `XorRoutingProofs` | lemmas about the operators |
| `MembershipProofs`, `SharedRegistryProofs`, `GossipProofs`, `BootstrapProofs`, `CatalogProofs`, `BlockExchangeProofs` | theorems about the specifications and their proofs; `MembershipProofs` is about `Membership` and `Neighbourhood` |
| `MC*` | instances for TLC |

Operators named after a definition with a suffix (`WithRoomOffByOne`,
`CleanupPurgeSkipped`, `UnlockEarly`, ...) are plausible bugs in that
definition. Nothing uses them; `PROJECT.json` pairs each with the property that
must catch it.

### Registry and Membership

`peers` maps every id to a record or `NoRecord`. A record holds the age of the
entry instead of LastSeen; `Tick` ages all entries together, and ages saturate
one past `StaleTimeout`, which no comparison can tell apart. Map iteration
order is a choice: any clashing entry may be pruned, any Left peer evicted.
`Membership` is a node without `REDIS_URL`.

| Code | Variables | Actions |
|---|---|---|
| `heartbeatLoop`, `Manager.Sweep` | `hb`, `sweeping`, `pinging` | `HeartbeatTick`, `SweepMark`, `PingRound`, `PingOk`, `PingFail`, `HeartbeatDone` |
| `RunCleanup` | `retiring`, `purging`, `providers` | `CleanupTick`, `CleanupMark`, `CleanupPurge` |
| `bootstrapLoop`, `mergeBootstrapPeers` | `boot`, `merging`, `dialed` | `RegisterSelf`, `FetchList`, `FetchFail`, `MergeAccepted`, `MergeRefused`, `JoinOk`, `JoinFail`, `Learn`, `LearnDone`, `MergeDone` |
| handlers | `leaving` | `JoinNetwork`, `Ping` (also Heartbeat), `LeaveMark`, `LeaveRemove`, `AddProvider` |

The snapshot is the set of ids (or id and address) the condition selected; the
condition is evaluated when the snapshot is taken, as in the code. The list
fetched and the peers named in a reply are sets: order and repetition make no
difference to what can happen. `MayServeAt[Self]` are the endpoints this node has had
and others may still hold for its permanent id: `mergeBootstrapPeers` skips the node
itself in the list, but not in KnownPeers (bootstrap_sync.go:105-116), so `Learn` may
overwrite the node's own entry with a former endpoint. An Upsert is one step here,
clock reading included: without Redis the lock is held for a few map operations, less
than a unit of `Tick`. `SharedRegistry`, where the lock is held during Redis commands,
has the two apart.

### Neighbourhood

`serving` says at which endpoint each neighbour runs, `listed` is the list of
the bootstrap server (as a set, module `BootstrapList`), `rumoured` the entries
the other nodes hold and may hand out. A call is answered only if somebody serves
the address. Every behaviour is one of `Membership`
(`MembershipProofs!NeighbourhoodImplements`), and the list is what the server
keeps (`BootstrapProofs!RefinesListing`).

### Gossip

A closed system in place of the open environment: `peers[n]` is the registry of
every node, and a `JoinNetwork` reply is what the callee's registry names when it
takes its snapshot (`learning`). Calls are the steps they are in the code, with any
step of anybody in between:

| Code | Actions |
|---|---|
| a ping: the handler touches the caller; the answer makes the caller touch the callee | `PingArrives`, `PingAnswered` |
| a ping that does not arrive, or whose answer is lost or late | `PingFail`, before or after `PingArrives` |
| `JoinNetwork`: Upsert of the caller, accepted or not; then the Snapshot and the reply | `JoinAccepted` or `JoinRefused`; `JoinReply` |
| a join that does not arrive, or that was accepted and whose reply is lost | `JoinFail`, before or after `JoinAccepted` |

A crash ends the calls a node makes and those it is serving. A request that reaches
its callee only after the caller has given up is left out. The loops are those of `Membership`, with fewer positions: a
loop that has nothing left to do in a round (`pinging` empty, `RoundDone`) is at
the start of the next one. Only the entries of `PeerId` are followed; the steps
that concern other entries are left out. Nodes outside `Looping` register, answer
calls and die before their loops get further, which bounds the instance. Every
node has an endpoint of its own, and the bootstrap list has room for all.

### SharedRegistry

What `REDIS_URL` adds. A node's registry is `peers[n]`, `redis` holds the record
under each key `peers:<id>`, `fetched` what a sync has read and not yet merged, `calls`
the Upserts whose caller has read the clock and which wait for the registry's lock.

| Code | Actions |
|---|---|
| `Upsert`, from any caller: `time.Now()` of the record, then the method under the lock | `Contact`, `FinishUpsert` |
| `Touch` | `Seen` |
| `MarkState` and `Remove`, from Sweep, RunCleanup and Leave | `MarkInactive`, `Retire`, `Drop` |
| `startRedisSync` | `SyncGet`, `SyncMerge` |
| the 60 s of a key; a node that starts again | `Expire`, `Restart` |

`publishRedis` and the deletions run while the method holds the registry's lock,
so a method and its commands are one step. Their results are ignored; `Sent`
therefore contains every outcome in which some of them were lost. The sync reads
keys without the lock and merges each record later under it: two steps, between
which anything may happen. Two records whose ages are equal in units of `Tick`
may have been written in either order, so either outcome of the comparison is
possible. Clocks of different nodes are taken to agree.

Touch reads the clock under the lock, but the callers of Upsert read it before
(bootstrap_sync.go:88 and 114, grpc_service.go:79), and Upsert writes what they read
whatever the entry has by then (peer_registry.go:79). `FinishUpsert` does the same:
its `age` is that of the call, which has grown with every `Tick` it waited.

The methods are called at any moment here: a mark may hit any entry, which
contains what the snapshots of `Membership` can lead to. `heard` is a ghost, the
time since any node last heard of a peer; no step depends on it. A node need not
be in `PeerId`; then its own entry is left out of the registries and
`MaxNetworkPeers` counts the others.

### Bootstrap

Each HTTP handler is one step, for it holds the mutex throughout. `saved` are
the ids with a live key in Redis; `Expire` is the TTL. `running` is what each
node serves at; `Start` and `Stop` tell the server nothing.

`BootstrapList` is what remains of it for a node: a set of entries, of which a
registration takes the place of a clashing one or fills free room, and which
loses entries by deletion or all at once. `Bootstrap!Listing` maps the slice to
the set of its elements.

### Catalog

A version of the catalog is the sequence of the calls whose entries it holds, and
stands for its CID. `pc` follows the numbered comments of the function. `Faults`
selects what may go wrong: `cancel`, `reply` (SETNX took effect, its answer is
lost), `slow` (longer than the TTL), `get`, `fetch`, `upload`, `set`, `crash`.
The local lock is the instance with at most `fetch` and `upload`.

### XorRouting

A key is a function from bit positions to Booleans, most significant bit first.
`Below` is the order of two keys read as big integers, written without the
integers: they differ first where the smaller one has a zero. `Closest` is the
cut of the list `ClosestPeerIDs` sorts. `MCBlockExchange` compares both with
reference definitions that compute the integers and sort the list, for all keys of
three bits and up to four candidates (`CloserComparesDistances`,
`ClosestCutsSortedList`).

### BlockExchange

`File` is the sequence of the file's CIDs, root first. `store` survives a crash,
`announced` does not.

| Code | Variables | Actions |
|---|---|---|
| `AddFile` | `addPc`, `addAt`, `targets` | `PutChunks`, `PutRoot`, `Announce`, `SelectReplicas`, `ReadBackFails`, `PushOk`, `PushFail`, `PushDone` |
| `GetFile`, `LookupProviders`, `FetchBlock` | `getPc`, `getAt`, `asking`, `found` | `GetStart`, `ReadLocal`, `Lookup`, `Answer`, `NoAnswer`, `LookupDone`, `FetchOk`, `FetchFail`, `FetchNone`, `WriteChunk` |
| `node add` | none | `CliPutChunks`, `CliPutRoot` |
| processes | `up` | `Crash`, `Restart` |

The set of Active peers is chosen at every lookup and replica selection. Among
those of a selection the replicas are the closest ones (`Replicas`), except those
that have left the registry by the time AddFile looks up their address: any
subset is kept. A block that cannot be read back ends the upload (`ReadBackFails`). The handlers StoreBlock, FindProvider and GetBlock are in the
steps of their callers.

A chunk that has been found or fetched is written to the client in a step of its own
(`WriteChunk`), since nothing bounds the time this takes: the HTTP server sets no
WriteTimeout (cmd/node/main.go:84-87), so a client that stops reading keeps GetFile in
`w.Write`. The root is read, not written.

Two variables are ghosts that no step depends on. `knew` is what each peer asked
had when the lookup began, `"nothing"` once it crashed or a call to it failed, and
for every peer that was not asked: the lookup passes over peers that are not in the
registry or not Active there (lookup.go:42-47), and a download may fail while such a
peer has the block. `AskedProvidersTried` says nothing of them.
`refused` are the blocks of a download that the disk did not take: GetFile only
logs that and passes the block on all the same.

Block storage is outside the repository (package `storage` is imported and not
there) and is modelled by what its callers rely on: it reads back what it holds,
across restarts and processes, and a write may be refused.

## Runs

Passing runs:

| Run | Instance | Shows |
|---|---|---|
| `membership` | self, which has had another address, and 3 ids, one of which may come up on another's host and one may leave; 3 slots | `TypeOK`, `Capacity`, `SelfIntact`, `NoSharedAddress`, `DropsJustified` |
| `neighbour_retirement` | self and 1 neighbour, which other clients may announce and make leave | `NoReturn`; `GonePeerRetired`, `RetiredPeerPurged` under `FairSpec` |
| `neighbour_slot` | self and 2 neighbours, 2 slots | `SlotReclaimed` under `RetrySpec` |
| `bootstrap` | 4 ids on 3 hosts, a list of 2, a server that restarts | `TypeOK`, `ListBounded`, `NoGhosts`, that `Bootstrap` implements `BootstrapList` (`ListingSpec`), and `RunningListed` under `FairSpec` |
| `catalog_safe` | 4 calls, the faults `SafeFaults` | `TypeOK`, `MutualExclusion`, `NoLostEntry`, `CatalogExtends`, and that `Catalog` implements `CatalogLog` (`LogSpec`) |
| `catalog_progress` | 3 calls, every fault | `EntriesGenuine`; `EveryCallEnds` under `FairSpec` |
| `shared_registry` | 2 nodes, the entry of one peer, up to 2 Upserts under way | `TypeOK`, `LastSeenTrue`, `LastSeenForward`, `NoRevival`, and `SilentPeerInactive` under `FairSpec` |
| `exchange` | 3 nodes with 3-bit keys: `a` uploads, `b` downloads, `node add` at `c`; a root and one chunk, 1 replica | `TypeOK`, `ProvidersHaveIt`, `DownloadComplete`, `AskedProvidersTried`, `DownloadForward`, and `DownloadEnds` under `FairSpec` |

Runs that show where the code does something else than a comment or document
says; the quotes are in `PROJECT.json`, `findings`:

| Run | What TLC finds |
|---|---|
| `membership_lan` | nodes that all advertise the default HTTP address prune each other's own entries |
| `gossip_detection` | two running nodes keep a dead peer Active in each other's registry for ever, though the bootstrap list no longer has it |
| `catalog_fetch` | a failed fetch replaces the catalog by a single entry |
| `exchange_copy` | a download fails although a live node that was asked has the block: it has restarted |

The shortest behaviour of `exchange_copy` restarts the uploader before it has
announced anything; a restart after a finished upload, or of a replica, has the
same effect, as has a node that only cached the block of a download.

In the shortest behaviours of `gossip_detection` the dead peer has registered and
crashed before anybody reached it. Both nodes take it from the list, the server
drops it, and from then on each names it to the other. Neither node's heartbeat
has a part in this: pings of the dead peer fail and record nothing, and Sweep sees
an entry that was renewed a moment ago. While the bootstrap list still has the
peer, a single node is enough: each round of `mergeBootstrapPeers` renews it.

### What the assumptions keep out

The models contain more of what the code does than the passing runs visit; the
constants select it, and each choice below is needed:

* A newcomer whose gRPC address is one entry's and whose HTTP address is
  another's (`MayServeAt` with addresses in more than one pair): `Upsert` prunes
  the first and stops, so `NoSharedAddress` fails. In `Bootstrap` a node that
  moves to another entry's address does the same to `NoGhosts`: the handler
  replaces the first clashing entry.
* Other nodes that name a dead peer: `Neighbourhood` states retirement of peers that
  neither the list nor another node brings back (`Gone`); `Gossip` shows what
  happens otherwise.
* `REDIS_URL`: the sync inserts an unknown record while there is room, without the
  prune of `Upsert`, so `NoSharedAddress` fails when two ids have an address in
  common; and a newer record of another node replaces whatever entry the node
  has, its own included, so `SelfIntact` fails when another node marks this one.
  `SharedRegistry` contains both and states neither property.
* Another node that advertises an address this node has or has had, or a LeaveNetwork
  for this node: `SelfIntact` fails (`membership_lan`; theorem under `SelfUnshared`).
  What `SelfIntact` does not say is that the node's own entry is at the endpoint it
  advertises: a reply of a node that still has a former one overwrites it.
* A client that stops reading: its download stays in `w.Write`. `DownloadEnds` speaks
  of downloads whose client goes on reading (`ClientReads`).
* A full bootstrap list: only DELETE shortens it, and no node calls that.
  `RunningListed` therefore speaks of nodes the list has room for.
* `"slow"`: an update that takes longer than the 10 s TTL overlaps with the
  next one and deletes its lock. `"get"` and `"fetch"`: an update that cannot read
  the current version writes one without it. `"set"`: a pointer that was not
  written is reported as success. `SafeFaults` are the rest. Each of the four alone
  breaks `NoLostEntry` and `LogSpec`; all but `"set"` break `CatalogExtends`, and
  `"slow"` breaks `MutualExclusion`. `EntriesGenuine` survives every fault.

### Bounds

Ages and timeouts are counted in units of `Tick`: what matters is the order of
the two timeouts and the 0/1 boundary of the comparisons, not their length.
With `InactiveAfter = 0` and `StaleTimeout = 1` (`neighbour_retirement`) an entry can be fresh, overdue and stale; with both 0
the two conditions coincide in age and the state still tells them apart.
`membership` has three ids besides the node at three slots, so a newcomer finds
the registry full with and without a Left peer to evict, and two of the ids
give a restart of a host under a new id, and a move. One id may be made to
leave (`LeaveCalls`). The bootstrap list has one entry there (`MaxListed`): the
rounds of the loop merge the entries of a longer list one after the other all
the same; the `neighbour` runs merge lists of two. The node has
had one other endpoint, at which no other id comes up (`MovingServe`). AddProvider is switched off
in it (`Announcers`) and on in `neighbour_retirement`, since nothing but the
purge touches the records; the theorems hold for every value of the three.
`shared_registry` follows the entry of one peer: a record is merged without a look at
the other entries unless the registry is full, and a second id makes more than a
million states. With a maximum of one the prune and the eviction do not occur
there; `Capacity`, which is about them, is proved instead. Two Upserts at a time
(`MaxCalls`) are enough for one to overtake another, at one node or at two; ages are
0 or 1 (`StaleTimeout` 0), which tells a reading from before a `Tick` from one after it. Two nodes are enough for
a record to go from one to the other and back, past Redis and what a sync holds.
In `bootstrap` a list of two is full with a host to spare. Three or four
catalog calls are enough for one to release a lock a second one has taken while
a third one enters. A file of two blocks distinguishes the root from a chunk and
makes a download continue after a first success. With the keys of `exchange` the
best replica of the root is `c`, where `node add` also writes, and that of the
chunk `b`, which downloads; when either is not Active the other one is chosen.
`Call` is a finite set of
calls, each made once, hence `CHECK_DEADLOCK FALSE` in the catalog runs. The
calls are declared symmetric in `catalog_safe`.

### Fairness

`Neighbourhood!FairSpec`: each of the node's loops is a goroutine that lives as
long as the node and whose calls have a timeout (3 s, 8 s), so each loop that can
step eventually does, a reply has finitely many peers (`LearnDone`), and time
passes. One call is an exception: GET `/v1/peers` has no timeout of its own, and
the model takes it to end. `RetrySpec` adds for `SlotReclaimed` that a running
neighbour, which calls JoinNetwork every 5 s, does not miss every moment at which
it would be let in (strong fairness of the accepted join). Nothing is assumed of the neighbours otherwise.
`Gossip!FairSpec` asks the same of every running node in `Looping`.
`SharedRegistry!FairSpec`: time passes, `Sweep` (every 3 s) marks an entry that stays
Active and overdue, and Redis drops the key of an Active record that nobody sets
again. Nothing is asked of the keys of Inactive entries, which `Sweep` sets anew
each time, nor of the sync.
`Bootstrap!FairSpec`: running nodes register again and again. `Catalog!FairSpec`:
a call that holds the lock goes on, Redis drops expired keys, and a call that
polls every 500 ms gets the lock if it is free again and again (strong fairness;
Redis does not queue, so this excludes only eternal bad luck).
`BlockExchange!FairSpec`: each call of a download is answered or times out, in a
lookup after 5 s and in a fetch after 15 s. Nothing is assumed of `WriteChunk`, nor of
uploads; that the client reads is a premise of `DownloadEnds`.

## Proofs

All theorems hold for every value of the constants allowed by the modules'
assumptions.

* `RegistryProofs`. What `Upsert`, `MarkState`, `Touch`, `Remove` and `Aged` do to the
  type of a registry and to the number of its entries, and the changes they make,
  reduced to a relation `Change`: the same entries with other states and ages, an
  entry removed, or an `Upsert`. `ChangeBounded`, `ChangeDrops`, `ChangeKeepsOwn` and
  `ChangeApart` say what every change keeps, of any registry; the modules below
  cite them for the registry of a node and for those of all nodes.
* `MembershipProofs`, about `Membership`. `TypeCorrect` is proved per action;
  `StepChanges` shows that each makes a `Change`.
  `CapacityHolds` needs the registry to stay finite: `Cardinality` says nothing
  of an infinite set, and `PeerId` may be infinite. `DropsJustifiedHolds` rests on
  the same bound: only in a registry that is exactly full does `Upsert` evict.
  `SelfIntactHolds` assumes `SelfUnshared`
  (nobody else advertises an address this node has or has had, or calls LeaveNetwork
  for it); `membership_lan` shows it is needed. The node's own entry may move among its
  endpoints when replies overwrite it; the inductive invariant says that it is at one
  of them, so that no newcomer's prune can meet it. `NoSharedAddressHolds` assumes
  `PairedEndpoints` (an address belongs to one endpoint), and its inductive
  invariant adds that every entry carries an endpoint somebody may serve at:
  then all entries that clash with a newcomer have the newcomer's endpoint, so
  there is at most one, and pruning one is enough.
* `MembershipProofs`, about `Neighbourhood`. `NeighbourhoodImplements`: the node
  among neighbours implements the node in open surroundings, step by step. The
  inputs have to be ones `Membership` allows, which takes an invariant of the
  surroundings (`SurroundingsOK`): neighbours serve where they may, rumours are
  true entries, and the server's list is a finite set within its maximum, so it
  is one `FetchList` may fetch. The safety theorems then hold of `Neighbourhood`
  (`NeighbourhoodCapacity`, `NeighbourhoodApart`, `NeighbourhoodSelf`).
  `NoReturnHolds` is the safety half of `GonePeerRetired`: a peer that is gone, of
  which no merge and no ping is under way that could be answered, is not brought
  back by anything but a start. That nothing more is left under way in the end is
  the liveness half.
* `SharedRegistryProofs`. `TypeCorrect`; `LastSeenForwardHolds` from the cases of a
  step for one entry of one registry: of these only the return of a waiting Upsert can
  make an entry older, to the age of the call; `LastSeenTrueHolds`, which is inductive with
  the type because it speaks of every place a record can be: registries, Redis,
  what the syncs hold and the calls under way. `NoRevivalHolds`, the safety half of
  `SilentPeerInactive`: once no other node, key or fetched copy has a peer Active,
  only a sign of life makes it so. `CapacityHolds` for any number of peers and
  nodes, with the finiteness of the registries as for one node.
* `GossipProofs`. The registries of all nodes at once, under `Overlay` (what the
  constants stand for): `GTypeCorrect`; and, where every node has addresses of its
  own (`OwnHosts`), `OverlaySoundHolds` (every registry is bounded, true, without
  doubles and has its node Active) and `OverlayDropsHolds` (a running node drops
  only the entry of a peer that had Left, from a full registry, for a newcomer).
  The inductive invariant (`OInv`) says of every registry that it is finite, within
  its maximum and shows each peer at the endpoint it advertises; then no newcomer
  clashes with an entry of another peer, so nothing is ever pruned.
  `ForgottenStaysHolds`: a dead peer that no list, reply or registry holds any
  more stays forgotten. Together with `gossip_detection` it says that circulating
  entries are the only thing that keeps a dead peer Active. No run checks
  these formulas: `gossip_detection` is about `DelistedPeerDetected` alone.
* `BootstrapProofs`. `TypeCorrect`, `ListBoundedHolds`; `NoGhostsHolds` under `FixedEndpoints`, with the
  invariant that the entries and the running nodes are where they may come up.
  `RefinesListing` under the same condition: the server implements
  `BootstrapList`. It needs `NoGhosts`, since a slice with two equal elements is
  not the set of them: replacing or deleting one would leave the other.
* `CatalogProofs`, for any number of calls. `TypeCorrect` and `EntriesGenuineHolds`
  under every fault. The others under the faults they survive, no fewer:
  `MutualExclusionHolds` unless an update outlives the lock (`LockKept`), from the
  invariant that the lock names whoever works under it;
  `CatalogExtendsHolds` unless, besides, the pointer or the current version cannot
  be read (`TextKept`), from the invariant that a call past the read works on the
  current version; `NoLostEntryHolds` under `SafeFaults`, from the invariant that
  the position of a call and its answer tell whether its entry is in the catalog.
  `EntriesGenuineHolds` does without all of these: a call's entry is in no
  version but its own until the call itself has written.
  `RefinesLog` shows that under `SafeFaults` `Catalog` implements `CatalogLog`:
  moving the pointer is `AppendEntry`, returning or giving up is `Answer`, all else
  stutters.
* `XorRoutingProofs`. `CloserStrictOrder`: peers with different keys are never
  equally close, so the sorted list is determined. `ClosestFirst`: nobody left out
  is closer than somebody chosen. `ClosestCount`: there are `k` of them, or all.
  `BlockExchangeProofs!ReplicasClosest` applies them to the replicas of a block,
  given that node ids have different keys.
* `BlockExchangeProofs`. `TypeCorrect`, `ProvidersHaveItHolds`,
  `DownloadCompleteHolds`, `AskedProvidersTriedHolds`, for any file, any number of
  nodes, and any crashes. None of the three is inductive. The invariant adds: an
  upload that has stored the chunks has them in its store, and every block once it
  announces (`UploadStored`); records are backed by blocks (`RecordsBacked`);
  a download at block `i` has every block before it or saw it
  refused (`StoredSoFar`); the providers found have the block (`FoundHaveIt`);
  and a peer that was asked, had announced the block and has not failed since has its record
  still, and is yet to answer or among those found (`KnownPending`).
  `DownloadForwardHolds` and `FurtherEnds` are the ranking argument of
  `DownloadEnds`: no step but a crash takes a download back, each of its own takes
  it further, and further means a lexicographically smaller triple of numbers
  (blocks, stages of a block, peers left to ask or try). That it takes its steps
  is fairness.

Every invariant, action property and refinement of the passing runs is proved.
Only model-checked: the liveness properties (`GonePeerRetired`,
`RetiredPeerPurged`, `SlotReclaimed`, `RunningListed`, `EveryCallEnds`,
`SilentPeerInactive`, `DownloadEnds`), since the prover does not handle fairness
and ENABLED; and that `Closer` is the order of the integer distances, a
statement about a fold over the bits.

## Not modelled, and why

* The connection pool: a mutex around a map of connections, dialled without
  blocking, which reconnect by themselves. A call is modelled by its outcomes.
* The HTTP handlers: they read state and format it, or enter AddFile, GetFile and
  the catalog. CORS, logging and flag parsing.
* The commands `get` and `inspect`, and `InspectCID`: they read blocks and store
  nothing; InspectCID looks up and fetches as GetFile does.
* Directory nodes and the canonical JSON of Merkle nodes: nothing writes a
  directory, and the file node is the first block of a file.
* `ProviderRecords.Merge` and the per-file bundle: no caller, and a copy nothing
  reads.
* The stubs in `internal/heartbeat` and `scheduler/rebalance.go`, which have no
  behaviour; generated code.
* The data race on a record's address in AddFile (`Registry.Get` returns the live
  pointer): replica targets are nodes here, and a torn address has no counterpart.
* A restart of a node that keeps the catalog pointer itself (no Redis): the
  pointer is lost with the process, and no document says what should survive.
* Clock skew between nodes that share a Redis.

## Plan

Done: all modules above, their runs and their proofs. What could be added: a
proof that the registry of each node of `Gossip` makes only steps of
`Membership`, by a refinement mapping for each node; for `SlotReclaimed` and
`RunningListed`, the safety halves that the proofs of `GonePeerRetired` and
`SilentPeerInactive` already have; and what `SharedRegistry` guarantees of a
node's own entry when nobody else marks it.
