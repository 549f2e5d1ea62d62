----------------------------- MODULE Membership -----------------------------
(***************************************************************************)
(* How one node (a PeerHost) keeps its view of the overlay.  Four          *)
(* activities share the registry and the provider records, each taking the *)
(* lock only for single operations:                                        *)
(*   - heartbeatLoop: touch self, Sweep, then ping every Active peer;      *)
(*   - cleanupLoop (scheduler.RunCleanup): retire long-Inactive peers and  *)
(*     purge their provider records;                                       *)
(*   - bootstrapLoop: register with the bootstrap server, fetch its list,  *)
(*     Upsert every entry, join it and Upsert all it knows;                *)
(*   - the gRPC handlers, called by other nodes at any moment.             *)
(* Sweep, RunCleanup and the pinging all work through a Snapshot taken     *)
(* earlier: between the snapshot and its use every other activity may run. *)
(*                                                                         *)
(* The surroundings are open: calls may come from every id at every        *)
(* endpoint it may serve at, at any moment, and every call the node makes  *)
(* may fail or be answered in every possible way.  Module Neighbourhood    *)
(* puts actual neighbours and a bootstrap list around this node.           *)
(***************************************************************************)
EXTENDS Registry

CONSTANTS
    Self,           \* this node's id
    SelfEndpoint,   \* what it advertises
    MaxListed,      \* the maximum length of the bootstrap server's list
    MayServeAt,     \* for every id, the endpoints it may come up at or, for
                    \* Self, has come up at and other nodes may still hold
    LeaveCalls,     \* the ids for which somebody may call LeaveNetwork
    Announcers,     \* the ids for which provider records are added here
    Nobody          \* no peer (for purging)

VARIABLES
    peers,      \* the registry
    hb,         \* heartbeatLoop: "idle", "sweep" or "ping"
    sweeping,   \* ids Sweep found overdue in its snapshot, not yet marked
    pinging,    \* snapshot entries not yet pinged
    retiring,   \* ids RunCleanup found stale in its snapshot, not yet marked
    purging,    \* the id it has marked Left and not yet purged, or Nobody
    leaving,    \* ids between the two lock sections of Manager.Leave
    providers,  \* ids that own at least one provider record here
    boot,       \* bootstrapLoop: "idle", "fetch", "merge", "join" or "learn"
    merging,    \* fetched list entries not yet merged
    dialed      \* the address JoinNetwork is being called at

hbVars   == <<hb, sweeping, pinging>>
gcVars   == <<retiring, purging>>
bootVars == <<boot, merging, dialed>>
vars == <<peers, hb, sweeping, pinging, retiring, purging, leaving, providers,
          boot, merging, dialed>>

Others == PeerId \ {Self}

SelfEntry == [id |-> Self, ep |-> SelfEndpoint]

ASSUME MembershipAssumption ==
    /\ Self \in PeerId
    /\ MayServeAt \in [PeerId -> SUBSET Endpoint]
    /\ \A p \in PeerId : \A ep \in MayServeAt[p] : ep.grpc # NoAddr
    /\ SelfEndpoint \in MayServeAt[Self]
    /\ MaxListed \in Nat
    /\ LeaveCalls \subseteq PeerId
    /\ Announcers \subseteq PeerId
    /\ Nobody \notin PeerId

\* What the bootstrap list and KnownPeers carry (BootstrapPeer and
\* PeerEndpoint): an id with an endpoint it may have come up at.
EntriesOf(p) == {[id |-> p, ep |-> ep] : ep \in MayServeAt[p]}

OtherEntry == UNION {EntriesOf(p) : p \in Others}

\* This node's own entries among them: the ids are permanent, so other nodes
\* may hold it at an address it no longer has.
AnyEntry == OtherEntry \cup EntriesOf(Self)

\* What GET /v1/peers may return.
PeerList == {list \in SUBSET AnyEntry : Cardinality(list) <= MaxListed}

-----------------------------------------------------------------------------
\* Sweep's condition.
SweepDue(reg) ==
    {p \in Known(reg) \ {Self} :
        reg[p].state # Left /\ reg[p].age > InactiveAfter}

RetireDueActiveOnly(reg) ==
    {p \in Known(reg) \ {Self} :
        reg[p].state = Active /\ reg[p].age > StaleTimeout}

\* RunCleanup's condition.
RetireDue(reg) ==
    {p \in Known(reg) \ {Self} :
        reg[p].state = Inactive /\ reg[p].age > StaleTimeout}

\* Whom a heartbeat round pings, at the address of the snapshot.
PingDue(reg) ==
    {[id |-> p, grpc |-> reg[p].grpc] :
        p \in {q \in Known(reg) \ {Self} :
                 reg[q].state = Active /\ reg[q].grpc # NoAddr}}

-----------------------------------------------------------------------------
\* NewPeerHost: the node itself is the first entry of its registry.
Init ==
    /\ peers = [p \in PeerId |->
                    IF p = Self THEN Fresh(SelfEndpoint) ELSE NoRecord]
    /\ hb = "idle" /\ sweeping = {} /\ pinging = {}
    /\ retiring = {} /\ purging = Nobody
    /\ leaving = {}
    /\ providers = {}
    /\ boot = "idle" /\ merging = {} /\ dialed = NoAddr

-----------------------------------------------------------------------------
(* heartbeatLoop *)

\* A tick: Touch(self), then Sweep takes its snapshot.  Touch(self) changes
\* only self's entry, which the snapshot's use skips, so the two lock
\* sections are one step here.
HeartbeatTick ==
    /\ hb = "idle"
    /\ peers' = Touch(peers, Self)
    /\ sweeping' = SweepDue(peers)
    /\ hb' = "sweep"
    /\ UNCHANGED <<pinging, gcVars, leaving, providers, bootVars>>

\* Sweep marks one peer of its snapshot, whatever it is by now.
SweepMark(p) ==
    /\ hb = "sweep"
    /\ p \in sweeping
    /\ peers' = MarkState(peers, p, Inactive)
    /\ sweeping' = sweeping \ {p}
    /\ UNCHANGED <<hb, pinging, gcVars, leaving, providers, bootVars>>

\* Sweep is done; the second snapshot of the tick, whom to ping.
PingRound ==
    /\ hb = "sweep"
    /\ sweeping = {}
    /\ pinging' = PingDue(peers)
    /\ hb' = "ping"
    /\ UNCHANGED <<peers, sweeping, gcVars, leaving, providers, bootVars>>

\* The node at the snapshot's address answers: the snapshot's id is touched.
PingOk(t) ==
    /\ hb = "ping"
    /\ t \in pinging
    /\ peers' = Touch(peers, t.id)
    /\ pinging' = pinging \ {t}
    /\ UNCHANGED <<hb, sweeping, gcVars, leaving, providers, bootVars>>

\* No answer within 3 s, or an error: nothing is recorded.
PingFail(t) ==
    /\ hb = "ping"
    /\ t \in pinging
    /\ pinging' = pinging \ {t}
    /\ UNCHANGED <<peers, hb, sweeping, gcVars, leaving, providers, bootVars>>

HeartbeatDone ==
    /\ hb = "ping"
    /\ pinging = {}
    /\ hb' = "idle"
    /\ UNCHANGED <<peers, sweeping, pinging, gcVars, leaving, providers,
                   bootVars>>

HeartbeatLoop ==
    \/ HeartbeatTick
    \/ \E p \in sweeping : SweepMark(p)
    \/ PingRound
    \/ \E t \in pinging : PingOk(t) \/ PingFail(t)
    \/ HeartbeatDone

-----------------------------------------------------------------------------
(* cleanupLoop *)

\* A tick of RunCleanup: take the snapshot.
CleanupTick ==
    /\ retiring = {} /\ purging = Nobody
    /\ retiring' = RetireDue(peers)
    /\ UNCHANGED <<peers, hbVars, purging, leaving, providers, bootVars>>

\* Mark one peer of the snapshot Left, whatever it is by now ...
CleanupMark(p) ==
    /\ p \in retiring
    /\ purging = Nobody
    /\ peers' = MarkState(peers, p, Left)
    /\ retiring' = retiring \ {p}
    /\ purging' = p
    /\ UNCHANGED <<hbVars, leaving, providers, bootVars>>

CleanupPurgeSkipped ==
    /\ purging # Nobody
    /\ purging' = Nobody
    /\ UNCHANGED <<peers, hbVars, retiring, leaving, providers, bootVars>>

\* ... and then drop its provider records.
CleanupPurge ==
    /\ purging # Nobody
    /\ providers' = providers \ {purging}
    /\ purging' = Nobody
    /\ UNCHANGED <<peers, hbVars, retiring, leaving, bootVars>>

CleanupLoop == CleanupTick \/ (\E p \in retiring : CleanupMark(p)) \/ CleanupPurge

-----------------------------------------------------------------------------
(* bootstrapLoop *)

\* registerBootstrap: an error is logged and the loop goes on.
RegisterSelf ==
    /\ boot = "idle"
    /\ boot' = "fetch"
    /\ UNCHANGED <<peers, hbVars, gcVars, leaving, providers, merging, dialed>>

FetchListSelfToo(list) ==
    /\ boot = "fetch"
    /\ boot' = "merge"
    /\ merging' = list
    /\ UNCHANGED <<peers, hbVars, gcVars, leaving, providers, dialed>>

\* mergeBootstrapPeers: GET /v1/peers returns a list; self is skipped ...
FetchList(list) ==
    /\ boot = "fetch"
    /\ boot' = "merge"
    /\ merging' = {e \in list : e.id # Self}
    /\ UNCHANGED <<peers, hbVars, gcVars, leaving, providers, dialed>>

\* ... or fails, and the round is over.
FetchFail ==
    /\ boot = "fetch"
    /\ boot' = "idle"
    /\ UNCHANGED <<peers, hbVars, gcVars, leaving, providers, merging, dialed>>

\* One entry of the list is upserted; if that succeeds it is joined.
MergeAccepted(e) ==
    /\ boot = "merge"
    /\ e \in merging
    /\ peers' \in Accepted(peers, e.id, e.ep)
    /\ merging' = merging \ {e}
    /\ boot' = IF e.ep.grpc = NoAddr THEN "merge" ELSE "join"
    /\ dialed' = e.ep.grpc
    /\ UNCHANGED <<hbVars, gcVars, leaving, providers>>

MergeRefused(e) ==
    /\ boot = "merge"
    /\ e \in merging
    /\ peers' \in Refused(peers, e.id, e.ep)
    /\ merging' = merging \ {e}
    /\ UNCHANGED <<hbVars, gcVars, leaving, providers, boot, dialed>>

\* The JoinNetwork call fails or is rejected: on to the next entry.
JoinFail ==
    /\ boot = "join"
    /\ boot' = "merge"
    /\ dialed' = NoAddr
    /\ UNCHANGED <<peers, hbVars, gcVars, leaving, providers, merging>>

\* It is accepted.  The reply is the callee's registry, this node included.
JoinOk ==
    /\ boot = "join"
    /\ boot' = "learn"
    /\ dialed' = NoAddr
    /\ UNCHANGED <<peers, hbVars, gcVars, leaving, providers, merging>>

\* One of the reply's KnownPeers is upserted, as Active and seen now,
\* whatever state the callee has it in; the result is ignored.  Self is not
\* skipped here, whatever endpoint the callee holds for it.
Learn(e) ==
    /\ boot = "learn"
    /\ peers' \in Upsert(peers, e.id, e.ep)
    /\ UNCHANGED <<hbVars, gcVars, leaving, providers, bootVars>>

LearnDone ==
    /\ boot = "learn"
    /\ boot' = "merge"
    /\ UNCHANGED <<peers, hbVars, gcVars, leaving, providers, merging, dialed>>

MergeDone ==
    /\ boot = "merge"
    /\ merging = {}
    /\ boot' = "idle"
    /\ UNCHANGED <<peers, hbVars, gcVars, leaving, providers, merging, dialed>>

BootstrapLoop ==
    \/ RegisterSelf
    \/ \E list \in PeerList : FetchList(list)
    \/ FetchFail
    \/ \E e \in merging : MergeAccepted(e) \/ MergeRefused(e)
    \/ JoinFail \/ JoinOk
    \/ \E e \in AnyEntry : Learn(e)
    \/ LearnDone \/ MergeDone

-----------------------------------------------------------------------------
(* gRPC handlers *)

\* JoinNetwork: the caller is upserted; its reply is a Snapshot.  A node
\* calls itself where another id is listed at its address.
JoinNetwork(e) ==
    /\ peers' \in Upsert(peers, e.id, e.ep)
    /\ UNCHANGED <<hbVars, gcVars, leaving, providers, bootVars>>

\* Ping and Heartbeat touch the caller.
Ping(p) ==
    /\ peers' = Touch(peers, p)
    /\ UNCHANGED <<hbVars, gcVars, leaving, providers, bootVars>>

\* LeaveNetwork, Manager.Leave: first MarkState ...
LeaveMark(p) ==
    /\ p \notin leaving
    /\ peers' = MarkState(peers, p, Left)
    /\ leaving' = leaving \cup {p}
    /\ UNCHANGED <<hbVars, gcVars, providers, bootVars>>

\* ... then, in another lock section, Remove.
LeaveRemove(p) ==
    /\ p \in leaving
    /\ peers' = Remove(peers, p)
    /\ leaving' = leaving \ {p}
    /\ UNCHANGED <<hbVars, gcVars, providers, bootVars>>

\* AddProvider from p; for Self, the Add calls of AddFile and StoreBlock.
AddProvider(p) ==
    /\ providers' = providers \cup {p}
    /\ UNCHANGED <<peers, hbVars, gcVars, leaving, bootVars>>

Handlers ==
    \/ \E e \in OtherEntry \cup {SelfEntry} : JoinNetwork(e)
    \/ \E p \in PeerId : Ping(p)
    \/ \E p \in LeaveCalls : LeaveMark(p)
    \/ \E p \in LeaveCalls : LeaveRemove(p)
    \/ \E p \in Announcers : AddProvider(p)

-----------------------------------------------------------------------------
\* Time passes.
Tick ==
    /\ peers' = Aged(peers)
    /\ UNCHANGED <<hbVars, gcVars, leaving, providers, bootVars>>

-----------------------------------------------------------------------------
Next ==
    \/ HeartbeatLoop
    \/ CleanupLoop
    \/ BootstrapLoop
    \/ Handlers
    \/ Tick

Spec == Init /\ [][Next]_vars

-----------------------------------------------------------------------------
(* Properties *)

\* The registry holds records, and the loops work on other nodes only: self
\* is never swept, pinged, retired, purged or merged.
TypeOK ==
    /\ peers \in Registries
    /\ hb \in {"idle", "sweep", "ping"}
    /\ sweeping \subseteq Others
    /\ pinging \subseteq [id : Others, grpc : Addr]
    /\ retiring \subseteq Others
    /\ purging \in Others \cup {Nobody}
    /\ leaving \subseteq LeaveCalls
    /\ providers \subseteq PeerId
    /\ boot \in {"idle", "fetch", "merge", "join", "learn"}
    /\ merging \subseteq OtherEntry
    /\ dialed \in Addr \cup {NoAddr}

\* The registry never holds more than MaxNetworkPeers entries, whatever the
\* loops, the handlers and the evictions of Upsert do (README: "Enforces a
\* hard cap of 20 active peers").
Capacity == Cardinality(Known(peers)) <= MaxNetworkPeers

\* No two entries of the registry carry the same address: a node that comes
\* back under a new id has replaced its old entry (the prune of Upsert).
NoSharedAddress ==
    \A p, q \in Known(peers) : p # q => ~SameHost(peers[p], peers[q])

\* The node is always in its own registry and Active: no sweep, cleanup or
\* eviction, no prune and no learned entry takes it out or retires it.  That
\* entry need not be at the endpoint it advertises: nothing keeps Learn from
\* overwriting it with a former one.
SelfIntact == Self \in Known(peers) /\ peers[Self].state = Active

\* A node has come to the address at which the registry held p.
Replaced(p) ==
    \E q \in Known(peers') \ {p} :
        SameHost(peers[p], peers'[q]) /\ peers'[q].age = 0

\* p had Left, the registry was full, and its slot has gone to a newcomer.
MadeRoom(p) ==
    /\ peers[p].state = Left
    /\ Cardinality(Known(peers)) = MaxNetworkPeers
    /\ Known(peers') \ Known(peers) # {}

\* An entry disappears only because its peer has left through LeaveNetwork,
\* another node has come to its address, or it had Left and a newcomer has
\* its slot.  An Upsert that finds no room has pruned nothing, and none has
\* both pruned and evicted: both would take a registry beyond its maximum.
DropsJustified ==
    [][/\ \A p \in Known(peers) \ Known(peers') :
             p \in leaving \ leaving' \/ Replaced(p) \/ MadeRoom(p)
       /\ \A p, q \in Known(peers) \ Known(peers') : p = q]_vars

\* Every endpoint an entry may carry.
AllEndpoints == UNION {MayServeAt[p] : p \in PeerId}

\* A deployment in which an address belongs to one endpoint: what
\* NoSharedAddress needs.  Different ids may still come up at one endpoint.
PairedEndpoints == \A e, f \in AllEndpoints : SameHost(e, f) => e = f

\* A deployment in which nobody advertises an address that this node has or
\* has had, and nobody calls LeaveNetwork for it: what SelfIntact needs.
SelfUnshared ==
    /\ \A own \in MayServeAt[Self], p \in Others :
          \A ep \in MayServeAt[p] : ~SameHost(own, ep)
    /\ Self \notin LeaveCalls
=============================================================================
