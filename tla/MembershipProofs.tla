-------------------------- MODULE MembershipProofs --------------------------
(***************************************************************************)
(* Proofs about Membership, for any set of peers, any addresses and        *)
(* timeouts and any maximum; and that Neighbourhood, the node among actual *)
(* neighbours, implements it, so that they hold there too.                 *)
(***************************************************************************)
EXTENDS Neighbourhood, RegistryProofs

-----------------------------------------------------------------------------
(* Type correctness *)

\* Entries that other nodes hand out carry an id and an endpoint of theirs.
LEMMA EntryType ==
    /\ \A e \in OtherEntry : /\ e.id \in Others /\ e.ep \in Endpoint
                             /\ e.ep \in MayServeAt[e.id]
                             /\ e.ep \in AllEndpoints
    /\ SelfEntry.id = Self /\ SelfEntry.ep = SelfEndpoint
    /\ Self \in PeerId /\ SelfEndpoint \in Endpoint /\ SelfEndpoint \in AllEndpoints
    /\ SelfEntry \in EntriesOf(Self)
    /\ \A e \in EntriesOf(Self) : /\ e.id = Self /\ e.ep \in MayServeAt[Self]
                                  /\ e.ep \in Endpoint /\ e.ep \in AllEndpoints
    /\ \A e \in AnyEntry : e.id # Self => e \in OtherEntry
  <1>1. ASSUME NEW e \in OtherEntry
        PROVE  /\ e.id \in Others /\ e.ep \in Endpoint
               /\ e.ep \in MayServeAt[e.id] /\ e.ep \in AllEndpoints
    <2>1. PICK p \in Others : \E ep \in MayServeAt[p] : e = [id |-> p, ep |-> ep]
      BY DEF OtherEntry, EntriesOf
    <2>2. p \in PeerId /\ MayServeAt[p] \subseteq Endpoint
      BY MembershipAssumption DEF Others
    <2> QED
      BY <2>1, <2>2 DEF AllEndpoints
  <1>2. /\ Self \in PeerId /\ SelfEndpoint \in MayServeAt[Self]
        /\ MayServeAt[Self] \subseteq Endpoint /\ MayServeAt[Self] \subseteq AllEndpoints
    BY MembershipAssumption DEF AllEndpoints
  <1>3. SelfEntry \in EntriesOf(Self) /\ SelfEntry.id = Self /\ SelfEntry.ep = SelfEndpoint
    BY <1>2 DEF SelfEntry, EntriesOf
  <1>4. \A e \in EntriesOf(Self) : e.id = Self /\ e.ep \in MayServeAt[Self]
    BY DEF EntriesOf
  <1> QED
    BY <1>1, <1>2, <1>3, <1>4 DEF AnyEntry

\* Whom the node may upsert, and whom it may mark.
Upserted == AnyEntry

Marked == Others \cup LeaveCalls

LeaveRemoves == \E p \in LeaveCalls : LeaveRemove(p)

\* They are entries and ids.
LEMMA InputTypes == Upserted \in SUBSET Entries /\ Marked \in SUBSET PeerId
  <1>1. Upserted \subseteq Entries
    <2>1. ASSUME NEW p \in PeerId PROVE EntriesOf(p) \subseteq Entries
      BY MembershipAssumption DEF EntriesOf, Entries
    <2> QED
      BY <2>1, EntryType DEF Upserted, AnyEntry, OtherEntry, Others
  <1> QED
    BY <1>1, MembershipAssumption DEF Marked, Others

\* Every step of the node changes its registry in one of the ways of Change,
\* or is the Remove of a Leave.
LEMMA StepChanges ==
    ASSUME TypeOK, [Next]_vars
    PROVE  Change(Upserted, Marked, peers, peers') \/ LeaveRemoves
  <1> DEFINE Changes == Change(Upserted, Marked, peers, peers')
  <1> USE DEF State, Upserted, Marked, LeaveRemoves
  <1>1. CASE HeartbeatLoop
    <2>1. CASE HeartbeatTick
      BY <2>1, MembershipAssumption DEF HeartbeatTick, Change
    <2>2. ASSUME NEW p \in sweeping, SweepMark(p) PROVE Changes
      BY <2>2 DEF SweepMark, Change, TypeOK
    <2>3. CASE PingRound
      BY <2>3 DEF PingRound, Change
    <2>4. ASSUME NEW t \in pinging, PingOk(t) \/ PingFail(t)
          PROVE  Changes
      BY <2>4 DEF PingOk, PingFail, Change, TypeOK, Others
    <2>5. CASE HeartbeatDone
      BY <2>5 DEF HeartbeatDone, Change
    <2> QED
      BY <1>1, <2>1, <2>2, <2>3, <2>4, <2>5 DEF HeartbeatLoop
  <1>2. CASE CleanupLoop
    <2>1. CASE CleanupTick
      BY <2>1 DEF CleanupTick, Change
    <2>2. ASSUME NEW p \in retiring, CleanupMark(p) PROVE Changes
      BY <2>2 DEF CleanupMark, Change, TypeOK
    <2>3. CASE CleanupPurge
      BY <2>3 DEF CleanupPurge, Change
    <2> QED
      BY <1>2, <2>1, <2>2, <2>3 DEF CleanupLoop
  <1>3. CASE BootstrapLoop
    <2>1. CASE RegisterSelf \/ FetchFail \/ JoinFail \/ JoinOk \/ LearnDone \/ MergeDone
      BY <2>1 DEF RegisterSelf, FetchFail, JoinFail, JoinOk, LearnDone, MergeDone, Change
    <2>2. ASSUME NEW list \in PeerList, FetchList(list)
          PROVE  Changes
      BY <2>2 DEF FetchList, Change
    <2>3. ASSUME NEW e \in merging, MergeAccepted(e) \/ MergeRefused(e)
          PROVE  Changes
      BY <2>3 DEF MergeAccepted, MergeRefused, Change, Upsert, TypeOK, AnyEntry
    <2>4. ASSUME NEW e \in AnyEntry, Learn(e)
          PROVE  Changes
      BY <2>4 DEF Learn, Change
    <2> QED
      BY <1>3, <2>1, <2>2, <2>3, <2>4 DEF BootstrapLoop
  <1>4. CASE Handlers
    <2>1. ASSUME NEW e \in OtherEntry \cup {SelfEntry}, JoinNetwork(e) PROVE Changes
      BY <2>1, EntryType DEF JoinNetwork, Change, AnyEntry
    <2>2. ASSUME NEW p \in PeerId, Ping(p) PROVE Changes
      BY <2>2 DEF Ping, Change
    <2>3. ASSUME NEW p \in LeaveCalls, LeaveMark(p) PROVE Changes
      BY <2>3 DEF LeaveMark, Change
    <2>4. ASSUME NEW p \in LeaveCalls, LeaveRemove(p) PROVE LeaveRemoves
      BY <2>4
    <2>5. ASSUME NEW p \in Announcers, AddProvider(p) PROVE Changes
      BY <2>5 DEF AddProvider, Change
    <2> QED
      BY <1>4, <2>1, <2>2, <2>3, <2>4, <2>5 DEF Handlers
  <1>5. CASE Tick
    BY <1>5 DEF Tick, Change
  <1>6. CASE UNCHANGED vars
    BY <1>6 DEF vars, Change
  <1> QED
    BY <1>1, <1>2, <1>3, <1>4, <1>5, <1>6 DEF Next

\* Either way a registry is left, and a bounded one bounded.
LEMMA StepBounded ==
    ASSUME TypeOK, [Next]_vars
    PROVE  /\ peers' \in Registries
           /\ BoundedRegistry(peers) => BoundedRegistry(peers')
  <1>1. CASE Change(Upserted, Marked, peers, peers')
    BY <1>1, InputTypes, ChangeBounded DEF TypeOK
  <1>2. ASSUME NEW p \in LeaveCalls, LeaveRemove(p)
        PROVE  /\ peers' \in Registries
               /\ BoundedRegistry(peers) => BoundedRegistry(peers')
    <2>1. peers' = Without(peers, p) /\ p \in PeerId /\ peers \in Registries
      BY <1>2, MembershipAssumption DEF LeaveRemove, Remove, TypeOK
    <2>2. peers' \in Registries /\ Known(peers') \subseteq Known(peers)
      BY <2>1, WithoutType
    <2> QED
      BY <2>2, FewerEntries
  <1> QED
    BY <1>1, <1>2, StepChanges DEF LeaveRemoves

\* The initial state is well typed.
LEMMA TypeInit == Init => TypeOK
  <1> SUFFICES ASSUME Init PROVE TypeOK
    OBVIOUS
  <1>1. Fresh(SelfEndpoint) \in Record
    BY FreshType, EntryType
  <1>2. peers \in Registries
    BY <1>1 DEF Init, Registries
  <1> QED
    BY <1>2 DEF Init, TypeOK

\* Every variable but the registry, action by action.
LEMMA TypeStep == TypeOK /\ [Next]_vars => TypeOK'
  <1> SUFFICES ASSUME TypeOK, [Next]_vars PROVE TypeOK'
    OBVIOUS
  <1>0. peers' \in Registries
    BY StepBounded
  <1> USE <1>0 DEF TypeOK, hbVars, gcVars, bootVars
  <1>1. CASE HeartbeatLoop
    <2>1. CASE HeartbeatTick
      BY <2>1 DEF HeartbeatTick, SweepDue, Known, Others
    <2>2. ASSUME NEW p \in sweeping, SweepMark(p) PROVE TypeOK'
      BY <2>2 DEF SweepMark
    <2>3. CASE PingRound
      <3>1. ASSUME NEW p \in Known(peers) \ {Self}, peers[p].grpc # NoAddr
            PROVE  [id |-> p, grpc |-> peers[p].grpc] \in [id : Others, grpc : Addr]
        <4>1. p \in Others /\ peers[p] \in Record
          BY KnownRecord DEF Others
        <4> QED
          BY <3>1, <4>1 DEF Record
      <3>2. PingDue(peers) \subseteq [id : Others, grpc : Addr]
        BY <3>1 DEF PingDue
      <3> QED
        BY <2>3, <3>2 DEF PingRound
    <2>4. ASSUME NEW t \in pinging, PingOk(t) \/ PingFail(t) PROVE TypeOK'
      BY <2>4 DEF PingOk, PingFail
    <2>5. CASE HeartbeatDone
      BY <2>5 DEF HeartbeatDone
    <2> QED
      BY <1>1, <2>1, <2>2, <2>3, <2>4, <2>5 DEF HeartbeatLoop
  <1>2. CASE CleanupLoop
    <2>1. CASE CleanupTick
      BY <2>1 DEF CleanupTick, RetireDue, Known, Others
    <2>2. ASSUME NEW p \in retiring, CleanupMark(p) PROVE TypeOK'
      BY <2>2 DEF CleanupMark
    <2>3. CASE CleanupPurge
      BY <2>3 DEF CleanupPurge
    <2> QED
      BY <1>2, <2>1, <2>2, <2>3 DEF CleanupLoop
  <1>3. CASE BootstrapLoop
    <2>1. CASE RegisterSelf
      BY <2>1 DEF RegisterSelf
    <2>2. ASSUME NEW list \in PeerList, FetchList(list)
          PROVE  TypeOK'
      <3>1. {e \in list : e.id # Self} \subseteq OtherEntry
        BY EntryType DEF PeerList, AnyEntry
      <3> QED
        BY <2>2, <3>1 DEF FetchList
    <2>3. CASE FetchFail
      BY <2>3 DEF FetchFail
    <2>4. ASSUME NEW e \in merging, MergeAccepted(e) PROVE TypeOK'
      <3>1. e.ep.grpc \in Addr \cup {NoAddr}
        BY EntryType DEF Endpoint
      <3> QED
        BY <2>4, <3>1 DEF MergeAccepted
    <2>5. ASSUME NEW e \in merging, MergeRefused(e) PROVE TypeOK'
      BY <2>5 DEF MergeRefused
    <2>6. CASE JoinFail \/ JoinOk
      BY <2>6 DEF JoinFail, JoinOk
    <2>7. ASSUME NEW e \in AnyEntry, Learn(e) PROVE TypeOK'
      BY <2>7 DEF Learn
    <2>8. CASE LearnDone \/ MergeDone
      BY <2>8 DEF LearnDone, MergeDone
    <2> QED
      BY <1>3, <2>1, <2>2, <2>3, <2>4, <2>5, <2>6, <2>7, <2>8 DEF BootstrapLoop
  <1>4. CASE Handlers
    <2>1. ASSUME NEW e \in OtherEntry \cup {SelfEntry}, JoinNetwork(e) PROVE TypeOK'
      BY <2>1 DEF JoinNetwork
    <2>2. ASSUME NEW p \in PeerId, Ping(p) PROVE TypeOK'
      BY <2>2 DEF Ping
    <2>3. ASSUME NEW p \in LeaveCalls, LeaveMark(p) PROVE TypeOK'
      BY <2>3 DEF LeaveMark
    <2>4. ASSUME NEW p \in LeaveCalls, LeaveRemove(p) PROVE TypeOK'
      BY <2>4 DEF LeaveRemove
    <2>5. ASSUME NEW p \in Announcers, AddProvider(p) PROVE TypeOK'
      BY <2>5, MembershipAssumption DEF AddProvider
    <2> QED
      BY <1>4, <2>1, <2>2, <2>3, <2>4, <2>5 DEF Handlers
  <1>5. CASE Tick
    BY <1>5 DEF Tick
  <1>6. CASE UNCHANGED vars
    BY <1>6 DEF vars
  <1> QED
    BY <1>1, <1>2, <1>3, <1>4, <1>5, <1>6 DEF Next

\* Type correctness of the node's membership state.
THEOREM TypeCorrect == Spec => []TypeOK
  <1> QED
    BY TypeInit, TypeStep, PTL DEF Spec

-----------------------------------------------------------------------------
(* The registry is bounded *)

\* At the start the node itself is the only entry.
LEMMA InitBounded == Init => BoundedRegistry(peers)
  <1> SUFFICES ASSUME Init PROVE BoundedRegistry(peers)
    OBVIOUS
  <1>1. peers \in Registries
    BY TypeInit DEF TypeOK
  <1>2. Fresh(SelfEndpoint) # NoRecord
    BY FreshType, EntryType, RegistryAssumption
  <1>3. Known(peers) = {Self}
    BY <1>2, EntryType DEF Init, Known
  <1> QED
    BY <1>1, <1>3, FS_Singleton, RegistryAssumption DEF BoundedRegistry

\* Whatever the loops and the handlers do in whatever order, the registry
\* holds at most MaxNetworkPeers entries.
THEOREM CapacityHolds == Spec => []Capacity
  <1>1. Init => BoundedRegistry(peers)
    BY InitBounded
  <1>2. TypeOK /\ BoundedRegistry(peers) /\ [Next]_vars => BoundedRegistry(peers)'
    BY StepBounded
  <1>3. BoundedRegistry(peers) => Capacity
    BY DEF BoundedRegistry, Capacity
  <1> QED
    BY <1>1, <1>2, <1>3, TypeCorrect, PTL DEF Spec
-----------------------------------------------------------------------------
(* The node stays in its own registry *)

\* The endpoints at which other nodes may hold this one.
Own == MayServeAt[Self]

\* Where SelfUnshared holds, an entry of another node has none of this node's
\* addresses, and the entries of this node have only those.
LEMMA SelfUntouched ==
    ASSUME SelfUnshared
    PROVE  Unshared(Upserted, Marked, Self, Own) /\ Own \in SUBSET Endpoint
  <1>1. Self \notin Marked
    BY DEF SelfUnshared, Marked, Others
  <1>2. ASSUME NEW e \in AnyEntry, e.id = Self PROVE e.ep \in Own
    BY <1>2, EntryType DEF AnyEntry, Own, Others
  <1>3. ASSUME NEW e \in AnyEntry, e.id # Self, NEW own \in Own
        PROVE  ~SameHost(own, e.ep)
    BY <1>3, EntryType DEF SelfUnshared, Own
  <1> QED
    BY <1>1, <1>2, <1>3, MembershipAssumption DEF Unshared, Upserted, Own

\* The Remove of a Leave does not concern it either.
LEMMA StepKeepsSelf ==
    ASSUME SelfUnshared, TypeOK, [Next]_vars, HasOwn(peers, Self, Own)
    PROVE  HasOwn(peers', Self, Own)
  <1>1. CASE Change(Upserted, Marked, peers, peers')
    BY <1>1, InputTypes, SelfUntouched, EntryType, ChangeKeepsOwn
  <1>2. ASSUME NEW p \in LeaveCalls, LeaveRemove(p)
        PROVE  HasOwn(peers', Self, Own)
    <2>1. /\ peers' = Without(peers, p) /\ p \in PeerId /\ p # Self
          /\ peers \in Registries
      BY <1>2, MembershipAssumption DEF LeaveRemove, Remove, TypeOK, SelfUnshared
    <2>2. /\ peers' \in Registries /\ Self \in Known(peers')
          /\ peers'[Self] = peers[Self]
      BY <2>1, WithoutType, EntryType DEF HasOwn
    <2> QED
      BY <2>2 DEF HasOwn
  <1> QED
    BY <1>1, <1>2, StepChanges DEF LeaveRemoves

\* Where nobody advertises an address that the node has or has had and nobody
\* calls LeaveNetwork for it, no interleaving of sweeps, cleanups, evictions,
\* prunes and learned entries takes it out of its own registry or retires it,
\* although learned entries may move its own entry to a former address.  (The
\* invariant says where that entry is: an Upsert prunes by address.)
THEOREM SelfIntactHolds ==
    ASSUME SelfUnshared
    PROVE  Spec => []SelfIntact
  <1>1. Init => HasOwn(peers, Self, Own)
    <2> SUFFICES ASSUME Init PROVE HasOwn(peers, Self, Own)
      OBVIOUS
    <2>1. peers \in Registries
      BY TypeInit DEF TypeOK
    <2>2. Fresh(SelfEndpoint) # NoRecord
      BY FreshType, EntryType, RegistryAssumption
    <2>3. Self \in Known(peers) /\ peers[Self] = Fresh(SelfEndpoint)
      BY <2>2, EntryType DEF Init, Known
    <2> QED
      BY <2>1, <2>3, EntryType, MembershipAssumption
         DEF HasOwn, EndpointIn, Fresh, Endpoint, Own
  <1>2. TypeOK /\ HasOwn(peers, Self, Own) /\ [Next]_vars => HasOwn(peers, Self, Own)'
    BY StepKeepsSelf DEF Own
  <1>3. HasOwn(peers, Self, Own) => SelfIntact
    BY DEF HasOwn, SelfIntact
  <1> QED
    BY <1>1, <1>2, <1>3, TypeCorrect, PTL DEF Spec

-----------------------------------------------------------------------------
(* No two entries share an address *)

\* Whatever a step does, entries at distinct addresses stay at distinct ones.
LEMMA StepApart ==
    ASSUME PairedEndpoints, TypeOK, [Next]_vars, ApartRegistry(peers, AllEndpoints)
    PROVE  ApartRegistry(peers', AllEndpoints)
  <1>1. /\ AllEndpoints \in SUBSET Endpoint
        /\ Upserted \in SUBSET [id : PeerId, ep : AllEndpoints]
        /\ Paired(AllEndpoints)
    <2>1. AllEndpoints \subseteq Endpoint
      BY MembershipAssumption DEF AllEndpoints
    <2>2. \A e \in Upserted : e \in Entries /\ e.ep \in AllEndpoints
      BY InputTypes, EntryType DEF Upserted, AnyEntry
    <2> QED
      BY <2>1, <2>2 DEF Entries, PairedEndpoints, Paired
  <1>2. CASE Change(Upserted, Marked, peers, peers')
    BY <1>1, <1>2, InputTypes, ChangeApart
  <1>3. ASSUME NEW p \in LeaveCalls, LeaveRemove(p)
        PROVE  ApartRegistry(peers', AllEndpoints)
    <2>1. peers' = Without(peers, p) /\ p \in PeerId /\ peers \in Registries
      BY <1>3, MembershipAssumption DEF LeaveRemove, Remove, TypeOK
    <2>2. /\ peers' \in Registries
          /\ \A q \in Known(peers') : q \in Known(peers) /\ peers'[q] = peers[q]
      BY <2>1, WithoutType DEF Known
    <2> QED
      BY <2>2 DEF ApartRegistry
  <1> QED
    BY <1>2, <1>3, StepChanges DEF LeaveRemoves

\* Where an address belongs to one endpoint, pruning one entry per Upsert is
\* enough: no two entries ever share an address, however nodes move between
\* the endpoints and come back under new ids.
THEOREM NoSharedAddressHolds ==
    ASSUME PairedEndpoints
    PROVE  Spec => []NoSharedAddress
  <1>1. Init => ApartRegistry(peers, AllEndpoints)
    <2> SUFFICES ASSUME Init PROVE ApartRegistry(peers, AllEndpoints)
      OBVIOUS
    <2>1. peers \in Registries
      BY TypeInit DEF TypeOK
    <2>2. \A p \in Known(peers) : p = Self /\ peers[p] = Fresh(SelfEndpoint)
      BY DEF Init, Known
    <2>3. EndpointIn(Fresh(SelfEndpoint)) = SelfEndpoint
      BY EntryType DEF EndpointIn, Fresh, Endpoint
    <2> QED
      BY <2>1, <2>2, <2>3, EntryType DEF ApartRegistry
  <1>2. TypeOK /\ ApartRegistry(peers, AllEndpoints) /\ [Next]_vars => ApartRegistry(peers, AllEndpoints)'
    BY StepApart
  <1>3. ApartRegistry(peers, AllEndpoints) => NoSharedAddress
    BY DEF ApartRegistry, NoSharedAddress
  <1> QED
    BY <1>1, <1>2, <1>3, TypeCorrect, PTL DEF Spec

-----------------------------------------------------------------------------
(* Why entries disappear *)

\* No entry of the registry disappears but for a reason: LeaveNetwork, another
\* node at its address, or a newcomer that needs the slot of one that has Left
\* (Upsert, Manager.Leave).  It takes the bound of the registry to see it.
THEOREM DropsJustifiedHolds == Spec => DropsJustified
  <1>1. Init => BoundedRegistry(peers)
    BY InitBounded
  <1>2. TypeOK /\ BoundedRegistry(peers) /\ [Next]_vars => BoundedRegistry(peers)'
    BY StepBounded
  <1>3. ASSUME TypeOK, BoundedRegistry(peers), [Next]_vars
        PROVE  [/\ \A p \in Known(peers) \ Known(peers') :
                      p \in leaving \ leaving' \/ Replaced(p) \/ MadeRoom(p)
                /\ \A p, q \in Known(peers) \ Known(peers') : p = q]_vars
    <2>1. CASE Change(Upserted, Marked, peers, peers')
      <3>1. ASSUME NEW p \in Known(peers) \ Known(peers')
            PROVE  /\ Known(peers) \ Known(peers') = {p}
                   /\ Replaced(p) \/ MadeRoom(p)
        BY <1>3, <2>1, <3>1, InputTypes, ChangeDrops DEF Replaced, MadeRoom
      <3> QED
        BY <3>1
    <2>2. ASSUME NEW p \in LeaveCalls, LeaveRemove(p)
          PROVE  /\ Known(peers) \ Known(peers') \subseteq {p}
                 /\ p \in leaving \ leaving'
      <3>1. /\ peers' = Without(peers, p) /\ p \in PeerId /\ peers \in Registries
            /\ p \in leaving /\ leaving' = leaving \ {p}
        BY <1>3, <2>2, MembershipAssumption DEF LeaveRemove, Remove, TypeOK
      <3> QED
        BY <3>1, WithoutType
    <2> QED
      BY <1>3, <2>1, <2>2, StepChanges DEF LeaveRemoves
  <1> QED
    BY <1>1, <1>2, <1>3, TypeCorrect, PTL DEF Spec, DropsJustified

-----------------------------------------------------------------------------
(* Neighbourhood implements Membership *)

\* The inputs the surroundings have for the node are ones Membership allows:
\* who serves does so where it may, the bootstrap list is a PeerList, and
\* what the others hand out are entries of other nodes.
SurroundingsOK ==
    /\ serving \in [Others -> Endpoint \cup {NoRecord}]
    /\ \A p \in Others : serving[p] # NoRecord => serving[p] \in MayServeAt[p]
    /\ listed \in PeerList
    /\ IsFiniteSet(listed)
    /\ rumoured \subseteq OtherEntry

\* A node that serves has an entry to be registered, learned and joined by.
LEMMA ServingEntry ==
    ASSUME SurroundingsOK, NEW p \in Others, serving[p] # NoRecord
    PROVE  [id |-> p, ep |-> serving[p]] \in OtherEntry
  BY DEF SurroundingsOK, OtherEntry, EntriesOf

\* An element more or less in a finite set.
LEMMA OneMore ==
    ASSUME NEW S, IsFiniteSet(S), NEW e
    PROVE  /\ IsFiniteSet(S \cup {e})
           /\ Cardinality(S \cup {e}) \in Nat
           /\ Cardinality(S \cup {e}) <= Cardinality(S) + 1
  <1>1. IsFiniteSet(S \cup {e})
        /\ (Cardinality(S \cup {e}) = Cardinality(S)
            \/ Cardinality(S \cup {e}) = Cardinality(S) + 1)
    BY FS_AddElement
  <1>2. Cardinality(S) \in Nat /\ Cardinality(S \cup {e}) \in Nat
    BY <1>1, FS_CardinalityType
  <1> QED
    BY <1>1, <1>2

\* The server counts its entries as everybody does.
LEMMA SameCardinality == \A S : Server!Cardinality(S) = Cardinality(S)
  BY DEF Server!Cardinality, Cardinality

\* Registering an entry keeps the list within its maximum: it takes the place
\* of one, or there is room.
LEMMA RegisteredList ==
    ASSUME SurroundingsOK, NEW e \in Upserted, NEW list \in Server!Registered(listed, e)
    PROVE  list \in PeerList /\ IsFiniteSet(list)
  <1>1. /\ listed \subseteq Upserted /\ IsFiniteSet(listed)
        /\ Cardinality(listed) <= MaxListed /\ Cardinality(listed) \in Nat
        /\ MaxListed \in Nat
    BY FS_CardinalityType, MembershipAssumption DEF SurroundingsOK, PeerList, Upserted
  <1>2. CASE list = listed
    BY <1>2 DEF SurroundingsOK
  <1>3. CASE list = listed \cup {e} /\ Cardinality(listed) < MaxListed
    <2>1. /\ IsFiniteSet(list) /\ Cardinality(list) \in Nat
          /\ Cardinality(list) <= Cardinality(listed) + 1
      BY <1>1, <1>3, OneMore
    <2>2. list \subseteq Upserted
      BY <1>1, <1>3
    <2> QED
      BY <1>1, <1>3, <2>1, <2>2 DEF PeerList, Upserted
  <1>4. ASSUME NEW f \in listed, list = (listed \ {f}) \cup {e}
        PROVE  list \in PeerList /\ IsFiniteSet(list)
    <2>1. IsFiniteSet(listed \ {f}) /\ Cardinality(listed \ {f}) = Cardinality(listed) - 1
      BY <1>1, FS_RemoveElement
    <2>2. /\ IsFiniteSet(list) /\ Cardinality(list) \in Nat
          /\ Cardinality(list) <= Cardinality(listed \ {f}) + 1
      BY <1>4, <2>1, OneMore
    <2>3. list \subseteq Upserted
      BY <1>1, <1>4
    <2> QED
      BY <1>1, <2>1, <2>2, <2>3 DEF PeerList, Upserted
  <1> QED
    BY <1>2, <1>3, <1>4, SameCardinality DEF Server!Registered

\* The list also stays one when it loses entries, or all of them.
LEMMA FewerListed ==
    ASSUME SurroundingsOK, NEW list \in SUBSET listed
    PROVE  list \in PeerList /\ IsFiniteSet(list)
  <1>1. /\ listed \subseteq AnyEntry /\ IsFiniteSet(listed)
        /\ Cardinality(listed) <= MaxListed /\ MaxListed \in Nat
    BY MembershipAssumption DEF SurroundingsOK, PeerList
  <1>2. IsFiniteSet(list) /\ Cardinality(list) <= Cardinality(listed)
    BY <1>1, FS_Subset
  <1>3. Cardinality(list) \in Nat /\ Cardinality(listed) \in Nat
    BY <1>1, <1>2, FS_CardinalityType
  <1> QED
    BY <1>1, <1>2, <1>3 DEF PeerList

\* At the start nobody serves and nothing is listed.
LEMMA SurroundingsInit == NInit => SurroundingsOK
  <1> SUFFICES ASSUME NInit PROVE SurroundingsOK
    OBVIOUS
  <1>1. serving = [p \in Others |-> NoRecord] /\ listed = {} /\ rumoured = {}
    BY DEF NInit
  <1>2. IsFiniteSet({}) /\ Cardinality({}) = 0
    BY FS_EmptySet
  <1> QED
    BY <1>1, <1>2, MembershipAssumption DEF SurroundingsOK, PeerList

\* The steps of the surroundings themselves.
LEMMA SurroundingsStep ==
    ASSUME SurroundingsOK, Surroundings
    PROVE  SurroundingsOK' /\ UNCHANGED vars
  <1>1. ASSUME NEW p \in Others, Start(p) PROVE SurroundingsOK' /\ UNCHANGED vars
    <2>1. PICK ep \in MayServeAt[p] :
              /\ serving' = [serving EXCEPT ![p] = ep]
              /\ rumoured' = rumoured \cup {[id |-> p, ep |-> ep]}
      BY <1>1 DEF Start
    <2>2. [id |-> p, ep |-> ep] \in OtherEntry
      BY DEF OtherEntry, EntriesOf
    <2>3. listed' = listed /\ UNCHANGED vars
      BY <1>1 DEF Start
    <2>4. ep \in Endpoint
      BY MembershipAssumption DEF Others
    <2> QED
      BY <2>1, <2>2, <2>3, <2>4 DEF SurroundingsOK
  <1>2. ASSUME NEW p \in Others, Crash(p) \/ Forget(p)
        PROVE  SurroundingsOK' /\ UNCHANGED vars
    BY <1>2 DEF Crash, Forget, SurroundingsOK
  <1>3. ASSUME NEW p \in Others, RegisterOther(p)
        PROVE  SurroundingsOK' /\ UNCHANGED vars
    <2>1. [id |-> p, ep |-> serving[p]] \in Upserted
      BY <1>3, ServingEntry DEF RegisterOther, Upserted, AnyEntry
    <2>2. listed' \in PeerList /\ IsFiniteSet(listed')
      BY <1>3, <2>1, RegisteredList DEF RegisterOther, Server!Register
    <2> QED
      BY <1>3, <2>2 DEF RegisterOther, SurroundingsOK
  <1>4. CASE Delist
    <2>1. listed' \in SUBSET listed
      BY <1>4 DEF Delist, Server!Delist
    <2> QED
      BY <1>4, <2>1, FewerListed DEF Delist, SurroundingsOK
  <1> QED
    BY <1>1, <1>2, <1>3, <1>4 DEF Surroundings

\* Every step of the node among its neighbours is a step of Membership, or
\* none of the node's, and leaves the surroundings as they should be.
LEMMA NeighbourhoodStep ==
    ASSUME SurroundingsOK, [NNext]_allVars
    PROVE  [Next]_vars /\ SurroundingsOK'
  <1>1. CASE NHeartbeatLoop
    <2>1. HeartbeatLoop /\ UNCHANGED envVars
      BY <1>1 DEF NHeartbeatLoop, HeartbeatLoop
    <2> QED
      BY <2>1 DEF Next, SurroundingsOK, envVars
  <1>2. CASE NCleanupLoop
    BY <1>2 DEF NCleanupLoop, Next, SurroundingsOK, envVars
  <1>3. CASE NBootstrapLoop
    <2>1. CASE NRegisterSelf
      <3>1. listed' \in PeerList /\ IsFiniteSet(listed')
        BY <2>1, EntryType, RegisteredList
           DEF NRegisterSelf, Server!Register, Upserted, AnyEntry, SurroundingsOK
      <3> QED
        BY <2>1, <3>1 DEF NRegisterSelf, BootstrapLoop, Next, SurroundingsOK
    <2>2. CASE ~NRegisterSelf
      <3>1. UNCHANGED envVars /\ BootstrapLoop
        BY <1>3, <2>2 DEF NBootstrapLoop, BootstrapLoop, SurroundingsOK, AnyEntry
      <3> QED
        BY <3>1 DEF Next, SurroundingsOK, envVars
    <2> QED
      BY <2>1, <2>2
  <1>4. CASE NHandlers
    <2>1. Handlers /\ UNCHANGED envVars
      <3>1. ASSUME NEW p \in Others, NJoinNetwork(p)
            PROVE  Handlers /\ UNCHANGED envVars
        <4>1. [id |-> p, ep |-> serving[p]] \in OtherEntry \cup {SelfEntry}
          BY <3>1, ServingEntry DEF NJoinNetwork
        <4> QED
          BY <3>1, <4>1 DEF NJoinNetwork, Handlers
      <3> QED
        BY <1>4, <3>1 DEF NHandlers, Handlers, Others
    <2> QED
      BY <2>1 DEF Next, SurroundingsOK, envVars
  <1>5. CASE Tick /\ UNCHANGED envVars
    BY <1>5 DEF Next, SurroundingsOK, envVars
  <1>6. CASE Surroundings
    BY <1>6, SurroundingsStep
  <1>7. CASE UNCHANGED allVars
    BY <1>7 DEF allVars, envVars, SurroundingsOK
  <1> QED
    BY <1>1, <1>2, <1>3, <1>4, <1>5, <1>6, <1>7 DEF NNext

\* The node among its neighbours implements the node in open surroundings:
\* no list, reply, caller, crash or restart of a neighbour gives it an input
\* that Membership leaves out.  So every theorem about Spec above holds of it.
THEOREM NeighbourhoodImplements == FairSpec => Spec
  <1>1. NInit => Init
    BY DEF NInit
  <1>2. SurroundingsOK /\ [NNext]_allVars => [Next]_vars /\ SurroundingsOK'
    BY NeighbourhoodStep
  <1> QED
    BY <1>1, <1>2, SurroundingsInit, PTL DEF FairSpec, Spec

\* Among its neighbours, too, the registry stays within its maximum and loses
\* entries for a reason only, whatever they and the bootstrap server do.
THEOREM NeighbourhoodCapacity == FairSpec => []Capacity /\ DropsJustified
  BY NeighbourhoodImplements, CapacityHolds, DropsJustifiedHolds, PTL

\* Where an address belongs to one endpoint, neighbours that crash and come
\* back under another id never leave two entries at one address.
THEOREM NeighbourhoodApart ==
    ASSUME PairedEndpoints
    PROVE  FairSpec => []NoSharedAddress
  BY NeighbourhoodImplements, NoSharedAddressHolds, PTL

\* Where nobody else advertises an address the node has or has had, it stays
\* in its own registry and Active, whatever its neighbours hand out (its own
\* former addresses included), register and announce.
THEOREM NeighbourhoodSelf ==
    ASSUME SelfUnshared
    PROVE  FairSpec => []SelfIntact
  BY NeighbourhoodImplements, SelfIntactHolds, PTL

-----------------------------------------------------------------------------
(* Peers that are gone do not come back *)

\* The change neither adds p nor gives it another address nor makes it Active.
AwayFrom(reg, new, p) ==
    p \in Known(new) => /\ p \in Known(reg)
                        /\ new[p].grpc = reg[p].grpc
                        /\ new[p].state = Active => reg[p].state = Active

\* Whatever is done to a registry short of touching or upserting p.
LEMMA AwayKinds ==
    ASSUME NEW reg \in Registries, NEW p \in PeerId, NEW new,
           \/ new = reg
           \/ new = Aged(reg)
           \/ \E q \in PeerId \ {p} : new = Touch(reg, q)
           \/ \E q \in PeerId : \E s \in {Inactive, Left} : new = MarkState(reg, q, s)
           \/ \E q \in PeerId : new = Without(reg, q)
           \/ \E q \in PeerId \ {p} : \E ep \in Endpoint : new \in Upsert(reg, q, ep)
    PROVE  AwayFrom(reg, new, p)
  <1>1. ASSUME new = reg PROVE AwayFrom(reg, new, p)
    BY <1>1 DEF AwayFrom
  <1>2. ASSUME new = Aged(reg) PROVE AwayFrom(reg, new, p)
    BY <1>2, AgedEntries DEF AwayFrom, SameEntries
  <1>3. ASSUME NEW q \in PeerId \ {p}, new = Touch(reg, q) PROVE AwayFrom(reg, new, p)
    BY <1>3, TouchEntries DEF AwayFrom, SameEntries
  <1>4. ASSUME NEW q \in PeerId, NEW s \in {Inactive, Left}, new = MarkState(reg, q, s)
        PROVE  AwayFrom(reg, new, p)
    <2>1. s \in State /\ s # Active
      BY DEF State, Active, Inactive, Left
    <2>2. SameEntries(reg, new) /\ \A x \in Known(reg) \ {q} : new[x] = reg[x]
      BY <1>4, <2>1, MarkStateEntries
    <2>3. p \in Known(reg) /\ p = q => new[p].state = s
      <3> SUFFICES ASSUME p \in Known(reg), p = q PROVE new[p].state = s
        OBVIOUS
      <3>1. reg[p] \in Record /\ new = [reg EXCEPT ![p].state = s]
        BY <1>4, KnownRecord DEF MarkState
      <3> QED
        BY <3>1 DEF Record, Registries
    <2> QED
      BY <2>1, <2>2, <2>3 DEF AwayFrom, SameEntries
  <1>5. ASSUME NEW q \in PeerId, new = Without(reg, q) PROVE AwayFrom(reg, new, p)
    BY <1>5, WithoutType DEF AwayFrom
  <1>6. ASSUME NEW q \in PeerId \ {p}, NEW ep \in Endpoint, new \in Upsert(reg, q, ep)
        PROVE  AwayFrom(reg, new, p)
    BY <1>6, UpsertEntries DEF AwayFrom
  <1> QED
    BY <1>1, <1>2, <1>3, <1>4, <1>5, <1>6

\* What keeps a quiet peer quiet: nobody new answers, and neither the list,
\* the rumours, the fetched entries nor the pings come to concern it.
StillQuiet(p) ==
    /\ \A q \in Others : serving'[q] # NoRecord => serving'[q] = serving[q]
    /\ \A e \in listed' \cup rumoured' : e.id # p
    /\ \A e \in merging' : e.id # p
    /\ \A t \in pinging' : t.id = p => ~Answers(t.grpc)
    /\ p \in providers' => p \in providers
    /\ AwayFrom(peers, peers', p)

\* What the node does about a quiet peer leaves it quiet.
LEMMA NodeLeavesQuiet ==
    ASSUME TypeOK, SurroundingsOK, NEW p \in Others, Quiet(p),
           \/ NHeartbeatLoop \/ NCleanupLoop \/ NBootstrapLoop \/ NHandlers
           \/ Tick /\ UNCHANGED envVars
    PROVE  StillQuiet(p)
  <1>0. /\ peers \in Registries /\ p \in PeerId /\ p # Self
        /\ Self \in PeerId /\ SelfEndpoint \in Endpoint /\ LeaveCalls \subseteq PeerId
        /\ Inactive \in {Inactive, Left} /\ Left \in {Inactive, Left}
    BY MembershipAssumption DEF TypeOK, Others
  <1>1. /\ serving[p] = NoRecord
        /\ p \in Known(peers) => ~Answers(peers[p].grpc)
        /\ \A e \in listed \cup rumoured : e.id # p
        /\ \A e \in merging : e.id # p
        /\ \A t \in pinging : t.id = p => ~Answers(t.grpc)
    BY DEF Quiet, Gone, Dead
  <1> DEFINE Env == UNCHANGED <<serving, listed, rumoured>>
             Rest == UNCHANGED <<merging, pinging, providers>>
  <1>2. ASSUME Env, Rest, AwayFrom(peers, peers', p) PROVE StillQuiet(p)
    BY <1>1, <1>2 DEF StillQuiet
  <1>3. ASSUME NHeartbeatLoop PROVE StillQuiet(p)
    <2>0. Env
      BY <1>3 DEF NHeartbeatLoop, envVars
    <2>1. CASE HeartbeatTick
      <3>1. AwayFrom(peers, peers', p)
        BY <1>0, <2>1, AwayKinds DEF HeartbeatTick
      <3> QED
        BY <1>2, <2>0, <2>1, <3>1 DEF HeartbeatTick, bootVars
    <2>2. ASSUME NEW q \in sweeping, SweepMark(q) PROVE StillQuiet(p)
      <3>1. AwayFrom(peers, peers', p)
        BY <1>0, <2>2, AwayKinds DEF SweepMark, TypeOK, Others
      <3> QED
        BY <1>2, <2>0, <2>2, <3>1 DEF SweepMark, bootVars
    <2>3. CASE PingRound
      <3>1. \A t \in pinging' : t.id \in Known(peers) /\ t.grpc = peers[t.id].grpc
        BY <2>3 DEF PingRound, PingDue
      <3>2. AwayFrom(peers, peers', p)
        BY <1>0, <2>3, AwayKinds DEF PingRound
      <3> QED
        BY <1>1, <2>0, <2>3, <3>1, <3>2 DEF PingRound, bootVars, StillQuiet
    <2>4. ASSUME NEW t \in pinging, (Answers(t.grpc) /\ PingOk(t)) \/ PingFail(t)
          PROVE  StillQuiet(p)
      <3>1. t.id \in PeerId
        BY DEF TypeOK, Others
      <3>2. AwayFrom(peers, peers', p)
        <4>1. CASE Answers(t.grpc) /\ PingOk(t)
          <5>1. t.id \in PeerId \ {p} /\ peers' = Touch(peers, t.id)
            BY <1>1, <3>1, <4>1 DEF PingOk
          <5> QED
            BY <1>0, <5>1, AwayKinds
        <4>2. CASE PingFail(t)
          BY <1>0, <4>2, AwayKinds DEF PingFail
        <4> QED
          BY <2>4, <4>1, <4>2
      <3>3. pinging' \subseteq pinging /\ UNCHANGED <<merging, providers>>
        BY <2>4 DEF PingOk, PingFail, bootVars
      <3> QED
        BY <1>1, <2>0, <3>2, <3>3 DEF StillQuiet
    <2>5. CASE HeartbeatDone
      <3>1. AwayFrom(peers, peers', p)
        BY <1>0, <2>5, AwayKinds DEF HeartbeatDone
      <3> QED
        BY <1>2, <2>0, <2>5, <3>1 DEF HeartbeatDone, bootVars
    <2> QED
      BY <1>3, <2>1, <2>2, <2>3, <2>4, <2>5 DEF NHeartbeatLoop
  <1>4. ASSUME NCleanupLoop PROVE StillQuiet(p)
    <2>0. Env
      BY <1>4 DEF NCleanupLoop, envVars
    <2>1. AwayFrom(peers, peers', p)
      <3>1. ASSUME NEW q \in retiring, CleanupMark(q) PROVE AwayFrom(peers, peers', p)
        BY <1>0, <3>1, AwayKinds DEF CleanupMark, TypeOK, Others
      <3>2. ASSUME CleanupTick \/ CleanupPurge PROVE AwayFrom(peers, peers', p)
        BY <1>0, <3>2, AwayKinds DEF CleanupTick, CleanupPurge
      <3> QED
        BY <1>4, <3>1, <3>2 DEF NCleanupLoop, CleanupLoop
    <2>2. providers' \subseteq providers /\ UNCHANGED <<merging, pinging>>
      BY <1>4 DEF NCleanupLoop, CleanupLoop, CleanupTick, CleanupMark, CleanupPurge,
         bootVars, hbVars
    <2> QED
      BY <1>1, <2>0, <2>1, <2>2 DEF StillQuiet
  <1>5. ASSUME NBootstrapLoop PROVE StillQuiet(p)
    <2>1. CASE NRegisterSelf
      <3>1. \A e \in listed' : e \in listed \/ e.id = Self
        BY <2>1 DEF NRegisterSelf, Server!Register, Server!Registered, SelfEntry
      <3>2. AwayFrom(peers, peers', p)
        BY <1>0, <2>1, AwayKinds DEF NRegisterSelf, RegisterSelf
      <3> QED
        BY <1>0, <1>1, <2>1, <3>1, <3>2 DEF NRegisterSelf, RegisterSelf, hbVars, StillQuiet
    <2>2. ASSUME Env,
                 \/ FetchList(listed)
                 \/ FetchFail \/ JoinFail \/ JoinOk \/ LearnDone \/ MergeDone
          PROVE  StillQuiet(p)
      <3>1. UNCHANGED <<peers, pinging, providers>> /\ merging' \subseteq merging \cup listed
        BY <2>2 DEF FetchList, FetchFail, JoinFail, JoinOk, LearnDone, MergeDone, hbVars
      <3>2. AwayFrom(peers, peers', p)
        BY <1>0, <3>1, AwayKinds
      <3> QED
        BY <1>1, <2>2, <3>1, <3>2 DEF StillQuiet
    <2>3. ASSUME Env, NEW e \in merging, MergeAccepted(e) \/ MergeRefused(e)
          PROVE  StillQuiet(p)
      <3>1. e.id \in PeerId \ {p} /\ e.ep \in Endpoint
        BY <1>1, EntryType DEF TypeOK, Others
      <3>2. peers' \in Upsert(peers, e.id, e.ep)
        BY <2>3 DEF MergeAccepted, MergeRefused, Upsert
      <3>3. AwayFrom(peers, peers', p)
        BY <1>0, <3>1, <3>2, AwayKinds
      <3>4. merging' \subseteq merging /\ UNCHANGED <<pinging, providers>>
        BY <2>3 DEF MergeAccepted, MergeRefused, hbVars
      <3> QED
        BY <1>1, <2>3, <3>3, <3>4 DEF StillQuiet
    <2>4. ASSUME Env, NEW e \in rumoured \cup EntriesOf(Self), Learn(e) PROVE StillQuiet(p)
      <3>1. e.id \in PeerId \ {p} /\ e.ep \in Endpoint
        BY <1>0, <1>1, EntryType DEF SurroundingsOK, Others
      <3>2. AwayFrom(peers, peers', p)
        BY <1>0, <2>4, <3>1, AwayKinds DEF Learn
      <3> QED
        BY <1>2, <2>4, <3>2 DEF Learn, bootVars, hbVars
    <2> QED
      BY <1>5, <2>1, <2>2, <2>3, <2>4 DEF NBootstrapLoop, envVars
  <1>6. ASSUME NHandlers PROVE StillQuiet(p)
    <2>1. ASSUME NEW q \in Others, NJoinNetwork(q) PROVE StillQuiet(p)
      <3>1. q \in PeerId \ {p} /\ serving[q] \in Endpoint
        BY <1>1, <2>1 DEF NJoinNetwork, SurroundingsOK, Others
      <3>2. peers' \in Upsert(peers, q, serving[q])
        BY <2>1 DEF NJoinNetwork, JoinNetwork
      <3>3. AwayFrom(peers, peers', p)
        BY <1>0, <3>1, <3>2, AwayKinds
      <3> QED
        BY <1>2, <2>1, <3>3 DEF NJoinNetwork, JoinNetwork, bootVars, hbVars, envVars
    <2>2. ASSUME NEW q \in Others, serving[q] # NoRecord, Ping(q), UNCHANGED envVars
          PROVE  StillQuiet(p)
      <3>1. q \in PeerId \ {p}
        BY <1>1, <2>2 DEF Others
      <3>2. AwayFrom(peers, peers', p)
        BY <1>0, <2>2, <3>1, AwayKinds DEF Ping
      <3> QED
        BY <1>2, <2>2, <3>2 DEF Ping, bootVars, hbVars, envVars
    <2>3. ASSUME NEW q \in LeaveCalls, LeaveMark(q) \/ LeaveRemove(q), UNCHANGED envVars
          PROVE  StillQuiet(p)
      <3>1. AwayFrom(peers, peers', p)
        BY <1>0, <2>3, AwayKinds DEF LeaveMark, LeaveRemove, Remove
      <3> QED
        BY <1>2, <2>3, <3>1 DEF LeaveMark, LeaveRemove, bootVars, hbVars, envVars
    <2>4. ASSUME NEW q \in Announcers, q \in Others => serving[q] # NoRecord,
                 AddProvider(q), UNCHANGED envVars
          PROVE  StillQuiet(p)
      <3>1. q # p /\ providers' = providers \cup {q}
        BY <1>1, <2>4 DEF AddProvider
      <3>2. AwayFrom(peers, peers', p)
        BY <1>0, <2>4, AwayKinds DEF AddProvider
      <3> QED
        BY <1>1, <2>4, <3>1, <3>2 DEF AddProvider, bootVars, hbVars, envVars, StillQuiet
    <2> QED
      BY <1>6, <2>1, <2>2, <2>3, <2>4 DEF NHandlers
  <1>7. ASSUME Tick /\ UNCHANGED envVars PROVE StillQuiet(p)
    <2>1. AwayFrom(peers, peers', p)
      BY <1>0, <1>7, AwayKinds DEF Tick
    <2> QED
      BY <1>2, <1>7, <2>1 DEF Tick, bootVars, hbVars, envVars
  <1> QED
    BY <1>3, <1>4, <1>5, <1>6, <1>7

\* So do the surroundings, as long as no node comes up.
LEMMA OthersLeaveQuiet ==
    ASSUME TypeOK, SurroundingsOK, NEW p \in Others, Quiet(p), ~SomeStart, Surroundings
    PROVE  StillQuiet(p)
  <1>0. /\ peers \in Registries /\ p \in PeerId
        /\ serving \in [Others -> Endpoint \cup {NoRecord}]
    BY DEF TypeOK, Others, SurroundingsOK
  <1>1. /\ serving[p] = NoRecord
        /\ \A e \in listed \cup rumoured : e.id # p
        /\ \A e \in merging : e.id # p
        /\ \A t \in pinging : t.id = p => ~Answers(t.grpc)
    BY DEF Quiet, Gone, Dead
  <1>2. /\ UNCHANGED <<peers, merging, pinging, providers>>
        /\ AwayFrom(peers, peers', p)
    <2>1. UNCHANGED vars
      BY SurroundingsStep
    <2> QED
      BY <1>0, <2>1, AwayKinds DEF vars
  <1>3. ASSUME NEW q \in Others, Start(q) PROVE FALSE
    <2>1. PICK ep \in MayServeAt[q] : serving' = [serving EXCEPT ![q] = ep]
      BY <1>3 DEF Start
    <2>2. ep # NoRecord
      BY MembershipAssumption, NeighbourhoodAssumption DEF Others
    <2> QED
      BY <1>0, <1>3, <2>1, <2>2 DEF Start, SomeStart
  <1>4. ASSUME NEW q \in Others, Crash(q) \/ Forget(q) PROVE StillQuiet(p)
    <2>1. /\ \A x \in Others : serving'[x] # NoRecord => serving'[x] = serving[x]
          /\ listed' = listed /\ rumoured' \subseteq rumoured
      BY <1>0, <1>4 DEF Crash, Forget
    <2> QED
      BY <1>1, <1>2, <2>1 DEF StillQuiet
  <1>5. ASSUME NEW q \in Others, RegisterOther(q) PROVE StillQuiet(p)
    <2>1. q # p
      BY <1>1, <1>5 DEF RegisterOther
    <2>2. \A e \in listed' : e \in listed \/ e.id = q
      BY <1>5 DEF RegisterOther, Server!Register, Server!Registered
    <2> QED
      BY <1>1, <1>2, <1>5, <2>1, <2>2 DEF RegisterOther, StillQuiet
  <1>6. ASSUME Delist PROVE StillQuiet(p)
    <2>1. listed' \subseteq listed /\ UNCHANGED <<serving, rumoured>>
      BY <1>6 DEF Delist, Server!Delist
    <2> QED
      BY <1>1, <1>2, <2>1 DEF StillQuiet
  <1> QED
    BY <1>3, <1>4, <1>5, <1>6 DEF Surroundings

\* A peer that is gone, and about which nothing is under way, stays so until
\* some node comes up: what GonePeerRetired relies on.
THEOREM NoReturnHolds == FairSpec => NoReturn
  <1>1. TypeOK /\ SurroundingsOK /\ [NNext]_allVars => [QuietStays]_allVars
    <2> SUFFICES ASSUME TypeOK, SurroundingsOK, NNext,
                        NEW p \in Others, Quiet(p), ~SomeStart
                 PROVE  /\ Quiet(p)'
                        /\ p \in Known(peers)' => p \in Known(peers)
                        /\ IsActive(p)' => IsActive(p)
                        /\ p \in providers' => p \in providers
      BY DEF QuietStays
    <2>1. StillQuiet(p)
      BY NodeLeavesQuiet, OthersLeaveQuiet DEF NNext
    <2>2. \A a : Answers(a)' => Answers(a)
      BY <2>1 DEF StillQuiet, Answers
    <2>3. serving'[p] = NoRecord
      BY <2>1 DEF StillQuiet, Quiet, Gone, Dead
    <2>4. p \in Known(peers)' => /\ p \in Known(peers)
                                 /\ peers'[p].grpc = peers[p].grpc
                                 /\ peers'[p].state = Active => peers[p].state = Active
      BY <2>1 DEF StillQuiet, AwayFrom, Known
    <2>5. Quiet(p)'
      BY <2>1, <2>2, <2>3, <2>4 DEF StillQuiet, Quiet, Gone, Dead
    <2> QED
      BY <2>1, <2>4, <2>5 DEF StillQuiet, IsActive
  <1>2. SurroundingsOK /\ [NNext]_allVars => SurroundingsOK'
    BY NeighbourhoodStep
  <1>3. NInit => SurroundingsOK
    BY SurroundingsInit
  <1> QED
    BY <1>1, <1>2, <1>3, NeighbourhoodImplements, TypeCorrect, PTL DEF FairSpec, NoReturn
=============================================================================
