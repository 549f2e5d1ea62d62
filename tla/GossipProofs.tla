---------------------------- MODULE GossipProofs ----------------------------
(***************************************************************************)
(* Proofs about the overlay of module Gossip, for any set of nodes, any    *)
(* followed ids, timeouts and maximum: what the registries of all nodes    *)
(* keep to while the nodes crash, restart, join and learn from each other. *)
(***************************************************************************)
EXTENDS Gossip, RegistryProofs

\* What the constants stand for: some of the nodes are followed, and each
\* advertises an endpoint.
Overlay ==
    /\ PeerId \subseteq Node
    /\ EndpointOf \in [Node -> Endpoint]
    /\ Nobody \notin Node

\* Every node has addresses of its own.
OwnHosts ==
    \A p, q \in Node : SameHost(EndpointOf[p], EndpointOf[q]) => p = q

\* The state of the nodes.  No node sweeps, pings, retires or merges itself,
\* and who serves a JoinNetwork call is up.
GTypeOK ==
    /\ up \subseteq Node
    /\ listed \subseteq Node
    /\ peers \in [Node -> Registries]
    /\ hb \in [Node -> {"sweep", "ping"}]
    /\ sweeping \in [Node -> SUBSET PeerId]
    /\ pinging \in [Node -> SUBSET PeerId]
    /\ reached \in [Node -> SUBSET PeerId]
    /\ retiring \in [Node -> SUBSET PeerId]
    /\ boot \in [Node -> {"fetch", "join", "reply", "merge"}]
    /\ merging \in [Node -> SUBSET Node]
    /\ dialed \in [Node -> Node \cup {Nobody}]
    /\ learning \in [Node -> SUBSET PeerId]
    /\ \A n \in Node : /\ n \notin sweeping[n] \cup pinging[n] \cup retiring[n]
                       /\ reached[n] \subseteq pinging[n]
                       /\ hb[n] = "sweep" => pinging[n] = {}
                       /\ n \notin merging[n] /\ dialed[n] # n
                       /\ boot[n] = "reply" => dialed[n] \in up

\* Every entry of every registry is at the endpoint its node advertises.
TrueRecords(reg) == \A p \in Known(reg) : EndpointIn(reg[p]) = EndpointOf[p]

\* What all registries keep to: none is too big, none has a wrong or a
\* doubled address, and every followed node is in its own, Active.
OverlaySound ==
    \A n \in Node :
        /\ Cardinality(Known(peers[n])) <= MaxNetworkPeers
        /\ TrueRecords(peers[n])
        /\ \A p, q \in Known(peers[n]) : p # q => ~SameHost(peers[n][p], peers[n][q])
        /\ n \in PeerId => n \in Known(peers[n]) /\ peers[n][n].state = Active

\* The node dies or starts in this step.
Restarts(n) == ~(n \in up <=> n \in up')

\* A node that goes on running loses one entry at a time, of a peer that had
\* Left, to a newcomer for whom there was no other room.
EvictsLeft(n) ==
    \A p \in Known(peers[n]) \ Known(peers[n])' :
        /\ Known(peers[n]) \ Known(peers[n])' = {p}
        /\ peers[n][p].state = Left
        /\ Cardinality(Known(peers[n])) = MaxNetworkPeers
        /\ Known(peers[n])' \ Known(peers[n]) # {}

OverlayDrops == \A n \in Node : Restarts(n) \/ EvictsLeft(n)

\* Nothing of p is left in the overlay: it is down and delisted, no other
\* node has it in its registry, and none is about to learn or to join it.
Forgotten(p) ==
    /\ p \notin up /\ p \notin listed
    /\ \A n \in Node \ {p} :
          p \notin Known(peers[n]) /\ p \notin merging[n] /\ p \notin learning[n]

ForgottenStays == \A p \in PeerId : Forgotten(p) => Forgotten(p)' \/ p \in up'

-----------------------------------------------------------------------------
(* What a step does to the registry of a node *)

\* Whom the nodes upsert, and whom node n may mark.
Followed == {[id |-> p, ep |-> EndpointOf[p]] : p \in PeerId}

MarkedBy(n) == PeerId \ {n}

\* They are entries and ids.
LEMMA InputTypes ==
    ASSUME Overlay
    PROVE  /\ Followed \in SUBSET Entries
           /\ \A n \in Node : MarkedBy(n) \in SUBSET PeerId
           /\ \A p \in PeerId : /\ p \in Node /\ EndpointOf[p] \in Endpoint
                                /\ [id |-> p, ep |-> EndpointOf[p]] \in Followed
  <1>1. \A p \in PeerId : p \in Node /\ EndpointOf[p] \in Endpoint
    BY DEF Overlay
  <1> QED
    BY <1>1 DEF Followed, Entries, MarkedBy

\* Upserting a followed id, touching a node and marking another one are
\* changes in the sense of RegistryProofs.
LEMMA ChangesHere ==
    ASSUME Overlay, NEW n \in Node, NEW reg \in Registries
    PROVE  /\ Change(Followed, MarkedBy(n), reg, reg)
           /\ Change(Followed, MarkedBy(n), reg, Aged(reg))
           /\ \A m \in Node : Change(Followed, MarkedBy(n), reg, Touch(reg, m))
           /\ \A p \in PeerId \ {n} : \A s \in State :
                 Change(Followed, MarkedBy(n), reg, MarkState(reg, p, s))
           /\ \A p \in PeerId : \A new \in Upsert(reg, p, EndpointOf[p]) :
                 Change(Followed, MarkedBy(n), reg, new)
  <1>1. ASSUME NEW m \in Node
        PROVE  Change(Followed, MarkedBy(n), reg, Touch(reg, m))
    <2>1. CASE m \in PeerId
      BY <2>1 DEF Change
    <2>2. CASE m \notin PeerId
      BY <2>2 DEF Change, Touch, Known
    <2> QED
      BY <2>1, <2>2
  <1>2. ASSUME NEW p \in PeerId, NEW new \in Upsert(reg, p, EndpointOf[p])
        PROVE  Change(Followed, MarkedBy(n), reg, new)
    <2> DEFINE e == [id |-> p, ep |-> EndpointOf[p]]
    <2>1. e \in Followed /\ new \in Upsert(reg, e.id, e.ep)
      BY <1>2, InputTypes
    <2> QED
      BY <2>1 DEF Change
  <1> QED
    BY <1>1, <1>2 DEF Change, MarkedBy

\* In a step the registry of a node is changed once in such a way, by the
\* node's own loops or by the handler another node calls; or it is that of a
\* node that has just started.
LEMMA NodeStep ==
    ASSUME Overlay, GTypeOK, [Next]_vars
    PROVE  /\ peers' = [n \in Node |-> peers'[n]]
           /\ \A n \in Node :
                 \/ Change(Followed, MarkedBy(n), peers[n], peers'[n])
                 \/ Restarts(n) /\ peers'[n] = OwnRegistry(n)
  <1> DEFINE Changes(n, new) == Change(Followed, MarkedBy(n), peers[n], new)
             Goal == /\ peers' = [n \in Node |-> peers'[n]]
                     /\ \A n \in Node : \/ Changes(n, peers'[n])
                                        \/ Restarts(n) /\ peers'[n] = OwnRegistry(n)
  <1>0. peers \in [Node -> Registries] /\ up \subseteq Node
    BY DEF GTypeOK
  <1>1. \A n \in Node : Changes(n, peers[n])
    BY <1>0, ChangesHere
  <1>2. UNCHANGED peers => Goal
    BY <1>0, <1>1
  <1>3. ASSUME NEW n \in Node, NEW new, Changes(n, new), peers' = [peers EXCEPT ![n] = new]
        PROVE  Goal
    <2>1. /\ peers' = [m \in Node |-> peers'[m]] /\ peers'[n] = new
          /\ \A m \in Node \ {n} : peers'[m] = peers[m]
      BY <1>0, <1>3
    <2> HIDE DEF Changes
    <2> QED
      BY <1>1, <1>3, <2>1
  <1> HIDE DEF Goal
  <1>4. ASSUME NEW n \in up, RegisterSelf(n) PROVE Goal
    BY <1>2, <1>4 DEF RegisterSelf
  <1>5. ASSUME NEW n \in up, HeartbeatLoop(n) PROVE Goal
    <2>1. CASE HeartbeatTick(n)
      BY <1>0, <1>3, <2>1, ChangesHere DEF HeartbeatTick
    <2>2. ASSUME NEW p \in sweeping[n], SweepMark(n, p) PROVE Goal
      <3>1. p \in PeerId \ {n} /\ Inactive \in State
        BY <1>0 DEF GTypeOK, State
      <3> QED
        BY <1>0, <1>3, <2>2, <3>1, ChangesHere DEF SweepMark
    <2>3. ASSUME NEW p \in pinging[n], PingArrives(n, p) \/ PingAnswered(n, p)
          PROVE  Goal
      <3>1. p \in Node /\ n \in Node
        BY <1>0, InputTypes DEF GTypeOK
      <3>2. Changes(n, Touch(peers[n], p)) /\ Changes(p, Touch(peers[p], n))
        BY <1>0, <3>1, ChangesHere
      <3>3. \/ peers' = [peers EXCEPT ![n] = Touch(peers[n], p)]
            \/ peers' = [peers EXCEPT ![p] = Touch(peers[p], n)]
        BY <2>3 DEF PingArrives, PingAnswered
      <3> HIDE DEF Changes
      <3> QED
        BY <1>3, <3>1, <3>2, <3>3
    <2> QED
      BY <1>2, <1>5, <2>1, <2>2, <2>3 DEF HeartbeatLoop, PingRound, PingFail
  <1>6. ASSUME NEW n \in up, CleanupLoop(n) PROVE Goal
    <2>1. ASSUME NEW p \in retiring[n], CleanupMark(n, p) PROVE Goal
      <3>1. p \in PeerId \ {n} /\ Left \in State
        BY <1>0 DEF GTypeOK, State
      <3> QED
        BY <1>0, <1>3, <2>1, <3>1, ChangesHere DEF CleanupMark
    <2> QED
      BY <1>2, <1>6, <2>1 DEF CleanupLoop, CleanupTick
  <1>7. ASSUME NEW n \in up, BootstrapLoop(n) PROVE Goal
    <2>0. ASSUME NEW m \in Node, NEW p \in PeerId,
                 NEW reg \in Upsert(peers[m], p, EndpointOf[p]),
                 peers' = [peers EXCEPT ![m] = reg]
          PROVE  Goal
      BY <1>0, <1>3, <2>0, ChangesHere
    <2>1. ASSUME NEW m \in merging[n], MergeAccepted(n, m) \/ MergeRefused(n, m) PROVE Goal
      BY <1>0, <1>2, <2>0, <2>1 DEF MergeAccepted, MergeRefused, Upsert
    <2>2. CASE JoinAccepted(n) \/ JoinRefused(n)
      <3>1. dialed[n] \in Node
        BY <1>0, <2>2 DEF JoinAccepted, JoinRefused
      <3>2. \/ UNCHANGED peers
            \/ n \in PeerId /\ \E reg \in Upsert(peers[dialed[n]], n, EndpointOf[n]) :
                                  peers' = [peers EXCEPT ![dialed[n]] = reg]
        BY <2>2 DEF JoinAccepted, JoinRefused, Upsert
      <3> QED
        BY <1>2, <2>0, <3>1, <3>2
    <2>3. CASE JoinReply(n) \/ JoinFail(n)
      BY <1>2, <2>3 DEF JoinReply, JoinFail
    <2>4. ASSUME NEW p \in learning[n], Learn(n, p) PROVE Goal
      BY <1>0, <2>0, <2>4 DEF Learn, GTypeOK
    <2> QED
      BY <1>2, <1>7, <2>1, <2>2, <2>3, <2>4 DEF BootstrapLoop, FetchList, FetchFail
  <1>8. ASSUME NEW n \in Node, Crash(n) \/ Restart(n) PROVE Goal
    <2>1. Restarts(n) /\ peers' = [peers EXCEPT ![n] = OwnRegistry(n)]
      BY <1>8 DEF Crash, Restart, Restarts
    <2>2. /\ peers' = [m \in Node |-> peers'[m]] /\ peers'[n] = OwnRegistry(n)
          /\ \A m \in Node \ {n} : peers'[m] = peers[m]
      BY <1>0, <2>1
    <2> HIDE DEF Changes
    <2> QED
      BY <1>1, <2>1, <2>2 DEF Goal
  <1>9. ASSUME Delist \/ UNCHANGED vars PROVE Goal
    BY <1>2, <1>9 DEF Delist, vars
  <1>10. ASSUME Tick PROVE Goal
    BY <1>0, <1>10, ChangesHere DEF Tick, Goal
  <1>11. Goal
    BY <1>4, <1>5, <1>6, <1>7, <1>8, <1>9, <1>10 DEF Next, Loops
  <1> QED
    BY <1>11 DEF Goal

-----------------------------------------------------------------------------
(* Types *)

\* A node starts with itself, when it is followed, and nobody else.
LEMMA OwnRegistryEntries ==
    ASSUME Overlay, NEW n \in Node
    PROVE  /\ BoundedRegistry(OwnRegistry(n))
           /\ Known(OwnRegistry(n)) = PeerId \cap {n}
           /\ TrueRecords(OwnRegistry(n))
           /\ n \in PeerId => HasOwn(OwnRegistry(n), n, {EndpointOf[n]})
  <1> DEFINE reg == OwnRegistry(n)
             ep == EndpointOf[n]
  <1>1. ep \in Endpoint /\ Fresh(ep) \in Record /\ Fresh(ep) # NoRecord
    BY FreshType, RegistryAssumption DEF Overlay
  <1>2. reg \in Registries /\ \A p \in PeerId : reg[p] = IF p = n THEN Fresh(ep) ELSE NoRecord
    BY <1>1 DEF OwnRegistry, Registries
  <1>3. Known(reg) = PeerId \cap {n}
    BY <1>1, <1>2 DEF Known
  <1>4. Cardinality(Known(reg)) <= MaxNetworkPeers /\ IsFiniteSet(Known(reg))
    <2>1. CASE n \in PeerId
      <3>1. Known(reg) = {n}
        BY <1>3, <2>1
      <3>2. IsFiniteSet({n}) /\ Cardinality({n}) = 1
        BY FS_Singleton
      <3>3. 1 <= MaxNetworkPeers
        BY RegistryAssumption
      <3> QED
        BY <3>1, <3>2, <3>3
    <2>2. CASE n \notin PeerId
      <3>1. Known(reg) = {}
        BY <1>3, <2>2
      <3>2. IsFiniteSet({}) /\ Cardinality({}) = 0
        BY FS_EmptySet
      <3>3. 0 <= MaxNetworkPeers
        BY RegistryAssumption
      <3> QED
        BY <3>1, <3>2, <3>3
    <2> QED
      BY <2>1, <2>2
  <1>5. EndpointIn(Fresh(ep)) = ep /\ Fresh(ep).state = Active
    BY <1>1 DEF EndpointIn, Fresh, Endpoint
  <1> QED
    BY <1>2, <1>3, <1>4, <1>5 DEF BoundedRegistry, TrueRecords, HasOwn

\* The initial state is well typed.
LEMMA GTypeInit == ASSUME Overlay, Init PROVE GTypeOK
  <1>1. \A n \in Node : OwnRegistry(n) \in Registries
    BY OwnRegistryEntries DEF BoundedRegistry
  <1> QED
    BY <1>1 DEF Init, GTypeOK, Overlay

\* Every step of the overlay keeps the types.
LEMMA GTypeStep ==
    ASSUME Overlay, GTypeOK, [Next]_vars
    PROVE  GTypeOK'
  <1>0. peers' \in [Node -> Registries]
    <2> SUFFICES ASSUME NEW n \in Node PROVE peers'[n] \in Registries
      BY NodeStep
    <2>1. CASE Change(Followed, MarkedBy(n), peers[n], peers'[n])
      <3>1. peers[n] \in Registries
        BY DEF GTypeOK
      <3> QED
        BY <2>1, <3>1, InputTypes, ChangeBounded
    <2>2. CASE peers'[n] = OwnRegistry(n)
      BY <2>2, OwnRegistryEntries DEF BoundedRegistry
    <2> QED
      BY <2>1, <2>2, NodeStep
  <1>1. PeerId \subseteq Node /\ Nobody \notin Node
    BY DEF Overlay
  <1> USE <1>0, <1>1 DEF GTypeOK
  <1>2. ASSUME NEW n \in up, RegisterSelf(n) PROVE GTypeOK'
    BY <1>2 DEF RegisterSelf, hbVars
  <1>3. ASSUME NEW n \in up, HeartbeatLoop(n) PROVE GTypeOK'
    <2>1. CASE HeartbeatTick(n)
      <3>1. SweepDue(n) \subseteq PeerId \ {n}
        BY DEF SweepDue, Known
      <3> QED
        BY <2>1, <3>1 DEF HeartbeatTick, bootVars
    <2>2. ASSUME NEW p \in sweeping[n], SweepMark(n, p) PROVE GTypeOK'
      BY <2>2 DEF SweepMark, bootVars
    <2>3. CASE PingRound(n)
      <3>1. {p \in Known(peers[n]) \ {n} : peers[n][p].state = Active} \subseteq PeerId \ {n}
        BY DEF Known
      <3> QED
        BY <2>3, <3>1 DEF PingRound, bootVars
    <2>4. ASSUME NEW p \in pinging[n],
                 PingArrives(n, p) \/ PingAnswered(n, p) \/ PingFail(n, p)
          PROVE  GTypeOK'
      <3>1. p \in PeerId
        OBVIOUS
      <3>2. /\ pinging' = pinging \/ pinging' = [pinging EXCEPT ![n] = @ \ {p}]
            /\ reached' \in [Node -> SUBSET PeerId]
            /\ \A m \in Node : reached'[m] \subseteq pinging'[m]
        <4>1. CASE PingArrives(n, p)
          BY <3>1, <4>1 DEF PingArrives
        <4>2. CASE PingAnswered(n, p) \/ PingFail(n, p)
          BY <4>2 DEF PingAnswered, PingFail
        <4> QED
          BY <2>4, <4>1, <4>2
      <3>3. UNCHANGED <<up, listed, hb, sweeping, retiring, bootVars>> /\ hb[n] # "sweep"
        BY <2>4 DEF PingArrives, PingAnswered, PingFail
      <3> QED
        BY <3>2, <3>3 DEF bootVars
    <2> QED
      BY <1>3, <2>1, <2>2, <2>3, <2>4 DEF HeartbeatLoop
  <1>4. ASSUME NEW n \in up, CleanupLoop(n) PROVE GTypeOK'
    <2>1. CASE CleanupTick(n)
      <3>1. RetireDue(n) \subseteq PeerId \ {n}
        BY DEF RetireDue, Known
      <3> QED
        BY <2>1, <3>1 DEF CleanupTick, bootVars, hbVars
    <2>2. ASSUME NEW p \in retiring[n], CleanupMark(n, p) PROVE GTypeOK'
      BY <2>2 DEF CleanupMark, bootVars, hbVars
    <2> QED
      BY <1>4, <2>1, <2>2 DEF CleanupLoop
  <1>5. ASSUME NEW n \in up, BootstrapLoop(n) PROVE GTypeOK'
    <2>1. CASE FetchList(n) \/ FetchFail(n)
      BY <2>1 DEF FetchList, FetchFail, hbVars
    <2>2. ASSUME NEW m \in merging[n], MergeAccepted(n, m) \/ MergeRefused(n, m) PROVE GTypeOK'
      BY <2>2 DEF MergeAccepted, MergeRefused, hbVars
    <2>3. CASE JoinReply(n)
      <3>1. Known(peers[dialed[n]]) \subseteq PeerId
        BY DEF Known
      <3> QED
        BY <2>3, <3>1 DEF JoinReply, hbVars
    <2>4. CASE JoinAccepted(n) \/ JoinRefused(n) \/ JoinFail(n)
      BY <2>4 DEF JoinAccepted, JoinRefused, JoinFail, hbVars
    <2>5. ASSUME NEW p \in learning[n], Learn(n, p) PROVE GTypeOK'
      BY <2>5 DEF Learn, hbVars
    <2> QED
      BY <1>5, <2>1, <2>2, <2>3, <2>4, <2>5 DEF BootstrapLoop
  <1>6. ASSUME NEW n \in Node, Crash(n) PROVE GTypeOK'
    BY <1>6 DEF Crash, Served
  <1>7. ASSUME NEW n \in Node, Restart(n) PROVE GTypeOK'
    BY <1>7 DEF Restart, loopVars, hbVars, bootVars
  <1>8. CASE Delist
    BY <1>8 DEF Delist, loopVars, hbVars, bootVars
  <1>9. CASE Tick
    BY <1>9 DEF Tick, loopVars, hbVars, bootVars
  <1>10. CASE UNCHANGED vars
    BY <1>10 DEF vars, loopVars, hbVars, bootVars
  <1> QED
    BY <1>2, <1>3, <1>4, <1>5, <1>6, <1>7, <1>8, <1>9, <1>10 DEF Next, Loops

\* Fairness plays no part in what follows.
Spec == Init /\ [][Next]_vars

\* The state of the overlay is well typed; no node sweeps, pings, retires,
\* merges or joins itself.
THEOREM GTypeCorrect == ASSUME Overlay PROVE Spec => []GTypeOK
  <1>1. Init => GTypeOK
    BY GTypeInit
  <1>2. GTypeOK /\ [Next]_vars => GTypeOK'
    BY GTypeStep
  <1> QED
    BY <1>1, <1>2, PTL DEF Spec

-----------------------------------------------------------------------------
(* All registries are sound *)

\* No change gives an entry an address that is not its node's.
LEMMA ChangeTrue ==
    ASSUME Overlay, NEW n \in Node, NEW reg \in Registries, NEW new,
           Change(Followed, MarkedBy(n), reg, new), TrueRecords(reg)
    PROVE  TrueRecords(new)
  <1>1. ASSUME SameEntries(reg, new) PROVE TrueRecords(new)
    BY <1>1 DEF SameEntries, TrueRecords, EndpointIn
  <1>2. ASSUME NEW e \in Followed, e.id \in PeerId, e.ep \in Endpoint,
               new \in Upsert(reg, e.id, e.ep)
        PROVE  TrueRecords(new)
    <2>1. e.ep = EndpointOf[e.id]
      BY DEF Followed
    <2>2. EndpointIn(Fresh(e.ep)) = e.ep
      BY <1>2 DEF EndpointIn, Fresh, Endpoint
    <2>3. \A p \in Known(new) : \/ p \in Known(reg) /\ new[p] = reg[p]
                                \/ p = e.id /\ new[p] = Fresh(e.ep)
      BY <1>2, UpsertEntries
    <2> QED
      BY <2>1, <2>2, <2>3 DEF TrueRecords
  <1> QED
    BY <1>1, <1>2, InputTypes, ChangeKinds

\* What every registry keeps to, whoever shares an address with whom.
BoundedTrue(n) == BoundedRegistry(peers[n]) /\ TrueRecords(peers[n])

\* It is inductive, node by node.
LEMMA BoundedTrueStep ==
    ASSUME Overlay, GTypeOK, [Next]_vars, NEW n \in Node, BoundedTrue(n)
    PROVE  BoundedTrue(n)'
  <1>0. peers[n] \in Registries
    BY DEF GTypeOK
  <1>1. CASE Change(Followed, MarkedBy(n), peers[n], peers'[n])
    <2>1. BoundedRegistry(peers'[n])
      BY <1>1, InputTypes, ChangeBounded DEF BoundedTrue
    <2>2. TrueRecords(peers'[n])
      BY <1>0, <1>1, ChangeTrue DEF BoundedTrue
    <2> QED
      BY <2>1, <2>2 DEF BoundedTrue
  <1>2. CASE peers'[n] = OwnRegistry(n)
    BY <1>2, OwnRegistryEntries DEF BoundedTrue
  <1> QED
    BY <1>1, <1>2, NodeStep

\* A registry in which no entry has a wrong address loses one only for room.
LEMMA DropsLeft ==
    ASSUME Overlay, OwnHosts, NEW n \in Node, NEW reg, NEW new,
           BoundedRegistry(reg), TrueRecords(reg), TrueRecords(new),
           Change(Followed, MarkedBy(n), reg, new), NEW p \in Known(reg) \ Known(new)
    PROVE  /\ Known(reg) \ Known(new) = {p}
           /\ reg[p].state = Left
           /\ Cardinality(Known(reg)) = MaxNetworkPeers
           /\ Known(new) \ Known(reg) # {}
  <1>1. /\ Known(reg) \ Known(new) = {p}
        /\ \/ \E q \in Known(new) \ {p} : SameHost(reg[p], new[q]) /\ new[q].age = 0
           \/ /\ reg[p].state = Left
              /\ Cardinality(Known(reg)) = MaxNetworkPeers
              /\ Known(new) \ Known(reg) # {}
    BY InputTypes, ChangeDrops
  <1>2. ASSUME NEW q \in Known(new) \ {p}, SameHost(reg[p], new[q]) PROVE FALSE
    <2>1. SameHost(EndpointIn(reg[p]), EndpointIn(new[q]))
      BY <1>2 DEF SameHost, EndpointIn
    <2>2. EndpointIn(reg[p]) = EndpointOf[p] /\ EndpointIn(new[q]) = EndpointOf[q]
      BY DEF TrueRecords
    <2>3. p \in Node /\ q \in Node
      BY DEF Known, Overlay
    <2> QED
      BY <2>1, <2>2, <2>3 DEF OwnHosts
  <1> QED
    BY <1>1, <1>2

\* The inductive invariant.  That a node is in its own registry needs that
\* its entry is Active and at its endpoint, which nobody else advertises.
OInv ==
    /\ GTypeOK
    /\ \A n \in Node : BoundedTrue(n)
    /\ \A n \in PeerId : HasOwn(peers[n], n, {EndpointOf[n]})

\* It holds at the start.
LEMMA OInvInit == ASSUME Overlay, Init PROVE OInv
  <1>1. \A n \in Node : peers[n] = OwnRegistry(n)
    BY DEF Init
  <1> QED
    BY <1>1, GTypeInit, OwnRegistryEntries DEF OInv, BoundedTrue, Overlay

\* Every step keeps it.
LEMMA OInvStep ==
    ASSUME Overlay, OwnHosts, OInv, [Next]_vars
    PROVE  OInv'
  <1>1. GTypeOK'
    BY GTypeStep DEF OInv
  <1>2. \A n \in Node : BoundedTrue(n)'
    BY BoundedTrueStep DEF OInv
  <1>3. ASSUME NEW n \in PeerId PROVE HasOwn(peers'[n], n, {EndpointOf[n]})
    <2>1. n \in Node /\ {EndpointOf[n]} \in SUBSET Endpoint
      BY DEF Overlay
    <2>2. Unshared(Followed, MarkedBy(n), n, {EndpointOf[n]})
      <3>1. ASSUME NEW e \in Followed
            PROVE  IF e.id = n THEN e.ep \in {EndpointOf[n]}
                   ELSE \A ep \in {EndpointOf[n]} : ~SameHost(ep, e.ep)
        <4>1. PICK p \in PeerId : e = [id |-> p, ep |-> EndpointOf[p]]
          BY DEF Followed
        <4>2. p \in Node
          BY DEF Overlay
        <4> QED
          BY <2>1, <4>1, <4>2 DEF OwnHosts
      <3> QED
        BY <3>1 DEF Unshared, MarkedBy
    <2>3. HasOwn(peers[n], n, {EndpointOf[n]})
      BY DEF OInv
    <2>4. CASE Change(Followed, MarkedBy(n), peers[n], peers'[n])
      BY <2>1, <2>2, <2>3, <2>4, InputTypes, ChangeKeepsOwn
    <2>5. CASE peers'[n] = OwnRegistry(n)
      BY <2>1, <2>5, OwnRegistryEntries
    <2> QED
      BY <2>1, <2>4, <2>5, NodeStep DEF OInv
  <1> QED
    BY <1>1, <1>2, <1>3 DEF OInv

\* In an overlay of nodes with addresses of their own, the registry of every
\* node is within its maximum, true, without doubles, and has the node
\* itself Active, through all crashes, restarts, joins and learned entries.
THEOREM OverlaySoundHolds ==
    ASSUME Overlay, OwnHosts
    PROVE  Spec => []OverlaySound
  <1>1. Init => OInv
    BY OInvInit
  <1>2. OInv /\ [Next]_vars => OInv'
    BY OInvStep
  <1>3. OInv => OverlaySound
    <2> SUFFICES ASSUME OInv, NEW n \in Node
                 PROVE  /\ Cardinality(Known(peers[n])) <= MaxNetworkPeers
                        /\ TrueRecords(peers[n])
                        /\ \A p, q \in Known(peers[n]) :
                              p # q => ~SameHost(peers[n][p], peers[n][q])
                        /\ n \in PeerId => n \in Known(peers[n]) /\ peers[n][n].state = Active
      BY DEF OverlaySound
    <2>1. BoundedRegistry(peers[n]) /\ TrueRecords(peers[n])
      BY DEF OInv, BoundedTrue
    <2>2. ASSUME NEW p \in Known(peers[n]), NEW q \in Known(peers[n]),
                 SameHost(peers[n][p], peers[n][q])
          PROVE  p = q
      <3>1. SameHost(EndpointIn(peers[n][p]), EndpointIn(peers[n][q]))
        BY <2>2 DEF SameHost, EndpointIn
      <3>2. SameHost(EndpointOf[p], EndpointOf[q])
        BY <2>1, <3>1 DEF TrueRecords
      <3> QED
        BY <3>2 DEF OwnHosts, Known, Overlay
    <2>3. n \in PeerId => n \in Known(peers[n]) /\ peers[n][n].state = Active
      BY DEF OInv, HasOwn
    <2> QED
      BY <2>1, <2>2, <2>3 DEF BoundedRegistry
  <1> QED
    BY <1>1, <1>2, <1>3, PTL DEF Spec

\* There, a node that goes on running never drops an entry but that of a peer
\* that had Left, in a full registry, for a newcomer.
THEOREM OverlayDropsHolds ==
    ASSUME Overlay, OwnHosts
    PROVE  Spec => [][OverlayDrops]_vars
  <1>1. Init => OInv
    BY OInvInit
  <1>2. OInv /\ [Next]_vars => OInv'
    BY OInvStep
  <1>3. OInv /\ OInv' /\ [Next]_vars => [OverlayDrops]_vars
    <2> SUFFICES ASSUME OInv, OInv', [Next]_vars, NEW n \in Node,
                        NEW p \in Known(peers[n]) \ Known(peers[n])'
                 PROVE  \/ Restarts(n)
                        \/ /\ Known(peers[n]) \ Known(peers[n])' = {p}
                           /\ peers[n][p].state = Left
                           /\ Cardinality(Known(peers[n])) = MaxNetworkPeers
                           /\ Known(peers[n])' \ Known(peers[n]) # {}
      BY DEF OverlayDrops, EvictsLeft
    <2>1. /\ BoundedRegistry(peers[n]) /\ TrueRecords(peers[n])
          /\ TrueRecords(peers'[n]) /\ GTypeOK
      BY DEF OInv, BoundedTrue
    <2>2. Known(peers[n])' = Known(peers'[n])
      BY DEF Known
    <2>3. \/ Restarts(n)
          \/ Change(Followed, MarkedBy(n), peers[n], peers'[n])
      BY <2>1, NodeStep
    <2> QED
      BY <2>1, <2>2, <2>3, DropsLeft
  <1> QED
    BY <1>1, <1>2, <1>3, PTL DEF Spec

-----------------------------------------------------------------------------
(* What is forgotten stays forgotten *)

\* No change but an Upsert of p adds p.
LEMMA NotAdded ==
    ASSUME Overlay, NEW reg \in Registries, NEW p \in PeerId, p \notin Known(reg)
    PROVE  /\ p \notin Known(Aged(reg))
           /\ \A m \in Node : p \notin Known(Touch(reg, m))
           /\ \A q \in PeerId : \A s \in State : p \notin Known(MarkState(reg, q, s))
           /\ \A q \in PeerId \ {p} : \A new \in Upsert(reg, q, EndpointOf[q]) :
                 p \notin Known(new)
  <1>1. ASSUME NEW m \in Node PROVE p \notin Known(Touch(reg, m))
    <2>1. CASE m \in PeerId
      BY <2>1, TouchEntries DEF SameEntries
    <2>2. CASE m \notin PeerId
      BY <2>2 DEF Touch, Known
    <2> QED
      BY <2>1, <2>2
  <1>2. ASSUME NEW q \in PeerId \ {p}, NEW new \in Upsert(reg, q, EndpointOf[q])
        PROVE  p \notin Known(new)
    <2>1. EndpointOf[q] \in Endpoint /\ p # q
      BY InputTypes
    <2> QED
      BY <1>2, <2>1, UpsertEntries
  <1> QED
    BY <1>1, <1>2, AgedEntries, MarkStateEntries DEF SameEntries

\* Every step but the restart of p leaves a forgotten p forgotten.
LEMMA ForgottenStep ==
    ASSUME Overlay, GTypeOK, [Next]_vars, NEW p \in PeerId, Forgotten(p), p \notin up'
    PROVE  Forgotten(p)'
  <1>0. /\ peers \in [Node -> Registries] /\ up \subseteq Node /\ p \in Node
        /\ merging \in [Node -> SUBSET Node] /\ learning \in [Node -> SUBSET PeerId]
        /\ p \notin up /\ p \notin listed
        /\ \A n \in Node \ {p} :
              p \notin Known(peers[n]) /\ p \notin merging[n] /\ p \notin learning[n]
        /\ Inactive \in State /\ Left \in State
    BY DEF GTypeOK, Forgotten, Overlay, State
  \* It is enough to look at the one registry a step changes ...
  <1>1. ASSUME NEW n \in Node \ {p}, NEW reg, p \notin Known(reg),
               peers' = [peers EXCEPT ![n] = reg],
               p \notin merging'[n], p \notin learning'[n], p \notin listed',
               \A m \in Node \ {n} : merging'[m] = merging[m] /\ learning'[m] = learning[m]
        PROVE  Forgotten(p)'
    <2>1. peers'[n] = reg /\ \A m \in Node \ {n} : peers'[m] = peers[m]
      BY <1>0, <1>1
    <2> SUFFICES ASSUME NEW m \in Node \ {p}
                 PROVE  /\ p \notin Known(peers'[m])
                        /\ p \notin merging'[m] /\ p \notin learning'[m]
      BY <1>1 DEF Forgotten, Known
    <2>2. CASE m = n
      BY <1>1, <2>1, <2>2
    <2>3. CASE m # n
      BY <1>0, <1>1, <2>1, <2>3
    <2> QED
      BY <2>2, <2>3
  \* ... or the lists and replies a node has in hand.
  <1>2. ASSUME UNCHANGED peers, p \notin listed',
               \A m \in Node \ {p} : p \notin merging'[m] /\ p \notin learning'[m]
        PROVE  Forgotten(p)'
    BY <1>0, <1>2 DEF Forgotten
  <1>3. ASSUME NEW n \in up, RegisterSelf(n) PROVE Forgotten(p)'
    BY <1>0, <1>2, <1>3 DEF RegisterSelf
  <1>4. ASSUME NEW n \in up, HeartbeatLoop(n) PROVE Forgotten(p)'
    <2>0. UNCHANGED <<merging, learning, listed>> /\ n \in Node \ {p}
      BY <1>0, <1>4 DEF HeartbeatLoop, HeartbeatTick, SweepMark, PingRound,
         PingArrives, PingAnswered, PingFail, bootVars
    <2>1. CASE HeartbeatTick(n)
      <3>1. p \notin Known(Touch(peers[n], n))
        BY <1>0, <2>0, NotAdded
      <3> QED
        BY <1>0, <1>1, <2>0, <2>1, <3>1 DEF HeartbeatTick
    <2>2. ASSUME NEW q \in sweeping[n], SweepMark(n, q) PROVE Forgotten(p)'
      <3>1. q \in PeerId
        BY <1>0 DEF GTypeOK
      <3>2. p \notin Known(MarkState(peers[n], q, Inactive))
        BY <1>0, <2>0, <3>1, NotAdded
      <3> QED
        BY <1>0, <1>1, <2>0, <2>2, <3>2 DEF SweepMark
    <2>3. ASSUME NEW q \in pinging[n], PingArrives(n, q) \/ PingAnswered(n, q)
          PROVE  Forgotten(p)'
      <3>1. q \in Node
        BY <1>0, InputTypes DEF GTypeOK
      <3>2. CASE PingArrives(n, q)
        <4>1. q \in Node \ {p} /\ peers' = [peers EXCEPT ![q] = Touch(peers[q], n)]
          BY <1>0, <3>1, <3>2 DEF PingArrives
        <4>2. p \notin Known(Touch(peers[q], n))
          BY <1>0, <2>0, <4>1, NotAdded
        <4> QED
          BY <1>0, <1>1, <2>0, <4>1, <4>2
      <3>3. CASE PingAnswered(n, q)
        <4>1. peers' = [peers EXCEPT ![n] = Touch(peers[n], q)]
          BY <3>3 DEF PingAnswered
        <4>2. p \notin Known(Touch(peers[n], q))
          BY <1>0, <2>0, <3>1, NotAdded
        <4> QED
          BY <1>0, <1>1, <2>0, <4>1, <4>2
      <3> QED
        BY <2>3, <3>2, <3>3
    <2>4. ASSUME UNCHANGED peers PROVE Forgotten(p)'
      BY <1>0, <1>2, <2>0, <2>4
    <2> QED
      BY <1>4, <2>1, <2>2, <2>3, <2>4 DEF HeartbeatLoop, PingRound, PingFail
  <1>5. ASSUME NEW n \in up, CleanupLoop(n) PROVE Forgotten(p)'
    <2>0. UNCHANGED <<merging, learning, listed>> /\ n \in Node \ {p}
      BY <1>0, <1>5 DEF CleanupLoop, CleanupTick, CleanupMark, bootVars
    <2>1. ASSUME NEW q \in retiring[n], CleanupMark(n, q) PROVE Forgotten(p)'
      <3>1. q \in PeerId
        BY <1>0 DEF GTypeOK
      <3>2. p \notin Known(MarkState(peers[n], q, Left))
        BY <1>0, <2>0, <3>1, NotAdded
      <3> QED
        BY <1>0, <1>1, <2>0, <2>1, <3>2 DEF CleanupMark
    <2>2. ASSUME UNCHANGED peers PROVE Forgotten(p)'
      BY <1>0, <1>2, <2>0, <2>2
    <2> QED
      BY <1>5, <2>1, <2>2 DEF CleanupLoop, CleanupTick
  <1>6. ASSUME NEW n \in up, BootstrapLoop(n) PROVE Forgotten(p)'
    <2>0. listed' = listed /\ n \in Node \ {p}
      BY <1>0, <1>6 DEF BootstrapLoop, FetchList, FetchFail, MergeAccepted, MergeRefused,
         JoinAccepted, JoinRefused, JoinReply, JoinFail, Learn
    \* The node upserts some other peer than p.
    <2>1. ASSUME NEW m \in Node \ {p}, NEW q \in PeerId \ {p},
                 NEW reg \in Upsert(peers[m], q, EndpointOf[q])
          PROVE  p \notin Known(reg)
      BY <1>0, <2>1, NotAdded
    <2>2. CASE FetchList(n) \/ FetchFail(n)
      BY <1>0, <1>2, <2>0, <2>2 DEF FetchList, FetchFail
    <2>3. ASSUME NEW m \in merging[n], MergeAccepted(n, m) \/ MergeRefused(n, m)
          PROVE  Forgotten(p)'
      <3>1. m # p
        BY <1>0, <2>0
      <3>2. /\ learning' = learning /\ merging' = [merging EXCEPT ![n] = @ \ {m}]
            /\ \/ UNCHANGED peers
               \/ m \in PeerId /\ \E reg \in Upsert(peers[n], m, EndpointOf[m]) :
                                     peers' = [peers EXCEPT ![n] = reg]
        BY <2>3 DEF MergeAccepted, MergeRefused, Upsert
      <3>3. CASE UNCHANGED peers
        BY <1>0, <1>2, <2>0, <3>2, <3>3
      <3>4. ASSUME m \in PeerId, NEW reg \in Upsert(peers[n], m, EndpointOf[m]),
                   peers' = [peers EXCEPT ![n] = reg]
            PROVE  Forgotten(p)'
        <4>1. p \notin Known(reg)
          BY <2>0, <2>1, <3>1, <3>4
        <4>2. /\ p \notin merging'[n] /\ p \notin learning'[n]
              /\ \A x \in Node \ {n} : merging'[x] = merging[x] /\ learning'[x] = learning[x]
          BY <1>0, <2>0, <3>2
        <4> QED
          BY <1>0, <1>1, <2>0, <3>4, <4>1, <4>2
      <3> QED
        BY <3>2, <3>3, <3>4
    <2>4. CASE JoinReply(n) \/ JoinFail(n)
      <3>1. UNCHANGED <<peers, merging>>
        BY <2>4 DEF JoinReply, JoinFail
      <3>2. \A m \in Node \ {p} : p \notin learning'[m]
        <4>1. CASE JoinReply(n)
          <5>1. dialed[n] \in Node \ {p}
            BY <1>0, <2>0, <4>1 DEF JoinReply, GTypeOK
          <5>2. p \notin Known(peers[dialed[n]])
            BY <1>0, <5>1
          <5> QED
            BY <1>0, <4>1, <5>2 DEF JoinReply
        <4>2. CASE JoinFail(n)
          BY <1>0, <4>2 DEF JoinFail
        <4> QED
          BY <2>4, <4>1, <4>2
      <3> QED
        BY <1>0, <1>2, <2>0, <3>1, <3>2
    <2>5. CASE JoinAccepted(n) \/ JoinRefused(n)
      <3>1. UNCHANGED <<merging, learning>>
        BY <2>5 DEF JoinAccepted, JoinRefused
      <3>2. CASE UNCHANGED peers
        BY <1>0, <1>2, <2>0, <3>1, <3>2
      <3>3. CASE ~UNCHANGED peers
        <4>1. dialed[n] \in Node \ {p} /\ n \in PeerId \ {p}
          BY <1>0, <2>0, <2>5, <3>3 DEF JoinAccepted, JoinRefused
        <4>2. PICK reg \in Upsert(peers[dialed[n]], n, EndpointOf[n]) :
                  peers' = [peers EXCEPT ![dialed[n]] = reg]
          BY <2>5, <3>3 DEF JoinAccepted, JoinRefused, Upsert
        <4>3. p \notin Known(reg)
          BY <2>1, <4>1
        <4> QED
          BY <1>0, <1>1, <2>0, <3>1, <4>1, <4>2, <4>3
      <3> QED
        BY <3>2, <3>3
    <2>6. ASSUME NEW q \in learning[n], Learn(n, q) PROVE Forgotten(p)'
      <3>1. q \in PeerId \ {p}
        BY <1>0, <2>0
      <3>2. PICK reg \in Upsert(peers[n], q, EndpointOf[q]) :
                peers' = [peers EXCEPT ![n] = reg]
        BY <2>6 DEF Learn
      <3>3. p \notin Known(reg)
        BY <2>0, <2>1, <3>1
      <3>4. merging' = merging /\ learning' = [learning EXCEPT ![n] = @ \ {q}]
        BY <2>6 DEF Learn
      <3> QED
        BY <1>0, <1>1, <2>0, <3>2, <3>3, <3>4
    <2> QED
      BY <1>6, <2>2, <2>3, <2>4, <2>5, <2>6 DEF BootstrapLoop
  <1>7. ASSUME NEW n \in Node, Crash(n) \/ Restart(n) PROVE Forgotten(p)'
    <2>1. n # p
      BY <1>0, <1>7 DEF Crash, Restart
    <2>2. /\ peers' = [peers EXCEPT ![n] = OwnRegistry(n)] /\ listed' = listed
          /\ merging' = [merging EXCEPT ![n] = {}] \/ merging' = merging
          /\ learning' = [learning EXCEPT ![n] = {}] \/ learning' = learning
      BY <1>7 DEF Crash, Restart, loopVars, bootVars
    <2>3. p \notin Known(OwnRegistry(n))
      BY <2>1, OwnRegistryEntries
    <2>4. /\ p \notin merging'[n] /\ p \notin learning'[n]
          /\ \A m \in Node \ {n} : merging'[m] = merging[m] /\ learning'[m] = learning[m]
      BY <1>0, <2>1, <2>2
    <2> QED
      BY <1>0, <1>1, <2>1, <2>2, <2>3, <2>4
  <1>8. ASSUME Delist PROVE Forgotten(p)'
    BY <1>0, <1>2, <1>8 DEF Delist, loopVars, bootVars
  <1>9. ASSUME Tick PROVE Forgotten(p)'
    <2>1. \A m \in Node \ {p} : p \notin Known(peers'[m])
      BY <1>0, <1>9, NotAdded DEF Tick
    <2>2. \A m \in Node : Known(peers'[m]) = Known(peers[m])'
      BY DEF Known
    <2>3. UNCHANGED <<listed, merging, learning>>
      BY <1>9 DEF Tick, loopVars, bootVars
    <2> QED
      BY <1>0, <2>1, <2>2, <2>3 DEF Forgotten
  <1>10. ASSUME UNCHANGED vars PROVE Forgotten(p)'
    BY <1>0, <1>2, <1>10 DEF vars, loopVars, bootVars
  <1> QED
    BY <1>3, <1>4, <1>5, <1>6, <1>7, <1>8, <1>9, <1>10 DEF Next, Loops

\* A node of which nothing is left in the overlay stays forgotten until it
\* starts again: what keeps a dead peer Active for ever (DelistedPeerDetected)
\* are the entries that circulate in lists, replies and registries alone.
THEOREM ForgottenStaysHolds ==
    ASSUME Overlay
    PROVE  Spec => [][ForgottenStays]_vars
  <1>1. GTypeOK /\ [Next]_vars => [ForgottenStays]_vars
    BY ForgottenStep DEF ForgottenStays
  <1> QED
    BY <1>1, GTypeCorrect, PTL DEF Spec
=============================================================================
