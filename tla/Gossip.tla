------------------------------- MODULE Gossip -------------------------------
(***************************************************************************)
(* How several full nodes keep each other's entries alive: every round of  *)
(* a node's bootstrap loop joins the listed nodes, whose replies name all  *)
(* they have in their registries, and upserts those names as Active and    *)
(* seen now (mergeBootstrapPeers; JoinNetwork).  Heartbeat and cleanup     *)
(* work against that.                                                      *)
(*                                                                         *)
(* A closed system: all registries, the loops of all nodes and the         *)
(* bootstrap server's list.  Module Membership has the same loops for one  *)
(* node, with every input its surroundings may give it.  To keep several   *)
(* of them small, only the entries of the ids in PeerId are followed: the  *)
(* steps of a loop that concern other entries are left out, and            *)
(* MaxNetworkPeers counts the followed ones.  Provider records are         *)
(* module Membership's, and nobody calls LeaveNetwork.                     *)
(***************************************************************************)
EXTENDS Registry

CONSTANTS
    Node,           \* the nodes
    EndpointOf,     \* what each of them advertises, at every start
    Looping,        \* nodes whose loops run; the others only register
    Mortal,         \* nodes that may crash
    Nobody          \* no node (for dialed)

VARIABLES
    up,         \* the nodes that are running
    listed,     \* the nodes on the bootstrap server's list
    peers,      \* the registry of every node
    hb,         \* heartbeatLoop: "sweep" or "ping"
    sweeping,   \* followed ids Sweep found overdue, not yet marked
    pinging,    \* followed ids of the ping snapshot, not yet pinged
    reached,    \* those of them whose handler has taken the ping
    retiring,   \* followed ids RunCleanup found stale, not yet marked
    boot,       \* bootstrapLoop: "fetch", "join", "reply" or "merge"
    merging,    \* nodes of the fetched list not yet merged
    dialed,     \* the node JoinNetwork is being called at
    learning    \* followed ids of its reply, not yet upserted

hbVars == <<hb, sweeping, pinging, reached>>
bootVars == <<boot, merging, dialed, learning>>
loopVars == <<hbVars, retiring, bootVars>>
vars == <<up, listed, peers, loopVars>>

\* The registry of a node that has just started, as far as it is followed.
OwnRegistry(n) ==
    [p \in PeerId |-> IF p = n THEN Fresh(EndpointOf[n]) ELSE NoRecord]

Init ==
    /\ up = Node
    /\ listed = {}
    /\ peers = [n \in Node |-> OwnRegistry(n)]
    /\ hb = [n \in Node |-> "ping"]
    /\ sweeping = [n \in Node |-> {}]
    /\ pinging = [n \in Node |-> {}]
    /\ reached = [n \in Node |-> {}]
    /\ retiring = [n \in Node |-> {}]
    /\ boot = [n \in Node |-> "merge"]
    /\ merging = [n \in Node |-> {}]
    /\ dialed = [n \in Node |-> Nobody]
    /\ learning = [n \in Node |-> {}]

-----------------------------------------------------------------------------
(* heartbeatLoop *)

\* Sweep's condition.
SweepDue(n) ==
    {p \in Known(peers[n]) \ {n} :
        peers[n][p].state # Left /\ peers[n][p].age > InactiveAfter}

\* Once the pings of the last tick are done: Touch(self), which the use of
\* the snapshot skips, and Sweep's snapshot.
HeartbeatTick(n) ==
    /\ hb[n] = "ping" /\ pinging[n] = {}
    /\ peers' = [peers EXCEPT ![n] = Touch(@, n)]
    /\ sweeping' = [sweeping EXCEPT ![n] = SweepDue(n)]
    /\ hb' = [hb EXCEPT ![n] = "sweep"]
    /\ UNCHANGED <<up, listed, pinging, reached, retiring, bootVars>>

SweepMark(n, p) ==
    /\ hb[n] = "sweep"
    /\ p \in sweeping[n]
    /\ peers' = [peers EXCEPT ![n] = MarkState(@, p, Inactive)]
    /\ sweeping' = [sweeping EXCEPT ![n] = @ \ {p}]
    /\ UNCHANGED <<up, listed, hb, pinging, reached, retiring, bootVars>>

\* The second snapshot of the tick: the Active peers are pinged.
PingRound(n) ==
    /\ hb[n] = "sweep"
    /\ sweeping[n] = {}
    /\ pinging' = [pinging EXCEPT ![n] =
                    {p \in Known(peers[n]) \ {n} : peers[n][p].state = Active}]
    /\ hb' = [hb EXCEPT ![n] = "ping"]
    /\ UNCHANGED <<up, listed, peers, sweeping, reached, retiring, bootVars>>

\* The callee's handler touches the caller ...
PingArrives(n, p) ==
    /\ p \in (pinging[n] \ reached[n]) \cap up
    /\ peers' = [peers EXCEPT ![p] = Touch(@, n)]
    /\ reached' = [reached EXCEPT ![n] = @ \cup {p}]
    /\ UNCHANGED <<up, listed, hb, sweeping, pinging, retiring, bootVars>>

\* ... and the caller the callee when the answer comes, which may be dead by
\* then.
PingAnswered(n, p) ==
    /\ p \in reached[n]
    /\ peers' = [peers EXCEPT ![n] = Touch(@, p)]
    /\ pinging' = [pinging EXCEPT ![n] = @ \ {p}]
    /\ reached' = [reached EXCEPT ![n] = @ \ {p}]
    /\ UNCHANGED <<up, listed, hb, sweeping, retiring, bootVars>>

\* The ping or its answer is lost, or comes too late.
PingFail(n, p) ==
    /\ p \in pinging[n]
    /\ pinging' = [pinging EXCEPT ![n] = @ \ {p}]
    /\ reached' = [reached EXCEPT ![n] = @ \ {p}]
    /\ UNCHANGED <<up, listed, peers, hb, sweeping, retiring, bootVars>>

HeartbeatLoop(n) ==
    \/ HeartbeatTick(n)
    \/ \E p \in sweeping[n] : SweepMark(n, p)
    \/ PingRound(n)
    \/ \E p \in pinging[n] : PingArrives(n, p) \/ PingAnswered(n, p) \/ PingFail(n, p)

-----------------------------------------------------------------------------
(* cleanupLoop *)

\* RunCleanup's condition.
RetireDue(n) ==
    {p \in Known(peers[n]) \ {n} :
        peers[n][p].state = Inactive /\ peers[n][p].age > StaleTimeout}

CleanupTick(n) ==
    /\ retiring[n] = {}
    /\ retiring' = [retiring EXCEPT ![n] = RetireDue(n)]
    /\ UNCHANGED <<up, listed, peers, hbVars, bootVars>>

CleanupMark(n, p) ==
    /\ p \in retiring[n]
    /\ peers' = [peers EXCEPT ![n] = MarkState(@, p, Left)]
    /\ retiring' = [retiring EXCEPT ![n] = @ \ {p}]
    /\ UNCHANGED <<up, listed, hbVars, bootVars>>

CleanupLoop(n) == CleanupTick(n) \/ \E p \in retiring[n] : CleanupMark(n, p)

-----------------------------------------------------------------------------
(* bootstrapLoop *)

\* The last list has been merged and the last reply learned.
RoundDone(n) == boot[n] = "merge" /\ merging[n] = {} /\ learning[n] = {}

\* registerBootstrap: POST /v1/register, which may fail.
RegisterSelf(n) ==
    /\ RoundDone(n)
    /\ listed' \in {listed, listed \cup {n}}
    /\ boot' = [boot EXCEPT ![n] = "fetch"]
    /\ UNCHANGED <<up, peers, hbVars, retiring, merging, dialed, learning>>

\* mergeBootstrapPeers: GET /v1/peers, self skipped ...
FetchList(n) ==
    /\ boot[n] = "fetch"
    /\ merging' = [merging EXCEPT ![n] = listed \ {n}]
    /\ boot' = [boot EXCEPT ![n] = "merge"]
    /\ UNCHANGED <<up, listed, peers, hbVars, retiring, dialed, learning>>

\* ... or an error.
FetchFail(n) ==
    /\ boot[n] = "fetch"
    /\ boot' = [boot EXCEPT ![n] = "merge"]
    /\ UNCHANGED <<up, listed, peers, hbVars, retiring, merging, dialed, learning>>

\* A listed node is upserted, and joined when that succeeds.
MergeAccepted(n, m) ==
    /\ boot[n] = "merge" /\ learning[n] = {}
    /\ m \in merging[n]
    /\ IF m \in PeerId
       THEN \E reg \in Accepted(peers[n], m, EndpointOf[m]) :
               peers' = [peers EXCEPT ![n] = reg]
       ELSE UNCHANGED peers
    /\ merging' = [merging EXCEPT ![n] = @ \ {m}]
    /\ dialed' = [dialed EXCEPT ![n] = m]
    /\ boot' = [boot EXCEPT ![n] = "join"]
    /\ UNCHANGED <<up, listed, hbVars, retiring, learning>>

MergeRefused(n, m) ==
    /\ boot[n] = "merge" /\ learning[n] = {}
    /\ m \in merging[n] \cap PeerId
    /\ \E reg \in Refused(peers[n], m, EndpointOf[m]) :
          peers' = [peers EXCEPT ![n] = reg]
    /\ merging' = [merging EXCEPT ![n] = @ \ {m}]
    /\ UNCHANGED <<up, listed, hbVars, retiring, boot, dialed, learning>>

\* JoinNetwork: the callee upserts the caller ...
JoinAccepted(n) ==
    /\ boot[n] = "join"
    /\ dialed[n] \in up
    /\ IF n \in PeerId
       THEN \E reg \in Accepted(peers[dialed[n]], n, EndpointOf[n]) :
               peers' = [peers EXCEPT ![dialed[n]] = reg]
       ELSE UNCHANGED peers
    /\ boot' = [boot EXCEPT ![n] = "reply"]
    /\ UNCHANGED <<up, listed, hbVars, retiring, merging, dialed, learning>>

\* ... unless it has no room ...
JoinRefused(n) ==
    /\ boot[n] = "join"
    /\ dialed[n] \in up /\ n \in PeerId
    /\ \E reg \in Refused(peers[dialed[n]], n, EndpointOf[n]) :
          peers' = [peers EXCEPT ![dialed[n]] = reg]
    /\ dialed' = [dialed EXCEPT ![n] = Nobody]
    /\ boot' = [boot EXCEPT ![n] = "merge"]
    /\ UNCHANGED <<up, listed, hbVars, retiring, merging, learning>>

\* ... and then, in a lock section of its own, takes the snapshot it replies
\* with: all ids of its registry, in whatever state they are.
JoinReply(n) ==
    /\ boot[n] = "reply"
    /\ learning' = [learning EXCEPT ![n] = Known(peers[dialed[n]])]
    /\ dialed' = [dialed EXCEPT ![n] = Nobody]
    /\ boot' = [boot EXCEPT ![n] = "merge"]
    /\ UNCHANGED <<up, listed, peers, hbVars, retiring, merging>>

\* The request is lost, or the reply to one that has been accepted.
JoinFail(n) ==
    /\ boot[n] \in {"join", "reply"}
    /\ dialed' = [dialed EXCEPT ![n] = Nobody]
    /\ boot' = [boot EXCEPT ![n] = "merge"]
    /\ UNCHANGED <<up, listed, peers, hbVars, retiring, merging, learning>>

\* One of KnownPeers is upserted, as Active and seen now.
Learn(n, p) ==
    /\ p \in learning[n]
    /\ \E reg \in Upsert(peers[n], p, EndpointOf[p]) :
          peers' = [peers EXCEPT ![n] = reg]
    /\ learning' = [learning EXCEPT ![n] = @ \ {p}]
    /\ UNCHANGED <<up, listed, hbVars, retiring, boot, merging, dialed>>

BootstrapLoop(n) ==
    \/ FetchList(n) \/ FetchFail(n)
    \/ \E m \in merging[n] : MergeAccepted(n, m) \/ MergeRefused(n, m)
    \/ JoinAccepted(n) \/ JoinRefused(n) \/ JoinReply(n) \/ JoinFail(n)
    \/ \E p \in learning[n] : Learn(n, p)

-----------------------------------------------------------------------------
(* Nodes, the bootstrap server and time *)

\* Nodes whose JoinNetwork call the handler of n is serving.
Served(n) == {m \in Node : boot[m] = "reply" /\ dialed[m] = n}

\* A node dies with its registry, whatever its loops were doing and the calls
\* its handlers were serving.
Crash(n) ==
    /\ n \in up \cap Mortal
    /\ up' = up \ {n}
    /\ peers' = [peers EXCEPT ![n] = OwnRegistry(n)]
    /\ hb' = [hb EXCEPT ![n] = "ping"]
    /\ sweeping' = [sweeping EXCEPT ![n] = {}]
    /\ pinging' = [pinging EXCEPT ![n] = {}]
    /\ reached' = [reached EXCEPT ![n] = {}]
    /\ retiring' = [retiring EXCEPT ![n] = {}]
    /\ boot' = [m \in Node |-> IF m \in {n} \cup Served(n) THEN "merge" ELSE boot[m]]
    /\ merging' = [merging EXCEPT ![n] = {}]
    /\ dialed' = [m \in Node |-> IF m \in {n} \cup Served(n) THEN Nobody ELSE dialed[m]]
    /\ learning' = [learning EXCEPT ![n] = {}]
    /\ UNCHANGED listed

\* It starts again; the registry is the one Crash has left.
Restart(n) ==
    /\ n \in Node \ up
    /\ peers' = [peers EXCEPT ![n] = OwnRegistry(n)]
    /\ up' = up \cup {n}
    /\ UNCHANGED <<listed, loopVars>>

\* The server restarts, its list being in memory only, or somebody calls
\* DELETE /v1/peers/{id}.
Delist ==
    /\ listed' \in {{}} \cup {listed \ {n} : n \in listed}
    /\ UNCHANGED <<up, peers, loopVars>>

Tick ==
    /\ peers' = [n \in Node |-> Aged(peers[n])]
    /\ UNCHANGED <<up, listed, loopVars>>

-----------------------------------------------------------------------------
Loops(n) ==
    \/ RegisterSelf(n)
    \/ n \in Looping /\ (HeartbeatLoop(n) \/ CleanupLoop(n) \/ BootstrapLoop(n))

Next ==
    \/ \E n \in up : Loops(n)
    \/ \E n \in Node : Crash(n) \/ Restart(n)
    \/ Delist
    \/ Tick

\* The loops of a running node are goroutines that go on for its life and
\* whose calls end; time does not stand still.
Fairness ==
    /\ \A n \in Looping :
          /\ WF_vars(n \in up /\ HeartbeatLoop(n))
          /\ WF_vars(n \in up /\ CleanupLoop(n))
          /\ WF_vars(n \in up /\ (RegisterSelf(n) \/ BootstrapLoop(n)))
    /\ WF_vars(Tick)

FairSpec == Init /\ [][Next]_vars /\ Fairness

-----------------------------------------------------------------------------
(* Properties *)

\* README.md:27: "Dead peers are detected within 60 seconds by heartbeat
\* monitors".  The least of it: when a peer is down for good and the bootstrap
\* list has come to name just the nodes that run, it does not stay Active at
\* all the others.
DelistedPeerDetected ==
    \A p \in PeerId :
        <>[](p \notin up /\ listed = up)
        => []<>(\E n \in Node \ {p} :
                   p \in Known(peers[n]) => peers[n][p].state # Active)
=============================================================================
