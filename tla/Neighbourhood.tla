---------------------------- MODULE Neighbourhood ----------------------------
(***************************************************************************)
(* One PeerHost (module Membership) among actual neighbours: the other     *)
(* nodes start, crash and come back, register with the bootstrap server    *)
(* and keep entries of each other, which they hand out in JoinNetwork      *)
(* replies.  Here a call succeeds only when somebody serves the address,   *)
(* and the list that bootstrapLoop fetches is the server's.                *)
(*                                                                         *)
(* What the node does is Membership's; this module says which of its       *)
(* inputs can occur, so every behaviour here is one of Membership.         *)
(***************************************************************************)
EXTENDS Membership

VARIABLES
    serving,    \* what every other node serves at, or NoRecord when down
    listed,     \* the bootstrap server's list, of module BootstrapList
    rumoured    \* entries in the registries of the other nodes

ASSUME NeighbourhoodAssumption == NoRecord \notin Endpoint

envVars == <<serving, listed, rumoured>>
allVars == <<vars, envVars>>

-----------------------------------------------------------------------------
\* Somebody answers gRPC calls at this address.
Answers(a) == \E p \in Others : serving[p] # NoRecord /\ serving[p].grpc = a

\* The bootstrap server.
Server == INSTANCE BootstrapList WITH Candidate <- AnyEntry

NInit ==
    /\ Init
    /\ serving = [p \in Others |-> NoRecord]
    /\ listed = {}
    /\ rumoured = {}

-----------------------------------------------------------------------------
(* The node's loops and handlers, with the inputs the surroundings allow *)

NHeartbeatLoop ==
    /\ \/ HeartbeatTick
       \/ \E p \in sweeping : SweepMark(p)
       \/ PingRound
       \/ \E t \in pinging : (Answers(t.grpc) /\ PingOk(t)) \/ PingFail(t)
       \/ HeartbeatDone
    /\ UNCHANGED envVars

NCleanupLoop == CleanupLoop /\ UNCHANGED envVars

\* registerBootstrap succeeds or fails.
NRegisterSelf ==
    /\ RegisterSelf
    /\ Server!Register(SelfEntry) \/ UNCHANGED listed
    /\ UNCHANGED <<serving, rumoured>>

NBootstrapLoop ==
    \/ NRegisterSelf
    \/ /\ \/ FetchList(listed) \/ FetchFail
          \/ \E e \in merging : MergeAccepted(e) \/ MergeRefused(e)
          \/ JoinFail
          \/ Answers(dialed) /\ JoinOk
          \/ \E e \in rumoured \cup EntriesOf(Self) : Learn(e)
          \/ LearnDone \/ MergeDone
       /\ UNCHANGED envVars

\* p calls JoinNetwork here.
NJoinNetwork(p) ==
    /\ serving[p] # NoRecord
    /\ JoinNetwork([id |-> p, ep |-> serving[p]])
    /\ UNCHANGED envVars

NHandlers ==
    \/ \E p \in Others : NJoinNetwork(p)
    \/ \E p \in Others : serving[p] # NoRecord /\ Ping(p) /\ UNCHANGED envVars
    \/ \E p \in LeaveCalls : LeaveMark(p) /\ UNCHANGED envVars
    \/ \E p \in LeaveCalls : LeaveRemove(p) /\ UNCHANGED envVars
    \/ \E p \in Announcers :
          /\ p \in Others => serving[p] # NoRecord
          /\ AddProvider(p)
          /\ UNCHANGED envVars

-----------------------------------------------------------------------------
(* The surroundings *)

\* A node comes up at an endpoint whose gRPC address nobody else serves;
\* from now on the other nodes may hold and hand out its entry.
Start(p) ==
    /\ serving[p] = NoRecord
    /\ \E ep \in MayServeAt[p] :
         /\ ~Answers(ep.grpc)
         /\ ep.grpc # SelfEndpoint.grpc
         /\ serving' = [serving EXCEPT ![p] = ep]
         /\ rumoured' = rumoured \cup {[id |-> p, ep |-> ep]}
    /\ UNCHANGED <<vars, listed>>

Crash(p) ==
    /\ serving[p] # NoRecord
    /\ serving' = [serving EXCEPT ![p] = NoRecord]
    /\ UNCHANGED <<vars, listed, rumoured>>

\* Another node registers with the bootstrap server.
RegisterOther(p) ==
    /\ serving[p] # NoRecord
    /\ Server!Register([id |-> p, ep |-> serving[p]])
    /\ UNCHANGED <<vars, serving, rumoured>>

\* The server loses an entry, or all of them.
Delist == Server!Delist /\ UNCHANGED <<vars, serving, rumoured>>

\* The last of the other nodes that held p's entry has dropped it.
Forget(p) ==
    /\ serving[p] = NoRecord
    /\ rumoured' = {e \in rumoured : e.id # p}
    /\ UNCHANGED <<vars, serving, listed>>

Surroundings ==
    \/ \E p \in Others : Start(p) \/ Crash(p) \/ RegisterOther(p) \/ Forget(p)
    \/ Delist

NNext ==
    \/ NHeartbeatLoop
    \/ NCleanupLoop
    \/ NBootstrapLoop
    \/ NHandlers
    \/ Tick /\ UNCHANGED envVars
    \/ Surroundings

\* The three loops are goroutines that run for the life of the node and
\* whose calls all time out; time does not stand still.  Nothing is asked
\* of the other nodes.
Fairness ==
    /\ WF_allVars(NHeartbeatLoop)
    /\ WF_allVars(NCleanupLoop)
    /\ WF_allVars(NBootstrapLoop)
    /\ WF_allVars(LearnDone /\ UNCHANGED envVars)
    /\ WF_allVars(Tick /\ UNCHANGED envVars)

FairSpec == NInit /\ [][NNext]_allVars /\ Fairness

\* The same, and every running node keeps calling JoinNetwork (its bootstrap
\* loop does so every BootstrapPollSec): it does not miss every one of the
\* moments at which it would be let in.
JoinAccepted(p) == NJoinNetwork(p) /\ p \in Known(peers)'

RetrySpec == FairSpec /\ \A p \in Others : SF_allVars(JoinAccepted(p))

-----------------------------------------------------------------------------
(* Properties *)

\* p is down, and nobody answers at the address held for it.
Dead(p) ==
    /\ serving[p] = NoRecord
    /\ p \in Known(peers) => ~Answers(peers[p].grpc)

\* Moreover the bootstrap list no longer has p, and no other node hands it
\* out any more.
Gone(p) == Dead(p) /\ \A e \in listed \cup rumoured : e.id # p

Retired(p) == p \in Known(peers) => peers[p].state = Left

\* Nothing under way will reach p or bring it back either.
Quiet(p) ==
    /\ Gone(p)
    /\ \A e \in merging : e.id # p
    /\ \A t \in pinging : t.id = p => ~Answers(t.grpc)

IsActive(p) == p \in Known(peers) /\ peers[p].state = Active

SomeStart == \E q \in Others : serving[q] = NoRecord /\ serving'[q] # NoRecord

QuietStays ==
    \A p \in Others :
        Quiet(p) => \/ SomeStart
                    \/ /\ Quiet(p)'
                       /\ p \in Known(peers)' => p \in Known(peers)
                       /\ IsActive(p)' => IsActive(p)
                       /\ p \in providers' => p \in providers

\* A peer that is gone, and about which nothing is under way, stays so until
\* some node comes up: no step of the loops, the handlers or the bootstrap
\* server adds it to the registry, makes it Active, or adds provider records
\* of it.
NoReturn == [][QuietStays]_allVars

\* A peer that is gone for good, and that no list or other node brings back,
\* is retired by the heartbeat and cleanup loops, again whenever a Sweep
\* working on an old snapshot has undone it.
GonePeerRetired == \A p \in Others : <>[]Gone(p) => []<>Retired(p)

\* What RunCleanup has found stale loses its provider records, also when the
\* peer is seen, rejoins or leaves while the cleanup is under way.
RetiredPeerPurged == \A p \in Others : (p \in retiring) ~> (p \notin providers)

\* A peer that keeps calling JoinNetwork gets in: the slots of peers that
\* are gone for good are reclaimed (README.md:27, "evicted to make room for
\* new nodes").  It is Active again and again, also when a cleanup working
\* on an old snapshot has retired it by mistake.
SlotReclaimed ==
    \A q \in Others :
        (/\ <>[](serving[q] # NoRecord)
         /\ \A p \in Others \ {q} : <>[]Gone(p))
        => []<>(q \in Known(peers) /\ peers[q].state = Active)
=============================================================================
