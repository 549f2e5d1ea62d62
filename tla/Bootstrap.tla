------------------------------ MODULE Bootstrap ------------------------------
(***************************************************************************)
(* The bootstrap server (cmd/bootstrap/main.go) and the nodes that call    *)
(* it.  The server keeps a list in memory under one mutex, so every        *)
(* handler is one step; with REDIS_URL it also writes every registration   *)
(* to Redis under a 5 minute TTL.  Nodes start and stop, restart under     *)
(* another id or at another endpoint, and register again and again         *)
(* (PeerHost.registerBootstrap, every BootstrapPollSec).                   *)
(***************************************************************************)
EXTENDS Naturals, Sequences, FiniteSets

CONSTANTS
    PeerId,             \* peer identities
    Addr,               \* non-empty host:port strings
    NoAddr,             \* the empty string
    MaxNetworkPeers,    \* the maximum length of the list
    MayServeAt,         \* the endpoints a peer may come up at
    Down                \* a peer that is not running

Endpoint == [grpc : Addr, http : Addr \cup {NoAddr}]

\* regPeer
Entry == [id : PeerId, grpc : Addr, http : Addr \cup {NoAddr}]

ASSUME BootstrapAssumption ==
    /\ MaxNetworkPeers \in Nat \ {0}
    /\ MayServeAt \in [PeerId -> SUBSET Endpoint]
    /\ NoAddr \notin Addr
    /\ Down \notin Endpoint

VARIABLES
    list,       \* the server's peers slice
    saved,      \* ids with a live key "bootstrap:peer:<id>" in Redis
    running     \* what every node serves at, or Down

vars == <<list, saved, running>>

EntryOf(p, ep) == [id |-> p, grpc |-> ep.grpc, http |-> ep.http]

-----------------------------------------------------------------------------
ClashIdOnly(e, f) == e.id = f.id

\* The handler's test for "the same peer": id, grpc or http address.
Clash(e, f) == e.id = f.id \/ e.grpc = f.grpc \/ e.http = f.http

Clashes(e) == \E i \in DOMAIN list : Clash(list[i], e)

\* The first entry the handler's loop meets.
IsFirstClash(i, e) ==
    Clash(list[i], e) /\ \A j \in 1..(i-1) : ~Clash(list[j], e)

RemoveIndex(s, i) == [j \in 1..(Len(s) - 1) |-> IF j < i THEN s[j] ELSE s[j + 1]]

Init ==
    /\ list = <<>>
    /\ saved = {}
    /\ running = [p \in PeerId |-> Down]

-----------------------------------------------------------------------------
(* POST /v1/register *)

ReplaceTruncates(e) ==
    \E i \in DOMAIN list :
        /\ IsFirstClash(i, e)
        /\ list' = Append(SubSeq(list, 1, i - 1), e)
        /\ saved' = (saved \ {list[i].id}) \cup {e.id}

\* A clashing entry is replaced in place, and only the first one; the key of
\* the peer it belonged to is deleted.
Replace(e) ==
    \E i \in DOMAIN list :
        /\ IsFirstClash(i, e)
        /\ list' = [list EXCEPT ![i] = e]
        /\ saved' = (saved \ {list[i].id}) \cup {e.id}

AppendSavesAddress(e) ==
    /\ ~Clashes(e)
    /\ Len(list) < MaxNetworkPeers
    /\ list' = Append(list, e)
    /\ saved' = saved \cup {e.grpc}

AppendUnbounded(e) ==
    /\ ~Clashes(e)
    /\ Len(list) <= MaxNetworkPeers
    /\ list' = Append(list, e)
    /\ saved' = saved \cup {e.id}

\* Otherwise it is appended, unless the network is full (403).
AppendNew(e) ==
    /\ ~Clashes(e)
    /\ Len(list) < MaxNetworkPeers
    /\ list' = Append(list, e)
    /\ saved' = saved \cup {e.id}

RegisterUnlessSaved(p) ==
    /\ running[p] # Down
    /\ p \notin saved
    /\ Replace(EntryOf(p, running[p])) \/ AppendNew(EntryOf(p, running[p]))
    /\ UNCHANGED running

\* A running node registers; both error answers change nothing.
Register(p) ==
    /\ running[p] # Down
    /\ Replace(EntryOf(p, running[p])) \/ AppendNew(EntryOf(p, running[p]))
    /\ UNCHANGED running

\* DELETE /v1/peers/{id}: the first entry with this id goes, and its key.
Delete(id) ==
    /\ \E i \in DOMAIN list :
         /\ list[i].id = id
         /\ \A j \in 1..(i-1) : list[j].id # id
         /\ list' = RemoveIndex(list, i)
    /\ saved' = saved \ {id}
    /\ UNCHANGED running

\* The TTL of a key runs out: no registration has renewed it for 5 minutes.
Expire(id) ==
    /\ id \in saved
    /\ saved' = saved \ {id}
    /\ UNCHANGED <<list, running>>

\* main starts with an empty slice; Redis keeps its keys.
Restart ==
    /\ list' = <<>>
    /\ UNCHANGED <<saved, running>>

-----------------------------------------------------------------------------
(* The nodes *)

\* A node comes up at an endpoint whose gRPC address nobody else serves.
Start(p) ==
    /\ running[p] = Down
    /\ \E ep \in MayServeAt[p] :
         /\ \A q \in PeerId : running[q] # Down => running[q].grpc # ep.grpc
         /\ running' = [running EXCEPT ![p] = ep]
    /\ UNCHANGED <<list, saved>>

\* It stops or crashes: nothing is told to the server.
Stop(p) ==
    /\ running[p] # Down
    /\ running' = [running EXCEPT ![p] = Down]
    /\ UNCHANGED <<list, saved>>

Next ==
    \/ \E p \in PeerId : Register(p) \/ Delete(p) \/ Expire(p) \/ Start(p) \/ Stop(p)
    \/ Restart

Spec == Init /\ [][Next]_vars

\* Every running node registers again and again.
FairSpec == Spec /\ \A p \in PeerId : WF_vars(Register(p))

-----------------------------------------------------------------------------
(* Properties *)

\* The list holds entries, Redis keys of peers, and nodes run at endpoints.
TypeOK ==
    /\ list \in Seq(Entry)
    /\ saved \subseteq PeerId
    /\ running \in [PeerId -> Endpoint \cup {Down}]

\* The list never exceeds the maximum the server enforces.
ListBounded == Len(list) <= MaxNetworkPeers

\* No ghost entries: no two entries of the list share an id or an address
\* (ARCHITECTURE.md:86).
NoGhosts ==
    \A i, j \in DOMAIN list :
        i # j => /\ list[i].id # list[j].id
                 /\ list[i].grpc # list[j].grpc
                 /\ list[i].http # list[j].http

Listed(p) == \E i \in DOMAIN list : list[i].id = p

\* p runs, no other running node advertises its HTTP address, and the list
\* has room for it.
Admissible(p) ==
    /\ running[p] # Down
    /\ \A q \in PeerId \ {p} :
          running[q] # Down => running[q].http # running[p].http
    /\ Listed(p) \/ Len(list) < MaxNetworkPeers

\* However often the list is lost, the node deleted from it or its entry
\* replaced by an earlier id of its host, a node that keeps running while
\* there is room is listed again and again.
RunningListed == \A p \in PeerId : <>[]Admissible(p) => []<>Listed(p)

\* What module BootstrapList, the server as module Neighbourhood sees it,
\* takes for the list: a set of entries.
AsListed(e) == [id |-> e.id, ep |-> [grpc |-> e.grpc, http |-> e.http]]

ListedEntries == {AsListed(list[i]) : i \in DOMAIN list}

MayRegister == UNION {{[id |-> p, ep |-> ep] : ep \in MayServeAt[p]} : p \in PeerId}

Listing == INSTANCE BootstrapList
    WITH Candidate <- MayRegister, MaxListed <- MaxNetworkPeers, listed <- ListedEntries

\* Every request does what BootstrapList allows, so the nodes can rely on it:
\* a registration takes the place of one entry of the same peer or address
\* or goes into free room, and no other entry is touched.
ListingSpec == Listing!Spec

\* A deployment in which a peer keeps its endpoint, and an address belongs
\* to one endpoint: what NoGhosts needs.  A node restarted under a new id
\* may still take over the endpoint of its old id.
FixedEndpoints ==
    /\ \A p \in PeerId : \A e, f \in MayServeAt[p] : e = f
    /\ \A p, q \in PeerId : \A e \in MayServeAt[p], f \in MayServeAt[q] :
          e.grpc = f.grpc \/ e.http = f.http => e = f
=============================================================================
