---------------------------- MODULE BlockExchange ----------------------------
(***************************************************************************)
(* How the blocks of one file travel between nodes: PeerHost.AddFile       *)
(* stores, announces and replicates them, PeerHost.GetFile looks up who    *)
(* provides the ones it lacks (dht.LookupProviders) and fetches them       *)
(* (replication.FetchBlock).  Provider records live in memory and are lost *)
(* in a crash; the block store (package storage, not in the repository)    *)
(* survives.                                                               *)
(*                                                                         *)
(* Nothing in the code calls the AddProvider RPC or ProviderRecords.Merge: *)
(* the only records a node ever holds are those it adds for itself, and    *)
(* they are modelled as the set of blocks it announces.  Membership is     *)
(* abstracted: wherever the code takes the Active peers of its registry,   *)
(* any set of other nodes will do.  The command `node add` writes to the   *)
(* same block store from a process of its own and announces nothing.       *)
(***************************************************************************)
EXTENDS XorRouting, Sequences

CONSTANTS
    Node,           \* the nodes
    File,           \* the CIDs of the file: its root node, then its chunks
    ReplFactor,     \* PeerHost.ReplFactor
    KeyOf,          \* the keys of the nodes' ids and of the CIDs
    Uploaders,      \* nodes at which the file may be uploaded
    Downloaders,    \* nodes at which it may be downloaded
    CliUsers        \* nodes at whose block store `node add` may add it

Block == {File[i] : i \in DOMAIN File}

Root == File[1]

ASSUME ExchangeAssumption ==
    /\ File \in Seq(Block) \ {<<>>}
    /\ IsFiniteSet(Node)
    /\ ReplFactor \in Nat
    /\ KeyOf \in [Node \cup Block -> Key]
    /\ \A m, n \in Node : KeyOf[m] = KeyOf[n] => m = n
    /\ Uploaders \subseteq Node
    /\ Downloaders \subseteq Node
    /\ CliUsers \subseteq Node

VARIABLES
    up,         \* the nodes that are running
    store,      \* the blocks on each node's disk
    announced,  \* the blocks each node has a provider record of itself for
    addPc,      \* AddFile: "idle", "put", "announce", "select", "push" or "done"
    addAt,      \* the index in File of the block AddFile is at
    targets,    \* replicas AddFile has still to push it to
    getPc,      \* GetFile: "idle", "need", "lookup", "fetch", "write", "ok", "failed"
    getAt,      \* the index in File of the block GetFile is at
    asking,     \* peers whose FindProvider answer is outstanding
    found,      \* providers not yet tried
    refused,    \* ghost: blocks of the download that the disk did not take
    knew        \* ghost: what each peer asked had when the lookup began, or
                \* "nothing" once it has crashed or a call to it has failed

nodeVars == <<up, store, announced>>
addVars == <<addPc, addAt, targets>>
getVars == <<getPc, getAt, asking, found, refused, knew>>
vars == <<nodeVars, addVars, getVars>>

Others(n) == Node \ {n}

NobodyKnew == [p \in Node |-> "nothing"]

Init ==
    /\ up = Node
    /\ store = [n \in Node |-> {}]
    /\ announced = [n \in Node |-> {}]
    /\ addPc = [n \in Node |-> "idle"]
    /\ addAt = [n \in Node |-> 1]
    /\ targets = [n \in Node |-> {}]
    /\ getPc = [n \in Node |-> "idle"]
    /\ getAt = [n \in Node |-> 1]
    /\ asking = [n \in Node |-> {}]
    /\ found = [n \in Node |-> {}]
    /\ refused = [n \in Node |-> {}]
    /\ knew = [n \in Node |-> NobodyKnew]

-----------------------------------------------------------------------------
(* Blocks and provider records *)

\* The disks after a node has stored a block (Store.Put).
Stored(n, block) == [store EXCEPT ![n] = @ \cup {block}]

\* The records after a node has added itself as a provider.
Recorded(n, block) == [announced EXCEPT ![n] = @ \cup {block}]

\* Whom a node's records name: itself, or nobody.
Providers(n, block) == {p \in {n} : block \in announced[n]}

\* GetBlock succeeds: the node is up and reads the block from its store.
Serves(p, block) == p \in up /\ block \in store[p]

-----------------------------------------------------------------------------
(* AddFile *)

PutChunksUnchecked(n) ==
    /\ n \in Uploaders \cap up
    /\ addPc[n] \in {"idle", "done"}
    /\ \E some \in SUBSET (Block \ {Root}) :
          store' = [store EXCEPT ![n] = @ \cup some]
    /\ addPc' = [addPc EXCEPT ![n] = "put"]
    /\ addAt' = [addAt EXCEPT ![n] = 1]
    /\ UNCHANGED <<up, announced, targets, getVars>>

\* chunker.PutFile stores the chunks; when it or the Put of the root fails,
\* some may be stored and the upload is over.
PutChunks(n) ==
    /\ n \in Uploaders \cap up
    /\ addPc[n] \in {"idle", "done"}
    /\ \/ /\ store' = [store EXCEPT ![n] = @ \cup (Block \ {Root})]
          /\ addPc' = [addPc EXCEPT ![n] = "put"]
       \/ \E some \in SUBSET (Block \ {Root}) :
             /\ store' = [store EXCEPT ![n] = @ \cup some]
             /\ addPc' = [addPc EXCEPT ![n] = "idle"]
    /\ addAt' = [addAt EXCEPT ![n] = 1]
    /\ UNCHANGED <<up, announced, targets, getVars>>

\* The root node, which names the chunks, is stored after them.
PutRoot(n) ==
    /\ addPc[n] = "put"
    /\ store' = Stored(n, Root)
    /\ addPc' = [addPc EXCEPT ![n] = "announce"]
    /\ UNCHANGED <<up, announced, addAt, targets, getVars>>

\* providers.Add for the root and for every chunk, one lock section each.
Announce(n) ==
    /\ addPc[n] = "announce"
    /\ announced' = Recorded(n, File[addAt[n]])
    /\ IF addAt[n] < Len(File)
       THEN /\ addAt' = [addAt EXCEPT ![n] = @ + 1]
            /\ UNCHANGED addPc
       ELSE /\ addAt' = [addAt EXCEPT ![n] = 1]
            /\ addPc' = [addPc EXCEPT ![n] = "select"]
    /\ UNCHANGED <<up, store, targets, getVars>>

\* SelectReplicaPeerIDs: the ReplFactor Active peers closest to the block.
Replicas(block, active) ==
    LET keys == {KeyOf[p] : p \in active}
    IN {p \in active : KeyOf[p] \in Closest(KeyOf[block], ReplFactor, keys)}

\* A replica that is gone from the registry when its address is looked up
\* there is passed over.
SelectReplicas(n) ==
    /\ addPc[n] = "select"
    /\ \E active \in SUBSET Others(n) :
          \E kept \in SUBSET Replicas(File[addAt[n]], active) :
             targets' = [targets EXCEPT ![n] = kept]
    /\ addPc' = [addPc EXCEPT ![n] = "push"]
    /\ UNCHANGED <<nodeVars, addAt, getVars>>

\* The block cannot be read back from the store: AddFile returns the error,
\* and leaves this block and those after it without replicas.
ReadBackFails(n) ==
    /\ addPc[n] = "select"
    /\ addPc' = [addPc EXCEPT ![n] = "idle"]
    /\ addAt' = [addAt EXCEPT ![n] = 1]
    /\ UNCHANGED <<nodeVars, targets, getVars>>

\* StoreBlock at one target: it stores the block and announces itself.
PushOk(n, t) ==
    /\ addPc[n] = "push"
    /\ t \in targets[n] \cap up
    /\ store' = Stored(t, File[addAt[n]])
    /\ announced' = Recorded(t, File[addAt[n]])
    /\ targets' = [targets EXCEPT ![n] = @ \ {t}]
    /\ UNCHANGED <<up, addPc, addAt, getVars>>

\* The call fails; the next target is tried, the failure only logged.
PushFail(n, t) ==
    /\ addPc[n] = "push"
    /\ t \in targets[n]
    /\ targets' = [targets EXCEPT ![n] = @ \ {t}]
    /\ UNCHANGED <<nodeVars, addPc, addAt, getVars>>

PushDonePastEnd(n) ==
    /\ addPc[n] = "push"
    /\ targets[n] = {}
    /\ addAt' = [addAt EXCEPT ![n] = @ + 1]
    /\ addPc' = [addPc EXCEPT ![n] = IF addAt[n] <= Len(File) THEN "select" ELSE "done"]
    /\ UNCHANGED <<nodeVars, targets, getVars>>

\* Every target of the block has been tried: on to the next, or return.
PushDone(n) ==
    /\ addPc[n] = "push"
    /\ targets[n] = {}
    /\ IF addAt[n] < Len(File)
       THEN /\ addAt' = [addAt EXCEPT ![n] = @ + 1]
            /\ addPc' = [addPc EXCEPT ![n] = "select"]
       ELSE /\ addAt' = [addAt EXCEPT ![n] = 1]
            /\ addPc' = [addPc EXCEPT ![n] = "done"]
    /\ UNCHANGED <<nodeVars, targets, getVars>>

AddFile(n) ==
    \/ PutChunks(n) \/ PutRoot(n) \/ Announce(n)
    \/ SelectReplicas(n) \/ ReadBackFails(n)
    \/ \E t \in targets[n] : PushOk(n, t) \/ PushFail(n, t)
    \/ PushDone(n)

-----------------------------------------------------------------------------
(* node add, beside the node or while it is down *)

\* The command stores chunks; it may fail or be killed between two of them.
CliPutChunks(n) ==
    /\ n \in CliUsers
    /\ \E some \in SUBSET (Block \ {Root}) :
          store' = [store EXCEPT ![n] = @ \cup some]
    /\ UNCHANGED <<up, announced, addVars, getVars>>

\* The root node comes after all of them.
CliPutRoot(n) ==
    /\ n \in CliUsers
    /\ Block \ {Root} \subseteq store[n]
    /\ store' = Stored(n, Root)
    /\ UNCHANGED <<up, announced, addVars, getVars>>

-----------------------------------------------------------------------------
(* GetFile *)

Wanted(n) == File[getAt[n]]

GetStart(n) ==
    /\ n \in Downloaders \cap up
    /\ getPc[n] \in {"idle", "ok", "failed"}
    /\ getPc' = [getPc EXCEPT ![n] = "need"]
    /\ getAt' = [getAt EXCEPT ![n] = 1]
    /\ refused' = [refused EXCEPT ![n] = {}]
    /\ knew' = [knew EXCEPT ![n] = NobodyKnew]
    /\ UNCHANGED <<nodeVars, addVars, asking, found>>

\* On to the next block, or return after the last.
NextBlock(n) ==
    \/ /\ getAt[n] < Len(File)
       /\ getAt' = [getAt EXCEPT ![n] = @ + 1]
       /\ getPc' = [getPc EXCEPT ![n] = "need"]
    \/ /\ getAt[n] = Len(File)
       /\ getPc' = [getPc EXCEPT ![n] = "ok"]
       /\ UNCHANGED getAt

\* The block is there: a chunk has then to be written to the client, the
\* root node has not.
Obtained(n) ==
    /\ \/ getAt[n] = 1 /\ NextBlock(n)
       \/ /\ getAt[n] > 1
          /\ getPc' = [getPc EXCEPT ![n] = "write"]
          /\ UNCHANGED getAt
    /\ knew' = [knew EXCEPT ![n] = NobodyKnew]

ReadLocal(n) ==
    /\ getPc[n] = "need"
    /\ Wanted(n) \in store[n]
    /\ Obtained(n)
    /\ UNCHANGED <<nodeVars, addVars, asking, found, refused>>

\* What a peer of the lookup has of the wanted block; a copy that its upload
\* is about to announce does not count yet.
Knows(n, p) ==
    IF p \notin up \/ Wanted(n) \notin store[p] THEN "nothing"
    ELSE IF Wanted(n) \in announced[p] THEN "announced"
    ELSE IF addPc[p] \in {"put", "announce"} THEN "nothing"
    ELSE "stored"

\* LookupProviders: the node's own records, then FindProvider to every peer
\* of the registry snapshot that is Active, all at once.
Lookup(n) ==
    /\ getPc[n] = "need"
    /\ Wanted(n) \notin store[n]
    /\ \E active \in SUBSET Others(n) :
          /\ asking' = [asking EXCEPT ![n] = active]
          /\ knew' = [knew EXCEPT ![n] =
                        [p \in Node |-> IF p \in active THEN Knows(n, p) ELSE "nothing"]]
    /\ found' = [found EXCEPT ![n] = Providers(n, Wanted(n))]
    /\ getPc' = [getPc EXCEPT ![n] = "lookup"]
    /\ UNCHANGED <<nodeVars, addVars, getAt, refused>>

\* FindProvider is answered from the peer's records.
Answer(n, p) ==
    /\ getPc[n] = "lookup"
    /\ p \in asking[n] \cap up
    /\ asking' = [asking EXCEPT ![n] = @ \ {p}]
    /\ found' = [found EXCEPT ![n] = @ \cup Providers(p, Wanted(n))]
    /\ UNCHANGED <<nodeVars, addVars, getPc, getAt, refused, knew>>

\* The peer is down, or does not answer within 5 s.
NoAnswer(n, p) ==
    /\ getPc[n] = "lookup"
    /\ p \in asking[n]
    /\ asking' = [asking EXCEPT ![n] = @ \ {p}]
    /\ knew' = [knew EXCEPT ![n][p] = "nothing"]
    /\ UNCHANGED <<nodeVars, addVars, getPc, getAt, found, refused>>

LookupDoneEarly(n) ==
    /\ getPc[n] = "lookup"
    /\ getPc' = [getPc EXCEPT ![n] = "fetch"]
    /\ asking' = [asking EXCEPT ![n] = {}]
    /\ UNCHANGED <<nodeVars, addVars, getAt, found, refused, knew>>

\* wg.Wait: every peer has answered or timed out.
LookupDone(n) ==
    /\ getPc[n] = "lookup"
    /\ asking[n] = {}
    /\ getPc' = [getPc EXCEPT ![n] = "fetch"]
    /\ UNCHANGED <<nodeVars, addVars, getAt, asking, found, refused, knew>>

FetchOkNoCache(n, p) ==
    /\ getPc[n] = "fetch"
    /\ p \in found[n] /\ Serves(p, Wanted(n))
    /\ found' = [found EXCEPT ![n] = {}]
    /\ Obtained(n)
    /\ UNCHANGED <<nodeVars, addVars, asking, refused>>

\* GetBlock at one provider: the block is checked against its CID, cached
\* in the store if that takes it, but not announced.
FetchOk(n, p) ==
    /\ getPc[n] = "fetch"
    /\ p \in found[n] /\ Serves(p, Wanted(n))
    /\ \/ store' = Stored(n, Wanted(n)) /\ UNCHANGED refused
       \/ refused' = [refused EXCEPT ![n] = @ \cup {Wanted(n)}] /\ UNCHANGED store
    /\ found' = [found EXCEPT ![n] = {}]
    /\ Obtained(n)
    /\ UNCHANGED <<up, announced, addVars, asking>>

FetchRetry(n, p) ==
    /\ getPc[n] = "fetch"
    /\ p \in found[n]
    /\ knew' = [knew EXCEPT ![n][p] = "nothing"]
    /\ UNCHANGED <<nodeVars, addVars, getPc, getAt, asking, found, refused>>

\* The provider is down or does not answer within 15 s: try the next one.
FetchFail(n, p) ==
    /\ getPc[n] = "fetch"
    /\ p \in found[n]
    /\ found' = [found EXCEPT ![n] = @ \ {p}]
    /\ knew' = [knew EXCEPT ![n][p] = "nothing"]
    /\ UNCHANGED <<nodeVars, addVars, getPc, getAt, asking, refused>>

\* No provider is left: GetFile returns an error.
FetchNone(n) ==
    /\ getPc[n] = "fetch"
    /\ found[n] = {}
    /\ getPc' = [getPc EXCEPT ![n] = "failed"]
    /\ UNCHANGED <<nodeVars, addVars, getAt, asking, found, refused, knew>>

\* The chunk is written to the client (w.Write), or that fails and ends the
\* download.  Nothing bounds the time it takes: the HTTP server has no write
\* timeout, and a client that stops reading keeps the download waiting here.
WriteChunk(n) ==
    /\ getPc[n] = "write"
    /\ \/ NextBlock(n)
       \/ /\ getPc' = [getPc EXCEPT ![n] = "failed"]
          /\ UNCHANGED getAt
    /\ UNCHANGED <<nodeVars, addVars, asking, found, refused, knew>>

\* What the node does for a download without its client.
GetProceed(n) ==
    \/ ReadLocal(n) \/ Lookup(n)
    \/ \E p \in asking[n] : Answer(n, p) \/ NoAnswer(n, p)
    \/ LookupDone(n)
    \/ \E p \in found[n] : FetchOk(n, p) \/ FetchFail(n, p)
    \/ FetchNone(n)

-----------------------------------------------------------------------------
(* Nodes *)

\* A node dies, with its records and whatever it was doing.
Crash(n) ==
    /\ n \in up
    /\ up' = up \ {n}
    /\ announced' = [announced EXCEPT ![n] = {}]
    /\ addPc' = [addPc EXCEPT ![n] = "idle"]
    /\ addAt' = [addAt EXCEPT ![n] = 1]
    /\ targets' = [targets EXCEPT ![n] = {}]
    /\ getPc' = [getPc EXCEPT ![n] = "idle"]
    /\ getAt' = [getAt EXCEPT ![n] = 1]
    /\ asking' = [asking EXCEPT ![n] = {}]
    /\ found' = [found EXCEPT ![n] = {}]
    /\ refused' = [refused EXCEPT ![n] = {}]
    /\ knew' = [m \in Node |-> IF m = n THEN NobodyKnew
                               ELSE [knew[m] EXCEPT ![n] = "nothing"]]
    /\ UNCHANGED store

\* It starts again on the same data directory.
Restart(n) ==
    /\ n \notin up
    /\ up' = up \cup {n}
    /\ UNCHANGED <<store, announced, addVars, getVars>>

-----------------------------------------------------------------------------
Next ==
    \E n \in Node :
        \/ AddFile(n) \/ GetStart(n) \/ GetProceed(n) \/ WriteChunk(n)
        \/ CliPutChunks(n) \/ CliPutRoot(n)
        \/ Crash(n) \/ Restart(n)

Spec == Init /\ [][Next]_vars

\* Every call of a download is answered or times out, after 5 s in a lookup
\* and 15 s in a fetch.  Nothing is assumed of the write to the client.
FairSpec == Spec /\ \A n \in Node : WF_vars(GetProceed(n))

-----------------------------------------------------------------------------
(* Properties *)

\* The values of the state of the nodes, the uploads and the downloads.
TypeOK ==
    /\ up \subseteq Node
    /\ store \in [Node -> SUBSET Block]
    /\ announced \in [Node -> SUBSET Block]
    /\ addPc \in [Node -> {"idle", "put", "announce", "select", "push", "done"}]
    /\ addAt \in [Node -> 1..Len(File)]
    /\ targets \in [Node -> SUBSET Node]
    /\ getPc \in [Node -> {"idle", "need", "lookup", "fetch", "write", "ok", "failed"}]
    /\ getAt \in [Node -> 1..Len(File)]
    /\ asking \in [Node -> SUBSET Node]
    /\ found \in [Node -> SUBSET Node]
    /\ refused \in [Node -> SUBSET Block]
    /\ knew \in [Node -> [Node -> {"nothing", "stored", "announced"}]]

\* Nobody announces a block it does not have, and whoever is told of as a
\* provider still has the block: neither a crash in the middle of an upload
\* nor one between an answer and the fetch leaves a provider without it.
ProvidersHaveIt ==
    /\ \A n \in Node : announced[n] \subseteq store[n]
    /\ \A n \in Node : \A p \in found[n] : Wanted(n) \in store[p]

\* A download that succeeded leaves the whole file in the node's own store,
\* but for what its disk would not take, whatever crashed or was fetched from
\* whom in between.
DownloadComplete ==
    \A n \in Node : getPc[n] = "ok" => Block \ refused[n] \subseteq store[n]

\* A lookup loses no answer and FetchBlock "tries each provider gRPC address
\* until GetBlock succeeds" (recovery.go:13): of the peers the lookup asked,
\* those Active in the node's registry, whoever had announced the missing
\* block as it began has crashed or failed a call by the time the download
\* fails.  Nothing is said of a peer it did not ask; a live provider that the
\* registry does not list as Active is no help.
AskedProvidersTried ==
    \A n \in Node : getPc[n] = "failed" => \A p \in Node : knew[n][p] # "announced"

\* ARCHITECTURE.md:24: a file can be retrieved "as long as at least one other
\* computer stored a copy", of the computers the lookup asked.
FailsWithoutCopy ==
    \A n \in Node : getPc[n] = "failed" => \A p \in Node : knew[n][p] = "nothing"

\* How far the download is with the block it is at.
Stage(n) ==
    CASE getPc[n] = "need"   -> 0
      [] getPc[n] = "lookup" -> 1
      [] getPc[n] = "fetch"  -> 2
      [] getPc[n] = "write"  -> 3
      [] OTHER               -> 4

Downloading(n) == getPc[n] \in {"need", "lookup", "fetch", "write"}

\* One block further; or a stage further with it; or one peer fewer to hear
\* from, or one provider fewer to try.
Further(n) ==
    \/ getAt'[n] > getAt[n]
    \/ /\ getAt'[n] = getAt[n]
       /\ \/ Stage(n)' > Stage(n)
          \/ Stage(n)' = 1 /\ Stage(n) = 1
             /\ asking'[n] \subseteq asking[n] /\ asking'[n] # asking[n]
          \/ Stage(n)' = 2 /\ Stage(n) = 2
             /\ found'[n] \subseteq found[n] /\ found'[n] # found[n]

\* Every step of a download gets it further, and until its node dies no
\* step of anybody else sets it back: it asks no peer and tries no provider
\* twice for a block, and begins none again.  There are finitely many peers
\* and blocks: a download that keeps taking steps comes to an end.
DownloadForward ==
    [][\A n \in Node :
          /\ GetProceed(n) \/ WriteChunk(n) => Further(n)
          /\ Downloading(n) => \/ UNCHANGED <<getPc[n], getAt[n], asking[n], found[n]>>
                               \/ Further(n)
                               \/ Crash(n)]_vars

\* A client that goes on reading, so that no write lasts for ever.
ClientReads(n) == []<>(getPc[n] # "write")

\* A download whose client goes on reading comes to an end, whatever crashes,
\* answers late or is fetched.
DownloadEnds ==
    \A n \in Node :
        ClientReads(n) =>
            ((getPc[n] = "need") ~> (getPc[n] \in {"idle", "ok", "failed"}))
=============================================================================
