------------------------- MODULE BlockExchangeProofs -------------------------
(***************************************************************************)
(* What holds of an upload and a download for any number of nodes and a    *)
(* file of any length, whatever crashes or fails: a provider record is     *)
(* backed by a block on disk, a download that ends well has every block    *)
(* the disk would take, and one that fails has tried every provider that   *)
(* the peers it asked told it of.                                          *)
(***************************************************************************)
EXTENDS BlockExchange, XorRoutingProofs

USE DEF Stored, Recorded

\* What an upload has reached is on the disk of its node.
UploadStored ==
    \A n \in Node :
        /\ addPc[n] = "put" => Block \ {Root} \subseteq store[n]
        /\ addPc[n] \in {"announce", "select", "push", "done"} => Block \subseteq store[n]

\* A record is never without its block.
RecordsBacked == \A n \in Node : announced[n] \subseteq store[n]

\* A download has tried to store every block before the one it is at, and
\* that one too when it writes it.
StoredSoFar ==
    \A n \in Node :
        /\ getPc[n] # "idle" =>
              \A i \in 1..(getAt[n] - 1) : File[i] \in store[n] \cup refused[n]
        /\ getPc[n] = "write" => Wanted(n) \in store[n] \cup refused[n]
        /\ getPc[n] = "ok" => Block \subseteq store[n] \cup refused[n]

\* The providers found belong to the block the download is at, and have it.
FoundHaveIt ==
    \A n \in Node :
        /\ getPc[n] \notin {"lookup", "fetch"} => found[n] = {}
        /\ \A p \in found[n] : Wanted(n) \in store[p]

\* A peer that had announced the block when the lookup began, and that has
\* neither crashed nor failed to answer since, has its record still, and is
\* waiting to be asked or to be tried.
KnownPending ==
    \A n, p \in Node : knew[n][p] = "announced" =>
        /\ Wanted(n) \in announced[p]
        /\ \/ getPc[n] = "lookup" /\ p \in asking[n] \cup found[n]
           \/ getPc[n] = "fetch" /\ p \in found[n]

DownloadInv == StoredSoFar /\ FoundHaveIt /\ KnownPending

IInv == TypeOK /\ UploadStored /\ RecordsBacked /\ DownloadInv

-----------------------------------------------------------------------------
(* Types *)

\* The file has at least its root node, and its indices name its blocks.
LEMMA FileFacts ==
    /\ Len(File) \in Nat /\ Len(File) >= 1
    /\ Root \in Block
    /\ \A i \in 1..Len(File) : File[i] \in Block
    /\ \A b \in Block : \E i \in 1..Len(File) : File[i] = b
  <1>1. File \in Seq(Block) /\ File # <<>>
    BY ExchangeAssumption
  <1>2. Len(File) \in Nat /\ Len(File) >= 1 /\ DOMAIN File = 1..Len(File)
    BY <1>1
  <1>3. 1 \in 1..Len(File)
    BY <1>2
  <1> QED
    BY <1>2, <1>3 DEF Block, Root

\* The initial state is well typed.
LEMMA TypeInit == Init => TypeOK
  BY FileFacts DEF Init, TypeOK, NobodyKnew

\* Adding blocks to what a node has leaves a set of blocks.
LEMMA AddBlocks ==
    ASSUME NEW f \in [Node -> SUBSET Block], NEW n \in Node, NEW some \in SUBSET Block
    PROVE  [f EXCEPT ![n] = @ \cup some] \in [Node -> SUBSET Block]
  OBVIOUS

\* The index after one that is not the last is an index of the file.
LEMMA NextIndex ==
    ASSUME NEW f \in [Node -> 1..Len(File)], NEW n \in Node, f[n] < Len(File)
    PROVE  [f EXCEPT ![n] = @ + 1] \in [Node -> 1..Len(File)]
  <1>1. f[n] + 1 \in 1..Len(File)
    BY FileFacts
  <1> QED
    BY <1>1

\* What a peer of a lookup has is one of three things.
LEMMA KnowsType ==
    \A n, p \in Node : Knows(n, p) \in {"nothing", "stored", "announced"}
  BY DEF Knows

\* Every step of an upload, of node add, of a download or of a node that dies
\* or starts keeps the types.
LEMMA TypeStep == TypeOK /\ [Next]_vars => TypeOK'
  <1> SUFFICES ASSUME TypeOK, [Next]_vars PROVE TypeOK'
    OBVIOUS
  <1> USE DEF TypeOK, addVars, getVars, nodeVars
  <1>1. ASSUME NEW n \in Node, PutChunks(n) PROVE TypeOK'
    <2>1. \E some \in SUBSET Block : store' = [store EXCEPT ![n] = @ \cup some]
      <3>1. Block \ {Root} \in SUBSET Block /\ SUBSET (Block \ {Root}) \subseteq SUBSET Block
        OBVIOUS
      <3> QED
        BY <1>1, <3>1 DEF PutChunks
    <2>2. store' \in [Node -> SUBSET Block]
      BY <2>1, AddBlocks
    <2>3. addPc' = [addPc EXCEPT ![n] = "put"] \/ addPc' = [addPc EXCEPT ![n] = "idle"]
      BY <1>1 DEF PutChunks
    <2>4. 1 \in 1..Len(File)
      BY FileFacts
    <2>5. /\ addAt' = [addAt EXCEPT ![n] = 1]
          /\ UNCHANGED <<up, announced, targets, getVars>>
      BY <1>1 DEF PutChunks
    <2>6. addAt' \in [Node -> 1..Len(File)]
      BY <2>4, <2>5
    <2>7. addPc' \in [Node -> {"idle", "put", "announce", "select", "push", "done"}]
      BY <2>3
    <2> QED
      BY <2>2, <2>5, <2>6, <2>7
  <1>2. ASSUME NEW n \in Node, PutRoot(n) PROVE TypeOK'
    BY <1>2, FileFacts DEF PutRoot
  <1>3. ASSUME NEW n \in Node, Announce(n) PROVE TypeOK'
    <2>1. addAt' \in [Node -> 1..Len(File)]
      <3>1. 1 \in 1..Len(File)
        BY FileFacts
      <3>2. CASE addAt[n] < Len(File)
        <4>1. addAt' = [addAt EXCEPT ![n] = @ + 1]
          BY <1>3, <3>2 DEF Announce
        <4> QED
          BY <3>2, <4>1, NextIndex
      <3>3. CASE ~(addAt[n] < Len(File))
        BY <1>3, <3>1, <3>3 DEF Announce
      <3> QED
        BY <3>2, <3>3
    <2>2. File[addAt[n]] \in Block
      BY FileFacts
    <2> QED
      BY <1>3, <2>1, <2>2 DEF Announce
  <1>4. ASSUME NEW n \in Node, SelectReplicas(n) PROVE TypeOK'
    <2>1. PICK active \in SUBSET Others(n) :
             \E kept \in SUBSET Replicas(File[addAt[n]], active) :
                 targets' = [targets EXCEPT ![n] = kept]
      BY <1>4 DEF SelectReplicas
    <2>2. Replicas(File[addAt[n]], active) \subseteq Node
      BY DEF Replicas, Others
    <2> QED
      BY <1>4, <2>1, <2>2 DEF SelectReplicas
  <1>5. ASSUME NEW n \in Node, NEW t \in targets[n], PushOk(n, t) PROVE TypeOK'
    BY <1>5, FileFacts DEF PushOk
  <1>6. ASSUME NEW n \in Node, NEW t \in targets[n], PushFail(n, t) PROVE TypeOK'
    BY <1>6 DEF PushFail
  <1>7. ASSUME NEW n \in Node, PushDone(n) PROVE TypeOK'
    <2>1. addAt' \in [Node -> 1..Len(File)]
      <3>1. 1 \in 1..Len(File)
        BY FileFacts
      <3>2. CASE addAt[n] < Len(File)
        <4>1. addAt' = [addAt EXCEPT ![n] = @ + 1]
          BY <1>7, <3>2 DEF PushDone
        <4> QED
          BY <3>2, <4>1, NextIndex
      <3>3. CASE ~(addAt[n] < Len(File))
        BY <1>7, <3>1, <3>3 DEF PushDone
      <3> QED
        BY <3>2, <3>3
    <2> QED
      BY <1>7, <2>1 DEF PushDone
  <1>8. ASSUME NEW n \in Node, CliPutChunks(n) \/ CliPutRoot(n) PROVE TypeOK'
    <2>1. \E some \in SUBSET Block : store' = [store EXCEPT ![n] = @ \cup some]
      <3>1. {Root} \in SUBSET Block /\ SUBSET (Block \ {Root}) \subseteq SUBSET Block
        BY FileFacts
      <3> QED
        BY <1>8, <3>1 DEF CliPutChunks, CliPutRoot
    <2>2. store' \in [Node -> SUBSET Block]
      BY <2>1, AddBlocks
    <2> QED
      BY <1>8, <2>2 DEF CliPutChunks, CliPutRoot
  <1>9. ASSUME NEW n \in Node, GetStart(n) PROVE TypeOK'
    BY <1>9, FileFacts DEF GetStart, NobodyKnew
  <1>0. ASSUME NEW n \in Node, NextBlock(n) \/ Obtained(n) \/ WriteChunk(n)
        PROVE  /\ getAt' \in [Node -> 1..Len(File)]
               /\ getPc' \in [Node -> {"idle", "need", "lookup", "fetch", "write", "ok", "failed"}]
    <2>1. getAt' \in [Node -> 1..Len(File)]
      <3>1. CASE getAt' = getAt
        BY <3>1
      <3>2. CASE getAt[n] < Len(File) /\ getAt' = [getAt EXCEPT ![n] = @ + 1]
        BY <3>2, NextIndex
      <3> QED
        BY <1>0, <3>1, <3>2 DEF NextBlock, Obtained, WriteChunk
    <2>2. \E pc \in {"need", "write", "ok", "failed"} : getPc' = [getPc EXCEPT ![n] = pc]
      BY <1>0 DEF NextBlock, Obtained, WriteChunk
    <2> QED
      BY <1>0, <2>1, <2>2
  <1>21. ASSUME NEW n \in Node, Obtained(n)
        PROVE  knew' \in [Node -> [Node -> {"nothing", "stored", "announced"}]]
    BY <1>21 DEF Obtained, NobodyKnew
  <1>10. ASSUME NEW n \in Node, ReadLocal(n) PROVE TypeOK'
    BY <1>10, <1>0, <1>21 DEF ReadLocal
  <1>11. ASSUME NEW n \in Node, Lookup(n) PROVE TypeOK'
    <2>1. PICK active \in SUBSET Others(n) :
             /\ asking' = [asking EXCEPT ![n] = active]
             /\ knew' = [knew EXCEPT ![n] =
                           [p \in Node |-> IF p \in active THEN Knows(n, p) ELSE "nothing"]]
      BY <1>11 DEF Lookup
    <2>2. knew' \in [Node -> [Node -> {"nothing", "stored", "announced"}]]
      BY <2>1, KnowsType
    <2>3. active \subseteq Node /\ Providers(n, Wanted(n)) \subseteq Node
      BY DEF Others, Providers
    <2> QED
      BY <1>11, <2>1, <2>2, <2>3 DEF Lookup
  <1>12. ASSUME NEW n \in Node, NEW p \in asking[n], Answer(n, p) \/ NoAnswer(n, p)
         PROVE TypeOK'
    <2>1. knew' \in [Node -> [Node -> {"nothing", "stored", "announced"}]]
      <3>1. [knew[n] EXCEPT ![p] = "nothing"] \in [Node -> {"nothing", "stored", "announced"}]
        OBVIOUS
      <3>2. CASE Answer(n, p)
        BY <3>2 DEF Answer
      <3>3. CASE NoAnswer(n, p)
        <4> DEFINE k == [knew[n] EXCEPT ![p] = "nothing"]
        <4>1. knew' = [knew EXCEPT ![n] = k]
          BY <3>3 DEF NoAnswer
        <4> HIDE DEF k
        <4> QED
          BY <3>1, <4>1 DEF k
      <3> QED
        BY <1>12, <3>2, <3>3
    <2>2. Providers(p, Wanted(n)) \in SUBSET Node
      BY DEF Providers
    <2>3. found' \in [Node -> SUBSET Node]
      <3>1. CASE Answer(n, p)
        BY <2>2, <3>1 DEF Answer
      <3>2. CASE NoAnswer(n, p)
        BY <3>2 DEF NoAnswer
      <3> QED
        BY <1>12, <3>1, <3>2
    <2>4. /\ asking' = [asking EXCEPT ![n] = @ \ {p}]
          /\ UNCHANGED <<nodeVars, addVars, getPc, getAt, refused>>
      BY <1>12 DEF Answer, NoAnswer
    <2> QED
      BY <2>1, <2>3, <2>4
  <1>13. ASSUME NEW n \in Node, LookupDone(n) \/ FetchNone(n) PROVE TypeOK'
    <2>1. CASE LookupDone(n)
      BY <2>1 DEF LookupDone
    <2>2. CASE FetchNone(n)
      BY <2>2 DEF FetchNone
    <2> QED
      BY <1>13, <2>1, <2>2
  <1>14. ASSUME NEW n \in Node, NEW p \in found[n], FetchOk(n, p) PROVE TypeOK'
    <2>1. Wanted(n) \in Block
      BY FileFacts DEF Wanted
    <2>2. store' \in [Node -> SUBSET Block]
      <3>1. CASE store' = [store EXCEPT ![n] = @ \cup {Wanted(n)}]
        BY <2>1, <3>1, AddBlocks
      <3>2. CASE store' = store
        BY <3>2
      <3> QED
        BY <1>14, <3>1, <3>2 DEF FetchOk
    <2>3. refused' \in [Node -> SUBSET Block]
      <3>1. CASE refused' = [refused EXCEPT ![n] = @ \cup {Wanted(n)}]
        BY <2>1, <3>1, AddBlocks
      <3>2. CASE refused' = refused
        BY <3>2
      <3> QED
        BY <1>14, <3>1, <3>2 DEF FetchOk
    <2>4. found' = [found EXCEPT ![n] = {}] /\ UNCHANGED <<up, announced, addVars, asking>>
      BY <1>14 DEF FetchOk
    <2> QED
      BY <1>14, <1>0, <1>21, <2>2, <2>3, <2>4 DEF FetchOk
  <1>15. ASSUME NEW n \in Node, NEW p \in found[n], FetchFail(n, p) PROVE TypeOK'
    BY <1>15 DEF FetchFail
  <1>16. ASSUME NEW n \in Node, Crash(n) PROVE TypeOK'
    <2>1. knew' \in [Node -> [Node -> {"nothing", "stored", "announced"}]]
      BY <1>16 DEF Crash, NobodyKnew
    <2>2. addAt' \in [Node -> 1..Len(File)] /\ getAt' \in [Node -> 1..Len(File)]
      BY <1>16, FileFacts DEF Crash
    <2>3. announced' \in [Node -> SUBSET Block] /\ refused' \in [Node -> SUBSET Block]
      BY <1>16 DEF Crash
    <2> QED
      BY <1>16, <2>1, <2>2, <2>3 DEF Crash
  <1>17. ASSUME NEW n \in Node, Restart(n) PROVE TypeOK'
    BY <1>17 DEF Restart
  <1>18. ASSUME NEW n \in Node, ReadBackFails(n) PROVE TypeOK'
    BY <1>18, FileFacts DEF ReadBackFails
  <1>19. ASSUME NEW n \in Node, WriteChunk(n) PROVE TypeOK'
    <2>1. UNCHANGED <<nodeVars, addVars, asking, found, refused, knew>>
      BY <1>19 DEF WriteChunk
    <2> QED
      BY <1>19, <1>0, <2>1
  <1>20. CASE UNCHANGED vars
    BY <1>20 DEF vars
  <1> QED
    BY <1>1, <1>2, <1>3, <1>4, <1>5, <1>6, <1>7, <1>8, <1>9, <1>10, <1>11, <1>12,
       <1>13, <1>14, <1>15, <1>16, <1>17, <1>18, <1>19, <1>20 DEF Next, AddFile, GetProceed

\* The state of the nodes, uploads and downloads stays well typed.
THEOREM TypeCorrect == Spec => []TypeOK
  BY TypeInit, TypeStep, PTL DEF Spec
-----------------------------------------------------------------------------
(* What is on the disks *)

\* Adding blocks to what one node has takes none from any.
LEMMA AddBlocksKeeps ==
    ASSUME NEW f \in [Node -> SUBSET Block], NEW n \in Node, NEW some
    PROVE  \A m \in Node : f[m] \subseteq [f EXCEPT ![n] = @ \cup some][m]
  OBVIOUS

\* No step takes a block from a disk, and only a crash loses records.
LEMMA NothingLost ==
    ASSUME TypeOK, [Next]_vars
    PROVE  /\ \A n \in Node : store[n] \subseteq store'[n]
           /\ \A n \in Node : announced[n] \subseteq announced'[n] \/ Crash(n)
  <1> DEFINE Kept == /\ \A n \in Node : store[n] \subseteq store'[n]
                     /\ \A n \in Node : announced[n] \subseteq announced'[n] \/ Crash(n)
  <1> USE DEF TypeOK, addVars, getVars, nodeVars
  <1>1. ASSUME NEW n \in Node, PutChunks(n) PROVE Kept
    <2>1. PICK some \in SUBSET (Block \ {Root}) : store' = [store EXCEPT ![n] = @ \cup some]
      <3>1. Block \ {Root} \in SUBSET (Block \ {Root})
        OBVIOUS
      <3> QED
        BY <1>1, <3>1 DEF PutChunks
    <2>2. announced' = announced
      BY <1>1 DEF PutChunks
    <2> QED
      BY <2>1, <2>2, AddBlocksKeeps
  <1>2. ASSUME NEW n \in Node, PutRoot(n) \/ Announce(n) \/ SelectReplicas(n) PROVE Kept
    <2>1. CASE PutRoot(n)
      <3>1. store' = [store EXCEPT ![n] = @ \cup {Root}] /\ announced' = announced
        BY <2>1 DEF PutRoot
      <3> QED
        BY <3>1, AddBlocksKeeps
    <2>2. CASE Announce(n)
      <3>1. store' = store /\ announced' = [announced EXCEPT ![n] = @ \cup {File[addAt[n]]}]
        BY <2>2 DEF Announce
      <3> QED
        BY <3>1, AddBlocksKeeps
    <2>3. CASE SelectReplicas(n)
      BY <2>3 DEF SelectReplicas
    <2> QED
      BY <1>2, <2>1, <2>2, <2>3
  <1>3. ASSUME NEW n \in Node, NEW t \in targets[n], PushOk(n, t) \/ PushFail(n, t)
        PROVE  Kept
    <2>1. CASE PushOk(n, t)
      <3>1. /\ store' = [store EXCEPT ![t] = @ \cup {File[addAt[n]]}]
            /\ announced' = [announced EXCEPT ![t] = @ \cup {File[addAt[n]]}]
        BY <2>1 DEF PushOk
      <3> QED
        BY <3>1, AddBlocksKeeps
    <2>2. CASE PushFail(n, t)
      BY <2>2 DEF PushFail
    <2> QED
      BY <1>3, <2>1, <2>2
  <1>4. ASSUME NEW n \in Node, PushDone(n) \/ CliPutChunks(n) \/ CliPutRoot(n)
        PROVE  Kept
    <2>1. announced' = announced
      BY <1>4 DEF PushDone, CliPutChunks, CliPutRoot
    <2>2. CASE PushDone(n)
      BY <2>1, <2>2 DEF PushDone
    <2>3. CASE CliPutChunks(n)
      <3>1. PICK some \in SUBSET (Block \ {Root}) : store' = [store EXCEPT ![n] = @ \cup some]
        BY <2>3 DEF CliPutChunks
      <3> QED
        BY <2>1, <3>1, AddBlocksKeeps
    <2>4. CASE CliPutRoot(n)
      <3>1. store' = [store EXCEPT ![n] = @ \cup {Root}]
        BY <2>4 DEF CliPutRoot
      <3> QED
        BY <2>1, <3>1, AddBlocksKeeps
    <2> QED
      BY <1>4, <2>2, <2>3, <2>4
  <1>5. ASSUME NEW n \in Node, GetStart(n) \/ ReadLocal(n) \/ Lookup(n) PROVE Kept
    BY <1>5 DEF GetStart, ReadLocal, Lookup
  <1>6. ASSUME NEW n \in Node, NEW p \in asking[n], Answer(n, p) \/ NoAnswer(n, p)
        PROVE  Kept
    BY <1>6 DEF Answer, NoAnswer
  <1>7. ASSUME NEW n \in Node, NEW p \in found[n], FetchOk(n, p) \/ FetchFail(n, p)
        PROVE  Kept
    <2>1. CASE FetchOk(n, p)
      <3>1. /\ store' = store \/ store' = [store EXCEPT ![n] = @ \cup {Wanted(n)}]
            /\ announced' = announced
        BY <2>1 DEF FetchOk
      <3>2. CASE store' = store
        BY <3>1, <3>2
      <3>3. CASE store' = [store EXCEPT ![n] = @ \cup {Wanted(n)}]
        BY <3>1, <3>3, AddBlocksKeeps
      <3> QED
        BY <3>1, <3>2, <3>3
    <2>2. CASE FetchFail(n, p)
      BY <2>2 DEF FetchFail
    <2> QED
      BY <1>7, <2>1, <2>2
  <1>8. ASSUME NEW n \in Node,
               LookupDone(n) \/ FetchNone(n) \/ WriteChunk(n) \/ ReadBackFails(n) \/ Restart(n)
        PROVE  Kept
    BY <1>8 DEF LookupDone, FetchNone, WriteChunk, ReadBackFails, Restart
  <1>9. ASSUME NEW n \in Node, Crash(n) PROVE Kept
    <2>1. store' = store /\ announced' = [announced EXCEPT ![n] = {}]
      BY <1>9 DEF Crash
    <2> QED
      BY <1>9, <2>1
  <1>10. CASE UNCHANGED vars
    BY <1>10 DEF vars
  <1> QED
    BY <1>1, <1>2, <1>3, <1>4, <1>5, <1>6, <1>7, <1>8, <1>9, <1>10
       DEF Next, AddFile, GetProceed

\* Uploads and records rest on what is on the disk, at the start and after
\* every step.
LEMMA DisksInit == Init => UploadStored /\ RecordsBacked
  BY DEF Init, UploadStored, RecordsBacked

\* A copy that an upload has stored is never behind what it announces.
LEMMA DisksStep ==
    ASSUME TypeOK, UploadStored, RecordsBacked, [Next]_vars
    PROVE  UploadStored' /\ RecordsBacked'
  <1> DEFINE Goal == UploadStored' /\ RecordsBacked'
  <1> USE DEF TypeOK
  <1>1. \A n \in Node : store[n] \subseteq store'[n]
    BY NothingLost
  <1>2. CASE UNCHANGED <<announced, addPc>>
    BY <1>1, <1>2 DEF UploadStored, RecordsBacked
  <1>3. ASSUME NEW n \in Node, PutChunks(n) PROVE Goal
    <2>1. \/ store'[n] = store[n] \cup (Block \ {Root}) /\ addPc' = [addPc EXCEPT ![n] = "put"]
          \/ addPc' = [addPc EXCEPT ![n] = "idle"]
      BY <1>3 DEF PutChunks
    <2>2. announced' = announced
      BY <1>3 DEF PutChunks
    <2>3. UploadStored'
      <3>1. CASE addPc' = [addPc EXCEPT ![n] = "idle"]
        BY <1>1, <3>1 DEF UploadStored
      <3>2. CASE /\ store'[n] = store[n] \cup (Block \ {Root})
                 /\ addPc' = [addPc EXCEPT ![n] = "put"]
        BY <1>1, <3>2 DEF UploadStored
      <3> QED
        BY <2>1, <3>1, <3>2
    <2>4. RecordsBacked'
      BY <1>1, <2>2 DEF RecordsBacked
    <2> QED
      BY <2>3, <2>4
  <1>4. ASSUME NEW n \in Node, PutRoot(n) PROVE Goal
    <2>1. Block \subseteq store'[n]
      BY <1>4, FileFacts DEF PutRoot, UploadStored
    <2>2. announced' = announced /\ addPc' = [addPc EXCEPT ![n] = "announce"]
      BY <1>4 DEF PutRoot
    <2>3. UploadStored'
      BY <1>1, <2>1, <2>2 DEF UploadStored
    <2>4. RecordsBacked'
      BY <1>1, <2>2 DEF RecordsBacked
    <2> QED
      BY <2>3, <2>4
  <1>5. ASSUME NEW n \in Node, Announce(n) PROVE Goal
    <2>1. Block \subseteq store[n] /\ File[addAt[n]] \in Block
      BY <1>5, FileFacts DEF Announce, UploadStored
    <2>2. /\ store' = store
          /\ announced' = [announced EXCEPT ![n] = @ \cup {File[addAt[n]]}]
          /\ addPc' = addPc \/ addPc' = [addPc EXCEPT ![n] = "select"]
      BY <1>5 DEF Announce
    <2>3. UploadStored'
      BY <2>1, <2>2 DEF UploadStored
    <2>4. RecordsBacked'
      BY <2>1, <2>2 DEF RecordsBacked
    <2> QED
      BY <2>3, <2>4
  <1>6. ASSUME NEW n \in Node, SelectReplicas(n) \/ PushDone(n) PROVE Goal
    <2>1. /\ store' = store /\ announced' = announced
          /\ Block \subseteq store[n]
          /\ \E pc \in {"select", "push", "done"} : addPc' = [addPc EXCEPT ![n] = pc]
      BY <1>6 DEF SelectReplicas, PushDone, UploadStored, nodeVars
    <2> QED
      BY <2>1 DEF UploadStored, RecordsBacked
  <1>7. ASSUME NEW n \in Node, NEW t \in targets[n], PushOk(n, t) PROVE Goal
    <2>1. /\ store' = [store EXCEPT ![t] = @ \cup {File[addAt[n]]}]
          /\ announced' = [announced EXCEPT ![t] = @ \cup {File[addAt[n]]}]
          /\ addPc' = addPc
      BY <1>7 DEF PushOk
    <2>2. UploadStored'
      BY <1>1, <2>1 DEF UploadStored
    <2>3. RecordsBacked'
      BY <1>1, <2>1 DEF RecordsBacked
    <2> QED
      BY <2>2, <2>3
  <1>8. ASSUME NEW n \in Node, Crash(n) PROVE Goal
    <2>1. /\ store' = store /\ announced' = [announced EXCEPT ![n] = {}]
          /\ addPc' = [addPc EXCEPT ![n] = "idle"]
      BY <1>8 DEF Crash
    <2> QED
      BY <2>1 DEF UploadStored, RecordsBacked
  <1>9. ASSUME NEW n \in Node, NEW t \in targets[n], PushFail(n, t) PROVE Goal
    BY <1>2, <1>9 DEF PushFail, nodeVars
  <1>10. ASSUME NEW n \in Node, CliPutChunks(n) \/ CliPutRoot(n) PROVE Goal
    BY <1>2, <1>10 DEF CliPutChunks, CliPutRoot, addVars
  <1>11. ASSUME NEW n \in Node, GetStart(n) \/ GetProceed(n) \/ Restart(n) PROVE Goal
    BY <1>2, <1>11 DEF GetStart, GetProceed, ReadLocal, Lookup, Answer, NoAnswer,
       LookupDone, FetchOk, FetchFail, FetchNone, Restart, nodeVars, addVars
  <1>12. ASSUME NEW n \in Node, WriteChunk(n) PROVE Goal
    BY <1>2, <1>12 DEF WriteChunk, nodeVars, addVars
  <1>13. ASSUME NEW n \in Node, ReadBackFails(n) PROVE Goal
    <2>1. /\ store' = store /\ announced' = announced
          /\ addPc' = [addPc EXCEPT ![n] = "idle"]
      BY <1>13 DEF ReadBackFails, nodeVars
    <2> QED
      BY <2>1 DEF UploadStored, RecordsBacked
  <1>14. CASE UNCHANGED vars
    BY <1>2, <1>14 DEF vars, nodeVars, addVars
  <1> QED
    BY <1>3, <1>4, <1>5, <1>6, <1>7, <1>8, <1>9, <1>10, <1>11, <1>12, <1>13, <1>14
       DEF Next, AddFile

-----------------------------------------------------------------------------
(* What a download relies on *)

\* No download is under way at the start.
LEMMA DownloadInit == Init => DownloadInv
  <1> SUFFICES ASSUME Init PROVE DownloadInv
    OBVIOUS
  <1>1. KnownPending
    BY DEF Init, NobodyKnew, KnownPending
  <1> QED
    BY <1>1 DEF Init, DownloadInv, StoredSoFar, FoundHaveIt

\* What others do leaves a download what it relies on, unless they crash.
LEMMA DownloadKept ==
    ASSUME TypeOK, DownloadInv, [Next]_vars, UNCHANGED getVars,
           \A n \in Node : announced[n] \subseteq announced'[n]
    PROVE  DownloadInv'
  <1>1. \A n \in Node : store[n] \subseteq store'[n]
    BY NothingLost
  <1>2. StoredSoFar'
    BY <1>1 DEF DownloadInv, StoredSoFar, Wanted, getVars
  <1>3. FoundHaveIt'
    BY <1>1 DEF TypeOK, DownloadInv, FoundHaveIt, Wanted, getVars
  <1>4. KnownPending'
    BY DEF DownloadInv, KnownPending, Wanted, getVars
  <1> QED
    BY <1>2, <1>3, <1>4 DEF DownloadInv

\* A step of one download that leaves the disks and records alone and keeps
\* what it relies on itself is nothing to the others.
LEMMA DownloadLocal ==
    ASSUME TypeOK, DownloadInv, [Next]_vars, NEW n \in Node,
           announced' = announced,
           \A m \in Node \ {n} : /\ getPc'[m] = getPc[m] /\ getAt'[m] = getAt[m]
                                /\ asking'[m] = asking[m] /\ found'[m] = found[m]
                                /\ refused'[m] = refused[m] /\ knew'[m] = knew[m],
           getPc'[n] # "idle" =>
              \A i \in 1..(getAt'[n] - 1) : File[i] \in store'[n] \cup refused'[n],
           getPc'[n] = "write" => File[getAt'[n]] \in store'[n] \cup refused'[n],
           getPc'[n] = "ok" => Block \subseteq store'[n] \cup refused'[n],
           getPc'[n] \notin {"lookup", "fetch"} => found'[n] = {},
           \A p \in found'[n] : File[getAt'[n]] \in store'[p],
           \A p \in Node : knew'[n][p] = "announced" =>
              /\ File[getAt'[n]] \in announced[p]
              /\ \/ getPc'[n] = "lookup" /\ p \in asking'[n] \cup found'[n]
                 \/ getPc'[n] = "fetch" /\ p \in found'[n]
    PROVE  DownloadInv'
  <1>1. \A m \in Node : store[m] \subseteq store'[m]
    BY NothingLost
  <1>2. StoredSoFar'
    BY <1>1 DEF DownloadInv, StoredSoFar, Wanted
  <1>3. FoundHaveIt'
    <2>1. ASSUME NEW m \in Node \ {n}
          PROVE  /\ getPc'[m] \notin {"lookup", "fetch"} => found'[m] = {}
                 /\ \A p \in found'[m] : Wanted(m)' \in store'[p]
      <3>1. getPc'[m] = getPc[m] /\ found'[m] = found[m] /\ Wanted(m)' = Wanted(m)
        BY <2>1 DEF Wanted
      <3>2. /\ getPc[m] \notin {"lookup", "fetch"} => found[m] = {}
            /\ \A p \in found[m] : Wanted(m) \in store[p]
        BY DEF DownloadInv, FoundHaveIt
      <3>3. found[m] \subseteq Node
        BY DEF TypeOK
      <3> QED
        BY <1>1, <3>1, <3>2, <3>3
    <2> QED
      BY <2>1 DEF FoundHaveIt, Wanted
  <1>4. KnownPending'
    BY DEF DownloadInv, KnownPending, Wanted
  <1> QED
    BY <1>2, <1>3, <1>4 DEF DownloadInv

\* The block has come from the disk or from a provider, or has been written:
\* it and all before it are on the disk, or were refused.
LEMMA BlockSafe ==
    ASSUME TypeOK, DownloadInv, [Next]_vars, NEW n \in Node, getPc[n] # "idle",
           Obtained(n) \/ WriteChunk(n), announced' = announced, asking' = asking,
           found' = [found EXCEPT ![n] = {}],
           \A m \in Node \ {n} : refused'[m] = refused[m],
           refused[n] \subseteq refused'[n],
           Wanted(n) \in store'[n] \cup refused'[n]
    PROVE  DownloadInv'
  <1> DEFINE has == store'[n] \cup refused'[n]
  <1>1. store[n] \subseteq store'[n]
    BY NothingLost
  <1>2. getAt[n] \in 1..Len(File) /\ Len(File) \in Nat
    BY FileFacts DEF TypeOK
  <1>3. \A i \in 1..getAt[n] : File[i] \in has
    <2>1. \A i \in 1..(getAt[n] - 1) : File[i] \in store[n] \cup refused[n]
      BY DEF DownloadInv, StoredSoFar
    <2>2. \A i \in 1..getAt[n] : i \in 1..(getAt[n] - 1) \/ i = getAt[n]
      BY <1>2
    <2> QED
      BY <1>1, <2>1, <2>2 DEF Wanted
  <1>4. \A p \in Node : knew'[n][p] # "announced"
    <2>1. CASE Obtained(n)
      BY <2>1 DEF Obtained, NobodyKnew, TypeOK
    <2>2. CASE WriteChunk(n)
      BY <2>2 DEF WriteChunk, DownloadInv, KnownPending
    <2> QED
      BY <2>1, <2>2
  <1>5. found'[n] = {}
    BY DEF TypeOK
  <1>6. /\ \/ /\ getAt[n] < Len(File)
              /\ getAt'[n] = getAt[n] + 1 /\ getPc'[n] = "need"
           \/ /\ getAt[n] = Len(File)
              /\ getAt'[n] = getAt[n] /\ getPc'[n] = "ok"
           \/ getAt'[n] = getAt[n] /\ getPc'[n] \in {"write", "failed"}
        /\ \A m \in Node \ {n} : /\ getPc'[m] = getPc[m] /\ getAt'[m] = getAt[m]
                                 /\ knew'[m] = knew[m]
    <2>1. CASE Obtained(n)
      BY <2>1 DEF Obtained, NextBlock, TypeOK
    <2>2. CASE WriteChunk(n)
      BY <2>2 DEF WriteChunk, NextBlock, TypeOK
    <2> QED
      BY <2>1, <2>2
  <1>7. \A m \in Node \ {n} : asking'[m] = asking[m] /\ found'[m] = found[m]
    BY DEF TypeOK
  <1>8. \A i \in 1..(getAt'[n] - 1) : File[i] \in has
    BY <1>2, <1>3, <1>6
  <1>9. getPc'[n] = "ok" => Block \subseteq has
    BY <1>3, <1>6, FileFacts
  <1>10. getPc'[n] \notin {"lookup", "fetch"}
    BY <1>6
  <1>11. getPc'[n] = "write" => File[getAt'[n]] \in has
    BY <1>6 DEF Wanted
  <1> QED
    BY <1>4, <1>5, <1>6, <1>7, <1>8, <1>9, <1>10, <1>11, DownloadLocal

\* A download keeps what it relies on in every step, whoever crashes.
LEMMA DownloadStep ==
    ASSUME TypeOK, RecordsBacked, DownloadInv, [Next]_vars
    PROVE  DownloadInv'
  <1> USE DEF TypeOK
  <1>1. ASSUME NEW n \in Node, GetStart(n) PROVE DownloadInv'
    <2>1. /\ getPc' = [getPc EXCEPT ![n] = "need"] /\ getAt' = [getAt EXCEPT ![n] = 1]
          /\ knew' = [knew EXCEPT ![n] = NobodyKnew]
          /\ refused' = [refused EXCEPT ![n] = {}]
          /\ found' = found /\ asking' = asking /\ announced' = announced
          /\ getPc[n] \in {"idle", "ok", "failed"}
      BY <1>1 DEF GetStart, nodeVars
    <2>2. found'[n] = {}
      BY <2>1 DEF DownloadInv, FoundHaveIt
    <2>3. \A p \in Node : knew'[n][p] # "announced"
      BY <2>1 DEF NobodyKnew
    <2>5. getPc'[n] = "need" /\ getAt'[n] = 1
      BY <2>1
    <2>4. \A m \in Node \ {n} : /\ getPc'[m] = getPc[m] /\ getAt'[m] = getAt[m]
                                /\ asking'[m] = asking[m] /\ found'[m] = found[m]
                                /\ refused'[m] = refused[m] /\ knew'[m] = knew[m]
      BY <2>1
    <2>6. \A i \in 1..(getAt'[n] - 1) : File[i] \in store'[n] \cup refused'[n]
      BY <2>5
    <2>7. announced' = announced
      BY <2>1
    <2>8. getPc'[n] \notin {"ok", "write", "lookup", "fetch"}
      BY <2>5
    <2> HIDE DEF TypeOK
    <2> QED
      BY <2>2, <2>3, <2>4, <2>6, <2>7, <2>8, DownloadLocal
  <1>2. ASSUME NEW n \in Node, ReadLocal(n) PROVE DownloadInv'
    <2>1. /\ getPc[n] = "need" /\ Wanted(n) \in store[n] /\ Obtained(n)
          /\ store' = store /\ announced' = announced /\ asking' = asking
          /\ found' = found /\ refused' = refused
      BY <1>2 DEF ReadLocal, nodeVars
    <2>2. found' = [found EXCEPT ![n] = {}]
      BY <2>1 DEF DownloadInv, FoundHaveIt
    <2> QED
      BY <2>1, <2>2, BlockSafe
  <1>3. ASSUME NEW n \in Node, NEW p \in found[n], FetchOk(n, p) PROVE DownloadInv'
    <2>1. /\ getPc[n] = "fetch" /\ Obtained(n)
          /\ \/ store' = [store EXCEPT ![n] = @ \cup {Wanted(n)}] /\ refused' = refused
             \/ refused' = [refused EXCEPT ![n] = @ \cup {Wanted(n)}]
          /\ announced' = announced /\ asking' = asking
          /\ found' = [found EXCEPT ![n] = {}]
      BY <1>3 DEF FetchOk
    <2>2. /\ Wanted(n) \in store'[n] \cup refused'[n]
          /\ refused[n] \subseteq refused'[n]
          /\ \A m \in Node \ {n} : refused'[m] = refused[m]
      BY <2>1
    <2> HIDE DEF TypeOK
    <2> QED
      BY <2>1, <2>2, BlockSafe
  <1>4. ASSUME NEW n \in Node, Lookup(n) PROVE DownloadInv'
    <2>1. PICK active \in SUBSET Others(n) :
             /\ asking' = [asking EXCEPT ![n] = active]
             /\ knew' = [knew EXCEPT ![n] =
                           [p \in Node |-> IF p \in active THEN Knows(n, p) ELSE "nothing"]]
      BY <1>4 DEF Lookup
    <2>2. /\ getPc' = [getPc EXCEPT ![n] = "lookup"] /\ getAt' = getAt
          /\ found' = [found EXCEPT ![n] = Providers(n, Wanted(n))]
          /\ store' = store /\ announced' = announced /\ getPc[n] = "need"
          /\ refused' = refused
      BY <1>4 DEF Lookup, nodeVars
    <2>3. \A p \in found'[n] : Wanted(n) \in store'[p]
      BY <2>2 DEF RecordsBacked, Providers
    <2>4. asking'[n] = active /\ getPc'[n] = "lookup"
      BY <2>1, <2>2
    <2>5. ASSUME NEW p \in Node, knew'[n][p] = "announced"
          PROVE  Wanted(n) \in announced[p] /\ p \in asking'[n]
      <3>1. p \in active /\ Knows(n, p) = "announced"
        BY <2>1, <2>5
      <3> QED
        BY <2>4, <3>1 DEF Knows
    <2>6. \A i \in 1..(getAt[n] - 1) : File[i] \in store[n] \cup refused[n]
      BY <2>2 DEF DownloadInv, StoredSoFar
    <2>7. \A m \in Node \ {n} : /\ getPc'[m] = getPc[m] /\ getAt'[m] = getAt[m]
                                /\ asking'[m] = asking[m] /\ found'[m] = found[m]
                                /\ refused'[m] = refused[m] /\ knew'[m] = knew[m]
      BY <2>1, <2>2
    <2> QED
      BY <2>2, <2>3, <2>4, <2>5, <2>6, <2>7, DownloadLocal DEF Wanted
  <1>5. ASSUME NEW n \in Node, NEW p \in asking[n], Answer(n, p) PROVE DownloadInv'
    <2>1. /\ getPc[n] = "lookup" /\ asking' = [asking EXCEPT ![n] = @ \ {p}]
          /\ found' = [found EXCEPT ![n] = @ \cup Providers(p, Wanted(n))]
          /\ UNCHANGED <<store, announced, getPc, getAt, refused, knew>>
      BY <1>5 DEF Answer, nodeVars
    <2>2. /\ asking'[n] = asking[n] \ {p}
          /\ found'[n] = found[n] \cup {q \in {p} : Wanted(n) \in announced[p]}
      BY <2>1 DEF Providers
    <2>3. \A q \in found'[n] : Wanted(n) \in store'[q]
      BY <2>1, <2>2 DEF RecordsBacked, DownloadInv, FoundHaveIt
    <2>4. ASSUME NEW q \in Node, knew[n][q] = "announced"
          PROVE  Wanted(n) \in announced[q] /\ q \in asking'[n] \cup found'[n]
      <3>1. Wanted(n) \in announced[q] /\ q \in asking[n] \cup found[n]
        BY <2>1, <2>4 DEF DownloadInv, KnownPending
      <3> QED
        BY <2>2, <3>1
    <2>5. \A i \in 1..(getAt[n] - 1) : File[i] \in store[n] \cup refused[n]
      BY <2>1 DEF DownloadInv, StoredSoFar
    <2>6. \A m \in Node \ {n} : asking'[m] = asking[m] /\ found'[m] = found[m]
      BY <2>1
    <2> QED
      BY <2>1, <2>3, <2>4, <2>5, <2>6, DownloadLocal DEF Wanted
  <1>6. ASSUME NEW n \in Node, NEW p \in asking[n], NoAnswer(n, p) PROVE DownloadInv'
    <2>1. /\ getPc[n] = "lookup" /\ asking' = [asking EXCEPT ![n] = @ \ {p}]
          /\ knew' = [knew EXCEPT ![n][p] = "nothing"]
          /\ UNCHANGED <<store, announced, getPc, getAt, found, refused>>
      BY <1>6 DEF NoAnswer, nodeVars
    <2>2. /\ asking'[n] = asking[n] \ {p} /\ knew'[n][p] = "nothing"
          /\ \A q \in Node \ {p} : knew'[n][q] = knew[n][q]
      BY <2>1
    <2>3. \A q \in found[n] : Wanted(n) \in store[q]
      BY DEF DownloadInv, FoundHaveIt
    <2>4. ASSUME NEW q \in Node, knew'[n][q] = "announced"
          PROVE  Wanted(n) \in announced[q] /\ q \in asking'[n] \cup found[n]
      <3>1. q # p /\ knew[n][q] = "announced"
        BY <2>2, <2>4
      <3>2. Wanted(n) \in announced[q] /\ q \in asking[n] \cup found[n]
        BY <2>1, <3>1 DEF DownloadInv, KnownPending
      <3> QED
        BY <2>2, <3>1, <3>2
    <2>5. \A i \in 1..(getAt[n] - 1) : File[i] \in store[n] \cup refused[n]
      BY <2>1 DEF DownloadInv, StoredSoFar
    <2>6. \A m \in Node \ {n} : asking'[m] = asking[m] /\ knew'[m] = knew[m]
      BY <2>1
    <2> QED
      BY <2>1, <2>3, <2>4, <2>5, <2>6, DownloadLocal DEF Wanted
  <1>7. ASSUME NEW n \in Node, LookupDone(n) PROVE DownloadInv'
    <2>1. /\ getPc[n] = "lookup" /\ asking[n] = {} /\ getPc' = [getPc EXCEPT ![n] = "fetch"]
          /\ UNCHANGED <<store, announced, getAt, asking, found, refused, knew>>
      BY <1>7 DEF LookupDone, nodeVars
    <2>2. getPc'[n] = "fetch" /\ \A m \in Node \ {n} : getPc'[m] = getPc[m]
      BY <2>1
    <2>3. \A q \in Node : knew[n][q] = "announced" => Wanted(n) \in announced[q] /\ q \in found[n]
      BY <2>1 DEF DownloadInv, KnownPending
    <2>4. /\ \A q \in found[n] : Wanted(n) \in store[q]
          /\ \A i \in 1..(getAt[n] - 1) : File[i] \in store[n] \cup refused[n]
      BY <2>1 DEF DownloadInv, FoundHaveIt, StoredSoFar
    <2> QED
      BY <2>1, <2>2, <2>3, <2>4, DownloadLocal DEF Wanted
  <1>8. ASSUME NEW n \in Node, NEW p \in found[n], FetchFail(n, p) PROVE DownloadInv'
    <2>1. /\ getPc[n] = "fetch" /\ found' = [found EXCEPT ![n] = @ \ {p}]
          /\ knew' = [knew EXCEPT ![n][p] = "nothing"]
          /\ UNCHANGED <<store, announced, getPc, getAt, asking, refused>>
      BY <1>8 DEF FetchFail, nodeVars
    <2>2. /\ found'[n] = found[n] \ {p} /\ knew'[n][p] = "nothing"
          /\ \A q \in Node \ {p} : knew'[n][q] = knew[n][q]
      BY <2>1
    <2>3. \A q \in found'[n] : Wanted(n) \in store[q]
      BY <2>2 DEF DownloadInv, FoundHaveIt
    <2>4. ASSUME NEW q \in Node, knew'[n][q] = "announced"
          PROVE  Wanted(n) \in announced[q] /\ q \in found'[n]
      <3>1. q # p /\ knew[n][q] = "announced"
        BY <2>2, <2>4
      <3>2. Wanted(n) \in announced[q] /\ q \in found[n]
        BY <2>1, <3>1 DEF DownloadInv, KnownPending
      <3> QED
        BY <2>2, <3>1, <3>2
    <2>5. \A i \in 1..(getAt[n] - 1) : File[i] \in store[n] \cup refused[n]
      BY <2>1 DEF DownloadInv, StoredSoFar
    <2>6. \A m \in Node \ {n} : found'[m] = found[m] /\ knew'[m] = knew[m]
      BY <2>1
    <2> QED
      BY <2>1, <2>3, <2>4, <2>5, <2>6, DownloadLocal DEF Wanted
  <1>9. ASSUME NEW n \in Node, FetchNone(n) PROVE DownloadInv'
    <2>1. /\ getPc[n] = "fetch" /\ found[n] = {} /\ getPc' = [getPc EXCEPT ![n] = "failed"]
          /\ UNCHANGED <<store, announced, getAt, asking, found, refused, knew>>
      BY <1>9 DEF FetchNone, nodeVars
    <2>2. getPc'[n] = "failed" /\ \A m \in Node \ {n} : getPc'[m] = getPc[m]
      BY <2>1
    <2>3. \A q \in Node : knew[n][q] # "announced"
      BY <2>1 DEF DownloadInv, KnownPending
    <2>4. \A i \in 1..(getAt[n] - 1) : File[i] \in store[n] \cup refused[n]
      BY <2>1 DEF DownloadInv, StoredSoFar
    <2> QED
      BY <2>1, <2>2, <2>3, <2>4, DownloadLocal
  <1>10. ASSUME NEW n \in Node, Crash(n) PROVE DownloadInv'
    <2>1. /\ store' = store /\ announced' = [announced EXCEPT ![n] = {}]
          /\ getPc' = [getPc EXCEPT ![n] = "idle"] /\ getAt' = [getAt EXCEPT ![n] = 1]
          /\ asking' = [asking EXCEPT ![n] = {}] /\ found' = [found EXCEPT ![n] = {}]
          /\ refused' = [refused EXCEPT ![n] = {}]
          /\ knew' = [m \in Node |-> IF m = n THEN NobodyKnew
                                     ELSE [knew[m] EXCEPT ![n] = "nothing"]]
      BY <1>10 DEF Crash
    <2>2. /\ getPc'[n] = "idle" /\ found'[n] = {}
          /\ \A p \in Node : knew'[n][p] # "announced"
      BY <2>1 DEF NobodyKnew
    <2>3. ASSUME NEW m \in Node \ {n}
          PROVE  /\ getPc'[m] = getPc[m] /\ getAt'[m] = getAt[m]
                 /\ asking'[m] = asking[m] /\ found'[m] = found[m]
                 /\ announced'[m] = announced[m] /\ refused'[m] = refused[m]
                 /\ knew'[m][n] = "nothing"
                 /\ \A p \in Node \ {n} : knew'[m][p] = knew[m][p]
      BY <2>1
    <2>4. StoredSoFar'
      BY <2>1, <2>2, <2>3 DEF DownloadInv, StoredSoFar, Wanted
    <2>5. FoundHaveIt'
      BY <2>1, <2>2, <2>3 DEF DownloadInv, FoundHaveIt, Wanted
    <2>6. ASSUME NEW m \in Node, NEW p \in Node, knew'[m][p] = "announced"
          PROVE  /\ Wanted(m)' \in announced'[p]
                 /\ \/ getPc'[m] = "lookup" /\ p \in asking'[m] \cup found'[m]
                    \/ getPc'[m] = "fetch" /\ p \in found'[m]
      <3>1. m # n /\ p # n
        BY <2>2, <2>3, <2>6
      <3>2. knew[m][p] = "announced" /\ Wanted(m)' = Wanted(m) /\ announced'[p] = announced[p]
        BY <2>3, <2>6, <3>1 DEF Wanted
      <3>3. /\ Wanted(m) \in announced[p]
            /\ \/ getPc[m] = "lookup" /\ p \in asking[m] \cup found[m]
               \/ getPc[m] = "fetch" /\ p \in found[m]
        BY <3>2 DEF DownloadInv, KnownPending
      <3> QED
        BY <2>3, <3>1, <3>2, <3>3
    <2>7. KnownPending'
      BY <2>6 DEF KnownPending
    <2> QED
      BY <2>4, <2>5, <2>7 DEF DownloadInv
  <1>11. CASE UNCHANGED getVars /\ ~(\E n \in Node : Crash(n))
    BY <1>11, NothingLost, DownloadKept
  <1>12. ASSUME NEW n \in Node, WriteChunk(n) PROVE DownloadInv'
    <2>1. /\ getPc[n] = "write"
          /\ UNCHANGED <<store, announced, asking, found, refused>>
      BY <1>12 DEF WriteChunk, nodeVars
    <2>2. found' = [found EXCEPT ![n] = {}] /\ Wanted(n) \in store'[n] \cup refused'[n]
      BY <2>1 DEF DownloadInv, FoundHaveIt, StoredSoFar
    <2> QED
      BY <1>12, <2>1, <2>2, BlockSafe
  <1>13. ASSUME NEW n \in Node,
                AddFile(n) \/ CliPutChunks(n) \/ CliPutRoot(n) \/ Restart(n)
         PROVE  UNCHANGED getVars
    BY <1>13 DEF AddFile, PutChunks, PutRoot, Announce, SelectReplicas,
       ReadBackFails, PushOk, PushFail, PushDone, CliPutChunks, CliPutRoot, Restart
  <1>14. UNCHANGED vars => UNCHANGED getVars
    BY DEF vars
  <1> QED
    BY <1>1, <1>2, <1>3, <1>4, <1>5, <1>6, <1>7, <1>8, <1>9, <1>10, <1>11, <1>12,
       <1>13, <1>14 DEF Next, GetProceed

-----------------------------------------------------------------------------
(* Theorems *)

\* The inductive invariant: what every property below follows from.
LEMMA Invariant == Spec => []IInv
  <1>1. Init => IInv
    BY TypeInit, DisksInit, DownloadInit DEF IInv
  <1>2. IInv /\ [Next]_vars => IInv'
    BY TypeStep, DisksStep, DownloadStep DEF IInv
  <1> QED
    BY <1>1, <1>2, PTL DEF Spec

\* No node announces a block it does not have, nor is anybody told of a
\* provider that has lost it, whoever crashed in between (AddFile, StoreBlock,
\* LookupProviders).
THEOREM ProvidersHaveItHolds == Spec => []ProvidersHaveIt
  <1>1. IInv => ProvidersHaveIt
    BY DEF IInv, RecordsBacked, DownloadInv, FoundHaveIt, ProvidersHaveIt
  <1> QED
    BY <1>1, Invariant, PTL

\* A download that returned without an error (GetFile) left on the node's disk
\* the whole file, but for the blocks that Put refused.
THEOREM DownloadCompleteHolds == Spec => []DownloadComplete
  <1>1. IInv => DownloadComplete
    BY DEF IInv, DownloadInv, StoredSoFar, DownloadComplete
  <1> QED
    BY <1>1, Invariant, PTL

\* A download that failed (LookupProviders, FetchBlock) had heard from and
\* tried every peer that it asked, that had announced the block when the lookup
\* began, and that neither crashed nor failed a call since.
THEOREM AskedProvidersTriedHolds == Spec => []AskedProvidersTried
  <1>1. IInv => AskedProvidersTried
    BY DEF IInv, DownloadInv, KnownPending, AskedProvidersTried
  <1> QED
    BY <1>1, Invariant, PTL

-----------------------------------------------------------------------------
(* A download only gets further *)

\* The steps of the download itself.
LEMMA ProceedFurther ==
    ASSUME TypeOK, NEW n \in Node, GetProceed(n) \/ WriteChunk(n)
    PROVE  Further(n)
  <1> USE DEF TypeOK
  <1>0. ASSUME \/ Obtained(n) /\ getPc[n] \in {"need", "fetch"}
               \/ WriteChunk(n)
        PROVE  Further(n)
    <2>1. CASE getAt' = [getAt EXCEPT ![n] = @ + 1]
      <3>1. getAt[n] \in Nat /\ getAt'[n] = getAt[n] + 1
        BY <2>1, FileFacts
      <3> QED
        BY <3>1 DEF Further
    <2>2. CASE /\ getAt' = getAt
               /\ \/ getPc[n] \in {"need", "fetch"} /\ getPc'[n] \in {"write", "ok"}
                  \/ getPc[n] = "write" /\ getPc'[n] \in {"ok", "failed"}
      BY <2>2 DEF Further, Stage
    <2> QED
      BY <1>0, <2>1, <2>2 DEF NextBlock, Obtained, WriteChunk
  <1>1. CASE ReadLocal(n)
    BY <1>0, <1>1 DEF ReadLocal
  <1>2. CASE Lookup(n)
    <2>1. getPc[n] = "need" /\ getPc'[n] = "lookup" /\ getAt' = getAt
      BY <1>2 DEF Lookup
    <2> QED
      BY <2>1 DEF Further, Stage
  <1>3. ASSUME NEW p \in asking[n], Answer(n, p) \/ NoAnswer(n, p) PROVE Further(n)
    <2>1. /\ getPc[n] = "lookup" /\ getPc' = getPc /\ getAt' = getAt
          /\ asking'[n] = asking[n] \ {p}
      BY <1>3 DEF Answer, NoAnswer
    <2> QED
      BY <2>1 DEF Further, Stage
  <1>4. CASE LookupDone(n)
    <2>1. getPc[n] = "lookup" /\ getPc'[n] = "fetch" /\ getAt' = getAt
      BY <1>4 DEF LookupDone
    <2> QED
      BY <2>1 DEF Further, Stage
  <1>5. ASSUME NEW p \in found[n], FetchOk(n, p) PROVE Further(n)
    BY <1>0, <1>5 DEF FetchOk
  <1>6. ASSUME NEW p \in found[n], FetchFail(n, p) PROVE Further(n)
    <2>1. /\ getPc[n] = "fetch" /\ getPc' = getPc /\ getAt' = getAt
          /\ found'[n] = found[n] \ {p}
      BY <1>6 DEF FetchFail
    <2> QED
      BY <2>1 DEF Further, Stage
  <1>7. CASE FetchNone(n)
    <2>1. getPc[n] = "fetch" /\ getPc'[n] = "failed" /\ getAt' = getAt
      BY <1>7 DEF FetchNone
    <2> QED
      BY <2>1 DEF Further, Stage
  <1> QED
    BY <1>0, <1>1, <1>2, <1>3, <1>4, <1>5, <1>6, <1>7 DEF GetProceed

\* The steps of everything else, and those of other downloads.
LEMMA OthersLeaveIt ==
    ASSUME TypeOK, NEW n \in Node, Downloading(n), [Next]_vars
    PROVE  \/ UNCHANGED <<getPc[n], getAt[n], asking[n], found[n]>>
           \/ GetProceed(n) \/ WriteChunk(n)
           \/ Crash(n)
  <1> DEFINE Left(m) == UNCHANGED <<getPc[m], getAt[m], asking[m], found[m]>>
  <1> USE DEF TypeOK
  <1>1. ASSUME NEW m \in Node,
               \/ AddFile(m) \/ CliPutChunks(m) \/ CliPutRoot(m) \/ Restart(m)
        PROVE  Left(n)
    BY <1>1 DEF AddFile, PutChunks, PutRoot, Announce, SelectReplicas,
       ReadBackFails, PushOk, PushFail, PushDone, CliPutChunks, CliPutRoot, Restart, getVars
  <1>2. ASSUME NEW m \in Node, GetStart(m) PROVE Left(n)
    <2>1. m # n
      BY <1>2 DEF GetStart, Downloading
    <2> QED
      BY <1>2, <2>1 DEF GetStart
  <1>3. ASSUME NEW m \in Node, m # n, GetProceed(m) PROVE Left(n)
    <2>1. Obtained(m) => getPc'[n] = getPc[n] /\ getAt'[n] = getAt[n]
      BY <1>3 DEF NextBlock, Obtained
    <2>2. CASE ReadLocal(m) \/ Lookup(m) \/ LookupDone(m) \/ FetchNone(m)
      BY <1>3, <2>1, <2>2 DEF ReadLocal, Lookup, LookupDone, FetchNone
    <2>3. ASSUME NEW p \in asking[m], Answer(m, p) \/ NoAnswer(m, p) PROVE Left(n)
      BY <1>3, <2>3 DEF Answer, NoAnswer
    <2>4. ASSUME NEW p \in found[m], FetchOk(m, p) \/ FetchFail(m, p) PROVE Left(n)
      BY <1>3, <2>1, <2>4 DEF FetchOk, FetchFail
    <2> QED
      BY <1>3, <2>2, <2>3, <2>4 DEF GetProceed
  <1>4. ASSUME NEW m \in Node, m # n, Crash(m) PROVE Left(n)
    BY <1>4 DEF Crash
  <1>5. ASSUME NEW m \in Node, m # n, WriteChunk(m) PROVE Left(n)
    BY <1>5 DEF NextBlock, WriteChunk
  <1>6. CASE UNCHANGED vars
    BY <1>6 DEF vars, getVars
  <1> QED
    BY <1>1, <1>2, <1>3, <1>4, <1>5, <1>6 DEF Next

\* Whatever the uploads, the other downloads, crashes and restarts do, a
\* download under way (GetFile, LookupProviders, FetchBlock) goes on from
\* where it is, and each of its own steps gets it further.
THEOREM DownloadForwardHolds == Spec => DownloadForward
  <1>1. TypeOK /\ [Next]_vars =>
          [\A n \in Node :
              /\ GetProceed(n) \/ WriteChunk(n) => Further(n)
              /\ Downloading(n) => \/ UNCHANGED <<getPc[n], getAt[n], asking[n], found[n]>>
                                   \/ Further(n)
                                   \/ Crash(n)]_vars
    BY ProceedFurther, OthersLeaveIt
  <1> QED
    BY <1>1, TypeCorrect, PTL DEF Spec, DownloadForward

\* What is left of a download, most significant number first: the blocks, the
\* stages of the block, the peers to hear from or the providers to try.
BlocksLeft(n) == Len(File) - getAt[n]
StagesLeft(n) == 4 - Stage(n)
PeersLeft(n) ==
    CASE Stage(n) = 1 -> Cardinality(asking[n])
      [] Stage(n) = 2 -> Cardinality(found[n])
      [] OTHER        -> 0

\* The three are numbers, and to get further is to make them smaller in
\* lexicographic order: a download cannot get further for ever.
THEOREM FurtherEnds ==
    ASSUME TypeOK, TypeOK', NEW n \in Node, Further(n)
    PROVE  /\ BlocksLeft(n) \in Nat /\ StagesLeft(n) \in Nat /\ PeersLeft(n) \in Nat
           /\ \/ BlocksLeft(n)' < BlocksLeft(n)
              \/ /\ BlocksLeft(n)' = BlocksLeft(n)
                 /\ StagesLeft(n)' < StagesLeft(n)
              \/ /\ BlocksLeft(n)' = BlocksLeft(n)
                 /\ StagesLeft(n)' = StagesLeft(n)
                 /\ PeersLeft(n)' < PeersLeft(n)
  <1>1. /\ getAt[n] \in 1..Len(File) /\ getAt'[n] \in 1..Len(File)
        /\ asking[n] \in SUBSET Node /\ found[n] \in SUBSET Node
        /\ Len(File) \in Nat
    BY FileFacts DEF TypeOK
  <1>2. Stage(n) \in 0..4 /\ Stage(n)' \in 0..4
    BY DEF Stage
  <1>3. ASSUME NEW S \in SUBSET Node
        PROVE  IsFiniteSet(S) /\ Cardinality(S) \in Nat
    BY ExchangeAssumption, FS_Subset, FS_CardinalityType
  <1>4. ASSUME NEW S \in SUBSET Node, NEW T \in SUBSET S, T # S
        PROVE  Cardinality(T) < Cardinality(S)
    BY <1>3, <1>4, FS_Subset, FS_CardinalityType
  <1>5. BlocksLeft(n) \in Nat /\ StagesLeft(n) \in Nat /\ PeersLeft(n) \in Nat
    BY <1>1, <1>2, <1>3 DEF BlocksLeft, StagesLeft, PeersLeft
  <1>6. getAt'[n] > getAt[n] => BlocksLeft(n)' < BlocksLeft(n)
    BY <1>1 DEF BlocksLeft
  <1>7. getAt'[n] = getAt[n] => BlocksLeft(n)' = BlocksLeft(n)
    BY <1>1 DEF BlocksLeft
  <1>8. Stage(n)' > Stage(n) => StagesLeft(n)' < StagesLeft(n)
    BY <1>2 DEF StagesLeft
  <1>9. Stage(n)' = Stage(n) => StagesLeft(n)' = StagesLeft(n)
    BY DEF StagesLeft
  <1>10. ASSUME Stage(n)' = 1, Stage(n) = 1, asking'[n] \subseteq asking[n], asking'[n] # asking[n]
         PROVE  PeersLeft(n)' < PeersLeft(n)
    <2>1. PeersLeft(n)' = Cardinality(asking'[n]) /\ PeersLeft(n) = Cardinality(asking[n])
      BY <1>10 DEF PeersLeft
    <2> QED
      BY <1>1, <1>4, <1>10, <2>1
  <1>11. ASSUME Stage(n)' = 2, Stage(n) = 2, found'[n] \subseteq found[n], found'[n] # found[n]
         PROVE  PeersLeft(n)' < PeersLeft(n)
    <2>1. PeersLeft(n)' = Cardinality(found'[n]) /\ PeersLeft(n) = Cardinality(found[n])
      BY <1>11 DEF PeersLeft
    <2> QED
      BY <1>1, <1>4, <1>11, <2>1
  <1> QED
    BY <1>5, <1>6, <1>7, <1>8, <1>9, <1>10, <1>11 DEF Further

-----------------------------------------------------------------------------
(* The choice of replicas *)

\* A block is pushed to at most ReplFactor peers, to all the Active ones when
\* there are no more than that, and to no peer while a closer one is left out
\* (SelectReplicaPeerIDs).
THEOREM ReplicasClosest ==
    ASSUME NEW block \in Block, NEW active \in SUBSET Node
    PROVE  /\ Cardinality(Replicas(block, active)) <= ReplFactor
           /\ Cardinality(active) <= ReplFactor => Replicas(block, active) = active
           /\ \A p \in Replicas(block, active) :
                 \A q \in active \ Replicas(block, active) :
                    Closer(KeyOf[block], KeyOf[p], KeyOf[q])
  <1> DEFINE keys == {KeyOf[p] : p \in active}
             best == Closest(KeyOf[block], ReplFactor, keys)
             R == Replicas(block, active)
             key == [p \in R |-> KeyOf[p]]
  <1>1. /\ IsFiniteSet(active) /\ ReplFactor \in Nat
        /\ \A x \in Node \cup Block : KeyOf[x] \in Key
        /\ \A p, q \in Node : KeyOf[p] = KeyOf[q] => p = q
    BY ExchangeAssumption, FS_Subset
  <1>2. KeyOf[block] \in Key /\ keys \in SUBSET Key
    BY <1>1
  <1>3. IsFiniteSet(keys) /\ Cardinality(keys) <= Cardinality(active)
    <2> DEFINE all == [p \in active |-> KeyOf[p]]
    <2>1. all \in Surjection(active, keys)
      BY DEF Surjection
    <2> QED
      BY <1>1, <2>1, FS_Surjection
  <1>4. R = {p \in active : KeyOf[p] \in best}
    BY DEF Replicas
  <1>5. /\ best \subseteq keys /\ Cardinality(best) <= ReplFactor
        /\ Cardinality(keys) <= ReplFactor => best = keys
    BY <1>1, <1>2, <1>3, ClosestCount
  <1>6. IsFiniteSet(best) /\ Cardinality(best) \in Nat
    BY <1>3, <1>5, FS_Subset, FS_CardinalityType
  <1>7. key \in Injection(R, best)
    BY <1>1, <1>4 DEF Injection, IsInjective
  <1>8. Cardinality(R) <= Cardinality(best) /\ Cardinality(R) \in Nat
    BY <1>6, <1>7, FS_Injection, FS_CardinalityType
  <1>9. Cardinality(R) <= ReplFactor
    BY <1>1, <1>5, <1>6, <1>8
  <1>10. ASSUME Cardinality(active) <= ReplFactor PROVE R = active
    <2>1. Cardinality(active) \in Nat /\ Cardinality(keys) \in Nat
      BY <1>1, <1>3, FS_CardinalityType
    <2>2. best = keys
      BY <1>1, <1>3, <1>5, <1>10, <2>1
    <2> QED
      BY <1>4, <2>2
  <1>11. ASSUME NEW p \in R, NEW q \in active \ R
         PROVE  Closer(KeyOf[block], KeyOf[p], KeyOf[q])
    <2>1. KeyOf[p] \in best /\ KeyOf[q] \in keys \ best
      BY <1>4
    <2> QED
      BY <1>1, <1>2, <1>3, <2>1, ClosestFirst
  <1> QED
    BY <1>9, <1>10, <1>11
=============================================================================
