--------------------------- MODULE BootstrapProofs ---------------------------
(***************************************************************************)
(* Proofs about Bootstrap, for any peers, addresses and maximum.           *)
(***************************************************************************)
EXTENDS Bootstrap, FiniteSetTheorems, TLAPS

\* A registration carries the id and the endpoint of the node.
LEMMA EntryTypes ==
    ASSUME NEW p \in PeerId, NEW ep \in Endpoint
    PROVE  /\ EntryOf(p, ep) \in Entry
           /\ EntryOf(p, ep).id = p
           /\ EntryOf(p, ep).grpc = ep.grpc
           /\ EntryOf(p, ep).http = ep.http
  BY DEF EntryOf, Entry, Endpoint

\* RemoveIndex drops one element and keeps the others in order.
LEMMA RemoveIndexType ==
    ASSUME NEW s \in Seq(Entry), NEW i \in DOMAIN s
    PROVE  /\ RemoveIndex(s, i) \in Seq(Entry)
           /\ Len(RemoveIndex(s, i)) = Len(s) - 1
           /\ \A j \in 1..(Len(s) - 1) :
                 RemoveIndex(s, i)[j] = IF j < i THEN s[j] ELSE s[j + 1]
  <1>1. Len(s) \in Nat /\ Len(s) >= 1 /\ DOMAIN s = 1..Len(s)
    OBVIOUS
  <1>2. \A j \in 1..(Len(s) - 1) : (IF j < i THEN s[j] ELSE s[j + 1]) \in Entry
    BY <1>1
  <1>3. Len(s) - 1 \in Nat
    BY <1>1
  <1> QED
    BY <1>1, <1>2, <1>3 DEF RemoveIndex

\* The initial state is well typed.
LEMMA TypeInit == Init => TypeOK
  BY DEF Init, TypeOK

\* Every request, start and stop keeps the types.
LEMMA TypeStep == TypeOK /\ [Next]_vars => TypeOK'
  <1> SUFFICES ASSUME TypeOK, [Next]_vars PROVE TypeOK'
    OBVIOUS
  <1> USE DEF TypeOK
  <1>1. ASSUME NEW p \in PeerId, Register(p) PROVE TypeOK'
    <2> DEFINE e == EntryOf(p, running[p])
    <2>1. e \in Entry /\ e.id = p
      BY <1>1, EntryTypes DEF Register
    <2> HIDE DEF e
    <2>2. Replace(e) \/ AppendNew(e)
      BY <1>1 DEF Register, e
    <2> QED
      BY <1>1, <2>1, <2>2 DEF Register, Replace, AppendNew
  <1>2. ASSUME NEW p \in PeerId, Delete(p) PROVE TypeOK'
    BY <1>2, RemoveIndexType DEF Delete
  <1>3. ASSUME NEW p \in PeerId, Expire(p) PROVE TypeOK'
    BY <1>3 DEF Expire
  <1>4. ASSUME NEW p \in PeerId, Start(p) PROVE TypeOK'
    <2>1. PICK ep \in MayServeAt[p] : running' = [running EXCEPT ![p] = ep]
      BY <1>4 DEF Start
    <2>2. ep \in Endpoint
      BY BootstrapAssumption
    <2> QED
      BY <1>4, <2>1, <2>2 DEF Start
  <1>5. ASSUME NEW p \in PeerId, Stop(p) PROVE TypeOK'
    BY <1>5 DEF Stop
  <1>6. CASE Restart
    BY <1>6 DEF Restart
  <1>7. CASE UNCHANGED vars
    BY <1>7 DEF vars
  <1> QED
    BY <1>1, <1>2, <1>3, <1>4, <1>5, <1>6, <1>7 DEF Next

\* Type correctness of the server's list and its Redis keys.
THEOREM TypeCorrect == Spec => []TypeOK
  BY TypeInit, TypeStep, PTL DEF Spec

-----------------------------------------------------------------------------
\* The list never exceeds the maximum.
THEOREM ListBoundedHolds == Spec => []ListBounded
  <1>1. Init => ListBounded
    BY BootstrapAssumption DEF Init, ListBounded
  <1>2. TypeOK /\ ListBounded /\ [Next]_vars => ListBounded'
    <2> SUFFICES ASSUME TypeOK, ListBounded, [Next]_vars PROVE ListBounded'
      OBVIOUS
    <2> USE BootstrapAssumption DEF TypeOK, ListBounded
    <2>1. ASSUME NEW p \in PeerId, Register(p) PROVE ListBounded'
      <3> DEFINE e == EntryOf(p, running[p])
      <3>1. e \in Entry
        BY <2>1, EntryTypes DEF Register
      <3> HIDE DEF e
      <3>2. Replace(e) \/ AppendNew(e)
        BY <2>1 DEF Register, e
      <3>3. Replace(e) => Len(list') = Len(list)
        BY DEF Replace
      <3>4. AppendNew(e) => Len(list') = Len(list) + 1 /\ Len(list) < MaxNetworkPeers
        BY <3>1 DEF AppendNew
      <3> QED
        BY <3>2, <3>3, <3>4
    <2>2. ASSUME NEW p \in PeerId, Delete(p) PROVE ListBounded'
      BY <2>2, RemoveIndexType DEF Delete
    <2>3. CASE Restart
      BY <2>3 DEF Restart
    <2>4. CASE \/ UNCHANGED vars
               \/ \E p \in PeerId : Expire(p) \/ Start(p) \/ Stop(p)
      BY <2>4 DEF vars, Expire, Start, Stop
    <2> QED
      BY <2>1, <2>2, <2>3, <2>4 DEF Next
  <1> QED
    BY <1>1, <1>2, TypeCorrect, PTL DEF Spec

-----------------------------------------------------------------------------
\* NoGhosts is not inductive by itself: a registration replaces one entry
\* only.  It is with the fact that every entry, and every running node, is
\* at the one endpoint of its id.
AtHome(e) == [grpc |-> e.grpc, http |-> e.http] \in MayServeAt[e.id]

Placed ==
    /\ \A i \in DOMAIN list : AtHome(list[i])
    /\ \A p \in PeerId : running[p] # Down => running[p] \in MayServeAt[p]

\* Two entries in place clash exactly when they are at the same endpoint.
LEMMA ClashSameEndpoint ==
    ASSUME FixedEndpoints, NEW e \in Entry, NEW f \in Entry,
           AtHome(e), AtHome(f)
    PROVE  Clash(e, f) <=> e.grpc = f.grpc /\ e.http = f.http
  <1> DEFINE x == [grpc |-> e.grpc, http |-> e.http]
             y == [grpc |-> f.grpc, http |-> f.http]
  <1>1. e.id \in PeerId /\ f.id \in PeerId
    BY DEF Entry
  <1>2. x.grpc = e.grpc /\ x.http = e.http /\ y.grpc = f.grpc /\ y.http = f.http
    OBVIOUS
  <1>3. x \in MayServeAt[e.id] /\ y \in MayServeAt[f.id]
    BY DEF AtHome
  <1> HIDE DEF x, y
  <1>4. e.id = f.id => x = y
    BY <1>1, <1>3 DEF FixedEndpoints
  <1>5. x.grpc = y.grpc \/ x.http = y.http => x = y
    BY <1>1, <1>3 DEF FixedEndpoints
  <1> QED
    BY <1>2, <1>4, <1>5 DEF Clash

\* With fixed endpoints, no step leaves two clashing entries: the entries that
\* clash with a newcomer all carry its endpoint, so there is at most one.
LEMMA GhostStep ==
    ASSUME FixedEndpoints, TypeOK, Placed, NoGhosts, [Next]_vars
    PROVE  Placed' /\ NoGhosts'
  <1> USE DEF TypeOK
  <1>0. \A i \in DOMAIN list : list[i] \in Entry
    OBVIOUS
  <1>1. ASSUME NEW p \in PeerId, Register(p) PROVE Placed' /\ NoGhosts'
    <2> DEFINE e == EntryOf(p, running[p])
    <2>1. e \in Entry /\ AtHome(e) /\ UNCHANGED running
      <3>1. running[p] \in Endpoint /\ running[p] \in MayServeAt[p]
        BY <1>1 DEF Register, Placed
      <3>2. [grpc |-> e.grpc, http |-> e.http] = running[p] /\ e.id = p /\ e \in Entry
        BY <3>1, EntryTypes DEF Endpoint
      <3> QED
        BY <1>1, <3>1, <3>2 DEF Register, AtHome
    <2>2. Replace(e) \/ AppendNew(e)
      BY <1>1 DEF Register
    <2> HIDE DEF e
    <2>3. CASE Replace(e)
      <3>1. PICK i \in DOMAIN list :
               Clash(list[i], e) /\ list' = [list EXCEPT ![i] = e]
        BY <2>3 DEF Replace, IsFirstClash
      <3>2. list[i].grpc = e.grpc /\ list[i].http = e.http
        BY <1>0, <2>1, <3>1, ClashSameEndpoint DEF Placed
      <3>3. ASSUME NEW j \in DOMAIN list, j # i
            PROVE  ~Clash(list[j], e) /\ ~Clash(e, list[j])
        <4>1. ~Clash(list[j], list[i])
          BY <3>3 DEF NoGhosts, Clash
        <4>2. ~(list[j].grpc = e.grpc /\ list[j].http = e.http)
          BY <3>2, <4>1 DEF Clash
        <4>3. AtHome(list[j])
          BY DEF Placed
        <4> QED
          BY <1>0, <2>1, <4>2, <4>3, ClashSameEndpoint
      <3>4. /\ DOMAIN list' = DOMAIN list /\ list'[i] = e
            /\ \A j \in DOMAIN list : j # i => list'[j] = list[j]
        BY <3>1
      <3>5. Placed'
        BY <2>1, <3>4 DEF Placed
      <3>6. NoGhosts'
        BY <3>3, <3>4 DEF NoGhosts, Clash
      <3> QED
        BY <3>5, <3>6
    <2>4. CASE AppendNew(e)
      <3>1. list' = Append(list, e) /\ \A j \in DOMAIN list : ~Clash(list[j], e)
        BY <2>4 DEF AppendNew, Clashes
      <3>2. \A j \in DOMAIN list : ~Clash(e, list[j])
        BY <3>1 DEF Clash
      <3>3. /\ DOMAIN list' = DOMAIN list \cup {Len(list) + 1}
            /\ list'[Len(list) + 1] = e
            /\ \A j \in DOMAIN list : list'[j] = list[j]
        BY <2>1, <3>1
      <3>4. Placed'
        BY <2>1, <3>3 DEF Placed
      <3>5. NoGhosts'
        BY <3>1, <3>2, <3>3 DEF NoGhosts, Clash
      <3> QED
        BY <3>4, <3>5
    <2> QED
      BY <2>2, <2>3, <2>4
  <1>2. ASSUME NEW p \in PeerId, Delete(p) PROVE Placed' /\ NoGhosts'
    <2>1. PICK i \in DOMAIN list : list' = RemoveIndex(list, i)
      BY <1>2 DEF Delete
    <2> DEFINE old(j) == IF j < i THEN j ELSE j + 1
    <2>a. /\ list' \in Seq(Entry) /\ Len(list') = Len(list) - 1
          /\ \A j \in 1..(Len(list) - 1) :
                list'[j] = IF j < i THEN list[j] ELSE list[j + 1]
      BY <2>1, RemoveIndexType
    <2>b. DOMAIN list' = 1..(Len(list) - 1) /\ DOMAIN list = 1..Len(list)
          /\ Len(list) \in Nat
      BY <2>a
    <2>2. \A j \in DOMAIN list' : list'[j] = list[old(j)] /\ old(j) \in DOMAIN list
      BY <2>a, <2>b
    <2>3. \A j, k \in DOMAIN list' : j # k => old(j) # old(k)
      BY <2>b
    <2> HIDE DEF old
    <2>4. UNCHANGED running
      BY <1>2 DEF Delete
    <2> QED
      BY <2>2, <2>3, <2>4 DEF Placed, NoGhosts
  <1>3. CASE Restart
    BY <1>3 DEF Restart, Placed, NoGhosts
  <1>4. ASSUME NEW p \in PeerId, Start(p) PROVE Placed' /\ NoGhosts'
    BY <1>4 DEF Start, Placed, NoGhosts
  <1>5. ASSUME NEW p \in PeerId, Stop(p) PROVE Placed' /\ NoGhosts'
    BY <1>5 DEF Stop, Placed, NoGhosts
  <1>6. CASE UNCHANGED vars \/ \E p \in PeerId : Expire(p)
    BY <1>6 DEF vars, Expire, Placed, NoGhosts
  <1> QED
    BY <1>1, <1>2, <1>3, <1>4, <1>5, <1>6 DEF Next

\* Where every id keeps its endpoint and an address belongs to one endpoint,
\* replacing the first clashing entry is enough: the list never holds two
\* entries of one peer or one address, also across restarts under new ids.
THEOREM NoGhostsHolds ==
    ASSUME FixedEndpoints
    PROVE  Spec => []NoGhosts
  <1>1. Init => Placed /\ NoGhosts
    BY DEF Init, Placed, NoGhosts
  <1>2. TypeOK /\ Placed /\ NoGhosts /\ [Next]_vars => (Placed /\ NoGhosts)'
    BY GhostStep
  <1> QED
    BY <1>1, <1>2, TypeCorrect, PTL DEF Spec
-----------------------------------------------------------------------------
\* Replacing the first clashing entry is all a registration does to the set
\* of entries, because no other element of the list has the same value: that
\* is NoGhosts, and a list with two equal entries would not implement
\* BootstrapList.  So the refinement needs the whole invariant above.
SetLike == TypeOK /\ Placed /\ NoGhosts

\* The instance counts a set as this module does.
LEMMA SameCardinality == \A S : Listing!Cardinality(S) = Cardinality(S)
  BY DEF Listing!Cardinality, Cardinality

\* The two views of an entry clash together and are equal together.
LEMMA ListedView ==
    ASSUME NEW e \in Entry, NEW f \in Entry
    PROVE  /\ Listing!Clash(AsListed(e), AsListed(f)) <=> Clash(e, f)
           /\ AsListed(e) = AsListed(f) => e = f
           /\ AsListed(e).id = e.id
  BY DEF Listing!Clash, Clash, AsListed, Entry

\* The set of entries is no larger than the list is long.
LEMMA ListedCount ==
    ASSUME TypeOK
    PROVE  /\ IsFiniteSet(ListedEntries) /\ Cardinality(ListedEntries) \in Nat
           /\ Cardinality(ListedEntries) <= Len(list)
  <1>1. Len(list) \in Nat /\ DOMAIN list = 1..Len(list)
    BY DEF TypeOK
  <1>2. IsFiniteSet(1..Len(list)) /\ Cardinality(1..Len(list)) = Len(list)
    <2> DEFINE N == Len(list)
    <2>1. N \in Nat /\ (1 > N => N = 0)
      BY <1>1
    <2> HIDE DEF N
    <2>2. /\ IsFiniteSet(1..N)
          /\ Cardinality(1..N) = IF 1 > N THEN 0 ELSE N - 1 + 1
      BY <2>1, FS_Interval
    <2>3. Cardinality(1..N) = N
      BY <2>1, <2>2
    <2> QED
      BY <2>2, <2>3 DEF N
  <1> DEFINE f == [i \in 1..Len(list) |-> AsListed(list[i])]
  <1>3. f \in Surjection(1..Len(list), ListedEntries)
    BY <1>1 DEF Surjection, ListedEntries
  <1> HIDE DEF f
  <1>4. IsFiniteSet(ListedEntries) /\ Cardinality(ListedEntries) <= Len(list)
    BY <1>2, <1>3, FS_Surjection
  <1> QED
    BY <1>4, FS_CardinalityType

\* Every step of the server is one that BootstrapList allows, or leaves the
\* set of entries alone.
LEMMA ListingStep ==
    ASSUME FixedEndpoints, SetLike, [Next]_vars
    PROVE  [Listing!Next]_ListedEntries
  <1> USE DEF SetLike
  <1>0. \A i \in DOMAIN list : list[i] \in Entry
    BY DEF TypeOK
  <1>1. ASSUME NEW p \in PeerId, Register(p) PROVE Listing!Next
    <2> DEFINE e == EntryOf(p, running[p])
               a == AsListed(e)
    <2>1. e \in Entry /\ a \in MayRegister
      <3>1. running[p] \in Endpoint /\ running[p] \in MayServeAt[p]
        BY <1>1 DEF Register, Placed, TypeOK
      <3>2. a = [id |-> p, ep |-> running[p]]
        BY <3>1 DEF AsListed, EntryOf, Endpoint
      <3> QED
        BY <3>1, <3>2, EntryTypes DEF MayRegister
    <2>2. Replace(e) \/ AppendNew(e)
      BY <1>1 DEF Register
    <2> HIDE DEF e
    <2>3. CASE Replace(e)
      <3>1. PICK i \in DOMAIN list :
               Clash(list[i], e) /\ list' = [list EXCEPT ![i] = e]
        BY <2>3 DEF Replace, IsFirstClash
      <3> DEFINE b == AsListed(list[i])
      <3>2. b \in ListedEntries /\ Listing!Clash(b, a)
        BY <1>0, <2>1, <3>1, ListedView DEF ListedEntries
      <3>3. \A j \in DOMAIN list : j # i => AsListed(list[j]) # b
        BY <1>0, ListedView DEF NoGhosts
      <3>4. /\ DOMAIN list' = DOMAIN list /\ list'[i] = e
            /\ \A j \in DOMAIN list : j # i => list'[j] = list[j]
        BY <3>1 DEF TypeOK
      <3> HIDE DEF a, b
      <3>5. ListedEntries' = (ListedEntries \ {b}) \cup {a}
        <4>1. ListedEntries' = {AsListed(list'[j]) : j \in DOMAIN list}
          BY <3>4 DEF ListedEntries
        <4>2. ASSUME NEW j \in DOMAIN list
              PROVE  AsListed(list'[j]) \in (ListedEntries \ {b}) \cup {a}
          BY <3>3, <3>4 DEF ListedEntries, a
        <4>3. ASSUME NEW x \in (ListedEntries \ {b}) \cup {a}
              PROVE  \E j \in DOMAIN list : x = AsListed(list'[j])
          <5>1. CASE x = a
            BY <3>4, <5>1 DEF a
          <5>2. CASE x # a
            <6>1. PICK j \in DOMAIN list : x = AsListed(list[j])
              BY <4>3, <5>2 DEF ListedEntries
            <6>2. j # i
              BY <4>3, <5>2, <6>1 DEF b
            <6> QED
              BY <3>4, <6>1, <6>2
          <5> QED
            BY <5>1, <5>2
        <4> QED
          BY <4>1, <4>2, <4>3
      <3>6. ListedEntries' \in Listing!Registered(ListedEntries, a)
        BY <3>2, <3>5 DEF Listing!Registered
      <3> QED
        BY <2>1, <3>6 DEF Listing!Next, Listing!Register
    <2>4. CASE AppendNew(e)
      <3>1. /\ list' = Append(list, e) /\ Len(list) < MaxNetworkPeers
            /\ \A j \in DOMAIN list : ~Clash(list[j], e)
        BY <2>4 DEF AppendNew, Clashes
      <3>2. /\ DOMAIN list' = DOMAIN list \cup {Len(list) + 1}
            /\ list'[Len(list) + 1] = e
            /\ \A j \in DOMAIN list : list'[j] = list[j]
        BY <2>1, <3>1 DEF TypeOK
      <3>3. ListedEntries' = ListedEntries \cup {a}
        BY <3>2 DEF ListedEntries
      <3>4. \A f \in ListedEntries : ~Listing!Clash(f, a)
        BY <1>0, <2>1, <3>1, ListedView DEF ListedEntries
      <3>5. Listing!Cardinality(ListedEntries) < MaxNetworkPeers
        <4>1. Len(list) \in Nat /\ MaxNetworkPeers \in Nat
          BY BootstrapAssumption DEF TypeOK
        <4> QED
          BY <3>1, <4>1, ListedCount, SameCardinality
      <3> HIDE DEF a
      <3>6. ListedEntries' \in Listing!Registered(ListedEntries, a)
        BY <3>3, <3>4, <3>5 DEF Listing!Registered
      <3> QED
        BY <2>1, <3>6 DEF Listing!Next, Listing!Register
    <2> QED
      BY <2>2, <2>3, <2>4
  <1>2. ASSUME NEW p \in PeerId, Delete(p) PROVE Listing!Next
    <2>1. PICK i \in DOMAIN list : list' = RemoveIndex(list, i)
      BY <1>2 DEF Delete
    <2> DEFINE b == AsListed(list[i])
               N == Len(list)
    <2>2. /\ N \in Nat /\ DOMAIN list = 1..N /\ DOMAIN list' = 1..(N - 1)
          /\ \A j \in 1..(N - 1) :
                list'[j] = IF j < i THEN list[j] ELSE list[j + 1]
      <3>1. list \in Seq(Entry)
        BY DEF TypeOK
      <3>2. /\ RemoveIndex(list, i) \in Seq(Entry)
            /\ Len(RemoveIndex(list, i)) = Len(list) - 1
            /\ \A j \in 1..(Len(list) - 1) :
                  RemoveIndex(list, i)[j] = IF j < i THEN list[j] ELSE list[j + 1]
        BY <3>1, RemoveIndexType
      <3> QED
        BY <2>1, <3>1, <3>2
    <2>3. \A j \in DOMAIN list : j # i => AsListed(list[j]) # b
      BY <1>0, ListedView DEF NoGhosts
    <2>4. b \in ListedEntries
      BY DEF ListedEntries
    <2> HIDE DEF b, N
    <2>5. ListedEntries' = ListedEntries \ {b}
      <3>1. ASSUME NEW j \in DOMAIN list'
            PROVE  AsListed(list'[j]) \in ListedEntries \ {b}
        <4>1. CASE j < i
          <5>1. j \in DOMAIN list /\ j # i /\ list'[j] = list[j]
            BY <2>2, <3>1, <4>1
          <5> QED
            BY <2>3, <5>1 DEF ListedEntries
        <4>2. CASE ~(j < i)
          <5>1. j + 1 \in DOMAIN list /\ j + 1 # i /\ list'[j] = list[j + 1]
            BY <2>2, <3>1, <4>2
          <5> QED
            BY <2>3, <5>1 DEF ListedEntries
        <4> QED
          BY <4>1, <4>2
      <3>2. ASSUME NEW x \in ListedEntries \ {b}
            PROVE  \E j \in DOMAIN list' : x = AsListed(list'[j])
        <4>1. PICK j \in DOMAIN list : x = AsListed(list[j])
          BY <3>2 DEF ListedEntries
        <4>2. j # i
          BY <3>2, <4>1 DEF b
        <4>3. CASE j < i
          <5>1. j \in DOMAIN list' /\ list'[j] = list[j]
            BY <2>2, <4>3
          <5> QED
            BY <4>1, <5>1
        <4>4. CASE j > i
          <5>1. j - 1 \in DOMAIN list' /\ list'[j - 1] = list[j]
            BY <2>2, <4>4
          <5> QED
            BY <4>1, <5>1
        <4> QED
          BY <2>2, <4>2, <4>3, <4>4
      <3> QED
        BY <3>1, <3>2 DEF ListedEntries
    <2> QED
      BY <2>4, <2>5 DEF Listing!Next, Listing!Delist
  <1>3. CASE Restart
    <2>1. ListedEntries' = {}
      BY <1>3 DEF Restart, ListedEntries
    <2> QED
      BY <2>1 DEF Listing!Next, Listing!Delist
  <1>4. CASE \/ UNCHANGED vars
             \/ \E p \in PeerId : Expire(p) \/ Start(p) \/ Stop(p)
    BY <1>4 DEF vars, Expire, Start, Stop, ListedEntries
  <1> QED
    BY <1>1, <1>2, <1>3, <1>4 DEF Next

\* Under the same condition the server implements the list that module
\* Neighbourhood puts next to a node: every handler, seen as a change of the
\* set of entries, is one that BootstrapList allows.
THEOREM RefinesListing ==
    ASSUME FixedEndpoints
    PROVE  Spec => ListingSpec
  <1>1. Init => Listing!Init
    BY DEF Init, Listing!Init, ListedEntries
  <1>2. Init => Placed /\ NoGhosts
    BY DEF Init, Placed, NoGhosts
  <1>3. TypeOK /\ Placed /\ NoGhosts /\ [Next]_vars => (Placed /\ NoGhosts)'
    BY GhostStep
  <1>4. TypeOK /\ Placed /\ NoGhosts /\ [Next]_vars => [Listing!Next]_ListedEntries
    BY ListingStep DEF SetLike
  <1> QED
    BY <1>1, <1>2, <1>3, <1>4, TypeCorrect, PTL DEF Spec, ListingSpec, Listing!Spec
=============================================================================
