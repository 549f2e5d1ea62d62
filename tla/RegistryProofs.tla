--------------------------- MODULE RegistryProofs ---------------------------
(***************************************************************************)
(* Lemmas about the registry's operators: what each of them keeps of the   *)
(* entries, and that Upsert keeps a bounded registry bounded.              *)
(***************************************************************************)
EXTENDS Registry, FiniteSetTheorems, TLAPS

-----------------------------------------------------------------------------
(* What the registry operators return *)

\* A record is not the absent record, and Fresh builds one.
LEMMA FreshType ==
    ASSUME NEW ep \in Endpoint
    PROVE  Fresh(ep) \in Record
  BY RegistryAssumption DEF Fresh, Record, Endpoint, State, Active, AgeCap

\* Taking an id out leaves a registry that knows the other ids.
LEMMA WithoutType ==
    ASSUME NEW reg \in Registries, NEW p \in PeerId
    PROVE  /\ Without(reg, p) \in Registries
           /\ Known(Without(reg, p)) = Known(reg) \ {p}
           /\ \A q \in PeerId \ {p} : Without(reg, p)[q] = reg[q]
  BY DEF Without, Registries, Known

\* Putting a record in leaves a registry that knows its id as well.
LEMMA InsertType ==
    ASSUME NEW reg \in Registries, NEW id \in PeerId, NEW rec \in Record
    PROVE  /\ [reg EXCEPT ![id] = rec] \in Registries
           /\ Known([reg EXCEPT ![id] = rec]) = Known(reg) \cup {id}
  BY RegistryAssumption DEF Registries, Known

\* MarkState, Touch and Aged change no entry's address, and no entry's
\* presence.
SameEntries(reg, s) ==
    /\ s \in Registries
    /\ Known(s) = Known(reg)
    /\ \A q \in Known(reg) : s[q].grpc = reg[q].grpc /\ s[q].http = reg[q].http

\* What the registry holds for a known id is a record.
LEMMA KnownRecord ==
    ASSUME NEW reg \in Registries, NEW p \in Known(reg)
    PROVE  p \in PeerId /\ reg[p] \in Record
  BY DEF Registries, Known

\* MarkState changes the state of one known entry and nothing else.
LEMMA MarkStateEntries ==
    ASSUME NEW reg \in Registries, NEW p \in PeerId, NEW s \in State
    PROVE  /\ SameEntries(reg, MarkState(reg, p, s))
           /\ \A q \in Known(reg) \ {p} : MarkState(reg, p, s)[q] = reg[q]
  <1>1. CASE p \notin Known(reg)
    BY <1>1 DEF MarkState, SameEntries
  <1>2. CASE p \in Known(reg)
    <2> DEFINE rec == [reg[p] EXCEPT !.state = s]
    <2>1. reg[p] \in Record
      BY <1>2, KnownRecord
    <2>2. rec \in Record /\ rec.grpc = reg[p].grpc /\ rec.http = reg[p].http
      BY <2>1 DEF Record
    <2>3. MarkState(reg, p, s) = [reg EXCEPT ![p] = rec]
      BY <1>2 DEF MarkState
    <2> QED
      BY <1>2, <2>2, <2>3, InsertType DEF SameEntries, Known, Registries
  <1> QED
    BY <1>1, <1>2

\* Touch keeps every entry and its address, changes no other entry, and
\* keeps an Active one Active.
LEMMA TouchEntries ==
    ASSUME NEW reg \in Registries, NEW p \in PeerId
    PROVE  /\ SameEntries(reg, Touch(reg, p))
           /\ \A q \in Known(reg) \ {p} : Touch(reg, p)[q] = reg[q]
           /\ \A q \in Known(reg) : reg[q].state = Active => Touch(reg, p)[q].state = Active
  <1>1. CASE p \notin Known(reg)
    BY <1>1 DEF Touch, SameEntries
  <1>2. CASE p \in Known(reg)
    <2> DEFINE st == IF reg[p].state = Inactive THEN Active ELSE reg[p].state
               rec == [reg[p] EXCEPT !.age = 0, !.state = st]
    <2>1. reg[p] \in Record
      BY <1>2, KnownRecord
    <2>a. st \in State /\ 0 \in 0..AgeCap
      BY <2>1, RegistryAssumption DEF Record, State, Active, Inactive, Left, AgeCap
    <2>2. rec \in Record /\ rec.grpc = reg[p].grpc /\ rec.http = reg[p].http
          /\ rec.state = st
      <3> HIDE DEF st
      <3> QED
        BY <2>1, <2>a DEF Record
    <2>3. Touch(reg, p) = [reg EXCEPT ![p] = rec]
      BY <1>2, <2>1 DEF Touch, Registries, Record
    <2>4. \A q \in Known(reg) : Touch(reg, p)[q] = IF q = p THEN rec ELSE reg[q]
      BY <2>3, KnownRecord DEF Registries
    <2>5. reg[p].state = Active => st = Active
      BY DEF Active, Inactive
    <2> HIDE DEF rec, st
    <2>6. Touch(reg, p) \in Registries /\ Known(Touch(reg, p)) = Known(reg)
      <3>1. Known(Touch(reg, p)) = Known(reg) \cup {p}
        BY <2>2, <2>3, InsertType
      <3>2. Touch(reg, p) \in Registries
        BY <2>2, <2>3 DEF Registries
      <3> QED
        BY <1>2, <3>1, <3>2
    <2>7. SameEntries(reg, Touch(reg, p))
      BY <2>2, <2>4, <2>6 DEF SameEntries
    <2> QED
      BY <2>2, <2>4, <2>5, <2>7
  <1> QED
    BY <1>1, <1>2

\* The passing of time changes nothing but ages.
LEMMA AgedEntries ==
    ASSUME NEW reg \in Registries
    PROVE  /\ SameEntries(reg, Aged(reg))
           /\ \A q \in Known(reg) : Aged(reg)[q].state = reg[q].state
  <1> DEFINE Older(rec) == [rec EXCEPT !.age = IF @ < AgeCap THEN @ + 1 ELSE AgeCap]
  <1>1. ASSUME NEW rec \in Record
        PROVE  /\ Older(rec) \in Record
               /\ Older(rec).grpc = rec.grpc /\ Older(rec).http = rec.http
               /\ Older(rec).state = rec.state
    BY RegistryAssumption DEF Record, AgeCap
  <1>2. Aged(reg) = [p \in PeerId |-> IF reg[p] = NoRecord THEN NoRecord ELSE Older(reg[p])]
    BY DEF Aged
  <1> HIDE DEF Older
  <1> QED
    BY <1>1, <1>2, RegistryAssumption DEF SameEntries, Registries, Known
-----------------------------------------------------------------------------
(* What Upsert returns *)

\* The prune takes out at most one entry, another one at the same address.
LEMMA PrunedEntries ==
    ASSUME NEW reg \in Registries, NEW id \in PeerId, NEW ep \in Endpoint,
           NEW r \in Pruned(reg, id, ep)
    PROVE  /\ r \in Registries
           /\ Known(r) \subseteq Known(reg)
           /\ \A p \in Known(r) : r[p] = reg[p]
           /\ id \in Known(reg) => id \in Known(r)
           /\ \A p \in Known(reg) : ~SameHost(reg[p], ep) => p \in Known(r)
           /\ \/ Stale(reg, id, ep) = {} /\ r = reg
              \/ \E x \in Stale(reg, id, ep) : r = Without(reg, x)
  <1>1. CASE Stale(reg, id, ep) = {}
    BY <1>1 DEF Pruned
  <1>2. CASE Stale(reg, id, ep) # {}
    <2>1. PICK x \in Stale(reg, id, ep) : r = Without(reg, x)
      BY <1>2 DEF Pruned
    <2>2. x \in Known(reg) /\ x # id /\ SameHost(reg[x], ep) /\ x \in PeerId
      BY DEF Stale, Known
    <2> QED
      BY <2>1, <2>2, WithoutType DEF Known
  <1> QED
    BY <1>1, <1>2

\* An eviction takes out one entry that has Left.
LEMMA RoomEntries ==
    ASSUME NEW r \in Registries, NEW s \in WithRoom(r)
    PROVE  /\ s \in Registries
           /\ Known(s) \subseteq Known(r)
           /\ \A p \in Known(s) : s[p] = r[p]
           /\ \A p \in Known(r) : r[p].state # Left => p \in Known(s)
           /\ \/ s = r /\ Cardinality(Known(r)) < MaxNetworkPeers
              \/ \E x \in Known(r) : s = Without(r, x)
  <1>1. CASE Cardinality(Known(r)) < MaxNetworkPeers
    BY <1>1 DEF WithRoom
  <1>2. CASE ~(Cardinality(Known(r)) < MaxNetworkPeers)
    <2>1. PICK x \in Known(r) : r[x].state = Left /\ s = Without(r, x)
      BY <1>2 DEF WithRoom
    <2>2. x \in PeerId
      BY DEF Known
    <2> QED
      BY <2>1, <2>2, WithoutType DEF Known
  <1> QED
    BY <1>1, <1>2

\* An accepted Upsert, taken apart: a prune, then an update in place or an
\* insertion into a registry with room.
LEMMA AcceptedSteps ==
    ASSUME NEW reg, NEW id, NEW ep, NEW t \in Accepted(reg, id, ep)
    PROVE  \E r \in Pruned(reg, id, ep) :
              \/ id \in Known(r) /\ t = [r EXCEPT ![id] = Fresh(ep)]
              \/ /\ id \notin Known(r)
                 /\ \E s \in WithRoom(r) : t = [s EXCEPT ![id] = Fresh(ep)]
  BY DEF Accepted

\* After an Upsert every entry is an old one, unchanged, or the newcomer's;
\* an entry at another address that has not Left survives; if the call was
\* accepted the newcomer is there.
LEMMA UpsertEntries ==
    ASSUME NEW reg \in Registries, NEW id \in PeerId, NEW ep \in Endpoint,
           NEW t \in Upsert(reg, id, ep)
    PROVE  /\ t \in Registries
           /\ \A p \in Known(t) : \/ p \in Known(reg) /\ t[p] = reg[p]
                                  \/ p = id /\ t[p] = Fresh(ep)
           /\ \A p \in Known(reg) :
                 ~SameHost(reg[p], ep) /\ reg[p].state # Left => p \in Known(t)
           /\ id \in Known(reg) => id \in Known(t) /\ t[id] = Fresh(ep)
           /\ t \in Accepted(reg, id, ep) => id \in Known(t) /\ t[id] = Fresh(ep)
  <1>1. ASSUME t \in Refused(reg, id, ep)
        PROVE  /\ t \in Registries
               /\ \A p \in Known(t) : p \in Known(reg) /\ t[p] = reg[p]
               /\ \A p \in Known(reg) : ~SameHost(reg[p], ep) => p \in Known(t)
               /\ id \notin Known(reg)
    <2>1. t \in Pruned(reg, id, ep) /\ id \notin Known(t)
      BY <1>1 DEF Refused
    <2> QED
      BY <2>1, PrunedEntries
  <1>2. ASSUME t \in Accepted(reg, id, ep)
        PROVE  /\ t \in Registries
               /\ \A p \in Known(t) : \/ p \in Known(reg) /\ t[p] = reg[p]
                                      \/ p = id /\ t[p] = Fresh(ep)
               /\ \A p \in Known(reg) :
                     ~SameHost(reg[p], ep) /\ reg[p].state # Left => p \in Known(t)
               /\ id \in Known(t) /\ t[id] = Fresh(ep)
    <2>1. PICK r \in Pruned(reg, id, ep) :
              \/ id \in Known(r) /\ t = [r EXCEPT ![id] = Fresh(ep)]
              \/ /\ id \notin Known(r)
                 /\ \E s \in WithRoom(r) : t = [s EXCEPT ![id] = Fresh(ep)]
      BY <1>2, AcceptedSteps
    <2>2. /\ r \in Registries
          /\ \A p \in Known(r) : p \in Known(reg) /\ r[p] = reg[p]
          /\ \A p \in Known(reg) : ~SameHost(reg[p], ep) => p \in Known(r)
      BY PrunedEntries
    <2>3. PICK s \in Registries :
              /\ t = [s EXCEPT ![id] = Fresh(ep)]
              /\ \A p \in Known(s) : p \in Known(r) /\ s[p] = r[p]
              /\ \A p \in Known(r) : r[p].state # Left => p \in Known(s)
      BY <2>1, <2>2, RoomEntries
    <2>4. Fresh(ep) \in Record
      BY FreshType
    <2>5. /\ t \in Registries
          /\ Known(t) = Known(s) \cup {id}
          /\ \A p \in Known(s) : p # id => t[p] = s[p]
          /\ t[id] = Fresh(ep)
      BY <2>3, <2>4, InsertType DEF Registries, Known
    <2> QED
      BY <2>2, <2>3, <2>5
  <1> QED
    BY <1>1, <1>2 DEF Upsert
-----------------------------------------------------------------------------
(* The registry is bounded *)

\* Capacity is not inductive for an infinite PeerId: the entries must also
\* be finitely many for Cardinality to count them.
BoundedRegistry(reg) ==
    /\ reg \in Registries
    /\ IsFiniteSet(Known(reg))
    /\ Cardinality(Known(reg)) <= MaxNetworkPeers

\* A registry whose entries are among those of a bounded one is bounded.
LEMMA FewerEntries ==
    ASSUME NEW reg, BoundedRegistry(reg), NEW s \in Registries,
           Known(s) \subseteq Known(reg)
    PROVE  /\ BoundedRegistry(s)
           /\ Known(s) # Known(reg) => Cardinality(Known(s)) < MaxNetworkPeers
  <1>1. /\ IsFiniteSet(Known(s))
        /\ Cardinality(Known(s)) <= Cardinality(Known(reg))
        /\ Cardinality(Known(s)) = Cardinality(Known(reg)) => Known(s) = Known(reg)
    BY FS_Subset DEF BoundedRegistry
  <1>2. Cardinality(Known(s)) \in Nat /\ Cardinality(Known(reg)) \in Nat
    BY <1>1, FS_CardinalityType DEF BoundedRegistry
  <1> QED
    BY <1>1, <1>2, RegistryAssumption DEF BoundedRegistry

\* Upsert keeps the registry within its maximum: it inserts below it, or
\* after an eviction.
LEMMA UpsertBounded ==
    ASSUME NEW reg, BoundedRegistry(reg), NEW id \in PeerId, NEW ep \in Endpoint,
           NEW t \in Upsert(reg, id, ep)
    PROVE  BoundedRegistry(t)
  <1>0. reg \in Registries
    BY DEF BoundedRegistry
  <1>1. ASSUME t \in Refused(reg, id, ep) PROVE BoundedRegistry(t)
    <2>1. t \in Pruned(reg, id, ep)
      BY <1>1 DEF Refused
    <2> QED
      BY <1>0, <2>1, PrunedEntries, FewerEntries
  <1>2. ASSUME t \in Accepted(reg, id, ep) PROVE BoundedRegistry(t)
    <2>1. PICK r \in Pruned(reg, id, ep) :
              \/ id \in Known(r) /\ t = [r EXCEPT ![id] = Fresh(ep)]
              \/ /\ id \notin Known(r)
                 /\ \E s \in WithRoom(r) : t = [s EXCEPT ![id] = Fresh(ep)]
      BY <1>2, AcceptedSteps
    <2>2. r \in Registries /\ BoundedRegistry(r)
      BY <1>0, PrunedEntries, FewerEntries
    <2>3. Fresh(ep) \in Record
      BY FreshType
    <2>4. CASE id \in Known(r) /\ t = [r EXCEPT ![id] = Fresh(ep)]
      <3>1. t \in Registries /\ Known(t) = Known(r) \cup {id}
        BY <2>2, <2>3, <2>4, InsertType
      <3>2. Known(t) \subseteq Known(r)
        BY <2>4, <3>1
      <3> QED
        BY <2>2, <3>1, <3>2, FewerEntries
    <2>5. ASSUME NEW s \in WithRoom(r), t = [s EXCEPT ![id] = Fresh(ep)],
                 id \notin Known(r)
          PROVE  BoundedRegistry(t)
      <3>1. /\ s \in Registries /\ Known(s) \subseteq Known(r)
            /\ \/ s = r /\ Cardinality(Known(r)) < MaxNetworkPeers
               \/ \E x \in Known(r) : s = Without(r, x)
        BY <2>2, RoomEntries
      <3>2. BoundedRegistry(s) /\ Cardinality(Known(s)) < MaxNetworkPeers
        <4>1. CASE s = r /\ Cardinality(Known(r)) < MaxNetworkPeers
          BY <2>2, <4>1
        <4>2. ASSUME NEW x \in Known(r), s = Without(r, x)
              PROVE  BoundedRegistry(s) /\ Cardinality(Known(s)) < MaxNetworkPeers
          <5>1. Known(s) = Known(r) \ {x}
            BY <2>2, <4>2, WithoutType, KnownRecord
          <5>2. Known(s) # Known(r)
            BY <5>1
          <5> QED
            BY <2>2, <3>1, <5>2, FewerEntries
        <4> QED
          BY <3>1, <4>1, <4>2
      <3>3. t \in Registries /\ Known(t) = Known(s) \cup {id} /\ id \notin Known(s)
        BY <2>3, <2>5, <3>1, InsertType
      <3>4. /\ IsFiniteSet(Known(t))
            /\ Cardinality(Known(t)) = Cardinality(Known(s)) + 1
            /\ Cardinality(Known(s)) \in Nat
        BY <3>2, <3>3, FS_AddElement, FS_CardinalityType DEF BoundedRegistry
      <3> QED
        BY <3>2, <3>3, <3>4, RegistryAssumption DEF BoundedRegistry
    <2> QED
      BY <2>1, <2>4, <2>5
  <1> QED
    BY <1>1, <1>2 DEF Upsert
-----------------------------------------------------------------------------
(* What an Upsert drops *)

\* A bounded registry loses at most one entry in an Upsert, and only to the
\* newcomer: an entry at its address, or, when there was none and no room
\* either, one that has Left.  An Upsert that is refused loses none: with an
\* entry pruned there would have been room.
LEMMA UpsertDrops ==
    ASSUME NEW reg, BoundedRegistry(reg), NEW id \in PeerId, NEW ep \in Endpoint,
           NEW t \in Upsert(reg, id, ep)
    PROVE  \/ Known(reg) \subseteq Known(t)
           \/ \E x \in Known(reg) \ {id} :
                 /\ Known(reg) \ Known(t) = {x}
                 /\ id \in Known(t) /\ t[id] = Fresh(ep)
                 /\ \/ SameHost(reg[x], ep)
                    \/ /\ reg[x].state = Left
                       /\ Cardinality(Known(reg)) = MaxNetworkPeers
                       /\ id \notin Known(reg)
  <1> DEFINE Dropped(x) ==
                 /\ Known(reg) \ Known(t) = {x}
                 /\ id \in Known(t) /\ t[id] = Fresh(ep)
                 /\ \/ SameHost(reg[x], ep)
                    \/ /\ reg[x].state = Left
                       /\ Cardinality(Known(reg)) = MaxNetworkPeers
                       /\ id \notin Known(reg)
  <1>0. reg \in Registries /\ Fresh(ep) \in Record
    BY FreshType DEF BoundedRegistry
  <1>1. ASSUME NEW r \in Pruned(reg, id, ep), r # reg
        PROVE  /\ r \in Registries /\ Cardinality(Known(r)) < MaxNetworkPeers
               /\ \E x \in Known(reg) \ {id} :
                     SameHost(reg[x], ep) /\ Known(r) = Known(reg) \ {x}
    <2>1. PICK x \in Stale(reg, id, ep) : r = Without(reg, x)
      BY <1>0, <1>1, PrunedEntries
    <2>2. x \in Known(reg) \ {id} /\ SameHost(reg[x], ep) /\ x \in PeerId
      BY DEF Stale, Known
    <2>3. r \in Registries /\ Known(r) = Known(reg) \ {x}
      BY <1>0, <2>1, <2>2, WithoutType
    <2>4. Cardinality(Known(r)) < MaxNetworkPeers
      BY <2>2, <2>3, FewerEntries
    <2> QED
      BY <2>2, <2>3, <2>4
  <1>2. CASE t \in Refused(reg, id, ep)
    <2>1. t \in Pruned(reg, id, ep) /\ WithRoom(t) = {}
      BY <1>2 DEF Refused
    <2>2. ~(Cardinality(Known(t)) < MaxNetworkPeers)
      BY <2>1 DEF WithRoom
    <2>3. t = reg
      BY <1>1, <2>1, <2>2
    <2> QED
      BY <2>3
  <1>3. ASSUME t \in Accepted(reg, id, ep)
        PROVE  \/ Known(reg) \subseteq Known(t)
               \/ \E x \in Known(reg) \ {id} : Dropped(x)
    <2>1. PICK r \in Pruned(reg, id, ep) :
              \/ id \in Known(r) /\ t = [r EXCEPT ![id] = Fresh(ep)]
              \/ /\ id \notin Known(r)
                 /\ \E s \in WithRoom(r) : t = [s EXCEPT ![id] = Fresh(ep)]
      BY <1>3, AcceptedSteps
    <2>2. r \in Registries
      BY <1>0, PrunedEntries
    <2>8. \A x \in WithRoom(r) : x \in Registries
      BY <2>2, RoomEntries
    <2>3. PICK s \in Registries :
              /\ t = [s EXCEPT ![id] = Fresh(ep)]
              /\ s = r \/ (id \notin Known(r) /\ s \in WithRoom(r))
      BY <2>1, <2>2, <2>8
    <2>4. /\ Known(t) = Known(s) \cup {id} /\ t[id] = Fresh(ep)
      BY <1>0, <2>3, InsertType DEF Registries
    <2>5. CASE r # reg
      <3>1. PICK x \in Known(reg) \ {id} :
                SameHost(reg[x], ep) /\ Known(r) = Known(reg) \ {x}
        BY <1>1, <2>5
      <3>2. WithRoom(r) = {r}
        BY <1>1, <2>5 DEF WithRoom
      <3>3. s = r
        BY <2>3, <3>2
      <3>4. Known(reg) \ Known(t) = {x}
        BY <2>4, <3>1, <3>3
      <3> QED
        BY <2>4, <3>1, <3>4
    <2>6. CASE r = reg /\ s = r
      BY <2>4, <2>6
    <2>7. CASE r = reg /\ s # r
      <3>1. id \notin Known(reg) /\ s \in WithRoom(reg) /\ s # reg
        BY <2>3, <2>7
      <3>2. /\ ~(Cardinality(Known(reg)) < MaxNetworkPeers)
            /\ \E x \in Known(reg) : reg[x].state = Left /\ s = Without(reg, x)
        BY <3>1 DEF WithRoom
      <3>3. PICK x \in Known(reg) : reg[x].state = Left /\ s = Without(reg, x)
        BY <3>2
      <3>4. Cardinality(Known(reg)) = MaxNetworkPeers
        BY <3>2, FS_CardinalityType, RegistryAssumption DEF BoundedRegistry
      <3>5. Known(s) = Known(reg) \ {x} /\ x # id
        BY <1>0, <3>1, <3>3, WithoutType, KnownRecord
      <3>6. Known(reg) \ Known(t) = {x}
        BY <2>4, <3>5
      <3> QED
        BY <2>4, <3>1, <3>3, <3>4, <3>5, <3>6
    <2> QED
      BY <2>5, <2>6, <2>7
  <1> QED
    BY <1>2, <1>3 DEF Upsert

-----------------------------------------------------------------------------
(* What the users of a registry do to it *)

\* The ways a registry changes in the hands of a node that upserts these
\* entries and marks these peers; the Remove of Manager.Leave comes on top.
Change(entries, marked, reg, new) ==
    \/ new = reg
    \/ new = Aged(reg)
    \/ \E p \in PeerId : new = Touch(reg, p)
    \/ \E p \in marked : \E s \in State : new = MarkState(reg, p, s)
    \/ \E e \in entries : new \in Upsert(reg, e.id, e.ep)

Entries == [id : PeerId, ep : Endpoint]

\* Every change but an Upsert keeps the entries and their addresses.
LEMMA ChangeKinds ==
    ASSUME NEW entries \in SUBSET Entries, NEW marked \in SUBSET PeerId,
           NEW reg \in Registries, NEW new, Change(entries, marked, reg, new)
    PROVE  \/ SameEntries(reg, new)
           \/ \E e \in entries : /\ e.id \in PeerId /\ e.ep \in Endpoint
                                 /\ new \in Upsert(reg, e.id, e.ep)
  <1>1. SameEntries(reg, reg)
    BY DEF SameEntries
  <1>2. \A p \in PeerId : SameEntries(reg, Touch(reg, p))
    BY TouchEntries
  <1>3. \A p \in marked : \A s \in State : SameEntries(reg, MarkState(reg, p, s))
    BY MarkStateEntries
  <1>4. \A e \in entries : e.id \in PeerId /\ e.ep \in Endpoint
    BY DEF Entries
  <1> QED
    BY <1>1, <1>2, <1>3, <1>4, AgedEntries DEF Change

\* Each of them leaves a registry, and a bounded one bounded.
LEMMA ChangeBounded ==
    ASSUME NEW entries \in SUBSET Entries, NEW marked \in SUBSET PeerId,
           NEW reg, NEW new, Change(entries, marked, reg, new)
    PROVE  /\ reg \in Registries => new \in Registries
           /\ BoundedRegistry(reg) => BoundedRegistry(new)
  <1>1. SUFFICES ASSUME reg \in Registries
                 PROVE  /\ new \in Registries
                        /\ BoundedRegistry(reg) => BoundedRegistry(new)
    BY DEF BoundedRegistry
  <1>2. CASE SameEntries(reg, new)
    BY <1>2, FewerEntries DEF SameEntries
  <1>3. ASSUME NEW e \in entries, e.id \in PeerId, e.ep \in Endpoint,
               new \in Upsert(reg, e.id, e.ep)
        PROVE  /\ new \in Registries
               /\ BoundedRegistry(reg) => BoundedRegistry(new)
    BY <1>1, <1>3, UpsertEntries, UpsertBounded
  <1> QED
    BY <1>1, <1>2, <1>3, ChangeKinds

\* An entry that disappears from a bounded registry has lost its address or
\* its slot to a newcomer, and it is the only one.
LEMMA ChangeDrops ==
    ASSUME NEW entries \in SUBSET Entries, NEW marked \in SUBSET PeerId,
           NEW reg, NEW new, Change(entries, marked, reg, new),
           BoundedRegistry(reg), NEW p \in Known(reg) \ Known(new)
    PROVE  /\ Known(reg) \ Known(new) = {p}
           /\ \/ \E q \in Known(new) \ {p} : SameHost(reg[p], new[q]) /\ new[q].age = 0
              \/ /\ reg[p].state = Left
                 /\ Cardinality(Known(reg)) = MaxNetworkPeers
                 /\ Known(new) \ Known(reg) # {}
  <1>1. PICK e \in entries : /\ e.id \in PeerId /\ e.ep \in Endpoint
                             /\ new \in Upsert(reg, e.id, e.ep)
    BY ChangeKinds DEF SameEntries, BoundedRegistry
  <1>2. PICK x \in Known(reg) \ {e.id} :
            /\ Known(reg) \ Known(new) = {x}
            /\ e.id \in Known(new) /\ new[e.id] = Fresh(e.ep)
            /\ \/ SameHost(reg[x], e.ep)
               \/ /\ reg[x].state = Left
                  /\ Cardinality(Known(reg)) = MaxNetworkPeers
                  /\ e.id \notin Known(reg)
    BY <1>1, UpsertDrops
  <1>3. p = x
    BY <1>2
  <1>4. /\ Fresh(e.ep).grpc = e.ep.grpc /\ Fresh(e.ep).http = e.ep.http
        /\ Fresh(e.ep).age = 0
    BY DEF Fresh
  <1>5. SameHost(reg[x], e.ep) => SameHost(reg[x], new[e.id]) /\ new[e.id].age = 0
    BY <1>2, <1>4 DEF SameHost
  <1> QED
    BY <1>2, <1>3, <1>5

-----------------------------------------------------------------------------
(* A node stays in its own registry *)

EndpointIn(rec) == [grpc |-> rec.grpc, http |-> rec.http]

\* `own' holds the endpoints the node has or has had.
HasOwn(reg, self, own) ==
    /\ reg \in Registries
    /\ self \in Known(reg)
    /\ reg[self].state = Active
    /\ EndpointIn(reg[self]) \in own

\* Nobody else comes up at the node's addresses, and nobody marks it.
Unshared(entries, marked, self, own) ==
    /\ self \notin marked
    /\ \A e \in entries : IF e.id = self THEN e.ep \in own
                         ELSE \A ep \in own : ~SameHost(ep, e.ep)

\* No change prunes, evicts or marks the node's own entry, and none moves it
\* to an endpoint that is not its own.
LEMMA ChangeKeepsOwn ==
    ASSUME NEW entries \in SUBSET Entries, NEW marked \in SUBSET PeerId,
           NEW reg, NEW new, Change(entries, marked, reg, new),
           NEW self \in PeerId, NEW own \in SUBSET Endpoint,
           Unshared(entries, marked, self, own), HasOwn(reg, self, own)
    PROVE  HasOwn(new, self, own)
  <1>0. reg \in Registries
    BY DEF HasOwn
  <1>1. ASSUME NEW e \in entries, new \in Upsert(reg, e.id, e.ep)
        PROVE  HasOwn(new, self, own)
    <2>0. e.id \in PeerId /\ e.ep \in Endpoint
      BY DEF Entries
    <2>1. new \in Registries
      BY <1>0, <1>1, <2>0, UpsertEntries
    <2>2. CASE e.id = self
      <3>1. self \in Known(new) /\ new[self] = Fresh(e.ep)
        BY <1>0, <1>1, <2>0, <2>2, UpsertEntries DEF HasOwn
      <3>2. EndpointIn(Fresh(e.ep)) = e.ep /\ Fresh(e.ep).state = Active
        BY <2>0 DEF Fresh, EndpointIn, Endpoint
      <3>3. e.ep \in own
        BY <2>2 DEF Unshared
      <3> QED
        BY <2>1, <3>1, <3>2, <3>3 DEF HasOwn
    <2>3. CASE e.id # self
      <3>1. ~SameHost(EndpointIn(reg[self]), e.ep)
        BY <2>3 DEF Unshared, HasOwn
      <3>3. ~SameHost(reg[self], e.ep)
        BY <3>1 DEF SameHost, EndpointIn
      <3>4. self \in Known(new)
        BY <1>0, <1>1, <2>0, <3>3, UpsertEntries DEF HasOwn, Active, Left
      <3>5. new[self] = reg[self]
        BY <1>0, <1>1, <2>0, <2>3, <3>4, UpsertEntries
      <3> QED
        BY <2>1, <3>4, <3>5 DEF HasOwn
    <2> QED
      BY <2>2, <2>3
  <1>2. ASSUME SameEntries(reg, new), new[self].state = Active
        PROVE  HasOwn(new, self, own)
    BY <1>2 DEF HasOwn, SameEntries, EndpointIn
  <1>3. ASSUME NEW p \in marked, NEW s \in State, new = MarkState(reg, p, s)
        PROVE  HasOwn(new, self, own)
    <2>1. p # self /\ p \in PeerId
      BY DEF Unshared
    <2> QED
      BY <1>0, <1>2, <1>3, <2>1, MarkStateEntries DEF HasOwn
  <1>4. ASSUME NEW p \in PeerId, new = Touch(reg, p) PROVE HasOwn(new, self, own)
    BY <1>0, <1>2, <1>4, TouchEntries DEF HasOwn
  <1>5. new = Aged(reg) => HasOwn(new, self, own)
    BY <1>0, <1>2, AgedEntries DEF HasOwn
  <1> QED
    BY <1>1, <1>3, <1>4, <1>5 DEF Change

-----------------------------------------------------------------------------
(* No two entries share an address *)

\* An address belongs to one endpoint.
Paired(eps) == \A e, f \in eps : SameHost(e, f) => e = f

\* That no two entries share an address is not inductive alone: the prune
\* takes out one entry only, which is enough because all the entries'
\* endpoints are among some where an address belongs to one endpoint.
ApartRegistry(reg, eps) ==
    /\ reg \in Registries
    /\ \A p \in Known(reg) : EndpointIn(reg[p]) \in eps
    /\ \A p, q \in Known(reg) : p # q => ~SameHost(reg[p], reg[q])

\* After an accepted Upsert no other entry carries the newcomer's address.
LEMMA AcceptedApart ==
    ASSUME NEW eps \in SUBSET Endpoint, Paired(eps), NEW reg, ApartRegistry(reg, eps),
           NEW id \in PeerId, NEW ep \in Endpoint, ep \in eps,
           NEW t \in Accepted(reg, id, ep), NEW p \in Known(t), p # id
    PROVE  ~SameHost(reg[p], ep)
  <1>0. reg \in Registries
    BY DEF ApartRegistry
  <1>1. PICK r \in Pruned(reg, id, ep) :
            \/ id \in Known(r) /\ t = [r EXCEPT ![id] = Fresh(ep)]
            \/ /\ id \notin Known(r)
               /\ \E s \in WithRoom(r) : t = [s EXCEPT ![id] = Fresh(ep)]
    BY AcceptedSteps
  <1>2. /\ r \in Registries
        /\ \A x \in Known(r) : x \in Known(reg) /\ r[x] = reg[x]
        /\ \/ Stale(reg, id, ep) = {} /\ r = reg
           \/ \E x \in Stale(reg, id, ep) : r = Without(reg, x)
    BY <1>0, PrunedEntries
  <1>3. PICK s \in Registries :
            /\ t = [s EXCEPT ![id] = Fresh(ep)]
            /\ Known(s) \subseteq Known(r)
    BY <1>1, <1>2, RoomEntries
  <1>4. p \in Known(r)
    <2>1. Fresh(ep) \in Record
      BY FreshType
    <2>2. Known(t) = Known(s) \cup {id}
      BY <1>3, <2>1, InsertType
    <2> QED
      BY <1>3, <2>2
  <1>5. p \in Known(reg)
    BY <1>2, <1>4
  <1>6. SUFFICES ASSUME SameHost(reg[p], ep) PROVE FALSE
    OBVIOUS
  <1>7. p \in Stale(reg, id, ep)
    BY <1>5, <1>6 DEF Stale
  <1>8. PICK x \in Stale(reg, id, ep) : r = Without(reg, x)
    BY <1>2, <1>7
  <1>9. x \in Known(reg) /\ x \in PeerId /\ SameHost(reg[x], ep)
    BY DEF Stale, Known
  <1>10. p # x
    BY <1>0, <1>4, <1>8, <1>9, WithoutType
  <1>11. ASSUME NEW y \in Known(reg), SameHost(reg[y], ep)
         PROVE  EndpointIn(reg[y]) = ep
    <2>1. SameHost(EndpointIn(reg[y]), ep)
      BY <1>11 DEF SameHost, EndpointIn
    <2>2. EndpointIn(reg[y]) \in eps
      BY DEF ApartRegistry
    <2> QED
      BY <2>1, <2>2 DEF Paired
  <1>12. EndpointIn(reg[p]) = ep /\ EndpointIn(reg[x]) = ep
    BY <1>5, <1>6, <1>9, <1>11
  <1>13. reg[p].grpc = reg[x].grpc
    BY <1>12 DEF EndpointIn
  <1>14. SameHost(reg[p], reg[x])
    BY <1>13 DEF SameHost
  <1> QED
    BY <1>5, <1>9, <1>10, <1>14 DEF ApartRegistry

\* When an address belongs to one endpoint, Upsert leaves no two entries
\* with one address: at most one entry had it, and that one is pruned.
LEMMA UpsertApart ==
    ASSUME NEW eps \in SUBSET Endpoint, Paired(eps), NEW reg, ApartRegistry(reg, eps),
           NEW id \in PeerId, NEW ep \in Endpoint, ep \in eps,
           NEW t \in Upsert(reg, id, ep)
    PROVE  ApartRegistry(t, eps)
  <1>0. reg \in Registries
    BY DEF ApartRegistry
  <1>1. /\ t \in Registries
        /\ \A p \in Known(t) : \/ p \in Known(reg) /\ t[p] = reg[p]
                               \/ p = id /\ t[p] = Fresh(ep)
    BY <1>0, UpsertEntries
  <1>2. ASSUME t \in Refused(reg, id, ep) PROVE ApartRegistry(t, eps)
    <2>1. \A p \in Known(t) : p \in Known(reg) /\ t[p] = reg[p]
      BY <1>0, <1>2, PrunedEntries DEF Refused
    <2> QED
      BY <1>1, <2>1 DEF ApartRegistry
  <1>3. ASSUME t \in Accepted(reg, id, ep) PROVE ApartRegistry(t, eps)
    <2>1. t[id] = Fresh(ep)
      BY <1>0, <1>3, UpsertEntries
    <2>2. t[id].grpc = ep.grpc /\ t[id].http = ep.http /\ EndpointIn(t[id]) = ep
      BY <2>1 DEF Fresh, EndpointIn, Endpoint
    <2>3. \A p \in Known(t) \ {id} : p \in Known(reg) /\ t[p] = reg[p]
      BY <1>1
    <2>4. \A p \in Known(t) \ {id} : ~SameHost(t[p], ep)
      BY <1>3, <2>3, AcceptedApart
    <2>5. \A p \in Known(t) \ {id} : ~SameHost(t[p], t[id]) /\ ~SameHost(t[id], t[p])
      BY <2>2, <2>4 DEF SameHost
    <2>6. \A p \in Known(t) : EndpointIn(t[p]) \in eps
      BY <2>2, <2>3 DEF ApartRegistry
    <2>7. \A p, q \in Known(t) : p # q => ~SameHost(t[p], t[q])
      BY <2>3, <2>5 DEF ApartRegistry
    <2> QED
      BY <1>1, <2>6, <2>7 DEF ApartRegistry
  <1> QED
    BY <1>2, <1>3 DEF Upsert

\* No other change gives an entry an address that another one has.
LEMMA ChangeApart ==
    ASSUME NEW eps \in SUBSET Endpoint, Paired(eps),
           NEW entries \in SUBSET [id : PeerId, ep : eps],
           NEW marked \in SUBSET PeerId,
           NEW reg, NEW new, Change(entries, marked, reg, new),
           ApartRegistry(reg, eps)
    PROVE  ApartRegistry(new, eps)
  <1>0. reg \in Registries /\ entries \in SUBSET Entries
    BY DEF ApartRegistry, Entries
  <1>1. CASE SameEntries(reg, new)
    BY <1>1 DEF SameEntries, ApartRegistry, SameHost, EndpointIn
  <1>2. ASSUME NEW e \in entries, new \in Upsert(reg, e.id, e.ep)
        PROVE  ApartRegistry(new, eps)
    <2>1. e.id \in PeerId /\ e.ep \in Endpoint /\ e.ep \in eps
      BY DEF Entries
    <2> QED
      BY <1>2, <2>1, UpsertApart
  <1> QED
    BY <1>0, <1>1, <1>2, ChangeKinds
=============================================================================
