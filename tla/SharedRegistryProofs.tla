------------------------ MODULE SharedRegistryProofs ------------------------
(***************************************************************************)
(* Proofs about SharedRegistry, for any nodes, peers, timeouts and maximum.*)
(***************************************************************************)
EXTENDS SharedRegistry, RegistryProofs

-----------------------------------------------------------------------------
(* Ages *)

\* The age of a record is a number up to the cap.
LEMMA RecordAge ==
    ASSUME NEW rec \in Record
    PROVE  rec.age \in 0..AgeCap /\ AgeCap \in Nat /\ rec.age \in Nat
  BY RegistryAssumption DEF Record, AgeCap

\* MarkState changes no age.
LEMMA MarkStateAges ==
    ASSUME NEW reg \in Registries, NEW p \in PeerId, NEW s \in State,
           NEW q \in Known(reg)
    PROVE  MarkState(reg, p, s)[q].age = reg[q].age
  <1>1. reg[q] \in Record /\ q \in PeerId
    BY KnownRecord
  <1>2. [reg[q] EXCEPT !.state = s].age = reg[q].age
    BY <1>1 DEF Record
  <1>3. MarkState(reg, p, s)[q] = reg[q] \/ MarkState(reg, p, s)[q] = [reg[q] EXCEPT !.state = s]
    BY <1>1 DEF MarkState, Registries
  <1> QED
    BY <1>2, <1>3

\* Touch makes the entry new and no entry older.
LEMMA TouchAges ==
    ASSUME NEW reg \in Registries, NEW p \in PeerId, NEW q \in Known(reg)
    PROVE  Touch(reg, p)[q].age = IF q = p THEN 0 ELSE reg[q].age
  <1>1. reg[q] \in Record /\ q \in PeerId
    BY KnownRecord
  <1>2. CASE q = p
    <2> DEFINE st == IF reg[p].state = Inactive THEN Active ELSE reg[p].state
               rec == [reg[p] EXCEPT !.age = 0, !.state = st]
    <2>1. rec.age = 0
      BY <1>1, <1>2 DEF Record
    <2>2. Touch(reg, p) = [reg EXCEPT ![p] = rec]
      BY <1>1, <1>2 DEF Touch, Registries, Record
    <2> HIDE DEF rec
    <2> QED
      BY <1>1, <1>2, <2>1, <2>2 DEF Registries
  <1>3. CASE q # p
    BY <1>3, TouchEntries
  <1> QED
    BY <1>2, <1>3

\* Aged makes every entry one unit older.
LEMMA AgedAges ==
    ASSUME NEW reg \in Registries, NEW q \in Known(reg)
    PROVE  Aged(reg)[q].age = Older(reg[q].age)
  <1>1. reg[q] \in Record /\ q \in PeerId /\ reg[q] # NoRecord
    BY KnownRecord DEF Known
  <1>2. Aged(reg)[q] = [reg[q] EXCEPT !.age = Older(@)]
    BY <1>1 DEF Aged, Older
  <1> QED
    BY <1>1, <1>2 DEF Record

\* Growing older keeps the order of two ages.
LEMMA OlderOrder ==
    ASSUME NEW i \in 0..AgeCap, NEW j \in 0..AgeCap
    PROVE  Older(i) \in 0..AgeCap /\ (i <= j => Older(i) <= Older(j))
  BY RegistryAssumption DEF Older, AgeCap

-----------------------------------------------------------------------------
(* What the commands and the merge leave behind *)

\* Every key that Redis holds after some commands is one it held before,
\* or has been set to the registry's entry.
LEMMA UpdateEffect ==
    ASSUME TypeOK, NEW n \in Node, NEW reg \in Registries,
           NEW kept \in SUBSET PeerId, NEW gone, Update(n, reg, kept, gone)
    PROVE  /\ peers' \in [Node -> Registries] /\ redis' \in Registries
           /\ peers'[n] = reg
           /\ \A m \in Node \ {n} : peers'[m] = peers[m]
           /\ \A p \in Known(redis') :
                 \/ p \in kept /\ p \in Known(reg) /\ redis'[p] = reg[p]
                 \/ p \in Known(redis) /\ redis'[p] = redis[p]
           /\ fetched' = fetched
  <1>1. PICK s \in SUBSET (kept \cap Known(reg)), d \in SUBSET gone :
            redis' = [p \in PeerId |-> IF p \in d THEN NoRecord
                                       ELSE IF p \in s THEN reg[p] ELSE redis[p]]
    BY DEF Update, Sent
  <1> QED
    BY <1>1 DEF Update, TypeOK, Registries, Known

\* The merge changes at most the entry of the record's id: to the record,
\* when that is not older, or when the id is unknown and there is room.
LEMMA MergedEntries ==
    ASSUME NEW reg \in Registries, NEW id \in PeerId, NEW rec \in Record,
           NEW r \in Merged(reg, id, rec)
    PROVE  /\ r \in Registries
           /\ \/ r = reg
              \/ /\ r = [reg EXCEPT ![id] = rec]
                 /\ \/ id \in Known(reg) /\ rec.age <= reg[id].age
                    \/ id \notin Known(reg) /\ Cardinality(Known(reg)) < MaxNetworkPeers
  <1>1. \/ r = reg
        \/ /\ r = [reg EXCEPT ![id] = rec]
           /\ \/ id \in Known(reg) /\ rec.age <= reg[id].age
              \/ id \notin Known(reg) /\ Cardinality(Known(reg)) < MaxNetworkPeers
    BY DEF Merged, MayBeNewer, MayBeOlder
  <1> QED
    BY <1>1, InsertType

\* A node starts with at most its own, fresh, entry.
LEMMA OwnEntries ==
    ASSUME NEW n \in Node
    PROVE  /\ OwnRegistry(n) \in Registries
           /\ Known(OwnRegistry(n)) \subseteq {n}
           /\ \A p \in Known(OwnRegistry(n)) : OwnRegistry(n)[p].age = 0
  <1>1. Fresh(OwnEndpoint[n]) \in Record /\ Fresh(OwnEndpoint[n]).age = 0
    BY FreshType, SharedAssumption DEF Fresh
  <1> QED
    BY <1>1 DEF OwnRegistry, Registries, Known

-----------------------------------------------------------------------------
(* What a step does, when it is not the passing of time *)

\* The methods that hear of a peer: Upsert, with a LastSeen of some age, and
\* Touch; and those that do not.
Hears(id, age, reg, new) ==
    \/ \E c \in Call : c.id = id /\ c.age = age /\ new \in Upserted(reg, c)
    \/ age = 0 /\ new = Touch(reg, id)

Marks(id, reg, new) ==
    \/ \E s \in {Inactive, Left} : new = MarkState(reg, id, s)
    \/ new = Remove(reg, id)

\* Upsert writes the caller's LastSeen into the entry, and changes no other.
LEMMA UpsertedEntries ==
    ASSUME NEW reg \in Registries, NEW c \in Call, NEW new \in Upserted(reg, c)
    PROVE  /\ new \in Registries
           /\ \A p \in Known(new) :
                 IF p = c.id THEN new[p].age = c.age
                 ELSE p \in Known(reg) /\ new[p] = reg[p]
           /\ BoundedRegistry(reg) => BoundedRegistry(new)
  <1>0. c.id \in PeerId /\ c.ep \in Endpoint /\ c.age \in 0..AgeCap
    BY DEF Call
  <1>1. PICK r \in Upsert(reg, c.id, c.ep) :
            new = IF c.id \in Known(r) THEN [r EXCEPT ![c.id].age = c.age] ELSE r
    BY DEF Upserted
  <1>2. /\ r \in Registries
        /\ \A p \in Known(r) \ {c.id} : p \in Known(reg) /\ r[p] = reg[p]
        /\ BoundedRegistry(reg) => BoundedRegistry(r)
    BY <1>0, UpsertEntries, UpsertBounded
  <1>3. CASE c.id \notin Known(r)
    BY <1>1, <1>2, <1>3
  <1>4. CASE c.id \in Known(r)
    <2> DEFINE rec == [r[c.id] EXCEPT !.age = c.age]
    <2>1. r[c.id] \in Record
      BY <1>2, <1>4, KnownRecord
    <2>2. rec \in Record /\ rec.age = c.age
      BY <1>0, <2>1 DEF Record
    <2>3. new = [r EXCEPT ![c.id] = rec]
      BY <1>1, <1>4
    <2> HIDE DEF rec
    <2>4. new \in Registries /\ Known(new) = Known(r) \cup {c.id}
      BY <1>0, <1>2, <2>2, <2>3, InsertType
    <2>5. Known(new) \subseteq Known(r)
      BY <1>4, <2>4
    <2>6. /\ new[c.id].age = c.age
          /\ \A p \in Known(new) \ {c.id} : new[p] = r[p]
      BY <1>0, <1>2, <2>2, <2>3 DEF Registries, Known
    <2>7. BoundedRegistry(reg) => BoundedRegistry(new)
      BY <1>2, <2>4, <2>5, FewerEntries
    <2> QED
      BY <1>2, <2>4, <2>5, <2>6, <2>7
  <1> QED
    BY <1>3, <1>4

\* A call that hears of a peer sets the age of its entry and of no other one.
LEMMA HearsEntries ==
    ASSUME NEW id \in PeerId, NEW age \in 0..AgeCap, NEW reg \in Registries,
           NEW new, Hears(id, age, reg, new)
    PROVE  /\ new \in Registries
           /\ \A p \in Known(new) : \/ p \in Known(reg) /\ new[p].age = reg[p].age
                                    \/ p = id /\ new[p].age = age
  <1>1. ASSUME NEW c \in Call, c.id = id, c.age = age, new \in Upserted(reg, c)
        PROVE  /\ new \in Registries
               /\ \A p \in Known(new) : \/ p \in Known(reg) /\ new[p].age = reg[p].age
                                        \/ p = id /\ new[p].age = age
    BY <1>1, UpsertedEntries
  <1>2. CASE age = 0 /\ new = Touch(reg, id)
    <2>1. new \in Registries /\ Known(new) = Known(reg)
      BY <1>2, TouchEntries DEF SameEntries
    <2> QED
      BY <1>2, <2>1, TouchAges
  <1> QED
    BY <1>1, <1>2 DEF Hears

\* The other calls leave the ages as they are.
LEMMA MarksEntries ==
    ASSUME NEW id \in PeerId, NEW reg \in Registries, NEW new, Marks(id, reg, new)
    PROVE  /\ new \in Registries
           /\ Known(new) \subseteq Known(reg)
           /\ \A p \in Known(new) : new[p].age = reg[p].age
  <1>1. ASSUME NEW s \in {Inactive, Left}, new = MarkState(reg, id, s)
        PROVE  /\ new \in Registries
               /\ Known(new) = Known(reg)
               /\ \A p \in Known(new) : new[p].age = reg[p].age
    <2>1. s \in State
      BY DEF State
    <2>2. new \in Registries /\ Known(new) = Known(reg)
      BY <1>1, <2>1, MarkStateEntries DEF SameEntries
    <2> QED
      BY <1>1, <2>1, <2>2, MarkStateAges
  <1>2. CASE new = Remove(reg, id)
    BY <1>2, WithoutType DEF Remove, Known
  <1> QED
    BY <1>1, <1>2 DEF Marks

\* Where what is in a registry, in Redis and in a sync's hands comes from.
EntryFrom(n, p) ==
    \/ p \in Known(peers[n]) /\ peers'[n][p].age = peers[n][p].age
    \/ peers'[n][p].age = 0 /\ heard'[p] = 0
    \/ \E c \in calls \ calls' : /\ c.node = n /\ c.id = p
                                /\ peers'[n][p].age = c.age
    \/ /\ fetched[n] \in Fetched
       /\ fetched[n].id = p
       /\ peers'[n][p].age = fetched[n].rec.age
       /\ fetched[n] # NoRecord
       /\ p \in Known(peers[n]) => peers'[n][p].age <= peers[n][p].age

KeyFrom(p) ==
    \/ p \in Known(redis) /\ redis'[p] = redis[p]
    \/ \E n \in Node : p \in Known(peers'[n]) /\ redis'[p] = peers'[n][p]

CopyFrom(n) ==
    \/ fetched'[n] = fetched[n]
    \/ fetched'[n] = NoRecord
    \/ \E p \in Known(redis) : fetched'[n] = [id |-> p, rec |-> redis[p]]

CallFrom(c) == c \in calls \/ (c.age = 0 /\ heard'[c.id] = 0)

Passes ==
    /\ peers' \in [Node -> Registries]
    /\ redis' \in Registries
    /\ heard' \in [PeerId -> 0..AgeCap]
    /\ fetched' \in [Node -> Fetched \cup {NoRecord}]
    /\ calls' \subseteq Call
    /\ \A p \in PeerId : heard'[p] = heard[p] \/ heard'[p] = 0
    /\ \A n \in Node : \A p \in Known(peers'[n]) : EntryFrom(n, p)
    /\ \A p \in Known(redis') : KeyFrom(p)
    /\ \A n \in Node : CopyFrom(n)
    /\ \A c \in calls' : CallFrom(c)

\* A method that hears of the peer, with its commands: just now, or when its
\* caller read the clock.
LEMMA HearsPasses ==
    ASSUME TypeOK, NEW n \in Node, NEW id \in PeerId, NEW age \in 0..AgeCap,
           NEW new, NEW gone,
           NEW kept \in SUBSET PeerId,
           Hears(id, age, peers[n], new), Update(n, new, kept, gone),
           \/ /\ age = 0 /\ heard' = [heard EXCEPT ![id] = 0]
              /\ calls' = calls
           \/ /\ UNCHANGED heard
              /\ \E c \in calls : /\ c.node = n /\ c.id = id /\ c.age = age
                                  /\ calls' = calls \ {c}
    PROVE  Passes
  <1>0. peers[n] \in Registries
    BY DEF TypeOK
  <1>1. /\ new \in Registries
        /\ \A p \in Known(new) : \/ p \in Known(peers[n]) /\ new[p].age = peers[n][p].age
                                 \/ p = id /\ new[p].age = age
    BY <1>0, HearsEntries
  <1>2. /\ peers' \in [Node -> Registries] /\ redis' \in Registries
        /\ peers'[n] = new
        /\ \A m \in Node \ {n} : peers'[m] = peers[m]
        /\ \A p \in Known(redis') : \/ p \in Known(new) /\ redis'[p] = new[p]
                                    \/ p \in Known(redis) /\ redis'[p] = redis[p]
        /\ fetched' = fetched
    <2>1. /\ peers' \in [Node -> Registries] /\ redis' \in Registries
          /\ peers'[n] = new
          /\ \A m \in Node \ {n} : peers'[m] = peers[m]
          /\ \A p \in Known(redis') :
                \/ p \in kept /\ p \in Known(new) /\ redis'[p] = new[p]
                \/ p \in Known(redis) /\ redis'[p] = redis[p]
          /\ fetched' = fetched
      BY <1>1, UpdateEffect
    <2> QED
      BY <2>1
  <1>3. /\ heard' \in [PeerId -> 0..AgeCap] /\ calls' \subseteq calls
        /\ \A p \in PeerId : heard'[p] = heard[p] \/ heard'[p] = 0
        /\ \/ age = 0 /\ heard'[id] = 0
           \/ \E c \in calls \ calls' : c.node = n /\ c.id = id /\ c.age = age
    <2>1. heard \in [PeerId -> 0..AgeCap] /\ 0 \in 0..AgeCap
      BY RegistryAssumption DEF TypeOK, AgeCap
    <2> QED
      BY <2>1
  <1>4. ASSUME NEW m \in Node, NEW p \in Known(peers'[m]) PROVE EntryFrom(m, p)
    BY <1>1, <1>2, <1>3 DEF EntryFrom
  <1>5. \A p \in Known(redis') : KeyFrom(p)
    BY <1>2 DEF KeyFrom
  <1> QED
    BY <1>2, <1>3, <1>4, <1>5 DEF Passes, CopyFrom, CallFrom, TypeOK

\* A method that does not, with its commands.
LEMMA MarksPasses ==
    ASSUME TypeOK, NEW n \in Node, NEW id \in PeerId, NEW new, NEW gone,
           NEW kept \in SUBSET PeerId,
           Marks(id, peers[n], new), Update(n, new, kept, gone),
           UNCHANGED <<calls, heard>>
    PROVE  Passes
  <1>1. /\ new \in Registries
        /\ \A p \in Known(new) : p \in Known(peers[n]) /\ new[p].age = peers[n][p].age
    BY MarksEntries DEF TypeOK
  <1>2. /\ peers' \in [Node -> Registries] /\ redis' \in Registries
        /\ peers'[n] = new
        /\ \A m \in Node \ {n} : peers'[m] = peers[m]
        /\ \A p \in Known(redis') : \/ p \in Known(new) /\ redis'[p] = new[p]
                                    \/ p \in Known(redis) /\ redis'[p] = redis[p]
        /\ fetched' = fetched
    BY <1>1, UpdateEffect
  <1>4. ASSUME NEW m \in Node, NEW p \in Known(peers'[m]) PROVE EntryFrom(m, p)
    BY <1>1, <1>2 DEF EntryFrom
  <1>5. \A p \in Known(redis') : KeyFrom(p)
    BY <1>2 DEF KeyFrom
  <1> QED
    BY <1>2, <1>4, <1>5 DEF Passes, CopyFrom, CallFrom, TypeOK

\* The merge brings an entry up to the record it has fetched, or leaves it.
LEMMA SyncMergePasses ==
    ASSUME TypeOK, NEW n \in Node, SyncMerge(n)
    PROVE  Passes
  <1>1. PICK reg \in Merged(peers[n], fetched[n].id, fetched[n].rec) :
            peers' = [peers EXCEPT ![n] = reg]
    BY DEF SyncMerge
  <1>2. /\ fetched[n] \in Fetched /\ fetched[n] # NoRecord
        /\ fetched[n].id \in PeerId /\ fetched[n].rec \in Record
        /\ peers[n] \in Registries
    BY DEF SyncMerge, TypeOK, Fetched
  <1> DEFINE id == fetched[n].id
             rec == fetched[n].rec
  <1>3. /\ reg \in Registries
        /\ \/ reg = peers[n]
           \/ /\ reg = [peers[n] EXCEPT ![id] = rec]
              /\ id \in Known(peers[n]) => rec.age <= peers[n][id].age
    BY <1>2, MergedEntries
  <1>4. /\ peers' \in [Node -> Registries] /\ peers'[n] = reg
        /\ \A m \in Node \ {n} : peers'[m] = peers[m]
    BY <1>1, <1>3 DEF TypeOK
  <1>5. ASSUME NEW p \in Known(reg) PROVE EntryFrom(n, p)
    <2>1. CASE p \in Known(peers[n]) /\ reg[p] = peers[n][p]
      BY <1>4, <2>1 DEF EntryFrom
    <2>2. CASE p = id /\ reg[p] = rec /\ (id \in Known(peers[n]) => rec.age <= peers[n][id].age)
      BY <1>2, <1>4, <2>2 DEF EntryFrom
    <2>3. CASE reg = peers[n]
      BY <2>1, <2>3
    <2>4. CASE /\ reg = [peers[n] EXCEPT ![id] = rec]
               /\ id \in Known(peers[n]) => rec.age <= peers[n][id].age
      <3>1. CASE p = id
        BY <1>2, <2>2, <2>4, <3>1 DEF Registries
      <3>2. CASE p # id
        BY <1>2, <2>1, <2>4, <3>2 DEF Registries, Known
      <3> QED
        BY <3>1, <3>2
    <2> QED
      BY <1>3, <2>3, <2>4
  <1>6. ASSUME NEW m \in Node, NEW p \in Known(peers'[m]) PROVE EntryFrom(m, p)
    <2>1. CASE m = n
      BY <1>4, <1>5, <2>1
    <2>2. CASE m # n
      BY <1>4, <2>2 DEF EntryFrom
    <2> QED
      BY <2>1, <2>2
  <1>7. /\ redis' = redis /\ heard' = heard /\ calls' = calls
        /\ fetched' = [fetched EXCEPT ![n] = NoRecord]
    BY DEF SyncMerge
  <1> QED
    BY <1>4, <1>6, <1>7 DEF Passes, KeyFrom, CopyFrom, CallFrom, TypeOK

\* A restart leaves the node with its own entry, which is new.
LEMMA RestartPasses ==
    ASSUME TypeOK, NEW n \in Node, Restart(n)
    PROVE  Passes
  <1>1. PICK s \in SUBSET ({n} \cap PeerId), d \in SUBSET {} :
            redis' = [p \in PeerId |-> IF p \in d THEN NoRecord
                                       ELSE IF p \in s THEN OwnRegistry(n)[p] ELSE redis[p]]
    <2>1. redis' \in Sent(OwnRegistry(n), {n} \cap PeerId, {})
      BY DEF Restart
    <2> QED
      BY <2>1 DEF Sent
  <1>2. /\ OwnRegistry(n) \in Registries
        /\ Known(OwnRegistry(n)) \subseteq {n}
        /\ \A p \in Known(OwnRegistry(n)) : OwnRegistry(n)[p].age = 0
    BY OwnEntries
  <1>3. /\ peers' \in [Node -> Registries] /\ peers'[n] = OwnRegistry(n)
        /\ \A m \in Node \ {n} : peers'[m] = peers[m]
    BY <1>2 DEF Restart, TypeOK
  <1>4. redis' \in Registries /\ \A p \in Known(redis') : KeyFrom(p)
    BY <1>1, <1>2, <1>3 DEF TypeOK, Registries, Known, KeyFrom
  <1>5. /\ heard' \in [PeerId -> 0..AgeCap]
        /\ \A p \in PeerId : heard'[p] = heard[p] \/ heard'[p] = 0
        /\ n \in PeerId => heard'[n] = 0
    BY RegistryAssumption DEF Restart, TypeOK, AgeCap
  <1>6. ASSUME NEW m \in Node, NEW p \in Known(peers'[m]) PROVE EntryFrom(m, p)
    <2>1. CASE m = n
      BY <1>2, <1>3, <1>5, <2>1 DEF EntryFrom, Known
    <2>2. CASE m # n
      BY <1>3, <2>2 DEF EntryFrom
    <2> QED
      BY <2>1, <2>2
  <1>7. fetched' = [fetched EXCEPT ![n] = NoRecord] /\ calls' \subseteq calls
    BY DEF Restart
  <1> QED
    BY <1>3, <1>4, <1>5, <1>6, <1>7 DEF Passes, CopyFrom, CallFrom, TypeOK

\* Every step passes entries on, unless time passes.
LEMMA StepPasses ==
    ASSUME TypeOK, [Next]_vars
    PROVE  Tick \/ Passes
  <1>0. ASSUME NEW n \in Node, NEW id \in PeerId, NEW ep \in MayServeAt[id],
               Contact(n, id, ep)
        PROVE  Passes
    <2>1. ep \in Endpoint /\ 0 \in 0..AgeCap
      BY SharedAssumption, RegistryAssumption DEF AgeCap
    <2>2. /\ calls' = calls \cup {[node |-> n, id |-> id, ep |-> ep, age |-> 0]}
          /\ heard' = [heard EXCEPT ![id] = 0]
          /\ UNCHANGED <<peers, redis, fetched>>
      BY <1>0 DEF Contact
    <2>3. calls' \subseteq Call
      BY <2>1, <2>2 DEF Call, TypeOK
    <2>4. /\ heard' \in [PeerId -> 0..AgeCap] /\ heard'[id] = 0
          /\ \A p \in PeerId : heard'[p] = heard[p] \/ heard'[p] = 0
      BY <2>1, <2>2 DEF TypeOK
    <2>5. \A c \in calls' : CallFrom(c)
      BY <2>2, <2>4 DEF CallFrom
    <2> QED
      BY <2>2, <2>3, <2>4, <2>5 DEF Passes, EntryFrom, KeyFrom, CopyFrom, TypeOK
  <1>1. ASSUME NEW c \in calls, FinishUpsert(c) PROVE Passes
    <2>0. c \in Call /\ c.node \in Node /\ c.id \in PeerId /\ c.age \in 0..AgeCap
      BY DEF TypeOK, Call
    <2>1. PICK reg \in Upserted(peers[c.node], c) :
              Update(c.node, reg, {c.id}, Known(peers[c.node]) \ Known(reg))
      BY <1>1 DEF FinishUpsert
    <2>2. Hears(c.id, c.age, peers[c.node], reg)
      BY <2>0, <2>1 DEF Hears
    <2>3. UNCHANGED heard /\ calls' = calls \ {c}
      BY <1>1 DEF FinishUpsert
    <2>4. {c.id} \in SUBSET PeerId
      BY <2>0
    <2> QED
      BY <2>0, <2>1, <2>2, <2>3, <2>4, HearsPasses
  <1>2. ASSUME NEW n \in Node, NEW id \in PeerId, Seen(n, id) PROVE Passes
    <2>1. /\ Update(n, Touch(peers[n], id), {id}, {})
          /\ heard' = [heard EXCEPT ![id] = 0] /\ calls' = calls
      BY <1>2 DEF Seen
    <2>2. Hears(id, 0, peers[n], Touch(peers[n], id))
      BY DEF Hears
    <2>3. {id} \in SUBSET PeerId /\ 0 \in 0..AgeCap
      BY RegistryAssumption DEF AgeCap
    <2> QED
      BY <2>1, <2>2, <2>3, HearsPasses
  <1>3. ASSUME NEW n \in Node, NEW id \in PeerId,
               MarkInactive(n, id) \/ Retire(n, id) \/ Drop(n, id)
        PROVE  Passes
    <2>0. {id} \in SUBSET PeerId /\ {} \in SUBSET PeerId
      OBVIOUS
    <2>1. CASE MarkInactive(n, id)
      <3>1. /\ Update(n, MarkState(peers[n], id, Inactive), {id}, {})
            /\ Marks(id, peers[n], MarkState(peers[n], id, Inactive))
            /\ UNCHANGED <<calls, heard>>
        BY <2>1 DEF MarkInactive, Marks
      <3> QED
        BY <2>0, <3>1, MarksPasses
    <2>2. CASE Retire(n, id)
      <3>1. /\ Update(n, MarkState(peers[n], id, Left), {id}, {id})
            /\ Marks(id, peers[n], MarkState(peers[n], id, Left))
            /\ UNCHANGED <<calls, heard>>
        BY <2>2 DEF Retire, Marks
      <3> QED
        BY <2>0, <3>1, MarksPasses
    <2>3. CASE Drop(n, id)
      <3>1. /\ Update(n, Remove(peers[n], id), {}, {id})
            /\ Marks(id, peers[n], Remove(peers[n], id))
            /\ UNCHANGED <<calls, heard>>
        BY <2>3 DEF Drop, Marks
      <3> QED
        BY <2>0, <3>1, MarksPasses
    <2> QED
      BY <1>3, <2>1, <2>2, <2>3
  <1>4. ASSUME NEW n \in Node, NEW id \in PeerId, SyncGet(n, id) PROVE Passes
    <2>1. /\ id \in Known(redis) /\ redis[id] \in Record
          /\ fetched' = [fetched EXCEPT ![n] = [id |-> id, rec |-> redis[id]]]
          /\ UNCHANGED <<peers, redis, calls, heard>>
      BY <1>4 DEF SyncGet, Known, TypeOK, Registries
    <2>2. fetched' \in [Node -> Fetched \cup {NoRecord}] /\ \A m \in Node : CopyFrom(m)
      BY <2>1 DEF TypeOK, Fetched, CopyFrom
    <2> QED
      BY <2>1, <2>2 DEF Passes, EntryFrom, KeyFrom, CallFrom, TypeOK
  <1>5. ASSUME NEW id \in PeerId, Expire(id) PROVE Passes
    <2>1. redis' \in Registries /\ \A p \in Known(redis') : p \in Known(redis) /\ redis'[p] = redis[p]
      BY <1>5 DEF Expire, TypeOK, Registries, Known
    <2> QED
      BY <1>5, <2>1 DEF Expire, Passes, EntryFrom, KeyFrom, CopyFrom, CallFrom, TypeOK
  <1>6. CASE UNCHANGED vars
    BY <1>6 DEF vars, Passes, EntryFrom, KeyFrom, CopyFrom, CallFrom, TypeOK
  <1> QED
    BY <1>0, <1>1, <1>2, <1>3, <1>4, <1>5, <1>6, SyncMergePasses, RestartPasses DEF Next

-----------------------------------------------------------------------------
(* Type correctness *)

\* Time passes: everything stays of its type and becomes one unit older.
LEMMA TickEffect ==
    ASSUME TypeOK, Tick
    PROVE  /\ TypeOK'
           /\ \A n \in Node : \A p \in Known(peers'[n]) :
                 p \in Known(peers[n]) /\ peers'[n][p].age = Older(peers[n][p].age)
           /\ \A p \in Known(redis') :
                 p \in Known(redis) /\ redis'[p].age = Older(redis[p].age)
           /\ \A n \in Node : fetched'[n] # NoRecord =>
                 /\ fetched[n] # NoRecord
                 /\ fetched'[n].id = fetched[n].id
                 /\ fetched'[n].rec.age = Older(fetched[n].rec.age)
                 /\ fetched'[n].rec.state = fetched[n].rec.state
           /\ \A n \in Node : \A p \in Known(peers'[n]) :
                 peers'[n][p].state = peers[n][p].state
           /\ \A p \in Known(redis') : redis'[p].state = redis[p].state
           /\ \A p \in PeerId : heard'[p] = Older(heard[p])
           /\ \A c \in calls' : \E d \in calls : c.id = d.id /\ c.age = Older(d.age)
  <1>1. ASSUME NEW reg \in Registries
        PROVE  /\ Aged(reg) \in Registries /\ Known(Aged(reg)) = Known(reg)
               /\ \A p \in Known(reg) : /\ Aged(reg)[p].age = Older(reg[p].age)
                                        /\ Aged(reg)[p].state = reg[p].state
    BY AgedEntries, AgedAges DEF SameEntries
  <1>2. ASSUME NEW n \in Node, fetched[n] # NoRecord
        PROVE  /\ fetched'[n] \in Fetched
               /\ fetched'[n].id = fetched[n].id
               /\ fetched'[n].rec.age = Older(fetched[n].rec.age)
               /\ fetched'[n].rec.state = fetched[n].rec.state
    <2>1. fetched[n].id \in PeerId /\ fetched[n].rec \in Record /\ fetched[n] \in Fetched
      BY <1>2 DEF TypeOK, Fetched
    <2>2. Older(fetched[n].rec.age) \in 0..AgeCap
      BY <2>1, RecordAge, OlderOrder
    <2>3. [fetched[n].rec EXCEPT !.age = Older(@)] \in Record
          /\ [fetched[n].rec EXCEPT !.age = Older(@)].age = Older(fetched[n].rec.age)
          /\ [fetched[n].rec EXCEPT !.age = Older(@)].state = fetched[n].rec.state
      BY <2>1, <2>2 DEF Record
    <2>4. fetched'[n] = [fetched[n] EXCEPT !.rec = [fetched[n].rec EXCEPT !.age = Older(@)]]
      BY <1>2, <2>1 DEF Tick, Fetched
    <2> QED
      BY <2>1, <2>3, <2>4 DEF Fetched
  <1>3. \A n \in Node : fetched[n] = NoRecord => fetched'[n] = NoRecord
    BY DEF Tick
  <1>4. fetched' \in [Node -> Fetched \cup {NoRecord}]
    <2>1. \A n \in Node : fetched'[n] \in Fetched \cup {NoRecord}
      BY <1>2, <1>3
    <2> QED
      BY <2>1 DEF Tick
  <1>5. heard' \in [PeerId -> 0..AgeCap] /\ \A p \in PeerId : heard'[p] = Older(heard[p])
    BY OlderOrder DEF Tick, TypeOK
  <1>6. /\ peers' = [n \in Node |-> Aged(peers[n])] /\ redis' = Aged(redis)
        /\ redis \in Registries /\ \A n \in Node : peers[n] \in Registries
    BY DEF Tick, TypeOK
  <1>7. ASSUME NEW c \in calls'
        PROVE  c \in Call /\ \E d \in calls : c.id = d.id /\ c.age = Older(d.age)
    <2>1. PICK d \in calls : c = [d EXCEPT !.age = Older(@)]
      BY DEF Tick
    <2>2. d \in Call /\ Older(d.age) \in 0..AgeCap
      BY OlderOrder DEF TypeOK, Call
    <2> QED
      BY <2>1, <2>2 DEF Call
  <1> QED
    BY <1>1, <1>2, <1>3, <1>4, <1>5, <1>6, <1>7 DEF TypeOK

\* A node that has just started is well typed, and so is an empty Redis.
LEMMA TypeInit == Init => TypeOK
  <1> SUFFICES ASSUME Init PROVE TypeOK
    OBVIOUS
  <1>1. redis \in Registries
    <2>1. \A p \in Node : Fresh(OwnEndpoint[p]) \in Record
      BY FreshType, SharedAssumption
    <2> QED
      BY <2>1 DEF Init, Registries
  <1>2. peers \in [Node -> Registries]
    BY OwnEntries DEF Init
  <1> QED
    BY <1>1, <1>2, RegistryAssumption DEF Init, TypeOK, AgeCap

\* A step that passes entries on, or lets time pass, keeps the types.
LEMMA TypeStep == TypeOK /\ [Next]_vars => TypeOK'
  BY StepPasses, TickEffect DEF Passes, TypeOK

\* The registries, the keys in Redis and the records between GET and merge
\* stay well typed, whatever is lost.
THEOREM TypeCorrect == Spec => []TypeOK
  BY TypeInit, TypeStep, PTL DEF Spec

-----------------------------------------------------------------------------
(* LastSeen *)

\* A step that is not the passing of time makes no entry older, unless it is
\* an Upsert that has waited.
LEMMA PassesForward ==
    ASSUME TypeOK, Passes,
           NEW n \in Node, NEW p \in Known(peers[n]) \cap Known(peers'[n])
    PROVE  peers'[n][p].age <= peers[n][p].age \/ WrittenByUpsert(n, p)
  <1>1. peers[n][p] \in Record /\ peers[n][p].age \in Nat
    BY KnownRecord, RecordAge DEF TypeOK
  <1>2. EntryFrom(n, p)
    BY DEF Passes
  <1> QED
    BY <1>1, <1>2 DEF EntryFrom, WrittenByUpsert

\* The LastSeen of an entry is moved back by no merge, also when the node has
\* heard of the peer since the sync read the record, and by no Touch, mark or
\* removal; only by an Upsert whose caller had read the clock before.
THEOREM LastSeenForwardHolds == Spec => LastSeenForward
  <1>1. ASSUME TypeOK, [Next]_vars
        PROVE  [(\A n \in Node : \A p \in Known(peers[n]) \cap Known(peers'[n]) :
                    peers'[n][p].age <= peers[n][p].age \/ WrittenByUpsert(n, p))
                \/ Tick]_vars
    BY <1>1, StepPasses, PassesForward
  <1> QED
    BY <1>1, TypeCorrect, PTL DEF Spec, LastSeenForward

\* LastSeenTrue, place by place.
LEMMA LastSeenPlaces ==
    ASSUME TypeOK
    PROVE  LastSeenTrue <=>
             /\ \A n \in Node : \A p \in Known(peers[n]) : peers[n][p].age >= heard[p]
             /\ \A p \in Known(redis) : redis[p].age >= heard[p]
             /\ \A n \in Node : fetched[n] # NoRecord =>
                   fetched[n].rec.age >= heard[fetched[n].id]
             /\ \A c \in calls : c.age >= heard[c.id]
  <1>1. /\ \A n \in Node : fetched[n] # NoRecord => fetched[n].id \in PeerId
        /\ \A c \in calls : c.id \in PeerId
    BY DEF TypeOK, Fetched, Call
  <1> QED
    BY <1>1 DEF LastSeenTrue, Known

\* The ages of all copies of a peer's entry are numbers, and so is the time
\* since it was heard of.
LEMMA AgesType ==
    ASSUME TypeOK
    PROVE  /\ \A p \in PeerId : heard[p] \in 0..AgeCap /\ heard[p] \in Nat
           /\ \A n \in Node : \A p \in Known(peers[n]) :
                 p \in PeerId /\ peers[n][p].age \in 0..AgeCap /\ peers[n][p].age \in Nat
           /\ \A p \in Known(redis) :
                 p \in PeerId /\ redis[p].age \in 0..AgeCap /\ redis[p].age \in Nat
           /\ \A n \in Node : fetched[n] # NoRecord =>
                 /\ fetched[n].id \in PeerId
                 /\ fetched[n].rec.age \in 0..AgeCap
                 /\ fetched[n].rec.age \in Nat
           /\ \A c \in calls : /\ c.id \in PeerId /\ c.node \in Node
                              /\ c.age \in 0..AgeCap /\ c.age \in Nat
  <1>1. \A p \in PeerId : heard[p] \in 0..AgeCap /\ heard[p] \in Nat
    BY RegistryAssumption DEF TypeOK, AgeCap
  <1>2. \A n \in Node : fetched[n] # NoRecord =>
            fetched[n].id \in PeerId /\ fetched[n].rec \in Record
    BY DEF TypeOK, Fetched
  <1>3. redis \in Registries /\ \A n \in Node : peers[n] \in Registries
    BY DEF TypeOK
  <1>4. \A c \in calls : /\ c.id \in PeerId /\ c.node \in Node
                        /\ c.age \in 0..AgeCap /\ c.age \in Nat
    BY RegistryAssumption DEF TypeOK, Call, AgeCap
  <1> QED
    BY <1>1, <1>2, <1>3, <1>4, KnownRecord, RecordAge

\* At the start every record carries a time at which the peer was heard.
LEMMA LastSeenInit == Init => LastSeenTrue
  <1> SUFFICES ASSUME Init PROVE LastSeenTrue
    OBVIOUS
  <1>1. TypeOK
    BY TypeInit
  <1>2. \A p \in PeerId : p \in Node => heard[p] = 0
    BY DEF Init
  <1>3. \A n \in Node : \A p \in Known(peers[n]) : p = n
    BY OwnEntries DEF Init
  <1>4. \A p \in Known(redis) : p \in Node
    BY DEF Init, Known
  <1>5. calls = {} /\ \A n \in Node : fetched[n] = NoRecord
    BY DEF Init
  <1> QED
    BY <1>1, <1>2, <1>3, <1>4, <1>5, AgesType, LastSeenPlaces

\* Passing entries on forges no age: what an entry, a key or a copy shows was
\* shown before, or the peer has just been heard of.
LEMMA LastSeenPasses ==
    ASSUME TypeOK, TypeOK', LastSeenTrue, Passes
    PROVE  LastSeenTrue'
  <1>1. /\ \A n \in Node : \A p \in Known(peers[n]) : peers[n][p].age >= heard[p]
        /\ \A p \in Known(redis) : redis[p].age >= heard[p]
        /\ \A n \in Node : fetched[n] # NoRecord =>
              fetched[n].rec.age >= heard[fetched[n].id]
        /\ \A c \in calls : c.age >= heard[c.id]
    BY LastSeenPlaces
  <1>2. ASSUME NEW p \in PeerId, NEW k \in Nat, k >= heard[p] PROVE k >= heard'[p]
    BY <1>2 DEF Passes
  <1>3. ASSUME NEW n \in Node, NEW p \in Known(peers'[n])
        PROVE  p \in PeerId /\ peers'[n][p].age >= heard'[p]
    <2>1. EntryFrom(n, p) /\ p \in PeerId
      BY DEF Passes, Known
    <2> QED
      BY <1>1, <1>2, <2>1, AgesType DEF EntryFrom
  <1>4. ASSUME NEW p \in Known(redis') PROVE redis'[p].age >= heard'[p]
    BY <1>1, <1>2, <1>3, AgesType DEF Passes, KeyFrom
  <1>5. ASSUME NEW n \in Node, fetched'[n] # NoRecord
        PROVE  fetched'[n].rec.age >= heard'[fetched'[n].id]
    <2>1. CASE fetched'[n] = fetched[n]
      BY <1>1, <1>2, <1>5, <2>1, AgesType
    <2>2. ASSUME NEW p \in Known(redis), fetched'[n] = [id |-> p, rec |-> redis[p]]
          PROVE  fetched'[n].rec.age >= heard'[fetched'[n].id]
      BY <1>1, <1>2, <2>2, AgesType
    <2> QED
      BY <1>5, <2>1, <2>2 DEF Passes, CopyFrom
  <1>6. ASSUME NEW c \in calls' PROVE c.id \in PeerId /\ c.age >= heard'[c.id]
    <2>1. CASE c \in calls
      BY <1>1, <1>2, <2>1, AgesType
    <2>2. CASE c.age = 0 /\ heard'[c.id] = 0
      BY <2>2 DEF TypeOK, Call
    <2> QED
      BY <2>1, <2>2 DEF Passes, CallFrom
  <1> QED
    BY <1>3, <1>4, <1>5, <1>6 DEF LastSeenTrue, Known, TypeOK, Fetched

\* Time makes every copy older, and no copy less than the peer's silence.
LEMMA LastSeenTick ==
    ASSUME TypeOK, TypeOK', LastSeenTrue, Tick
    PROVE  LastSeenTrue'
  <1>1. /\ \A n \in Node : \A p \in Known(peers[n]) : peers[n][p].age >= heard[p]
        /\ \A p \in Known(redis) : redis[p].age >= heard[p]
        /\ \A n \in Node : fetched[n] # NoRecord =>
              fetched[n].rec.age >= heard[fetched[n].id]
        /\ \A c \in calls : c.age >= heard[c.id]
    BY LastSeenPlaces
  <1>2. ASSUME NEW p \in PeerId, NEW k \in 0..AgeCap, k >= heard[p]
        PROVE  Older(k) >= heard'[p]
    <2>1. heard[p] \in 0..AgeCap /\ heard[p] <= k /\ heard'[p] = Older(heard[p])
      BY <1>2, AgesType, TickEffect
    <2>2. Older(heard[p]) <= Older(k)
      BY <2>1, OlderOrder
    <2> QED
      BY <2>1, <2>2
  <1>3. ASSUME NEW n \in Node, NEW p \in Known(peers'[n])
        PROVE  peers'[n][p].age >= heard'[p]
    BY <1>1, <1>2, AgesType, TickEffect
  <1>4. ASSUME NEW p \in Known(redis') PROVE redis'[p].age >= heard'[p]
    BY <1>1, <1>2, AgesType, TickEffect
  <1>5. ASSUME NEW n \in Node, fetched'[n] # NoRecord
        PROVE  fetched'[n].rec.age >= heard'[fetched'[n].id]
    BY <1>1, <1>2, <1>5, AgesType, TickEffect
  <1>6. ASSUME NEW c \in calls' PROVE c.age >= heard'[c.id]
    <2>1. PICK d \in calls : c.id = d.id /\ c.age = Older(d.age)
      BY TickEffect
    <2> QED
      BY <1>1, <1>2, <2>1, AgesType
  <1> QED
    BY <1>3, <1>4, <1>5, <1>6 DEF LastSeenTrue, Known, TypeOK, Fetched

\* No copy of an entry, in a registry, in Redis or on its way, ever shows the
\* peer as seen later than some node heard of it.
THEOREM LastSeenTrueHolds == Spec => []LastSeenTrue
  <1>1. TypeOK /\ LastSeenTrue /\ [Next]_vars => LastSeenTrue'
    BY TypeStep, StepPasses, LastSeenPasses, LastSeenTick
  <1> QED
    BY <1>1, LastSeenInit, TypeCorrect, PTL DEF Spec

-----------------------------------------------------------------------------
(* Nobody revives a silent peer *)

\* A call that hears of one peer changes no other entry.
LEMMA HearsOthers ==
    ASSUME NEW id \in PeerId, NEW age \in 0..AgeCap, NEW reg \in Registries,
           NEW new, Hears(id, age, reg, new), NEW p \in Known(new), p # id
    PROVE  p \in Known(reg) /\ new[p] = reg[p]
  <1>1. ASSUME NEW c \in Call, c.id = id, new \in Upserted(reg, c)
        PROVE  p \in Known(reg) /\ new[p] = reg[p]
    BY <1>1, UpsertedEntries
  <1>2. new = Touch(reg, id) => p \in Known(reg) /\ new[p] = reg[p]
    BY TouchEntries DEF SameEntries
  <1> QED
    BY <1>1, <1>2 DEF Hears

\* A call that marks or removes one entry leaves that one not Active and
\* changes no other one.
LEMMA MarksOthers ==
    ASSUME NEW id \in PeerId, NEW reg \in Registries, NEW new, Marks(id, reg, new),
           NEW p \in Known(new)
    PROVE  IF p = id THEN new[p].state # Active
           ELSE p \in Known(reg) /\ new[p] = reg[p]
  <1>1. ASSUME NEW s \in {Inactive, Left}, new = MarkState(reg, id, s)
        PROVE  IF p = id THEN new[p].state # Active
               ELSE p \in Known(reg) /\ new[p] = reg[p]
    <2>1. s \in State /\ s # Active
      BY DEF State, Active, Inactive, Left
    <2>2. p \in Known(reg) /\ (p # id => new[p] = reg[p])
      BY <1>1, <2>1, MarkStateEntries DEF SameEntries
    <2>3. CASE p = id
      <3>1. reg[p] \in Record
        BY <2>2, KnownRecord
      <3>2. [reg[p] EXCEPT !.state = s].state = s
        BY <3>1 DEF Record
      <3>3. new[p] = [reg[p] EXCEPT !.state = s]
        BY <1>1, <2>2, <2>3 DEF MarkState, Registries, Known
      <3> QED
        BY <2>1, <2>3, <3>2, <3>3
    <2> QED
      BY <2>2, <2>3
  <1>2. new = Remove(reg, id) => p # id /\ p \in Known(reg) /\ new[p] = reg[p]
    BY WithoutType DEF Remove, Known
  <1> QED
    BY <1>1, <1>2 DEF Marks

\* A method with its commands, when it does not hear of the peer: what has
\* the peer Active afterwards had it Active before.
LEMMA MethodRevivesNobody ==
    ASSUME TypeOK, NEW n \in Node, NEW id \in PeerId, NEW new, NEW gone,
           NEW kept \in SUBSET {id}, NEW p \in PeerId,
           Update(n, new, kept, gone), calls' \subseteq calls,
           \/ p # id /\ \E age \in 0..AgeCap : Hears(id, age, peers[n], new)
           \/ Marks(id, peers[n], new),
           ActiveElsewhere(p)'
    PROVE  ActiveElsewhere(p)
  <1>0. /\ new \in Registries
        /\ kept \in SUBSET PeerId
    BY HearsEntries, MarksEntries DEF TypeOK
  <1>1. /\ peers'[n] = new
        /\ \A m \in Node \ {n} : peers'[m] = peers[m]
        /\ \A q \in Known(redis') :
              \/ q \in kept /\ q \in Known(new) /\ redis'[q] = new[q]
              \/ q \in Known(redis) /\ redis'[q] = redis[q]
        /\ fetched' = fetched
    BY <1>0, UpdateEffect, SMTT(30)
  <1>2. /\ p \in Known(new) /\ new[p].state = Active =>
              p # id /\ p \in Known(peers[n]) /\ new[p] = peers[n][p]
        /\ peers[n] \in Registries
    <2>1. peers[n] \in Registries
      BY DEF TypeOK
    <2>2. CASE p # id /\ \E age \in 0..AgeCap : Hears(id, age, peers[n], new)
      <3>1. PICK age \in 0..AgeCap : Hears(id, age, peers[n], new)
        BY <2>2
      <3> QED
        BY <2>1, <2>2, <3>1, HearsOthers
    <2>3. CASE Marks(id, peers[n], new)
      BY <2>1, <2>3, MarksOthers
    <2> QED
      BY <2>1, <2>2, <2>3
  <1>3. p \in Known(redis') /\ redis'[p].state = Active => ActiveElsewhere(p)
    BY <1>1, <1>2 DEF ActiveElsewhere
  <1>4. ASSUME NEW m \in Node \ {p}, p \in Known(peers'[m]), peers'[m][p].state = Active
        PROVE  ActiveElsewhere(p)
    BY <1>1, <1>2, <1>4 DEF ActiveElsewhere
  <1>5. ASSUME NEW m \in Node \ {p}, fetched'[m] # NoRecord, fetched'[m].id = p,
               fetched'[m].rec.state = Active
        PROVE  ActiveElsewhere(p)
    BY <1>1, <1>5 DEF ActiveElsewhere
  <1>6. (\E c \in calls' : c.id = p) => ActiveElsewhere(p)
    BY DEF ActiveElsewhere
  <1> QED
    BY <1>3, <1>4, <1>5, <1>6 DEF ActiveElsewhere

\* Neither does the sync: it moves a record from Redis to a registry as it is.
LEMMA SyncRevivesNobody ==
    ASSUME TypeOK, NEW n \in Node, SyncMerge(n) \/ \E id \in PeerId : SyncGet(n, id),
           NEW p \in PeerId, ActiveElsewhere(p)'
    PROVE  ActiveElsewhere(p)
  <1>1. CASE SyncMerge(n)
    <2>1. /\ fetched[n] # NoRecord /\ fetched[n].id \in PeerId
          /\ fetched[n].rec \in Record /\ peers[n] \in Registries
      BY <1>1 DEF SyncMerge, TypeOK, Fetched
    <2>2. /\ \A m \in Node \ {n} : peers'[m] = peers[m]
          /\ peers'[n] \in Merged(peers[n], fetched[n].id, fetched[n].rec)
          /\ redis' = redis /\ calls' = calls
          /\ \A m \in Node : fetched'[m] = fetched[m] \/ fetched'[m] = NoRecord
      BY <1>1 DEF SyncMerge, TypeOK
    <2>3. \/ peers'[n] = peers[n]
          \/ peers'[n] = [peers[n] EXCEPT ![fetched[n].id] = fetched[n].rec]
      BY <2>1, <2>2, MergedEntries
    <2>4. ASSUME p \in Known(peers'[n])
          PROVE  \/ p \in Known(peers[n]) /\ peers'[n][p] = peers[n][p]
                 \/ p = fetched[n].id /\ peers'[n][p] = fetched[n].rec
      BY <2>1, <2>3, <2>4 DEF Known, Registries
    <2> QED
      BY <2>1, <2>2, <2>4 DEF ActiveElsewhere
  <1>2. ASSUME NEW id \in PeerId, SyncGet(n, id) PROVE ActiveElsewhere(p)
    <2>1. /\ id \in Known(redis) /\ peers' = peers /\ redis' = redis /\ calls' = calls
          /\ \A m \in Node : \/ fetched'[m] = fetched[m]
                            \/ fetched'[m] = [id |-> id, rec |-> redis[id]]
      BY <1>2 DEF SyncGet, Known, TypeOK
    <2> QED
      BY <2>1 DEF ActiveElsewhere
  <1> QED
    BY <1>1, <1>2

\* A restarted node has itself Active, which is hearing of it; everything
\* else it has lost.
LEMMA RestartRevivesNobody ==
    ASSUME TypeOK, NEW n \in Node, Restart(n),
           NEW p \in PeerId, ActiveElsewhere(p)', heard'[p] # 0
    PROVE  ActiveElsewhere(p)
  <1>1. p # n
    BY DEF Restart
  <1>2. /\ Known(peers'[n]) \subseteq {n}
        /\ \A m \in Node \ {n} : peers'[m] = peers[m]
        /\ \A m \in Node : fetched'[m] = fetched[m] \/ fetched'[m] = NoRecord
        /\ calls' \subseteq calls
    BY OwnEntries DEF Restart, TypeOK
  <1>3. redis'[p] = redis[p]
    BY <1>1 DEF Restart, Sent
  <1> QED
    BY <1>1, <1>2, <1>3 DEF ActiveElsewhere, Known

\* No step but hearing of a peer brings it back.
LEMMA StepRevivesNobody ==
    ASSUME TypeOK, [Next]_vars,
           NEW p \in PeerId, ActiveElsewhere(p)', heard'[p] # 0
    PROVE  ActiveElsewhere(p)
  <1>0. ASSUME NEW n \in Node, NEW id \in PeerId, NEW ep \in MayServeAt[id],
               Contact(n, id, ep)
        PROVE  ActiveElsewhere(p)
    <2>1. p # id
      BY <1>0 DEF Contact, TypeOK
    <2> QED
      BY <1>0, <2>1 DEF Contact, ActiveElsewhere
  <1>1. ASSUME NEW c \in calls, FinishUpsert(c) PROVE ActiveElsewhere(p)
    <2>0. c \in Call /\ c.node \in Node /\ c.id \in PeerId /\ c.age \in 0..AgeCap
      BY DEF TypeOK, Call
    <2>1. PICK reg \in Upserted(peers[c.node], c) :
              Update(c.node, reg, {c.id}, Known(peers[c.node]) \ Known(reg))
      BY <1>1 DEF FinishUpsert
    <2>2. Hears(c.id, c.age, peers[c.node], reg) /\ calls' \subseteq calls
      BY <1>1, <2>0, <2>1 DEF Hears, FinishUpsert
    <2>3. CASE p # c.id
      BY <2>0, <2>1, <2>2, <2>3, MethodRevivesNobody
    <2>4. CASE p = c.id
      BY <2>4 DEF ActiveElsewhere
    <2> QED
      BY <2>3, <2>4
  <1>2. ASSUME NEW n \in Node, NEW id \in PeerId, Seen(n, id) PROVE ActiveElsewhere(p)
    <2>1. /\ Update(n, Touch(peers[n], id), {id}, {})
          /\ Hears(id, 0, peers[n], Touch(peers[n], id)) /\ p # id
          /\ calls' \subseteq calls /\ 0 \in 0..AgeCap
      BY <1>2, RegistryAssumption DEF Seen, Hears, TypeOK, AgeCap
    <2> QED
      BY <2>1, MethodRevivesNobody
  <1>3. ASSUME NEW n \in Node, NEW id \in PeerId,
               MarkInactive(n, id) \/ Retire(n, id) \/ Drop(n, id)
        PROVE  ActiveElsewhere(p)
    <2>1. /\ calls' \subseteq calls
          /\ \E new : \E kept \in SUBSET {id} : \E gone :
                Update(n, new, kept, gone) /\ Marks(id, peers[n], new)
      BY <1>3 DEF MarkInactive, Retire, Drop, Marks
    <2> QED
      BY <2>1, MethodRevivesNobody
  <1>4. ASSUME NEW id \in PeerId, Expire(id) PROVE ActiveElsewhere(p)
    <2>1. /\ peers' = peers /\ fetched' = fetched /\ calls' = calls
          /\ p \in Known(redis') => p \in Known(redis) /\ redis'[p] = redis[p]
      BY <1>4 DEF Expire, TypeOK, Registries, Known
    <2> QED
      BY <2>1 DEF ActiveElsewhere
  <1>5. CASE Tick
    BY <1>5, TickEffect DEF ActiveElsewhere
  <1>6. CASE UNCHANGED vars
    BY <1>6 DEF vars, ActiveElsewhere
  <1> QED
    BY <1>0, <1>1, <1>2, <1>3, <1>4, <1>5, <1>6, SyncRevivesNobody, RestartRevivesNobody DEF Next

\* What the nodes pass each other through Redis, lost commands and restarts
\* never make a peer Active that nobody has Active and nobody hears of.
THEOREM NoRevivalHolds == Spec => NoRevival
  <1>1. TypeOK /\ [Next]_vars =>
            [\A p \in PeerId :
                ActiveElsewhere(p)' => ActiveElsewhere(p) \/ heard'[p] = 0]_vars
    BY StepRevivesNobody
  <1> QED
    BY <1>1, TypeCorrect, PTL DEF Spec, NoRevival

-----------------------------------------------------------------------------
(* The registries are bounded *)

\* A node that has just started has one entry at most, and there is room
\* for it.
LEMMA OwnBounded ==
    ASSUME NEW n \in Node
    PROVE  BoundedRegistry(OwnRegistry(n))
  <1>1. OwnRegistry(n) \in Registries /\ Known(OwnRegistry(n)) \subseteq {n}
    BY OwnEntries
  <1>2. IsFiniteSet({n}) /\ Cardinality({n}) = 1
    BY FS_Singleton
  <1>3. /\ IsFiniteSet(Known(OwnRegistry(n)))
        /\ Cardinality(Known(OwnRegistry(n))) <= 1
    BY <1>1, <1>2, FS_Subset
  <1>4. Cardinality(Known(OwnRegistry(n))) \in Nat
    BY <1>3, FS_CardinalityType
  <1> QED
    BY <1>1, <1>3, <1>4, RegistryAssumption DEF BoundedRegistry

\* The merge inserts only below the maximum.
LEMMA MergedBounded ==
    ASSUME NEW reg, BoundedRegistry(reg), NEW id \in PeerId, NEW rec \in Record,
           NEW r \in Merged(reg, id, rec)
    PROVE  BoundedRegistry(r)
  <1>0. reg \in Registries
    BY DEF BoundedRegistry
  <1>1. /\ r \in Registries
        /\ \/ r = reg
           \/ /\ r = [reg EXCEPT ![id] = rec]
              /\ \/ id \in Known(reg)
                 \/ id \notin Known(reg) /\ Cardinality(Known(reg)) < MaxNetworkPeers
    BY <1>0, MergedEntries
  <1>2. r = [reg EXCEPT ![id] = rec] => Known(r) = Known(reg) \cup {id}
    BY <1>0, InsertType
  <1>3. CASE Known(r) \subseteq Known(reg)
    BY <1>1, <1>3, FewerEntries
  <1>4. CASE /\ Known(r) = Known(reg) \cup {id} /\ id \notin Known(reg)
             /\ Cardinality(Known(reg)) < MaxNetworkPeers
    <2>1. /\ IsFiniteSet(Known(r))
          /\ Cardinality(Known(r)) = Cardinality(Known(reg)) + 1
          /\ Cardinality(Known(reg)) \in Nat
      BY <1>4, FS_AddElement, FS_CardinalityType DEF BoundedRegistry
    <2> QED
      BY <1>1, <1>4, <2>1, RegistryAssumption DEF BoundedRegistry
  <1> QED
    BY <1>1, <1>2, <1>3, <1>4

\* Every change of a registry keeps it bounded.
LEMMA StepBounded ==
    ASSUME TypeOK, TypeOK', [Next]_vars, NEW n \in Node, BoundedRegistry(peers[n])
    PROVE  BoundedRegistry(peers'[n])
  <1>0. peers[n] \in Registries /\ peers'[n] \in Registries
    BY DEF TypeOK
  <1>1. Known(peers'[n]) \subseteq Known(peers[n]) => BoundedRegistry(peers'[n])
    BY <1>0, FewerEntries
  <1>2. ASSUME NEW c \in calls, FinishUpsert(c) PROVE BoundedRegistry(peers'[n])
    <2>1. c \in Call
      BY DEF TypeOK
    <2>2. peers'[n] = peers[n] \/ peers'[n] \in Upserted(peers[n], c)
      BY <1>2 DEF FinishUpsert, Update, TypeOK
    <2> QED
      BY <1>0, <2>1, <2>2, UpsertedEntries
  <1>3. ASSUME NEW m \in Node, NEW id \in PeerId,
               \/ Seen(m, id) \/ MarkInactive(m, id) \/ Retire(m, id) \/ Drop(m, id)
               \/ SyncGet(m, id) \/ Expire(id)
               \/ \E ep \in MayServeAt[id] : Contact(m, id, ep)
        PROVE  Known(peers'[n]) \subseteq Known(peers[n])
    <2>1. \/ peers'[n] = peers[n]
          \/ peers'[n] = Touch(peers[n], id)
          \/ Marks(id, peers[n], peers'[n])
      BY <1>3 DEF Seen, MarkInactive, Retire, Drop, SyncGet, Expire, Contact, Update,
                    Marks, TypeOK
    <2> QED
      BY <1>0, <2>1, TouchEntries, MarksEntries DEF SameEntries
  <1>4. ASSUME NEW m \in Node, SyncMerge(m) PROVE BoundedRegistry(peers'[n])
    <2>1. fetched[m].id \in PeerId /\ fetched[m].rec \in Record
      BY <1>4 DEF SyncMerge, TypeOK, Fetched
    <2>2. \/ peers'[n] = peers[n]
          \/ peers'[n] \in Merged(peers[n], fetched[m].id, fetched[m].rec)
      BY <1>4 DEF SyncMerge, TypeOK
    <2> QED
      BY <2>1, <2>2, MergedBounded
  <1>5. ASSUME NEW m \in Node, Restart(m) PROVE BoundedRegistry(peers'[n])
    <2>1. peers'[n] = peers[n] \/ peers'[n] = OwnRegistry(n)
      BY <1>5 DEF Restart, TypeOK
    <2> QED
      BY <2>1, OwnBounded
  <1>6. CASE Tick
    BY <1>0, <1>1, <1>6, AgedEntries DEF Tick, SameEntries
  <1>7. CASE UNCHANGED vars
    BY <1>7 DEF vars
  <1> QED
    BY <1>1, <1>2, <1>3, <1>4, <1>5, <1>6, <1>7 DEF Next

\* No registry exceeds its maximum, also when the sync and the node's own
\* calls fill it in turns.
THEOREM CapacityHolds == Spec => []Capacity
  <1> DEFINE Bounded == \A n \in Node : BoundedRegistry(peers[n])
  <1>1. Init => Bounded
    BY OwnBounded DEF Init
  <1>2. TypeOK /\ Bounded /\ [Next]_vars => Bounded'
    BY TypeStep, StepBounded
  <1>3. Bounded => Capacity
    BY DEF BoundedRegistry, Capacity
  <1> QED
    BY <1>1, <1>2, <1>3, TypeCorrect, PTL DEF Spec
=============================================================================
