---------------------------- MODULE CatalogProofs ----------------------------
(***************************************************************************)
(* What UpdateGlobalCatalog guarantees for any number of calls, and which  *)
(* faults each guarantee survives: no entry twice and none of a failed     *)
(* call under all of them; mutual exclusion unless an update outlives the  *)
(* lock; a catalog that only grows unless, besides, it cannot be read; and *)
(* no lost entry and the refinement of CatalogLog under SafeFaults.        *)
(***************************************************************************)
EXTENDS Catalog, TLAPS

\* Where a call may be while its entry is not in the catalog yet.
Before == {"idle", "wait", "read", "fetch", "upload", "write", "abort"}

\* Whoever works under the lock is the one the lock names.
LockNamesHolder == \A c \in Holders : lock = c

\* A call that has read the pointer works on the current version.
TextCurrent ==
    \A c \in Call :
        /\ pc[c] = "fetch" => text[c] = catalog
        /\ pc[c] \in {"upload", "write"} => text[c] = Append(catalog, c)

\* Where a call is tells whether its entry is in the catalog.
EntryPlaced ==
    \A c \in Call :
        /\ pc[c] \in Before => ~InCatalog(c)
        /\ pc[c] = "unlock" => InCatalog(c)

\* A call answers when it is done, and truthfully.
AnswerTrue ==
    \A c \in Call :
        /\ pc[c] # "done" => answer[c] = "none"
        /\ answer[c] = "ok" => InCatalog(c)
        /\ answer[c] = "error" => ~InCatalog(c)

LockInv == TypeOK /\ LockNamesHolder

GrowInv == LockInv /\ TextCurrent

IInv == GrowInv /\ EntryPlaced /\ AnswerTrue

\* The faults that let a second call work under the lock, and those that let
\* a call write a version that is not the current one and its own entry.
LockKept == "slow" \notin Faults

TextKept == LockKept /\ "get" \notin Faults /\ "fetch" \notin Faults

-----------------------------------------------------------------------------
\* The initial state is well typed.
LEMMA TypeInit == Init => TypeOK
BY DEF Init, TypeOK, PC, Working

\* Every step of UpdateGlobalCatalog, faults included, keeps the types.
LEMMA TypeStep == TypeOK /\ [Next]_vars => TypeOK'
<1> SUFFICES ASSUME TypeOK, [Next]_vars PROVE TypeOK'
  OBVIOUS
<1> USE DEF TypeOK, PC, Working, Goto
<1>1. ASSUME NEW c \in Call, Begin(c) PROVE TypeOK'
  BY <1>1 DEF Begin
<1>2. ASSUME NEW c \in Call, Acquire(c) PROVE TypeOK'
  BY <1>2 DEF Acquire
<1>3. ASSUME NEW c \in Call, AcquireUnaware(c) PROVE TypeOK'
  BY <1>3 DEF AcquireUnaware
<1>4. ASSUME NEW c \in Call, Cancel(c) PROVE TypeOK'
  BY <1>4 DEF Cancel
<1>5. ASSUME NEW c \in Call, ReadPointer(c) PROVE TypeOK'
  <2>1. <<>> \in Seq(Call)
    OBVIOUS
  <2>2. text' = [text EXCEPT ![c] = catalog] \/ text' = [text EXCEPT ![c] = <<>>]
    BY <1>5 DEF ReadPointer
  <2>3. text' \in [Call -> Seq(Call)]
    BY <2>1, <2>2
  <2> QED
    BY <1>5, <2>3 DEF ReadPointer
<1>6. ASSUME NEW c \in Call, FetchAndAppend(c) PROVE TypeOK'
  <2>1. Append(text[c], c) \in Seq(Call) /\ <<c>> \in Seq(Call)
    OBVIOUS
  <2>2. text' \in [Call -> Seq(Call)]
    BY <1>6, <2>1 DEF FetchAndAppend
  <2> QED
    BY <1>6, <2>2 DEF FetchAndAppend
<1>7. ASSUME NEW c \in Call, Upload(c) \/ UploadFails(c) PROVE TypeOK'
  BY <1>7 DEF Upload, UploadFails
<1>8. ASSUME NEW c \in Call, WritePointer(c) PROVE TypeOK'
  BY <1>8 DEF WritePointer
<1>9. ASSUME NEW c \in Call, Unlock(c) PROVE TypeOK'
  BY <1>9 DEF Unlock
<1>10. ASSUME NEW c \in Call, Crash(c) PROVE TypeOK'
  BY <1>10 DEF Crash
<1>11. ASSUME ExpireAbandoned \/ ExpireEarly PROVE TypeOK'
  BY <1>11 DEF ExpireAbandoned, ExpireEarly
<1>12. CASE UNCHANGED vars
  BY <1>12 DEF vars
<1> QED
  BY <1>1, <1>2, <1>3, <1>4, <1>5, <1>6, <1>7, <1>8, <1>9, <1>10, <1>11,
     <1>12 DEF Next, Proceed

\* The state of UpdateGlobalCatalog stays well typed whatever goes wrong.
THEOREM TypeCorrect == Spec => []TypeOK
BY TypeInit, TypeStep, PTL DEF Spec

-----------------------------------------------------------------------------
\* Appending an entry adds it to those in the catalog, and no other one.
LEMMA AppendEntries ==
    ASSUME NEW s \in Seq(Call), NEW c \in Call
    PROVE  /\ \E i \in DOMAIN Append(s, c) : Append(s, c)[i] = c
           /\ \A d \in Call \ {c} :
                 (\E i \in DOMAIN Append(s, c) : Append(s, c)[i] = d)
                    <=> (\E i \in DOMAIN s : s[i] = d)
           /\ Len(Append(s, c)) >= Len(s)
           /\ \A i \in DOMAIN s : Append(s, c)[i] = s[i]
<1>1. /\ Append(s, c) \in Seq(Call)
      /\ Len(Append(s, c)) = Len(s) + 1
      /\ Append(s, c)[Len(s) + 1] = c
      /\ \A i \in 1..Len(s) : Append(s, c)[i] = s[i]
      /\ Len(s) \in Nat
  OBVIOUS
<1>2. DOMAIN Append(s, c) = 1..(Len(s) + 1) /\ DOMAIN s = 1..Len(s)
  BY <1>1
<1>3. \A i \in 1..(Len(s) + 1) : i \in 1..Len(s) \/ i = Len(s) + 1
  BY <1>1
<1>4. Len(s) + 1 \in 1..(Len(s) + 1) /\ 1..Len(s) \subseteq 1..(Len(s) + 1)
  BY <1>1
<1> QED
  BY <1>1, <1>2, <1>3, <1>4

\* As long as no update outlives the lock it took, every step keeps it that
\* the lock names whoever works under it.
LEMMA LockStep ==
    ASSUME LockKept, LockInv, [Next]_vars
    PROVE  LockInv'
<1> USE DEF LockInv
<1>1. TypeOK'
  BY TypeStep
<1> SUFFICES LockNamesHolder'
  BY <1>1
<1> USE DEF TypeOK, LockNamesHolder, Holders, Working, Goto
<1>2. ASSUME NEW c \in Call, Begin(c) \/ Acquire(c) \/ AcquireUnaware(c) \/ Cancel(c)
      PROVE  LockNamesHolder'
  BY <1>2, CatalogAssumption DEF Begin, Acquire, AcquireUnaware, Cancel
<1>3. ASSUME NEW c \in Call, ReadPointer(c) \/ FetchAndAppend(c) \/ Upload(c)
                             \/ UploadFails(c) \/ WritePointer(c)
      PROVE  LockNamesHolder'
  BY <1>3 DEF ReadPointer, FetchAndAppend, Upload, UploadFails, WritePointer
<1>4. ASSUME NEW c \in Call, Unlock(c) PROVE LockNamesHolder'
  <2>1. pc' = [pc EXCEPT ![c] = "done"] /\ pc[c] \in Working
    BY <1>4 DEF Unlock
  <2>2. \A d \in Call \ {c} : pc[d] \notin Working
    BY <2>1
  <2> QED
    BY <2>1, <2>2
<1>5. ASSUME NEW c \in Call, Crash(c) PROVE LockNamesHolder'
  BY <1>5 DEF Crash
<1>6. ASSUME ExpireAbandoned PROVE LockNamesHolder'
  BY <1>6 DEF ExpireAbandoned
<1>7. ~ExpireEarly
  BY DEF ExpireEarly, LockKept
<1>8. CASE UNCHANGED vars
  BY <1>8 DEF vars
<1> QED
  BY <1>2, <1>3, <1>4, <1>5, <1>6, <1>7, <1>8 DEF Next, Proceed

\* Two updates never work under the lock at once, whatever else goes wrong
\* than that one outlives the lock: the lock names every holder, so there is
\* one.
THEOREM MutualExclusionHolds ==
    ASSUME LockKept PROVE Spec => []MutualExclusion
<1>1. Init => LockInv
  BY TypeInit DEF Init, LockInv, LockNamesHolder, Holders, Working
<1>2. LockInv /\ [Next]_vars => LockInv'
  BY LockStep
<1>3. LockInv => MutualExclusion
  BY DEF LockInv, LockNamesHolder, MutualExclusion
<1> QED
  BY <1>1, <1>2, <1>3, PTL DEF Spec

-----------------------------------------------------------------------------
\* When the pointer and the current version can be read, too, a call that has
\* read them works on the current version: nobody else can have moved the
\* pointer.  A SET that fails leaves the pointer where it is.
LEMMA GrowStep ==
    ASSUME TextKept, GrowInv, [Next]_vars
    PROVE  GrowInv'
<1> USE DEF GrowInv, LockInv
<1>1. LockInv'
  BY LockStep DEF TextKept
<1> SUFFICES TextCurrent'
  BY <1>1
<1> USE DEF TypeOK, LockNamesHolder, TextCurrent, Holders, Working, Goto
<1>2. ASSUME NEW c \in Call, Begin(c) \/ Acquire(c) \/ AcquireUnaware(c) \/ Cancel(c)
                             \/ Upload(c) \/ UploadFails(c) \/ Unlock(c) \/ Crash(c)
      PROVE  TextCurrent'
  BY <1>2 DEF Begin, Acquire, AcquireUnaware, Cancel, Upload, UploadFails, Unlock, Crash
<1>3. ASSUME NEW c \in Call, ReadPointer(c) PROVE TextCurrent'
  BY <1>3 DEF ReadPointer, TextKept
<1>4. ASSUME NEW c \in Call, FetchAndAppend(c) PROVE TextCurrent'
  BY <1>4 DEF FetchAndAppend, TextKept
<1>5. ASSUME NEW c \in Call, WritePointer(c) PROVE TextCurrent'
  <2>1. \A d \in Call \ {c} : pc[d] \notin Working
    BY <1>5 DEF WritePointer
  <2>2. \A d \in Call : pc'[d] \notin {"fetch", "upload", "write"}
    BY <1>5, <2>1 DEF WritePointer
  <2> QED
    BY <2>2
<1>6. ASSUME ExpireAbandoned \/ ExpireEarly PROVE TextCurrent'
  BY <1>6 DEF ExpireAbandoned, ExpireEarly
<1>7. CASE UNCHANGED vars
  BY <1>7 DEF vars
<1> QED
  BY <1>2, <1>3, <1>4, <1>5, <1>6, <1>7 DEF Next, Proceed

\* The initial state satisfies it.
LEMMA GrowInit == Init => GrowInv
BY TypeInit DEF Init, GrowInv, LockInv, LockNamesHolder, TextCurrent, Holders, Working

\* A step that moves the pointer appends the entry of its call.
LEMMA WriteText ==
    ASSUME GrowInv, NEW c \in Call, WritePointer(c)
    PROVE  catalog' = Append(catalog, c) \/ UNCHANGED catalog
BY DEF WritePointer, Goto, GrowInv, TextCurrent

\* The catalog only grows, and at its end, when no update outlives the lock
\* and all can read the pointer and the current version.
THEOREM CatalogExtendsHolds ==
    ASSUME TextKept PROVE Spec => CatalogExtends
<1> DEFINE Grows == /\ Len(catalog') >= Len(catalog)
                    /\ \A i \in DOMAIN catalog : catalog'[i] = catalog[i]
<1>1. GrowInv /\ [Next]_vars => [Grows]_vars
  <2> SUFFICES ASSUME GrowInv, Next PROVE Grows
    BY DEF vars
  <2>1. catalog \in Seq(Call)
    BY DEF GrowInv, LockInv, TypeOK
  <2>2. CASE UNCHANGED catalog
    BY <2>1, <2>2
  <2>3. ASSUME NEW c \in Call, catalog' = Append(catalog, c) PROVE Grows
    <3>1. /\ Len(Append(catalog, c)) >= Len(catalog)
          /\ \A i \in DOMAIN catalog : Append(catalog, c)[i] = catalog[i]
      BY <2>1, AppendEntries
    <3> QED
      BY <2>3, <3>1
  <2> QED
    BY <2>2, <2>3, WriteText DEF Next, Proceed, Begin, Acquire, AcquireUnaware, Cancel,
       ReadPointer, FetchAndAppend, Upload, UploadFails, Unlock, Crash,
       ExpireAbandoned, ExpireEarly
<1>2. GrowInv /\ [Next]_vars => GrowInv'
  BY GrowStep
<1>3. Spec => [][Grows]_vars
  BY GrowInit, <1>1, <1>2, PTL DEF Spec
<1> QED
  BY <1>3 DEF CatalogExtends

-----------------------------------------------------------------------------
\* SafeFaults are among those that keep the lock and what is read under it.
LEMMA SafeKept ==
    ASSUME Faults \subseteq SafeFaults
    PROVE  TextKept
BY DEF SafeFaults, TextKept, LockKept

\* The initial state satisfies the inductive invariant.
LEMMA InvInit == Init => IInv
<1> SUFFICES ASSUME Init PROVE IInv
  OBVIOUS
<1>2. \A c \in Call : pc[c] = "idle" /\ answer[c] = "none"
  BY DEF Init
<1>3. \A c \in Call : ~InCatalog(c)
  <2>1. catalog = <<>> /\ DOMAIN <<>> = {}
    BY DEF Init
  <2> QED
    BY <2>1 DEF InCatalog
<1> QED
  BY GrowInit, <1>2, <1>3 DEF IInv, EntryPlaced, AnswerTrue, Before

\* A step that moves the pointer does so for the one call that works under
\* the lock, and appends that call's entry.
LEMMA WriteAppends ==
    ASSUME Faults \subseteq SafeFaults, IInv, NEW c \in Call, WritePointer(c)
    PROVE  /\ catalog' = Append(catalog, c)
           /\ \A d \in Call : InCatalog(d)' <=> (d = c \/ InCatalog(d))
           /\ ~InCatalog(c) /\ answer[c] = "none"
<1>1. catalog' = Append(catalog, c)
  BY DEF WritePointer, Goto, IInv, GrowInv, TextCurrent, SafeFaults
<1>2. \A d \in Call : InCatalog(d)' <=> (d = c \/ InCatalog(d))
  <2>1. catalog \in Seq(Call)
    BY DEF IInv, GrowInv, LockInv, TypeOK
  <2> SUFFICES ASSUME NEW d \in Call
               PROVE  InCatalog(d)' <=> (d = c \/ InCatalog(d))
    OBVIOUS
  <2>2. CASE d = c
    <3>1. \E i \in DOMAIN Append(catalog, c) : Append(catalog, c)[i] = c
      BY <2>1, AppendEntries
    <3> QED
      BY <1>1, <2>2, <3>1 DEF InCatalog
  <2>3. CASE d # c
    <3>1. (\E i \in DOMAIN Append(catalog, c) : Append(catalog, c)[i] = d)
             <=> (\E i \in DOMAIN catalog : catalog[i] = d)
      BY <2>1, <2>3, AppendEntries
    <3> QED
      BY <1>1, <2>3, <3>1 DEF InCatalog
  <2> QED
    BY <2>2, <2>3
<1>3. ~InCatalog(c) /\ answer[c] = "none"
  BY DEF WritePointer, Goto, IInv, EntryPlaced, AnswerTrue, Before
<1> QED
  BY <1>1, <1>2, <1>3

-----------------------------------------------------------------------------
\* Every step keeps the inductive invariant as long as the faults are safe.
LEMMA InvStep ==
    ASSUME Faults \subseteq SafeFaults, IInv, [Next]_vars
    PROVE  IInv'
<1> DEFINE Placed(d) == /\ pc[d] \in Before => ~InCatalog(d)
                        /\ pc[d] = "unlock" => InCatalog(d)
                        /\ pc[d] # "done" => answer[d] = "none"
                        /\ answer[d] = "ok" => InCatalog(d)
                        /\ answer[d] = "error" => ~InCatalog(d)
<1> USE DEF IInv
<1>1. GrowInv'
  BY GrowStep, SafeKept
<1> SUFFICES ASSUME NEW d \in Call PROVE Placed(d)'
  BY <1>1 DEF EntryPlaced, AnswerTrue
<1>2. /\ Placed(d)
      /\ pc \in [Call -> PC] /\ answer \in [Call -> {"none", "ok", "error"}]
  BY DEF GrowInv, LockInv, TypeOK, EntryPlaced, AnswerTrue
\* A step that leaves the catalog alone leaves its entries alone.
<1>3. UNCHANGED catalog => (InCatalog(d)' <=> InCatalog(d))
  BY DEF InCatalog
<1> USE <1>2, <1>3 DEF Before, Working, Goto
<1>4. ASSUME NEW c \in Call, Begin(c) \/ Acquire(c) \/ AcquireUnaware(c) \/ Cancel(c)
      PROVE  Placed(d)'
  BY <1>4 DEF Begin, Acquire, AcquireUnaware, Cancel
<1>5. ASSUME NEW c \in Call, ReadPointer(c) \/ FetchAndAppend(c) \/ Upload(c)
                             \/ UploadFails(c) \/ Crash(c)
      PROVE  Placed(d)'
  BY <1>5 DEF ReadPointer, FetchAndAppend, Upload, UploadFails, Crash
<1>6. ASSUME NEW c \in Call, WritePointer(c) PROVE Placed(d)'
  <2>1. /\ InCatalog(d)' <=> (d = c \/ InCatalog(d))
        /\ ~InCatalog(c) /\ answer[c] = "none"
    BY <1>6, WriteAppends
  <2>2. pc' = [pc EXCEPT ![c] = "unlock"] /\ answer' = answer
    BY <1>6 DEF WritePointer
  <2>3. CASE d = c
    BY <2>1, <2>2, <2>3
  <2>4. CASE d # c
    <3>1. pc'[d] = pc[d] /\ answer'[d] = answer[d]
      BY <2>2, <2>4
    <3> QED
      BY <2>1, <2>4, <3>1
  <2> QED
    BY <2>3, <2>4
<1>7. ASSUME NEW c \in Call, Unlock(c) PROVE Placed(d)'
  BY <1>7 DEF Unlock
<1>8. ASSUME ExpireAbandoned \/ ExpireEarly PROVE Placed(d)'
  BY <1>8 DEF ExpireAbandoned, ExpireEarly
<1>9. CASE UNCHANGED vars
  BY <1>9 DEF vars
<1> QED
  BY <1>4, <1>5, <1>6, <1>7, <1>8, <1>9 DEF Next, Proceed

\* Under SafeFaults the inductive invariant holds in every behaviour.
LEMMA Invariant == ASSUME Faults \subseteq SafeFaults PROVE Spec => []IInv
<1>1. IInv /\ [Next]_vars => IInv'
  BY InvStep
<1> QED
  BY InvInit, <1>1, PTL DEF Spec

\* An update that reported success stays in the catalog.
THEOREM NoLostEntryHolds ==
    ASSUME Faults \subseteq SafeFaults PROVE Spec => []NoLostEntry
<1>1. IInv => NoLostEntry
  BY DEF IInv, AnswerTrue, NoLostEntry
<1> QED
  BY Invariant, <1>1, PTL

-----------------------------------------------------------------------------
\* UpdateGlobalCatalog implements the append-only log with truthful answers:
\* moving the pointer is AppendEntry, returning is Answer, and every other
\* step leaves the log and the answers alone.
THEOREM RefinesLog == ASSUME Faults \subseteq SafeFaults PROVE Spec => LogSpec
<1>1. Init => Log!Init
  BY DEF Init, Log!Init
<1>2. IInv /\ [Next]_vars => [Log!Next]_(Log!vars)
  <2> SUFFICES ASSUME IInv, Next PROVE Log!Next \/ UNCHANGED Log!vars
    BY DEF vars, Log!vars
  <2> USE DEF IInv, TypeOK
  <2>1. \A d \in Call : Log!Logged(d) <=> InCatalog(d)
    BY DEF Log!Logged, InCatalog
  <2>2. ASSUME NEW c \in Call, WritePointer(c) PROVE Log!AppendEntry(c)
    <3>1. catalog' = Append(catalog, c) /\ ~InCatalog(c) /\ answer[c] = "none"
      BY <2>2, WriteAppends
    <3> QED
      BY <2>1, <2>2, <3>1 DEF Log!AppendEntry, WritePointer
  <2>3. ASSUME NEW c \in Call, Unlock(c) PROVE Log!Answer(c)
    BY <2>1, <2>3 DEF Unlock, Goto, EntryPlaced, AnswerTrue, Before, Log!Answer
  <2>4. ASSUME NEW c \in Call, Cancel(c) PROVE Log!Answer(c)
    BY <2>1, <2>4 DEF Cancel, Goto, EntryPlaced, AnswerTrue, Before, Log!Answer
  <2>5. CASE UNCHANGED <<catalog, answer>>
    BY <2>5 DEF Log!vars
  <2> QED
    BY <2>2, <2>3, <2>4, <2>5 DEF Next, Proceed, Begin, Acquire, AcquireUnaware,
       ReadPointer, FetchAndAppend, Upload, UploadFails, Crash,
       ExpireAbandoned, ExpireEarly, Log!Next
<1> QED
  BY Invariant, <1>1, <1>2, PTL DEF Spec, LogSpec, Log!Spec

-----------------------------------------------------------------------------
(* What no fault can break *)

Holds(s, c) == \E i \in DOMAIN s : s[i] = c

\* No entry twice.
Once(s) == \A i, j \in DOMAIN s : s[i] = s[j] => i = j

\* The call has not moved the pointer, and will not without doing all that
\* WritePointer comes after.
Unwritten(c) == pc[c] \in Before \/ answer[c] = "error"

\* The entry of a call is in its own version only, until it moves the
\* pointer, and there only from step 4 on; and no version has one twice.
GenuineInv ==
    /\ TypeOK
    /\ Once(catalog)
    /\ \A c \in Call :
          /\ Once(text[c])
          /\ pc[c] # "done" => answer[c] = "none"
          /\ Unwritten(c) => ~Holds(catalog, c)
          /\ Unwritten(c) => \A d \in Call \ {c} : ~Holds(text[d], c)
          /\ pc[c] \in {"idle", "wait", "read", "fetch"} => ~Holds(text[c], c)

\* Appending an entry that a version does not have leaves it without doubles.
LEMMA AppendOnce ==
    ASSUME NEW s \in Seq(Call), NEW c \in Call, Once(s), ~Holds(s, c)
    PROVE  Once(Append(s, c))
<1>1. /\ Len(s) \in Nat /\ DOMAIN s = 1..Len(s)
      /\ DOMAIN Append(s, c) = 1..(Len(s) + 1)
      /\ Append(s, c)[Len(s) + 1] = c
      /\ \A i \in 1..Len(s) : Append(s, c)[i] = s[i]
  OBVIOUS
<1>2. \A i \in 1..(Len(s) + 1) : i \in 1..Len(s) \/ i = Len(s) + 1
  BY <1>1
<1> QED
  BY <1>1, <1>2 DEF Once, Holds

\* The versions a call may have in hand after reading or appending.
LEMMA VersionEntries ==
    ASSUME NEW s \in Seq(Call), NEW c \in Call
    PROVE  /\ Once(<<>>) /\ Once(<<c>>)
           /\ \A d \in Call : ~Holds(<<>>, d)
           /\ \A d \in Call \ {c} : Holds(Append(s, c), d) <=> Holds(s, d)
           /\ \A d \in Call \ {c} : ~Holds(<<c>>, d)
<1>1. DOMAIN <<>> = {} /\ DOMAIN <<c>> = {1} /\ <<c>>[1] = c
  OBVIOUS
<1>2. \A d \in Call \ {c} : Holds(Append(s, c), d) <=> Holds(s, d)
  BY AppendEntries DEF Holds
<1> QED
  BY <1>1, <1>2 DEF Once, Holds

\* Every step keeps it, whatever goes wrong.
LEMMA GenuineStep ==
    ASSUME GenuineInv, [Next]_vars
    PROVE  GenuineInv'
<1>1. TypeOK'
  BY TypeStep DEF GenuineInv
<1>2. /\ pc \in [Call -> PC] /\ answer \in [Call -> {"none", "ok", "error"}]
      /\ text \in [Call -> Seq(Call)] /\ catalog \in Seq(Call)
  BY DEF GenuineInv, TypeOK
\* A step in which a call goes on without a new version or a move of the
\* pointer.
<1>3. ASSUME NEW c \in Call, UNCHANGED <<text, catalog>>,
             \A d \in Call : Unwritten(d)' => Unwritten(d),
             \A d \in Call : pc'[d] # "done" => answer'[d] = "none",
             \A d \in Call : pc'[d] \in {"idle", "wait", "read", "fetch"}
                             => pc[d] \in {"idle", "wait", "read", "fetch"}
      PROVE  GenuineInv'
  BY <1>1, <1>3 DEF GenuineInv
<1>4. ASSUME NEW c \in Call, Begin(c) \/ Acquire(c) \/ AcquireUnaware(c) \/ Cancel(c)
                             \/ Upload(c) \/ UploadFails(c) \/ Unlock(c) \/ Crash(c)
      PROVE  GenuineInv'
  <2>1. /\ UNCHANGED <<text, catalog>>
        /\ \A d \in Call : pc[d] # "done" => answer[d] = "none"
    BY <1>4 DEF GenuineInv, Begin, Acquire, AcquireUnaware, Cancel, Upload, UploadFails,
       Unlock, Crash
  <2>2. ASSUME NEW d \in Call
        PROVE  /\ Unwritten(d)' => Unwritten(d)
               /\ pc'[d] # "done" => answer'[d] = "none"
               /\ pc'[d] \in {"idle", "wait", "read", "fetch"}
                     => pc[d] \in {"idle", "wait", "read", "fetch"}
    BY <1>2, <1>4, <2>1 DEF Begin, Acquire, AcquireUnaware, Cancel, Upload, UploadFails,
       Unlock, Crash, Goto, Unwritten, Before, Working
  <2> QED
    BY <1>3, <2>1, <2>2
\* A step in which c gets a new version.
<1>5. ASSUME NEW c \in Call, NEW t, text' = [text EXCEPT ![c] = t],
             UNCHANGED <<catalog, answer>>, pc[c] \in {"read", "fetch"},
             pc' = [pc EXCEPT ![c] = IF pc[c] = "read" THEN "fetch" ELSE "upload"],
             Once(t), pc[c] = "read" => ~Holds(t, c),
             \A d \in Call \ {c} : Unwritten(d) => ~Holds(t, d)
      PROVE  GenuineInv'
  <2>1. /\ text'[c] = t /\ \A d \in Call \ {c} : text'[d] = text[d]
        /\ pc'[c] \in {"fetch", "upload"} /\ \A d \in Call \ {c} : pc'[d] = pc[d]
        /\ pc'[c] = "fetch" => pc[c] = "read"
    BY <1>2, <1>5
  <2>2. \A d \in Call : Unwritten(d)' => Unwritten(d)
    BY <1>5, <2>1 DEF Unwritten, Before
  <2>3. Once(catalog') /\ \A d \in Call : Once(text'[d])
    BY <1>5, <2>1 DEF GenuineInv
  <2>4. ASSUME NEW d \in Call, Unwritten(d)', NEW e \in Call \ {d}
        PROVE  ~Holds(catalog', d) /\ ~Holds(text'[e], d)
    BY <1>5, <2>1, <2>2, <2>4 DEF GenuineInv
  <2>5. ASSUME NEW d \in Call PROVE Unwritten(d)' => ~Holds(catalog', d)
    BY <1>5, <2>2 DEF GenuineInv
  <2>6. ASSUME NEW d \in Call, pc'[d] \in {"idle", "wait", "read", "fetch"}
        PROVE  ~Holds(text'[d], d)
    BY <1>5, <2>1, <2>6 DEF GenuineInv
  <2>7. \A d \in Call : pc'[d] # "done" => answer'[d] = "none"
    BY <1>5, <2>1 DEF GenuineInv
  <2> QED
    BY <1>1, <2>3, <2>4, <2>5, <2>6, <2>7 DEF GenuineInv
<1>6. ASSUME NEW c \in Call, ReadPointer(c) PROVE GenuineInv'
  <2>1. PICK t \in {catalog, <<>>} : text' = [text EXCEPT ![c] = t]
    BY <1>6 DEF ReadPointer
  <2>2. Once(t) /\ \A d \in Call : Unwritten(d) => ~Holds(t, d)
    BY <1>2, VersionEntries DEF GenuineInv
  <2>3. Unwritten(c)
    BY <1>6 DEF ReadPointer, Goto, Unwritten, Before
  <2> QED
    BY <1>5, <1>6, <2>1, <2>2, <2>3 DEF ReadPointer, Goto
<1>7. ASSUME NEW c \in Call, FetchAndAppend(c) PROVE GenuineInv'
  <2>1. PICK t \in {Append(text[c], c), <<c>>} : text' = [text EXCEPT ![c] = t]
    BY <1>7 DEF FetchAndAppend
  <2>2. Once(text[c]) /\ ~Holds(text[c], c) /\ text[c] \in Seq(Call)
    BY <1>2, <1>7 DEF FetchAndAppend, Goto, GenuineInv
  <2>3. Once(t)
    BY <2>2, AppendOnce, VersionEntries
  <2>4. ASSUME NEW d \in Call \ {c}, Unwritten(d) PROVE ~Holds(t, d)
    <3>1. ~Holds(text[c], d)
      BY <2>4 DEF GenuineInv
    <3>2. CASE t = Append(text[c], c)
      BY <2>2, <3>1, <3>2, VersionEntries
    <3>3. CASE t = <<c>>
      BY <2>2, <3>3, VersionEntries
    <3> QED
      BY <3>2, <3>3
  <2> QED
    BY <1>5, <1>7, <2>1, <2>3, <2>4 DEF FetchAndAppend, Goto
<1>8. ASSUME NEW c \in Call, WritePointer(c) PROVE GenuineInv'
  <2>1. /\ UNCHANGED <<text, answer>> /\ pc' = [pc EXCEPT ![c] = "unlock"]
        /\ pc[c] = "write" /\ catalog' \in {text[c], catalog}
    BY <1>8 DEF WritePointer, Goto
  <2>2. \A d \in Call : Unwritten(d)' => Unwritten(d) /\ d # c
    BY <1>2, <2>1 DEF Unwritten, Before, GenuineInv
  <2>3. Once(catalog') /\ \A d \in Call : Once(text'[d])
    BY <2>1 DEF GenuineInv
  <2>4. ASSUME NEW d \in Call, Unwritten(d)'
        PROVE  ~Holds(catalog', d) /\ \A e \in Call \ {d} : ~Holds(text'[e], d)
    BY <2>1, <2>2, <2>4 DEF GenuineInv
  <2>5. ASSUME NEW d \in Call, pc'[d] \in {"idle", "wait", "read", "fetch"}
        PROVE  ~Holds(text'[d], d)
    BY <1>2, <2>1, <2>5 DEF GenuineInv
  <2>6. \A d \in Call : pc'[d] # "done" => answer'[d] = "none"
    BY <1>2, <2>1 DEF GenuineInv
  <2> QED
    BY <1>1, <2>3, <2>4, <2>5, <2>6 DEF GenuineInv
<1>9. ASSUME UNCHANGED <<pc, text, catalog, answer>> PROVE GenuineInv'
  BY <1>1, <1>9 DEF GenuineInv, Unwritten
<1> QED
  BY <1>4, <1>6, <1>7, <1>8, <1>9 DEF Next, Proceed, ExpireAbandoned, ExpireEarly, vars

\* Whatever goes wrong, and even when several calls work under the lock, the
\* catalog has no entry twice and none of an update that returned an error.
THEOREM EntriesGenuineHolds == Spec => []EntriesGenuine
<1>1. Init => GenuineInv
  <2> SUFFICES ASSUME Init PROVE GenuineInv
    OBVIOUS
  <2>1. DOMAIN <<>> = {}
    OBVIOUS
  <2> QED
    BY TypeInit, <2>1 DEF Init, GenuineInv, Once, Holds
<1>2. GenuineInv /\ [Next]_vars => GenuineInv'
  BY GenuineStep
<1>3. GenuineInv => EntriesGenuine
  BY DEF GenuineInv, EntriesGenuine, Once, Holds, InCatalog, Unwritten
<1> QED
  BY <1>1, <1>2, <1>3, PTL DEF Spec
=============================================================================
