------------------------------- MODULE Catalog -------------------------------
(***************************************************************************)
(* PeerHost.UpdateGlobalCatalog: concurrent calls, on one node or several, *)
(* append one entry each to the catalog file.  The file is content-        *)
(* addressed, so an update reads the pointer to the current version, reads *)
(* that version, uploads a longer one and moves the pointer, all under a   *)
(* lock:                                                                   *)
(*   - with REDIS_URL, the key chunkster:catalog_lock, taken with SETNX    *)
(*     and a 10 s TTL, polled every 500 ms, and deleted at the end without *)
(*     looking whose it is; the pointer is the key chunkster:catalog_cid;  *)
(*   - without, the node's own mutex, and the pointer is a field.  This is *)
(*     the instance whose Faults are at most {"fetch", "upload"}.          *)
(*                                                                         *)
(* A version of the file is the sequence of the calls whose entries it     *)
(* holds; it stands for its CID too, and <<>> for "no catalog yet".        *)
(***************************************************************************)
EXTENDS Naturals, Sequences

CONSTANTS
    Call,       \* the calls of UpdateGlobalCatalog
    Free,       \* nobody holds the lock
    Faults      \* what may go wrong: a subset of AllFaults

\* "cancel"  the caller's context ends while it waits for the lock
\* "reply"   SETNX takes effect and its answer is lost
\* "slow"    an update takes longer than the lock's TTL
\* "get"     the GET of the pointer fails
\* "fetch"   the current version cannot be read
\* "upload"  the new version cannot be written to the local store
\* "set"     the SET of the pointer fails
\* "crash"   the node running the call dies
AllFaults == {"cancel", "reply", "slow", "get", "fetch", "upload", "set", "crash"}

ASSUME CatalogAssumption ==
    /\ Free \notin Call
    /\ Faults \subseteq AllFaults

VARIABLES
    lock,       \* the call that took the lock, or Free
    pc,         \* where each call is
    text,       \* the version each call has read, then the one it writes
    catalog,    \* the version the pointer names
    answer      \* what each call returned: "none", "ok" or "error"

vars == <<lock, pc, text, catalog, answer>>

\* Calls that believe they hold the lock.
Working == {"read", "fetch", "upload", "write", "unlock", "abort"}

Holders == {c \in Call : pc[c] \in Working}

Init ==
    /\ lock = Free
    /\ pc = [c \in Call |-> "idle"]
    /\ text = [c \in Call |-> <<>>]
    /\ catalog = <<>>
    /\ answer = [c \in Call |-> "none"]

-----------------------------------------------------------------------------
Goto(c, from, to) == pc[c] = from /\ pc' = [pc EXCEPT ![c] = to]

\* The upload handler has stored the file and calls UpdateGlobalCatalog.
Begin(c) ==
    /\ Goto(c, "idle", "wait")
    /\ UNCHANGED <<lock, text, catalog, answer>>

AcquireHeld(c) ==
    /\ Goto(c, "wait", "read")
    /\ lock' = c
    /\ UNCHANGED <<text, catalog, answer>>

\* SETNX succeeds, or the mutex is locked.
Acquire(c) ==
    /\ Goto(c, "wait", "read")
    /\ lock = Free
    /\ lock' = c
    /\ UNCHANGED <<text, catalog, answer>>

\* SETNX sets the key, but its answer is lost: the call polls on.
AcquireUnaware(c) ==
    /\ "reply" \in Faults
    /\ pc[c] = "wait"
    /\ lock = Free
    /\ lock' = c
    /\ UNCHANGED <<pc, text, catalog, answer>>

\* ctx.Done while polling: return without having taken the lock.
Cancel(c) ==
    /\ "cancel" \in Faults
    /\ Goto(c, "wait", "done")
    /\ answer' = [answer EXCEPT ![c] = "error"]
    /\ UNCHANGED <<lock, text, catalog>>

\* 2. Read the pointer; an error is taken for "no catalog".
ReadPointer(c) ==
    /\ Goto(c, "read", "fetch")
    /\ \/ text' = [text EXCEPT ![c] = catalog]
       \/ "get" \in Faults /\ text' = [text EXCEPT ![c] = <<>>]
    /\ UNCHANGED <<lock, catalog, answer>>

AppendNested(c) ==
    /\ Goto(c, "fetch", "upload")
    /\ text' = [text EXCEPT ![c] = <<@, c>>]
    /\ UNCHANGED <<lock, catalog, answer>>

\* 3. and 4. Read that version and append the entry; when it cannot be read
\* the new version starts from nothing.
FetchAndAppend(c) ==
    /\ Goto(c, "fetch", "upload")
    /\ \/ text' = [text EXCEPT ![c] = Append(@, c)]
       \/ "fetch" \in Faults /\ text' = [text EXCEPT ![c] = <<c>>]
    /\ UNCHANGED <<lock, catalog, answer>>

UploadFailsLate(c) ==
    /\ "upload" \in Faults
    /\ Goto(c, "upload", "abort")
    /\ catalog' = text[c]
    /\ UNCHANGED <<lock, text, answer>>

\* 5. and 6. AddFile stores the new version.
Upload(c) ==
    /\ Goto(c, "upload", "write")
    /\ UNCHANGED <<lock, text, catalog, answer>>

\* The temporary file or AddFile fails: return the error.
UploadFails(c) ==
    /\ "upload" \in Faults
    /\ Goto(c, "upload", "abort")
    /\ UNCHANGED <<lock, text, catalog, answer>>

UnlockEarly(c) ==
    /\ Goto(c, "write", "unlock")
    /\ lock' = Free
    /\ catalog' = text[c]
    /\ UNCHANGED <<text, answer>>

\* 7. Move the pointer; an error of SET is only logged.
WritePointer(c) ==
    /\ Goto(c, "write", "unlock")
    /\ \/ catalog' = text[c]
       \/ "set" \in Faults /\ UNCHANGED catalog
    /\ UNCHANGED <<lock, text, answer>>

UnlockAlwaysOk(c) ==
    /\ Goto(c, "unlock", "done") \/ Goto(c, "abort", "done")
    /\ answer' = [answer EXCEPT ![c] = "ok"]
    /\ lock' = Free
    /\ UNCHANGED <<text, catalog>>

\* The deferred DEL (whoever holds the lock by now) or Unlock, and return.
Unlock(c) ==
    /\ \/ /\ Goto(c, "unlock", "done")
          /\ answer' = [answer EXCEPT ![c] = "ok"]
       \/ /\ Goto(c, "abort", "done")
          /\ answer' = [answer EXCEPT ![c] = "error"]
    /\ lock' = Free
    /\ UNCHANGED <<text, catalog>>

\* The node dies; its lock stays.
Crash(c) ==
    /\ "crash" \in Faults
    /\ pc[c] \in Working \cup {"wait"}
    /\ pc' = [pc EXCEPT ![c] = "crashed"]
    /\ UNCHANGED <<lock, text, catalog, answer>>

ExpireNever ==
    /\ FALSE
    /\ UNCHANGED vars

\* The TTL of a lock runs out whose call no longer works under it.
ExpireAbandoned ==
    /\ lock # Free
    /\ lock \notin Holders
    /\ lock' = Free
    /\ UNCHANGED <<pc, text, catalog, answer>>

\* The TTL runs out under a call that is still working.
ExpireEarly ==
    /\ "slow" \in Faults
    /\ lock # Free
    /\ lock \in Holders
    /\ lock' = Free
    /\ UNCHANGED <<pc, text, catalog, answer>>

-----------------------------------------------------------------------------
Proceed(c) ==
    \/ ReadPointer(c) \/ FetchAndAppend(c) \/ Upload(c) \/ UploadFails(c)
    \/ WritePointer(c) \/ Unlock(c)

Next ==
    \/ \E c \in Call :
          Begin(c) \/ Acquire(c) \/ AcquireUnaware(c) \/ Cancel(c) \/ Proceed(c) \/ Crash(c)
    \/ ExpireAbandoned
    \/ ExpireEarly

Spec == Init /\ [][Next]_vars

\* A call that holds the lock goes on; one that polls for it gets it when it
\* is free again and again; Redis drops a key whose TTL has run out.
FairSpec ==
    /\ Spec
    /\ \A c \in Call : WF_vars(Proceed(c)) /\ SF_vars(Acquire(c))
    /\ WF_vars(ExpireAbandoned)

-----------------------------------------------------------------------------
(* Properties *)

PC == Working \cup {"idle", "wait", "done", "crashed"}

\* The values of the lock, the calls and the catalog.
TypeOK ==
    /\ lock \in Call \cup {Free}
    /\ pc \in [Call -> PC]
    /\ text \in [Call -> Seq(Call)]
    /\ catalog \in Seq(Call)
    /\ answer \in [Call -> {"none", "ok", "error"}]

\* Two calls never work under the lock at the same time.
MutualExclusion == \A c, d \in Holders : c = d

InCatalog(c) == \E i \in DOMAIN catalog : catalog[i] = c

\* An update that reported success is in the catalog, whatever the updates
\* after it did (node.go:390, "safely appends to a global distributed text
\* file").
NoLostEntry == \A c \in Call : answer[c] = "ok" => InCatalog(c)

\* Whatever goes wrong, an expired lock included, no entry is written twice,
\* and that of an update that returned an error is never written (its error
\* returns come before the pointer moves, node.go:405-458).
EntriesGenuine ==
    /\ \A i, j \in DOMAIN catalog : catalog[i] = catalog[j] => i = j
    /\ \A c \in Call : answer[c] = "error" => ~InCatalog(c)

\* The catalog only ever grows at its end: no step drops an entry that was
\* there before (node.go:390, "safely appends").
CatalogExtends ==
    [][/\ Len(catalog') >= Len(catalog)
       /\ \A i \in DOMAIN catalog : catalog'[i] = catalog[i]]_vars

\* The updates implement an append-only log with truthful answers.
Log == INSTANCE CatalogLog WITH log <- catalog
LogSpec == Log!Spec

\* Every call returns or dies with its node: a lock whose holder crashed, or
\* never learned that it had it, does not block the others for ever.
EveryCallEnds ==
    \A c \in Call : (pc[c] = "wait") ~> (pc[c] \in {"done", "crashed"})

\* The faults under which the lock does protect the catalog.
SafeFaults == {"cancel", "reply", "upload", "crash"}
=============================================================================
