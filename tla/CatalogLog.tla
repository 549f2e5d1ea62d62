----------------------------- MODULE CatalogLog -----------------------------
(***************************************************************************)
(* What PeerHost.UpdateGlobalCatalog promises: the global catalog is a log *)
(* to which every call appends its entry in one step, at most once, and    *)
(* the answer of a call tells whether its entry is in the log.  A call     *)
(* whose node crashes never answers.                                       *)
(***************************************************************************)
EXTENDS Naturals, Sequences

CONSTANT Call       \* the calls of UpdateGlobalCatalog, one entry each

VARIABLES
    log,        \* the entries of the catalog, in order
    answer      \* for every call, "none", "ok" or "error"

vars == <<log, answer>>

Logged(c) == \E i \in DOMAIN log : log[i] = c

Init ==
    /\ log = <<>>
    /\ answer = [c \in Call |-> "none"]

AppendEntry(c) ==
    /\ answer[c] = "none"
    /\ ~Logged(c)
    /\ log' = Append(log, c)
    /\ UNCHANGED answer

Answer(c) ==
    /\ answer[c] = "none"
    /\ answer' = [answer EXCEPT ![c] = IF Logged(c) THEN "ok" ELSE "error"]
    /\ UNCHANGED log

Next == \E c \in Call : AppendEntry(c) \/ Answer(c)

Spec == Init /\ [][Next]_vars
=============================================================================
