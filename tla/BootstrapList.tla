---------------------------- MODULE BootstrapList ----------------------------
(***************************************************************************)
(* What the bootstrap server promises the nodes: a list of at most         *)
(* MaxListed entries, in which a registration takes the place of one for   *)
(* the same peer or goes into free room, and which loses entries only by   *)
(* being deleted or lost as a whole.  The list's order is left out.        *)
(*                                                                         *)
(* Module Neighbourhood puts a node next to such a list; module Bootstrap, *)
(* the server itself, implements it.                                       *)
(***************************************************************************)
EXTENDS Naturals, FiniteSets

CONSTANTS
    Candidate,  \* the entries that nodes may register
    MaxListed   \* the maximum length of the list

VARIABLE listed     \* the entries of the list

\* The server takes two entries for the same peer by id, grpc or http.
Clash(e, f) ==
    e.id = f.id \/ e.ep.grpc = f.ep.grpc \/ e.ep.http = f.ep.http

\* One clashing entry is replaced; otherwise the entry is added if there is
\* room.
Registered(list, e) ==
    IF \E f \in list : Clash(f, e)
    THEN {(list \ {f}) \cup {e} : f \in {g \in list : Clash(g, e)}}
    ELSE IF Cardinality(list) < MaxListed THEN {list \cup {e}} ELSE {list}

-----------------------------------------------------------------------------
Init == listed = {}

\* POST /v1/register.
Register(e) == listed' \in Registered(listed, e)

\* The server restarts (its list is in memory only), or an entry is deleted
\* through DELETE /v1/peers/{id}.
Delist ==
    \/ listed' = {}
    \/ \E e \in listed : listed' = listed \ {e}

Next == (\E e \in Candidate : Register(e)) \/ Delist

Spec == Init /\ [][Next]_listed
=============================================================================
