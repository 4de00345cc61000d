---------------------------- MODULE Subscription ----------------------------
(***************************************************************************)
(* What `serve` promises to a page that holds /api/stream open: it is sent *)
(* newer and newer states, possibly skipping some, and as long as it stays *)
(* it is sent the latest one in the end.                                   *)
(***************************************************************************)
EXTENDS Naturals

CONSTANT Clients

VARIABLES
    version,    \* the number of the latest state
    open,       \* the pages that subscribe
    received    \* the latest state each page was sent; 0 for none

vars == <<version, open, received>>

Init ==
    /\ version = 1
    /\ open = {}
    /\ received = [c \in Clients |-> 0]

Publish ==
    /\ version' = version + 1
    /\ UNCHANGED <<open, received>>

Join(c) ==
    /\ c \notin open
    /\ open' = open \cup {c}
    /\ UNCHANGED <<version, received>>

Deliver(c) ==
    /\ c \in open
    /\ \E v \in received[c] + 1 .. version : received' = [received EXCEPT ![c] = v]
    /\ UNCHANGED <<version, open>>

Leave(c) ==
    /\ c \in open
    /\ open' = open \ {c}
    /\ received' = [received EXCEPT ![c] = 0]
    /\ UNCHANGED version

Next == Publish \/ \E c \in Clients : Join(c) \/ Deliver(c) \/ Leave(c)

Spec == Init /\ [][Next]_vars

FairSpec == Spec /\ \A c \in Clients : WF_vars(Deliver(c))
=============================================================================
