----------------------------- MODULE MessageLink -----------------------------
(***************************************************************************)
(* What two nodes of a session may expect of the routers between them:     *)
(* what one routes to the other arrives once at most; and in order, with   *)
(* nothing left out, until a connection fails or a node gives the session  *)
(* up.  To the nodes InOrder the order is kept even then.                  *)
(***************************************************************************)
EXTENDS Naturals, Sequences, SequencesExt

CONSTANTS Nodes, Other(_), InOrder

VARIABLES
    sent,           \* [Nodes -> messages it has routed to the other]
    got,            \* [Nodes -> the messages that came from the other]
    lossy           \* a connection failed or the session was given up

vars == <<sent, got, lossy>>

LastGot(n) == IF got[n] = <<>> THEN 0 ELSE Last(got[n])

Init ==
    /\ sent = [n \in Nodes |-> 0]
    /\ got = [n \in Nodes |-> <<>>]
    /\ lossy = FALSE

Send(n) ==
    /\ sent' = [sent EXCEPT ![n] = @ + 1]
    /\ UNCHANGED <<got, lossy>>

Deliver(n, m) ==
    /\ m \in (1 .. sent[Other(n)]) \ Range(got[n])
    /\ n \in InOrder => m > LastGot(n)
    /\ lossy \/ m = LastGot(n) + 1
    /\ got' = [got EXCEPT ![n] = Append(@, m)]
    /\ UNCHANGED <<sent, lossy>>

Fail ==
    /\ lossy' = TRUE
    /\ UNCHANGED <<sent, got>>

Next ==
    \/ Fail
    \/ \E n \in Nodes : Send(n) \/ \E m \in 1 .. sent[Other(n)] : Deliver(n, m)

Spec == Init /\ [][Next]_vars
=============================================================================
