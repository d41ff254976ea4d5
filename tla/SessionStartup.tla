--------------------------- MODULE SessionStartup ---------------------------
(***************************************************************************)
(* What the Coordinator promises about the start of a session ("allocation *)
(* of hosts to a distributed session and coordinated startup"), without    *)
(* requests, events or resources: a session gets its hosts all at once,    *)
(* nothing of it runs before every one of its computations is ready, and   *)
(* the client's engine is ready when every node was told to run.           *)
(***************************************************************************)
CONSTANTS Nodes, None, Sessions, CompsOf(_)

VARIABLES
    host,               \* [Sessions -> [computation -> node]]
    launched,           \* [Sessions -> nodes the session was launched on]
    ready,              \* [Sessions -> computations]
    told,               \* [Sessions -> nodes that were told to run it]
    engineReady         \* sessions whose entry node was told so

vars == <<host, launched, ready, told, engineReady>>

HostsOf(s) == {host[s][i] : i \in CompsOf(s)}

Init ==
    /\ host = [s \in Sessions |-> [i \in CompsOf(s) |-> None]]
    /\ launched = [s \in Sessions |-> {}]
    /\ ready = [s \in Sessions |-> {}]
    /\ told = [s \in Sessions |-> {}]
    /\ engineReady = {}

Allocate(s) ==
    /\ None \in HostsOf(s)
    /\ \E h \in [CompsOf(s) -> Nodes] : host' = [host EXCEPT ![s] = h]
    /\ UNCHANGED <<launched, ready, told, engineReady>>

Launch(s, n) ==
    /\ n \in HostsOf(s) \ launched[s]
    /\ launched' = [launched EXCEPT ![s] = @ \cup {n}]
    /\ UNCHANGED <<host, ready, told, engineReady>>

Ready(s, i) ==
    /\ host[s][i] \in launched[s]
    /\ i \notin ready[s]
    /\ ready' = [ready EXCEPT ![s] = @ \cup {i}]
    /\ UNCHANGED <<host, launched, told, engineReady>>

Run(s, n) ==
    /\ ready[s] = CompsOf(s)
    /\ n \in HostsOf(s) \ told[s]
    /\ told' = [told EXCEPT ![s] = @ \cup {n}]
    /\ UNCHANGED <<host, launched, ready, engineReady>>

EngineReady(s) ==
    /\ told[s] = HostsOf(s)
    /\ s \notin engineReady
    /\ engineReady' = engineReady \cup {s}
    /\ UNCHANGED <<host, launched, ready, told>>

Next == \E s \in Sessions :
    \/ Allocate(s) \/ EngineReady(s)
    \/ \E n \in Nodes : Launch(s, n) \/ Run(s, n)
    \/ \E i \in CompsOf(s) : Ready(s, i)

Spec == Init /\ [][Next]_vars
=============================================================================
