-------------------------- MODULE ProcessLifecycle --------------------------
(***************************************************************************)
(* What Process promises its users (the comments of execute/Process.h and  *)
(* of spawn and terminate in Process.cc), without threads, mutexes, memory *)
(* or an exit monitor: the state only moves forward, a Terminated process  *)
(* has no child left, and only a child that was sent SIGKILL and did not   *)
(* die is written off while it may still be alive.                         *)
(***************************************************************************)
CONSTANT Procs

VARIABLES
    state,              \* [Procs -> ProcessState]
    child,              \* [Procs -> {"none", "alive", "gone"}]
    killed              \* processes that were sent SIGKILL

vars == <<state, child, killed>>

Init ==
    /\ state = [p \in Procs |-> "NotSpawned"]
    /\ child = [p \in Procs |-> "none"]
    /\ killed = {}

Move(p, from, to) ==
    /\ state[p] \in from
    /\ state' = [state EXCEPT ![p] = to]

Start(p) ==
    /\ Move(p, {"NotSpawned"}, "Spawned")
    /\ child' = [child EXCEPT ![p] = "alive"]
    /\ UNCHANGED killed

\* Starting failed, or the process was stopped before it was started.
NeverRan(p) ==
    /\ Move(p, {"NotSpawned"}, "Terminated")
    /\ UNCHANGED <<child, killed>>

Stop(p) ==
    /\ Move(p, {"Spawned"}, "Terminating")
    /\ UNCHANGED <<child, killed>>

Kill(p) ==
    /\ state[p] = "Terminating"
    /\ killed' = killed \cup {p}
    /\ UNCHANGED <<state, child>>

\* The child ends, at any time.
ChildEnds(p) ==
    /\ child[p] = "alive"
    /\ child' = [child EXCEPT ![p] = "gone"]
    /\ UNCHANGED <<state, killed>>

NoteExit(p) ==
    /\ child[p] = "gone"
    /\ Move(p, {"Spawned", "Terminating"}, "Terminated")
    /\ UNCHANGED <<child, killed>>

WriteOff(p) ==
    /\ p \in killed
    /\ Move(p, {"Terminating"}, "Terminated")
    /\ UNCHANGED <<child, killed>>

Next == \E p \in Procs :
    \/ Start(p) \/ NeverRan(p) \/ Stop(p) \/ Kill(p)
    \/ ChildEnds(p) \/ NoteExit(p) \/ WriteOff(p)

Spec == Init /\ [][Next]_vars

\* A Terminated process has no child, unless it was sent SIGKILL in vain.
TerminatedIsOver ==
    \A p \in Procs : state[p] = "Terminated" => child[p] # "alive" \/ p \in killed
=============================================================================
