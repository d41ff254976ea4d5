-------------------------- MODULE SessionLifecycle --------------------------
(***************************************************************************)
(* What a node promises the Coordinator about a session (the comments of   *)
(* session/Session.cc and ArrasSessions.cc), without threads, mutexes,     *)
(* requests or expiration: computations are started only by an operation,  *)
(* one operation at a time; a session becomes Defunct once all that ran    *)
(* for it was stopped, and stays so.                                       *)
(***************************************************************************)
CONSTANTS Sessions, Comps

VARIABLES
    status,             \* [Sessions -> {"absent", "Free", "Busy", "Defunct", "gone"}]
    running             \* [Sessions -> SUBSET Comps], not told to stop

vars == <<status, running>>

Init ==
    /\ status = [s \in Sessions |-> "absent"]
    /\ running = [s \in Sessions |-> {}]

Become(s, from, to) ==
    /\ status[s] \in from
    /\ status' = [status EXCEPT ![s] = to]
    /\ UNCHANGED running

Create(s) == Become(s, {"absent"}, "Free")

BeginOperation(s) == Become(s, {"Free"}, "Busy")

EndUpdate(s) == Become(s, {"Busy"}, "Free")

\* A delete, or the shutdown of the node, which need not make it Busy.
Retire(s) == running[s] = {} /\ Become(s, {"Free", "Busy"}, "Defunct")

\* The session could not be set up, and is forgotten.
Forget(s) == running[s] = {} /\ Become(s, {"Free", "Defunct"}, "gone")

Start(s, c) ==
    /\ status[s] = "Busy"
    /\ running' = [running EXCEPT ![s] = @ \cup {c}]
    /\ UNCHANGED status

\* Computations end or are told to stop, at any time.
Lose(s, lost) ==
    /\ running' = [running EXCEPT ![s] = @ \ lost]
    /\ UNCHANGED status

Next == \E s \in Sessions :
    \/ Create(s) \/ BeginOperation(s) \/ EndUpdate(s) \/ Retire(s) \/ Forget(s)
    \/ (\E c \in Comps : Start(s, c))
    \/ (\E lost \in SUBSET Comps : Lose(s, lost))

Spec == Init /\ [][Next]_vars
=============================================================================
