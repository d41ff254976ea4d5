------------------------- MODULE ComputationLifecycle -------------------------
(***************************************************************************)
(* What a computation may rely on, whoever hosts it: it is configured with *)
(* "initialize" first and "start" next; only between a "start" that        *)
(* succeeded and the "stop" that then follows it without fail is it given  *)
(* messages and idle time; messages come in the order they were sent,      *)
(* each once, none after it threw; and it is in one call at a time.        *)
(***************************************************************************)
EXTENDS Naturals

VARIABLES
    phase,      \* how far its life has come
    call,       \* the call it is in, or "none"
    message     \* the last message it was given

vars == <<phase, call, message>>

Init == phase = "loaded" /\ call = "none" /\ message = 0

Call(in, op) ==
    /\ phase = in
    /\ call = "none"
    /\ call' = op
    /\ UNCHANGED <<phase, message>>

\* configure(op) returns, or throws, and its life goes on as "next".
Returned(op, next) ==
    /\ call = op
    /\ call' = "none"
    /\ phase' = next
    /\ UNCHANGED message

Initialize ==
    \/ Call("loaded", "initialize")
    \/ Returned("initialize", "initialized")
    \/ Returned("initialize", "over")

Start ==
    \/ Call("initialized", "start")
    \/ Returned("start", "started")
    \/ Returned("start", "failed")

OnMessage ==
    /\ phase = "started"
    /\ call = "none"
    /\ call' = "onMessage"
    /\ message' = message + 1
    /\ UNCHANGED phase

Handle ==
    \/ OnMessage
    \/ Call("started", "onIdle")
    \/ \E op \in {"onMessage", "onIdle"}, next \in {"started", "broken"} :
            Returned(op, next)

Stop ==
    \/ \E in \in {"started", "broken"} : Call(in, "stop")
    \/ Returned("stop", "stopped")

\* The process ends.
End ==
    /\ phase \in {"loaded", "initialized", "failed", "stopped"}
    /\ call = "none"
    /\ phase' = "over"
    /\ UNCHANGED <<call, message>>

Next == Initialize \/ Start \/ Handle \/ Stop \/ End

Spec == Init /\ [][Next]_vars
================================================================================
