---------------------------- MODULE RenderedFrame ----------------------------
(***************************************************************************)
(* What a frame promises the application (RenderContext.h, RenderDriver.h),*)
(* without threads, work queue or render driver: the film changes only     *)
(* between the start of a frame and its end, every sample of it is taken   *)
(* once, a frame is ready for display when every tile has a sample (enough *)
(* of them when several machines share it) or when it is over, it is       *)
(* complete only with every sample, and only ends incomplete if a stop was *)
(* asked for.                                                              *)
(***************************************************************************)
EXTENDS Integers, FiniteSets

CONSTANTS
    NumTiles,
    Settings,           \* render mode and number of machines of a frame
    NumPasses(_)        \* passes of a frame with these settings

VARIABLES
    frame,              \* "idle", "requested", "rendering" or "over"
    fs,                 \* its settings
    film,               \* [pass, tile -> times it was rendered]
    ready,              \* isFrameReadyForDisplay
    complete,           \* isFrameComplete
    asked               \* what the application asked for: "stop", "boundary"

vars == <<frame, fs, film, ready, complete, asked>>

Samples(s) == (0 .. NumPasses(s) - 1) \X (0 .. NumTiles - 1)
Blank(s) == [x \in Samples(s) |-> 0]
Taken == {x \in DOMAIN film : film[x] > 0}

Init ==
    /\ frame = "idle"
    /\ fs \in Settings
    /\ film = Blank(fs)
    /\ ready = FALSE
    /\ complete = FALSE
    /\ asked = {}

StartFrame ==
    /\ frame = "idle"
    /\ frame' = "requested"
    /\ fs' \in Settings
    /\ ready' = FALSE
    /\ complete' = FALSE
    /\ asked' = {}
    /\ UNCHANGED film

Clear ==
    /\ frame = "requested"
    /\ frame' = "rendering"
    /\ film' = Blank(fs)
    /\ UNCHANGED <<fs, ready, complete, asked>>

Ask(what) ==
    /\ asked' = asked \cup {what}
    /\ UNCHANGED <<frame, fs, film, ready, complete>>

Render(x) ==
    /\ frame = "rendering"
    /\ film[x] = 0
    /\ film' = [film EXCEPT ![x] = 1]
    /\ UNCHANGED <<frame, fs, ready, complete, asked>>

\* A sample of every tile on one machine, a share of the tiles on several.
Show ==
    /\ frame = "rendering"
    /\ \/ "boundary" \in asked
       \/ fs.nodes = 1 /\ \A t \in 0 .. NumTiles - 1 : film[<<0, t>>] = 1
       \/ fs.nodes > 1 /\ Taken # {} /\ Cardinality(Taken) >= NumTiles \div fs.nodes
    /\ ready' = TRUE
    /\ UNCHANGED <<frame, fs, film, complete, asked>>

Complete ==
    /\ frame = "rendering"
    /\ "boundary" \in asked \/ Taken = Samples(fs)
    /\ ready' = TRUE
    /\ complete' = TRUE
    /\ UNCHANGED <<frame, fs, film, asked>>

End ==
    /\ frame = "rendering"
    /\ complete \/ asked # {}
    /\ frame' = "over"
    /\ ready' = TRUE
    /\ UNCHANGED <<fs, film, complete, asked>>

Stop ==
    /\ frame = "over"
    /\ frame' = "idle"
    /\ UNCHANGED <<fs, film, ready, complete, asked>>

Next ==
    \/ StartFrame \/ Clear \/ Show \/ Complete \/ End \/ Stop
    \/ \E what \in {"stop", "boundary"} : Ask(what)
    \/ \E x \in DOMAIN film : Render(x)

Spec == Init /\ [][Next]_vars
=============================================================================
