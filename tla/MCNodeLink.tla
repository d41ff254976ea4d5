------------------------------ MODULE MCNodeLink ------------------------------
(* Small instances of NodeLink for TLC.                                    *)
EXTENDS NodeLink

\* The lesser node, which has to be called back, sends two messages.
MCMessages == <<2, 1>>

\* The greater node sends enough to find its connection closed and to be
\* about to queue another message.
MCMessagesBothWays == <<2, 2>>
=============================================================================
