---------------------------- MODULE MCCoordinator ----------------------------
(* A small instance of Coordinator for TLC.                                *)
EXTENDS Coordinator

Fixed(cores, memory, entry) == [minCores |-> cores, maxCores |-> cores, memory |-> memory, entry |-> entry]
AtLeast(cores, memory) == [minCores |-> cores, maxCores |-> All, memory |-> memory, entry |-> FALSE]

\* Either session fits on the two nodes, not both; of the first a part fits
\* on one.
MCDefinition == << <<AtLeast(1, 2), Fixed(1, 2, TRUE)>>, <<AtLeast(1, 2)>> >>
MCTotal == << [cores |-> 2, memory |-> 2], [cores |-> 2, memory |-> 3] >>
=============================================================================
