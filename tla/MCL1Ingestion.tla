--------------------------- MODULE MCL1Ingestion ---------------------------
(* Small instances of L1Ingestion.                                         *)
EXTENDS L1Ingestion, TLC

CONSTANTS
    MaxL1,      \* finalized L1 blocks
    MaxFaults,  \* faults in a behaviour
    Polling     \* whether the pause poller runs; it only matters where L1
                \* pauses the portal or passes a hardfork

VARIABLE faults

mcVars == <<vars, faults>>

Header(events, leader, fork, paused, signalled) ==
    [events |-> events, leader |-> leader, fork |-> fork, paused |-> paused,
     signalled |-> signalled]

\* This node leads throughout; blocks with and without portal events.
LedHeaders == {Header(e, "self", 1, FALSE, FALSE) : e \in BOOLEAN}

\* Leadership moves between this node and a peer.
HandoffHeaders ==
    {Header(TRUE, l, 1, FALSE, FALSE) : l \in {"self", "peer"}}

\* The portal is paused, resumed, or the pause expires; L1 passes hardforks.
GateHeaders ==
    {Header(TRUE, "self", 0, p, s) : p \in BOOLEAN, s \in BOOLEAN} \cup
    {Header(TRUE, "self", f, FALSE, FALSE) : f \in 1 .. 2}

\* A hardfork, and a peer that leads before it.
MixedHeaders ==
    {Header(TRUE, "self", 1, FALSE, FALSE), Header(TRUE, "self", 2, FALSE, FALSE),
     Header(TRUE, "peer", 1, FALSE, FALSE)}

MCInit == IngestionInit /\ faults = 0

MCNext ==
    /\ \/ Steady /\ UNCHANGED faults
       \/ Polling /\ Poll /\ UNCHANGED faults
       \/ Fault /\ faults' = faults + 1
    /\ faults' <= MaxFaults
    /\ Len(l1') <= MaxL1

MCSpec == MCInit /\ [][MCNext]_mcVars

MCFairSpec == MCSpec /\ IngestionFairness
=============================================================================
