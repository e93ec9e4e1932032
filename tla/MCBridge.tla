------------------------------ MODULE MCBridge ------------------------------
(* Small instances of Bridge.                                              *)
EXTENDS Bridge, TLC

CONSTANTS
    MaxDeposits,    \* entries ever appended to the deposit queue
    MaxBatches      \* batches ever finalized

MCNext ==
    /\ BridgeNext
    /\ Len(portal'.deposits) <= MaxDeposits
    /\ Len(batches') <= MaxBatches
    /\ portal'.paused = portal.paused                  \* pausing and access
    /\ portal'.accessEnforced = portal.accessEnforced  \* changes: MCZonePortal

MCSpec == BridgeInit /\ [][MCNext]_bridgeVars
=============================================================================
