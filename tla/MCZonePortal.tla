---------------------------- MODULE MCZonePortal ----------------------------
(* Small instances of ZonePortal.                                          *)
EXTENDS ZonePortal, TLC

CONSTANTS
    MaxDeposits,    \* deposits ever made
    MaxBatches      \* batches ever accepted

\* One withdrawal of each kind the portal tells apart
MCWithdrawal(u, nonce, gas) == [to |-> u, amount |-> 1, nonce |-> nonce, gas |-> gas]

MCBatchInputs ==
    LET any == {MCWithdrawal(u, 1, g) : u \in Users, g \in Gas}
                 \cup {MCWithdrawal(u, 0, "none") : u \in Users}
        cb == {MCWithdrawal(u, 1, "callback") : u \in Users}
    IN  {<<>>} \cup {<<w>> : w \in any} \cup {<<v, w>> : v \in cb, w \in any}
          \cup {<<u, v, w>> : u, v, w \in cb}

MCNext ==
    /\ PortalNext
    /\ Len(portal'.deposits) <= MaxDeposits
    /\ portal'.batchIndex <= MaxBatches

MCSpec == PortalInit /\ [][MCNext]_portalVars
=============================================================================
