------------------------ MODULE WithdrawalLifecycle ------------------------
(***************************************************************************)
(* What the bridge promises for one withdrawal request: once it has been   *)
(* burned on the zone it is on its way to Tempo, and from there it is      *)
(* either paid, or sent back and returned to the zone's fallback           *)
(* recipient.  It is never both, and never settled twice.                  *)
(***************************************************************************)
CONSTANT Requests

VARIABLE stage

Stages == {"unused", "outgoing", "paid", "returning", "returned"}

LifecycleInit == stage = [n \in Requests |-> "unused"]

\* ZoneOutbox.requestWithdrawal
Request(n) ==
    /\ stage[n] = "unused"
    /\ stage' = [stage EXCEPT ![n] = "outgoing"]

\* One processWithdrawals transaction settles several requests at once.
SettleOnTempo(paid, failed) ==
    /\ paid \cap failed = {}
    /\ \A n \in paid \cup failed : stage[n] = "outgoing"
    /\ stage' = [n \in Requests |-> IF n \in paid THEN "paid"
                                    ELSE IF n \in failed THEN "returning" ELSE stage[n]]

\* ZoneInbox credits or parks the bounce-back for the fallback recipient.
Return(n) ==
    /\ stage[n] = "returning"
    /\ stage' = [stage EXCEPT ![n] = "returned"]

LifecycleNext ==
    \/ \E n \in Requests : Request(n) \/ Return(n)
    \/ \E paid, failed \in SUBSET Requests : SettleOnTempo(paid, failed)

LifecycleSpec == LifecycleInit /\ [][LifecycleNext]_stage
=============================================================================
