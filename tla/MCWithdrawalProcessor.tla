------------------------ MODULE MCWithdrawalProcessor ------------------------
(***************************************************************************)
(* Instances of WithdrawalProcessor for TLC.  Two simple withdrawals fill a *)
(* transaction; a callback withdrawal exceeds the limit on its own.         *)
(***************************************************************************)
EXTENDS WithdrawalProcessor

Simple == [gasLimit |-> 0, fallbackNonce |-> 1]
Callback == [gasLimit |-> 2000000, fallbackNonce |-> 2]
DepositBounceBack == [gasLimit |-> 0, fallbackNonce |-> 0]

MCBatches == <<<<Simple, Simple, Callback>>, <<DepositBounceBack>>>>
MCManySlots == <<<<Simple>>, <<Simple>>, <<DepositBounceBack>>>>
============================================================================
