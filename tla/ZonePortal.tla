----------------------------- MODULE ZonePortal -----------------------------
(***************************************************************************)
(* The settlement core of the Tempo-side escrow contract ZonePortal.sol:   *)
(* the deposit queue, the FIFO of withdrawal batches, bounce-backs, parked *)
(* refunds, and the escrow that backs them.                                *)
(*                                                                         *)
(* One token stands for every token: balances, refunds and queue entries   *)
(* of different tokens never meet in the contract.  A hash chain is the    *)
(* sequence it commits to: the deposit queue hash is the sequence of all   *)
(* deposits made so far, and the hash stored in a withdrawal slot is the   *)
(* sequence of withdrawals left in it (the zero hash is <<>>).             *)
(*                                                                         *)
(* processWithdrawals is one Ethereum transaction, but it hands control to *)
(* untrusted receivers that may call back into the portal and whose frame  *)
(* may revert on its own.  It is therefore modelled frame by frame:        *)
(* "portal" is the contract's storage and "frames" the storage as it was   *)
(* when each revertable frame was entered, outermost first.                *)
(***************************************************************************)
EXTENDS Integers, Sequences

CONSTANTS
    Users,                 \* Tempo accounts that deposit and are paid
    Amounts,               \* amounts a user may deposit or withdraw
    DepositFees,           \* calculateDepositFee at the rates the admin may set
    BouncebackFees,        \* calculateBouncebackFee at the base fees Tempo may have
    Nonces,                \* fallback nonces of withdrawals; 0 marks a deposit bounce-back
    MaxUnprocessed,        \* MAX_UNPROCESSED_DEPOSITS
    Reserve,               \* WITHDRAWAL_PROCESSING_DEPOSIT_RESERVE
    BatchInputs            \* withdrawal lists an accepted batch may carry

Gas == {"none", "callback", "overcap"}

Withdrawal == [to : Users, amount : Nat, nonce : Nonces, gas : Gas]

ASSUME AmountsAssumption ==
    /\ Amounts \subseteq Nat
    /\ DepositFees \subseteq Nat
    /\ BouncebackFees \subseteq Nat
    /\ Nonces \subseteq Nat

ASSUME CapacityAssumption ==
    /\ MaxUnprocessed \in Nat
    /\ Reserve \in 1 .. MaxUnprocessed

ASSUME BatchInputsAssumption == BatchInputs \subseteq Seq(Withdrawal)

VARIABLES
    portal,    \* storage of the portal contract
    frames,    \* storage snapshots of the revertable frames now open
    todo,      \* withdrawals the running processWithdrawals call has left
    planned    \* length of the list that call was given

portalVars == <<portal, frames, todo, planned>>

NotEntered == 0            \* WITHDRAWAL_NOT_ENTERED
Processing == 1            \* WITHDRAWAL_PROCESSING
CallbackAvailable == 2     \* CALLBACK_DEPOSIT_AVAILABLE
CallbackConsumed == 3      \* CALLBACK_DEPOSIT_CONSUMED

QueueEntry ==
    [kind : {"deposit"}, to : Users, amount : Nat]
      \cup [kind : {"bounceback"}, nonce : Nonces, amount : Nat]

Storage ==
    [deposits : Seq(QueueEntry),          \* currentDepositQueueHash, depositCount
     lastProcessed : Nat,                 \* lastProcessedDepositNumber
     batchIndex : Nat,                    \* withdrawalBatchIndex
     slots : Seq(Seq(Withdrawal)),        \* _withdrawalQueue.slots below tail
     head : Nat,                          \* _withdrawalQueue.head (first slot is 1)
     refunds : [Users -> Nat],            \* refunds[token]
     escrow : Nat,                        \* balance the token holds for the portal
     status : 0 .. 3,                     \* _withdrawalReentrancyStatus
     paused : BOOLEAN,
     accessEnforced : BOOLEAN]            \* _isAccessEnforced

InitStorage(enforced) ==
    [deposits |-> <<>>, lastProcessed |-> 0, batchIndex |-> 0, slots |-> <<>>,
     head |-> 1, refunds |-> [u \in Users |-> 0], escrow |-> 0,
     status |-> NotEntered, paused |-> FALSE, accessEnforced |-> enforced]

PortalInit ==
    /\ \E enforced \in BOOLEAN : portal = InitStorage(enforced)
    /\ frames = <<>>
    /\ todo = 0
    /\ planned = 0

-----------------------------------------------------------------------------

\* depositCount - lastProcessedDepositNumber
Unprocessed(s) == Len(s.deposits) - s.lastProcessed

\* The code of other contracts runs: between transactions, or inside a callback.
ExternalCode == portal.status # Processing

HasWithdrawals(s) == s.head <= Len(s.slots)

\* Mutant: head advances after every withdrawal of a slot.
DequeueAlwaysAdvances(s) ==
    [s EXCEPT !.slots = [s.slots EXCEPT ![s.head] = Tail(s.slots[s.head])],
              !.head = s.head + 1]

\* WithdrawalQueueLib.dequeue of the first withdrawal of the head slot
Dequeue(s) ==
    LET rest == Tail(s.slots[s.head])
    IN  [s EXCEPT !.slots = [s.slots EXCEPT ![s.head] = rest],
                  !.head = IF rest = <<>> THEN s.head + 1 ELSE s.head]

\* _enqueueBounceBack, below the capacity that _recordDeposit enforces
EnqueueBounceBack(s, w) ==
    [s EXCEPT !.deposits = Append(s.deposits,
        [kind |-> "bounceback", nonce |-> w.nonce, amount |-> w.amount])]

\* Mutant: the reserved slot of a callback is not limited to one deposit.
DepositMaximumReserveReused(s) ==
    IF s.status \in {CallbackAvailable, CallbackConsumed} THEN MaxUnprocessed
                                                          ELSE MaxUnprocessed - Reserve

\* The cap _deposit applies: a callback may use one slot of the reserve.
DepositMaximum(s) ==
    IF s.status = CallbackAvailable THEN MaxUnprocessed ELSE MaxUnprocessed - Reserve

-----------------------------------------------------------------------------

\* deposit and depositEncrypted, from outside or from inside a callback
Deposit(to, amount, fee, bouncebackFee) ==
    /\ ExternalCode
    /\ ~portal.paused
    /\ amount >= fee + bouncebackFee
    /\ Unprocessed(portal) < DepositMaximum(portal)
    /\ portal' = [portal EXCEPT
          !.deposits = Append(portal.deposits,
              [kind |-> "deposit", to |-> to, amount |-> amount - fee]),
          !.escrow = portal.escrow + (amount - fee),
          !.status = IF portal.status = CallbackAvailable THEN CallbackConsumed
                                                          ELSE portal.status]
    /\ UNCHANGED <<frames, todo, planned>>

\* claimRefund that the token delivers; a refused transfer reverts the claim
ClaimRefund(u) ==
    /\ ExternalCode
    /\ portal.refunds[u] <= portal.escrow
    /\ portal' = [portal EXCEPT
          !.refunds = [portal.refunds EXCEPT ![u] = 0],
          !.escrow = portal.escrow - portal.refunds[u]]
    /\ UNCHANGED <<frames, todo, planned>>

\* Mutant: the check that the processed deposits exist is missing.
SubmitBatchOutOfRange(next, ws) ==
    /\ ExternalCode
    /\ next >= portal.lastProcessed
    /\ portal' = [portal EXCEPT
          !.batchIndex = portal.batchIndex + 1,
          !.lastProcessed = next,
          !.slots = IF ws = <<>> THEN portal.slots ELSE Append(portal.slots, ws)]
    /\ UNCHANGED <<frames, todo, planned>>

\* submitBatch with an accepted settlement: the zone processed deposits up to
\* "next" and finalized the withdrawals "ws"; like pause and setAccessMode it has
\* no reentrancy guard
SubmitBatch(next, ws) ==
    /\ ExternalCode
    /\ next >= portal.lastProcessed
    /\ next <= Len(portal.deposits)
    /\ portal' = [portal EXCEPT
          !.batchIndex = portal.batchIndex + 1,
          !.lastProcessed = next,
          !.slots = IF ws = <<>> THEN portal.slots ELSE Append(portal.slots, ws)]
    /\ UNCHANGED <<frames, todo, planned>>

\* pause, and resume or expiry of the pause
SetPaused ==
    /\ ExternalCode
    /\ portal' = [portal EXCEPT !.paused = ~portal.paused]
    /\ UNCHANGED <<frames, todo, planned>>

SetAccessMode ==
    /\ ExternalCode
    /\ portal' = [portal EXCEPT !.accessEnforced = ~portal.accessEnforced]
    /\ UNCHANGED <<frames, todo, planned>>

-----------------------------------------------------------------------------
(* processWithdrawals                                                      *)

NextWithdrawal == portal.slots[portal.head][1]

\* Entry of processWithdrawals with the first n withdrawals of the head slot.
\* Any other list fails the hash comparison of its first dequeue.
BeginProcessWithdrawals(n) ==
    /\ portal.status = NotEntered
    /\ ~portal.paused
    /\ HasWithdrawals(portal)
    /\ n \in 1 .. Len(portal.slots[portal.head])
    /\ n <= MaxUnprocessed - Unprocessed(portal)
    /\ portal' = [portal EXCEPT !.status = Processing]
    /\ frames' = <<portal>>
    /\ todo' = n
    /\ planned' = n

\* One withdrawal left the list without opening a frame.
Settle(s) ==
    /\ portal' = s
    /\ todo' = todo - 1
    /\ UNCHANGED <<frames, planned>>

AtWithdrawal == portal.status = Processing /\ todo > 0

\* Mutant: a transfer is taken for successful without the balance for it.
PayDirectUnchecked ==
    /\ AtWithdrawal
    /\ NextWithdrawal.nonce # 0
    /\ NextWithdrawal.gas = "none"
    /\ LET s == Dequeue(portal)
       IN  Settle([s EXCEPT !.escrow = s.escrow - NextWithdrawal.amount])

\* gasLimit = 0 and the transfer goes through
PayDirect ==
    /\ AtWithdrawal
    /\ NextWithdrawal.nonce # 0
    /\ NextWithdrawal.gas = "none"
    /\ NextWithdrawal.amount <= portal.escrow
    /\ LET s == Dequeue(portal)
       IN  Settle([s EXCEPT !.escrow = s.escrow - NextWithdrawal.amount])

\* A withdrawal that fails before its receiver is called: the recipient is no
\* longer allowed, the transfer fails, or the callback asks for more gas than
\* the portal forwards.
BounceBack ==
    /\ AtWithdrawal
    /\ NextWithdrawal.nonce # 0
    /\ Unprocessed(portal) < MaxUnprocessed
    /\ Settle(EnqueueBounceBack(Dequeue(portal), NextWithdrawal))

\* _processDepositBounceBack: the fee is kept only when its transfer succeeds,
\* and what the recipient cannot be paid is parked in refunds
DepositBounceBack(bouncebackFee, feePaid, paid) ==
    /\ AtWithdrawal
    /\ NextWithdrawal.nonce = 0
    /\ LET w == NextWithdrawal
           due == IF bouncebackFee > w.amount THEN w.amount ELSE bouncebackFee
           collected == IF feePaid THEN due ELSE 0
           refund == w.amount - collected
           out == IF paid THEN w.amount ELSE collected
           s == Dequeue(portal)
       IN  /\ out <= portal.escrow
           /\ Settle([s EXCEPT
                 !.escrow = s.escrow - out,
                 !.refunds = IF paid THEN s.refunds
                             ELSE [s.refunds EXCEPT ![w.to] = @ + refund]])

\* deliverWithdrawal up to the call of the receiver: the funds have left, and
\* everything from here on can be undone by a revert
BeginDelivery ==
    /\ AtWithdrawal
    /\ NextWithdrawal.nonce # 0
    /\ NextWithdrawal.gas = "callback"
    /\ NextWithdrawal.amount <= portal.escrow
    /\ LET s == Dequeue(portal)
       IN  portal' = [s EXCEPT !.escrow = s.escrow - NextWithdrawal.amount,
                               !.status = CallbackAvailable]
    /\ frames' = <<frames[1], portal>>
    /\ UNCHANGED <<todo, planned>>

InCallback == portal.status \in {CallbackAvailable, CallbackConsumed}

\* The receiver returned the expected selector.  Closed access demands that
\* something was deposited meanwhile.
EndDelivery ==
    /\ InCallback
    /\ portal.accessEnforced => portal.deposits # frames[2].deposits
    /\ portal' = [portal EXCEPT !.status = Processing]
    /\ frames' = <<frames[1]>>
    /\ todo' = todo - 1
    /\ UNCHANGED planned

\* The delivery frame reverted, at once or after the callback did something;
\* its withdrawal bounces back from the storage it had found.
DeliveryFails ==
    /\ InCallback
    /\ LET s == frames[2]
       IN  /\ Unprocessed(s) < MaxUnprocessed
           /\ portal' = EnqueueBounceBack(Dequeue(s), s.slots[s.head][1])
    /\ frames' = <<frames[1]>>
    /\ todo' = todo - 1
    /\ UNCHANGED planned

\* The transaction reverts as a whole: it ran out of gas, or _recordDeposit
\* found no room for a bounce-back.
AbortProcessWithdrawals ==
    /\ portal.status # NotEntered
    /\ portal' = frames[1]
    /\ frames' = <<>>
    /\ todo' = 0
    /\ planned' = 0

EndProcessWithdrawals ==
    /\ portal.status = Processing
    /\ todo = 0
    /\ portal' = [portal EXCEPT !.status = NotEntered]
    /\ frames' = <<>>
    /\ planned' = 0
    /\ UNCHANGED todo

-----------------------------------------------------------------------------

\* What users, the sequencer and the admin may do to the portal whatever the
\* zone finalized
PortalStep ==
    \/ \E u \in Users, a \in Amounts, f \in DepositFees, b \in BouncebackFees :
          Deposit(u, a, f, b)
    \/ \E u \in Users : ClaimRefund(u)
    \/ SetPaused
    \/ SetAccessMode
    \/ \E n \in 1 .. MaxUnprocessed : BeginProcessWithdrawals(n)
    \/ PayDirect
    \/ BounceBack
    \/ \E b \in BouncebackFees, feePaid, paid \in BOOLEAN :
          DepositBounceBack(b, feePaid, paid)
    \/ BeginDelivery
    \/ EndDelivery
    \/ DeliveryFails
    \/ AbortProcessWithdrawals
    \/ EndProcessWithdrawals

PortalNext ==
    \/ PortalStep
    \/ \E next \in 0 .. Len(portal.deposits) + 1, ws \in BatchInputs : SubmitBatch(next, ws)

PortalSpec == PortalInit /\ [][PortalNext]_portalVars

-----------------------------------------------------------------------------

\* Type correctness of the portal's storage, of the snapshots a revert returns to,
\* and of the progress of a processWithdrawals call.
PortalTypeOK ==
    /\ portal \in Storage
    /\ frames \in Seq(Storage)
    /\ todo \in Nat
    /\ planned \in Nat

\* The deposit queue never holds more unprocessed entries than one zone block
\* can process (MAX_UNPROCESSED_DEPOSITS), also in storage a revert restores:
\* _recordDeposit, the reserve and submitBatch's range check together.
UnprocessedBounded ==
    /\ Unprocessed(portal) \in 0 .. MaxUnprocessed
    /\ \A i \in 1 .. Len(frames) : Unprocessed(frames[i]) \in 0 .. MaxUnprocessed

QueueShapeOf(s) ==
    /\ s.head \in 1 .. Len(s.slots) + 1
    /\ \A i \in 1 .. Len(s.slots) : s.slots[i] = <<>> <=> i < s.head

\* WithdrawalQueueLib: exactly the slots from head up to tail hold a hash chain,
\* so an empty queue is head = tail and no batch is skipped or visited twice.
QueueShape ==
    /\ QueueShapeOf(portal)
    /\ \A i \in 1 .. Len(frames) : QueueShapeOf(frames[i])

\* A processWithdrawals call of at most WITHDRAWAL_PROCESSING_DEPOSIT_RESERVE
\* entries always finds room for its next bounce-back, however many deposits
\* its callbacks make: it cannot fail with DepositBlockCapacityExceeded half-way.
BounceBackHasRoom ==
    planned <= Reserve =>
        /\ AtWithdrawal => Unprocessed(portal) < MaxUnprocessed
        /\ InCallback => Unprocessed(frames[2]) < MaxUnprocessed

\* ZonePortal.sol says of the reserve: "Each withdrawal can append at most one
\* deposit".  A callback may append further ones below the public cap.
AtMostOneDepositPerWithdrawal ==
    portal.status = Processing =>
        Len(portal.deposits) - Len(frames[1].deposits) <= planned - todo
=============================================================================
