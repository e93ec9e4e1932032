------------------------------- MODULE Bridge -------------------------------
(***************************************************************************)
(* The bridge as a whole: the portal on Tempo (module ZonePortal) and, on  *)
(* the zone, the precompiles ZoneInbox, ZoneOutbox and TempoState driven   *)
(* by the order of transactions the zone's block executor enforces.        *)
(*                                                                         *)
(* The two chains meet twice.  A zone block imports a finalized Tempo      *)
(* block and consumes the deposits the portal had recorded there; and the  *)
(* portal accepts, in order, the batches the zone finalized.               *)
(*                                                                         *)
(* advanceTempo is one transaction; it is modelled deposit by deposit.     *)
(* No other zone transaction can come in between, and Tempo only appends   *)
(* to what the zone reads at its anchor.                                   *)
(***************************************************************************)
EXTENDS ZonePortal, Functions

CONSTANTS
    ZeroAddress,           \* address(0): no fallback recipient
    WithdrawalFees         \* calculate_fee_unchecked at the rates the sequencer may set

ASSUME WithdrawalFeesAssumption == WithdrawalFees \subseteq Nat

ASSUME ZeroAddressAssumption == ZeroAddress \notin Users

VARIABLES
    zone,      \* state of the zone's bridge precompiles and TIP-20 token
    batches,   \* every batch the zone has finalized, oldest first
    kept       \* withdrawal fees burned so far: escrow no one has a claim on

zoneVars == <<zone, batches, kept>>
bridgeVars == <<portalVars, zoneVars>>

ZoneState ==
    [phase : {"awaiting", "advancing", "executing"},  \* ZoneBlockPhase
     anchor : Nat,                        \* depositCount at the anchored Tempo block
     processed : Nat,                     \* processed_deposit_number
     opened : Nat,                        \* processed when this block was opened
     t13 : BOOLEAN,                       \* the T13 hardfork is active in this block
     legacy : Nat,                        \* processed when the last block before T13 ended
     balance : [Users -> Nat],            \* TIP-20 balances
     parked : [Users -> Nat],             \* withdrawal_bounce_backs
     pending : Seq(Withdrawal),           \* pending_withdrawals
     lastNonce : Nat,                     \* last_fallback_nonce
     fallback : [Nonces -> Users \cup {ZeroAddress}]]     \* fallback_recipients

\* A finalized batch: the deposit number reached and the withdrawals in it.
\* Its withdrawal_batch_index is its position in "batches".
Batch == [next : Nat, withdrawals : Seq(Withdrawal)]

BridgeInit ==
    /\ PortalInit
    /\ zone = [phase |-> "awaiting", anchor |-> 0, processed |-> 0, opened |-> 0,
               t13 |-> FALSE, legacy |-> 0,
               balance |-> [u \in Users |-> 0], parked |-> [u \in Users |-> 0],
               pending |-> <<>>, lastNonce |-> 0,
               fallback |-> [n \in Nonces |-> ZeroAddress]]
    /\ batches = <<>>
    /\ kept = 0

-----------------------------------------------------------------------------
(* Tempo as the zone sees it                                               *)

\* Storage at a block boundary: a running transaction is not visible yet.
Committed == IF frames = <<>> THEN portal ELSE frames[1]

\* Deposit counts of the Tempo blocks the zone may import next
NewAnchors == zone.anchor .. Len(Committed.deposits)

-----------------------------------------------------------------------------
(* Opening a zone block                                                    *)

\* What the blocks before T13 processed, seen by the block that opens next
Legacy == IF zone.t13 THEN zone.legacy ELSE zone.processed

\* advance_tempo, first step: the anchor moves to the imported block.  A hardfork
\* stays active once a block runs it.
AdvanceTempo(anchor, t13) ==
    /\ zone.phase = "awaiting"
    /\ zone.t13 => t13
    /\ zone' = [zone EXCEPT !.phase = "advancing", !.anchor = anchor,
                            !.opened = zone.processed, !.t13 = t13, !.legacy = Legacy]
    /\ UNCHANGED <<batches, kept, portalVars>>

\* advance_tempo_headers, since T13: the only transaction of its block, applies no
\* deposits
AdvanceTempoHeaders(anchor) ==
    /\ zone.phase = "awaiting"
    /\ zone' = [zone EXCEPT !.anchor = anchor, !.t13 = TRUE, !.legacy = Legacy]
    /\ UNCHANGED <<batches, kept, portalVars>>

NextDeposit == portal.deposits[zone.processed + 1]

AtDeposit(kind) ==
    /\ zone.phase = "advancing"
    /\ zone.processed < zone.anchor
    /\ NextDeposit.kind = kind

Credit(account, amount) == [zone.balance EXCEPT ![account] = @ + amount]

\* process_deposit: the payload decrypts and the mint succeeds
MintDeposit ==
    /\ AtDeposit("deposit")
    /\ zone' = [zone EXCEPT !.processed = @ + 1,
                            !.balance = Credit(NextDeposit.to, NextDeposit.amount)]
    /\ UNCHANGED <<batches, kept, portalVars>>

\* Mutant: a deposit that cannot be minted is skipped.
FailDepositDropped ==
    /\ AtDeposit("deposit")
    /\ zone' = [zone EXCEPT !.processed = @ + 1]
    /\ UNCHANGED <<batches, kept, portalVars>>

\* fail_deposit: the deposit goes back to Tempo as a withdrawal with nonce 0
FailDeposit ==
    /\ AtDeposit("deposit")
    /\ zone' = [zone EXCEPT !.processed = @ + 1,
                            !.pending = Append(@, [to |-> NextDeposit.to,
                                amount |-> NextDeposit.amount, nonce |-> 0, gas |-> "none"])]
    /\ UNCHANGED <<batches, kept, portalVars>>

\* Mutant: the fallback recipient stays registered after its bounce-back.
ReturnWithdrawalKeepsNonce(minted) ==
    /\ AtDeposit("bounceback")
    /\ LET recipient == zone.fallback[NextDeposit.nonce]
       IN  /\ recipient # ZeroAddress
           /\ zone' = [zone EXCEPT
                 !.processed = @ + 1,
                 !.balance = IF minted THEN Credit(recipient, NextDeposit.amount) ELSE @,
                 !.parked = IF minted THEN @
                            ELSE [@ EXCEPT ![recipient] = @ + NextDeposit.amount]]
    /\ UNCHANGED <<batches, kept, portalVars>>

\* process_withdrawal_bounce_back: the fallback recipient is consumed and
\* credited; what the token refuses to mint is parked
ReturnWithdrawal(minted) ==
    /\ AtDeposit("bounceback")
    /\ LET recipient == zone.fallback[NextDeposit.nonce]
       IN  /\ recipient # ZeroAddress
           /\ zone' = [zone EXCEPT
                 !.processed = @ + 1,
                 !.fallback = [@ EXCEPT ![NextDeposit.nonce] = ZeroAddress],
                 !.balance = IF minted THEN Credit(recipient, NextDeposit.amount) ELSE @,
                 !.parked = IF minted THEN @
                            ELSE [@ EXCEPT ![recipient] = @ + NextDeposit.amount]]
    /\ UNCHANGED <<batches, kept, portalVars>>

\* advance_tempo, last step: its deposits must reach the queue head of the anchor
EndAdvanceTempo ==
    /\ zone.phase = "advancing"
    /\ zone.processed = zone.anchor
    /\ zone' = [zone EXCEPT !.phase = "executing"]
    /\ UNCHANGED <<batches, kept, portalVars>>

-----------------------------------------------------------------------------
(* Transactions of zone users                                              *)

\* Mutant: the nonce counter is not advanced.
RequestWithdrawalNonceReused(u, amount, fee, gas) ==
    /\ zone.phase = "executing"
    /\ amount > 0
    /\ amount + fee <= zone.balance[u]
    /\ LET nonce == IF zone.lastNonce = 0 THEN 1 ELSE zone.lastNonce
       IN  /\ nonce \in Nonces
           /\ zone' = [zone EXCEPT
                 !.balance = [@ EXCEPT ![u] = @ - (amount + fee)],
                 !.lastNonce = nonce,
                 !.fallback = [@ EXCEPT ![nonce] = u],
                 !.pending = Append(@, [to |-> u, amount |-> amount,
                                        nonce |-> nonce, gas |-> gas])]
    /\ kept' = kept + fee
    /\ UNCHANGED <<batches, portalVars>>

\* Mutant: only the amount is checked against the balance, not the fee.
RequestWithdrawalFeeUnchecked(u, amount, fee, gas) ==
    /\ zone.phase = "executing"
    /\ amount > 0
    /\ amount <= zone.balance[u]
    /\ LET nonce == zone.lastNonce + 1
       IN  /\ nonce \in Nonces
           /\ zone' = [zone EXCEPT
                 !.balance = [@ EXCEPT ![u] = @ - (amount + fee)],
                 !.lastNonce = nonce,
                 !.fallback = [@ EXCEPT ![nonce] = u],
                 !.pending = Append(@, [to |-> u, amount |-> amount,
                                        nonce |-> nonce, gas |-> gas])]
    /\ kept' = kept + fee
    /\ UNCHANGED <<batches, portalVars>>

\* request_withdrawal: amount and fee are burned, and a fresh nonce remembers
\* whom to credit should the withdrawal bounce
RequestWithdrawal(u, amount, fee, gas) ==
    /\ zone.phase = "executing"
    /\ amount > 0
    /\ amount + fee <= zone.balance[u]
    /\ LET nonce == zone.lastNonce + 1
       IN  /\ nonce \in Nonces
           /\ zone' = [zone EXCEPT
                 !.balance = [@ EXCEPT ![u] = @ - (amount + fee)],
                 !.lastNonce = nonce,
                 !.fallback = [@ EXCEPT ![nonce] = u],
                 !.pending = Append(@, [to |-> u, amount |-> amount,
                                        nonce |-> nonce, gas |-> gas])]
    /\ kept' = kept + fee
    /\ UNCHANGED <<batches, portalVars>>

\* ZoneInbox.claim_refund; a refused mint reverts the claim
ClaimParked(u) ==
    /\ zone.phase = "executing"
    /\ zone' = [zone EXCEPT !.balance = Credit(u, zone.parked[u]),
                            !.parked = [@ EXCEPT ![u] = 0]]
    /\ UNCHANGED <<batches, kept, portalVars>>

-----------------------------------------------------------------------------
(* Closing a zone block                                                    *)

\* Mutant: the hash chain is folded from the oldest request on, which makes the
\* newest one the first to be processed.
FinalizeWithdrawalBatchReversed ==
    /\ zone.phase = "executing"
    /\ zone' = [zone EXCEPT !.phase = "awaiting", !.pending = <<>>]
    /\ batches' = Append(batches, [next |-> zone.processed,
          withdrawals |-> [i \in DOMAIN zone.pending |->
                             zone.pending[Len(zone.pending) + 1 - i]]])
    /\ UNCHANGED <<kept, portalVars>>

\* finalize_withdrawal_batch, the last transaction of its block
FinalizeWithdrawalBatch ==
    /\ zone.phase = "executing"
    /\ zone' = [zone EXCEPT !.phase = "awaiting", !.pending = <<>>]
    /\ batches' = Append(batches, [next |-> zone.processed, withdrawals |-> zone.pending])
    /\ UNCHANGED <<kept, portalVars>>

\* Mutant: a block that only processed deposits may end without a batch.
SealBlockDepositsUncovered ==
    /\ zone.phase = "executing"
    /\ zone.pending = <<>>
    /\ zone' = [zone EXCEPT !.phase = "awaiting"]
    /\ UNCHANGED <<batches, kept, portalVars>>

\* A block without a batch: finish() rejects it when it requested withdrawals, a
\* returned deposit included, and since T13 also when it processed deposits
SealBlock ==
    /\ zone.phase = "executing"
    /\ zone.pending = <<>>
    /\ zone.t13 => zone.processed = zone.opened
    /\ zone' = [zone EXCEPT !.phase = "awaiting"]
    /\ UNCHANGED <<batches, kept, portalVars>>

-----------------------------------------------------------------------------
(* Settlement                                                              *)

\* Mutant: any finalized batch is accepted, also one accepted before.
SubmitZoneBatchReplayed(i) ==
    /\ i \in DOMAIN batches
    /\ SubmitBatch(batches[i].next, batches[i].withdrawals)
    /\ UNCHANGED zoneVars

\* A sequencer submits the zone's i-th batch.  The verifier and the quorum
\* certificate bind withdrawalBatchIndex + 1, prevBlockHash and the deposit
\* transition, so the portal accepts only the successor of its last batch.
SubmitZoneBatch(i) ==
    /\ i \in DOMAIN batches
    /\ i = portal.batchIndex + 1
    /\ SubmitBatch(batches[i].next, batches[i].withdrawals)
    /\ UNCHANGED zoneVars

ZoneStep ==
    \/ \E anchor \in NewAnchors, t13 \in BOOLEAN : AdvanceTempo(anchor, t13)
    \/ \E anchor \in NewAnchors : AdvanceTempoHeaders(anchor)
    \/ MintDeposit
    \/ FailDeposit
    \/ \E minted \in BOOLEAN : ReturnWithdrawal(minted)
    \/ EndAdvanceTempo
    \/ \E u \in Users, a \in Amounts, f \in WithdrawalFees, g \in Gas :
          RequestWithdrawal(u, a, f, g)
    \/ \E u \in Users : ClaimParked(u)
    \/ FinalizeWithdrawalBatch
    \/ SealBlock

BridgeNext ==
    \/ PortalStep /\ UNCHANGED zoneVars
    \/ \E i \in 1 .. Len(batches) : SubmitZoneBatch(i)
    \/ ZoneStep

BridgeSpec == BridgeInit /\ [][BridgeNext]_bridgeVars

-----------------------------------------------------------------------------

\* Type correctness of both chains: in particular no balance, refund or escrow
\* is ever driven below zero.
BridgeTypeOK ==
    /\ PortalTypeOK
    /\ zone \in ZoneState
    /\ batches \in Seq(Batch)
    /\ kept \in Nat

Total(entries) == SumFunction([i \in DOMAIN entries |-> entries[i].amount])

TotalOf(lists) == SumFunction([i \in DOMAIN lists |-> Total(lists[i])])

\* Withdrawal lists of the batches the portal has not accepted yet
Unsubmitted(s) ==
    LET rest == SubSeq(batches, s.batchIndex + 1, Len(batches))
    IN  [i \in 1 .. Len(rest) |-> rest[i].withdrawals]

\* Everything someone can still claim from the escrow of storage s
Claims(s) ==
    Total(SubSeq(s.deposits, zone.processed + 1, Len(s.deposits)))
      + SumFunction(zone.balance) + SumFunction(zone.parked)
      + Total(zone.pending) + TotalOf(Unsubmitted(s))
      + TotalOf(s.slots) + SumFunction(s.refunds)

\* At every step of every transaction on either chain the escrow equals what is
\* owed: unminted deposits, zone balances, parked bounce-backs, withdrawals
\* pending, finalized or queued, and parked refunds, plus the burned fees.
\* Nothing is paid or minted twice and nothing is lost.
Solvency ==
    \A s \in {portal, Committed} : s.escrow = Claims(s) + kept

\* The withdrawals of storage s not yet settled there, oldest first
Outgoing(s) ==
    LET lists == s.slots \o Unsubmitted(s)
        Flat[i \in 0 .. Len(lists)] == IF i = 0 THEN <<>> ELSE Flat[i - 1] \o lists[i]
    IN  Flat[Len(lists)] \o zone.pending

\* The bounce-backs the zone has yet to process, in queue order
ReturningOf(s) ==
    SelectSeq(SubSeq(s.deposits, zone.processed + 1, Len(s.deposits)),
              LAMBDA e : e.kind = "bounceback")

\* consume_fallback_recipient never finds a nonce without a recipient, which
\* would make every later advanceTempo revert and stop the zone: each bounce-back
\* on its way, and each withdrawal that may still become one, has its own
\* registered nonce.
BounceBacksResolvable ==
    \A s \in {portal, Committed} :
        LET out == SelectSeq(Outgoing(s), LAMBDA w : w.nonce # 0)
            back == ReturningOf(s)
            nonces == [i \in 1 .. Len(out) + Len(back) |->
                         IF i <= Len(out) THEN out[i].nonce ELSE back[i - Len(out)].nonce]
        IN  /\ IsInjective(nonces)
            /\ \A i \in DOMAIN nonces : zone.fallback[nonces[i]] # ZeroAddress

\* Withdrawals keep the order of their requests from the outbox through the
\* batches and slots: nonces only grow along everything not yet settled.
RequestOrderKept ==
    LET out == SelectSeq(Outgoing(Committed), LAMBDA w : w.nonce # 0)
    IN  \A i, j \in DOMAIN out : i < j => out[i].nonce < out[j].nonce

\* The deposits the finalized batches cover
Covered == IF batches = <<>> THEN 0 ELSE batches[Len(batches)].next

\* Between blocks nothing waits in the outbox, and every deposit processed since
\* T13 is covered by a finalized batch, so that the batches alone settle the
\* zone; what earlier blocks left uncovered goes into the next batch
\* (ZoneBlockExecutor::finish).
BlocksSettleCompletely ==
    zone.phase = "awaiting" =>
        /\ zone.pending = <<>>
        /\ zone.t13 /\ zone.processed > zone.legacy => zone.processed = Covered

\* The portal's deposit cursor is the one of the last batch it accepted, and
\* never ahead of the zone.
CursorsAgree ==
    LET s == Committed
    IN  /\ s.batchIndex <= Len(batches)
        /\ s.lastProcessed = IF s.batchIndex = 0 THEN 0 ELSE batches[s.batchIndex].next
        /\ s.lastProcessed <= zone.processed
        /\ zone.processed <= Len(s.deposits)

\* The comment on step 3 of advance_tempo: "current_hash may be an ancestor of this
\* value when the sequencer processes only a bounded prefix of pending deposits"
\* and "requiring equality here would incorrectly forbid partial processing", so
\* the call can end after any prefix.
PrefixCanEnd == zone.phase = "advancing" => ENABLED EndAdvanceTempo

-----------------------------------------------------------------------------
(* Refinement                                                              *)

\* Where each request is, read off the committed state
Stage ==
    LET requests == Nonces \ {0}
        out == {w.nonce : w \in Range(Outgoing(Committed))}
        back == {e.nonce : e \in Range(ReturningOf(Committed))}
    IN  [n \in requests |->
           IF n > zone.lastNonce THEN "unused"
           ELSE IF zone.fallback[n] = ZeroAddress THEN "returned"
           ELSE IF n \in out THEN "outgoing"
           ELSE IF n \in back THEN "returning" ELSE "paid"]

Lifecycle == INSTANCE WithdrawalLifecycle WITH Requests <- Nonces \ {0}, stage <- Stage

\* Every request goes through the life cycle of WithdrawalLifecycle: it is paid
\* on Tempo or returned on the zone, exactly one of the two, at most once.
EachRequestSettledOnce == Lifecycle!LifecycleSpec
=============================================================================
