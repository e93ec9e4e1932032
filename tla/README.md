# Tempo Zones: TLA+ models and proofs

A *zone* is a private chain anchored to the Tempo L1. This directory holds TLA+ models of the parts
of the repository in which a mistake is hard to find by testing, the TLC configurations that check
them on small instances, and proofs checked by TLAPS. `PROJECT.json` maps every definition to the
lines it models, and lists runs, mutants, hazards, findings and theorems.

## 1. The system: parts, state, operations

Funds enter through the L1 contract `ZonePortal` (escrow), are minted on the zone by the precompile
`ZoneInbox`, leave through the precompile `ZoneOutbox`, and are paid out on Tempo by
`ZonePortal.processWithdrawals`. A zone block begins by importing finalized Tempo blocks and ends by
finalizing its withdrawals; sequencers settle ranges of zone blocks with `submitBatch`, backed by a
quorum certificate. One sequencer at a time leads and produces blocks; the others follow it over p2p.

| Part | Source (`src/crates/...`) | State | Operations | Module |
| --- | --- | --- | --- | --- |
| Portal settlement core | `contracts/src/runtime/tempo/ZonePortal.sol`, `ZoneMessenger.sol`, `libraries/*QueueLib.sol` | deposit hash chain and cursor, withdrawal FIFO, refunds, escrow, reentrancy status | `deposit*`, `submitBatch`, `processWithdrawals`, `deliverWithdrawal`, `claimRefund` | `ZonePortal` |
| Portal governance | `ZonePortal.sol` | roles, sequencer set, leader and epoch, admin, pause, abdication | setters, `setLeader`, `pause`, `abdicate` | `PortalGovernance` |
| Inbox, outbox, Tempo state | `precompiles/src/{inbox,outbox,tempo_state}` | deposit cursor, parked refunds, pending withdrawals, fallback recipients, anchor | `advance_tempo*`, `request_withdrawal`, `finalize_withdrawal_batch`, `claim_refund` | `Bridge` |
| Block execution | `evm/src/executor.rs`, `payload/src/builder.rs` | phase of the block | order of system transactions, continuity check | `Bridge`, `L1Ingestion` |
| L1 subscriber, tracker, pause poller | `l1/src/{subscriber,pause}.rs` | finalized target, observed and pruned heights, pause, fork | sync, backfill, reconnect, recovery | `L1Ingestion` |
| Deposit queue | `l1/src/queue.rs` | pending L1 blocks, deferred work | enqueue, defer, confirm, restore | `DepositQueue` |
| Zone engine | `node/src/engine.rs` | head, selected headers | select, decide, build, confirm, forkchoice | `L1Ingestion` |
| Follower, role controller, schedule | `node/src/{follower,role}.rs`, `p2p/src/manifest.rs` | canonical chain, retained transitions | import, reconcile, switch role | `L1Ingestion` (part) |
| Settlement monitor | `sequencer/src/{monitor,settlement,settlement_manager}.rs` | cursor, prepared batches, anchors | restore the store, submit, resync; prepare | `WithdrawalProcessor` (part) |
| Withdrawal processor | `sequencer/src/withdrawals.rs` | store of slots, plan, nonces in flight | process, pipeline, drain, retry | `WithdrawalProcessor` |
| Attestations | `sequencer/src/attestation.rs`, `node/src/settlement_attestation.rs` | certificate | propose, sign, collect | planned |
| Backfill, p2p | `p2p/src/{runtime,backfill,routing}.rs`, `node/src/replication.rs` | pages, pending blocks | request, answer, import | planned |
| Encryption keys | `l1/src/encryption_keys.rs`, `ZonePortal.sol` | key history, ring | rotate, look up | planned |
| L1 state cache | `l1/src/state/*` | versioned values | read, invalidate | planned |
| Checker | `checker/src/*` | accounting, persistence | ingest, restart | planned |
| RPC filters | `rpc/src/*` | filters, sessions | install, poll, expire | planned |
| Batch rules of the proof function | `spf/src/*` | - | batch continuity | planned (trie: not) |
| Prover transport, other precompiles, router, tools, chain spec | `prover`, `precompiles`, `xtask`, `chainspec`, `primitives` | - | - | not modelled |

Hard behaviours: reentrant callbacks into the portal whose frames revert separately; amounts in
flight on two chains; order reversals in hash chains; bounce-backs of bounce-backs; threads sharing
queue, tracker and schedule behind separate locks; delayed duplicates; reconnects and restarts;
leadership handoffs in the middle of a batch; limits (deposit capacity, lookahead, headers per
block) that can make two sides wait for each other; receipts that time out for transactions mined
later; a bounded cache in front of an unbounded queue. `PROJECT.json` lists them as hazards.

## 2. Modules

**`ZonePortal`** keeps the contract's storage in one record, `portal`. One token stands for all, since
tokens never meet. A hash chain is the sequence it commits to. `processWithdrawals` is one
transaction but calls untrusted receivers, so it is modelled frame by frame: `frames` holds the
storage a revert returns to (outermost first), `todo` and `planned` the progress of the list.
`BeginProcessWithdrawals` and `EndProcessWithdrawals` are its entry and exit; `PayDirect`,
`BounceBack` and `DepositBounceBack` are its branches; `BeginDelivery`, `EndDelivery` and
`DeliveryFails` are `deliverWithdrawal`; `AbortProcessWithdrawals` is the revert of the transaction.
Whatever has no reentrancy guard (`Deposit`, `ClaimRefund`, `SubmitBatch`, `SetPaused`,
`SetAccessMode`) may also run inside a callback (`ExternalCode`).

**`WithdrawalLifecycle`** is the abstract promise for a withdrawal: unused, outgoing, then paid or
returning and returned, once.

**`Bridge`** composes `ZonePortal` with the zone: `zone` is the state of inbox, outbox and token,
`batches` what the zone has finalized, `kept` the burned fees. `advanceTempo` is taken deposit by
deposit (`AdvanceTempo`, `MintDeposit`, `FailDeposit`, `ReturnWithdrawal`, `EndAdvanceTempo`), which
is sound because no zone transaction comes in between. `FinalizeWithdrawalBatch` and `SealBlock` are
the two ways a block can end; `t13` is the hardfork from which a block that processed deposits may not
end without a batch, and `legacy` the deposits processed before it. The hash chain that
`finalize_withdrawal_batch` folds back to front is the sequence it commits to, in processing order; a
fold in the other direction is the mutant of `RequestOrderKept`. `SubmitZoneBatch` replaces the free
input of `SubmitBatch` by the zone's next batch; that the verifier and the certificate accept nothing
else is an assumption.

**`PortalGovernance`** is the rest of the portal's storage with a clock; one tick is a Tempo block.
`history` records the `LeaderUpdated` events, the interface to the zone nodes. A portal begins with
the leader `initialize` chose, or, created before leadership existed, with none and epoch 0.

**`DepositQueue`** gives the methods of the queue as operators on a record. **`L1Ingestion`** puts the
threads of one node around it. A step is what happens between two points where another thread's
access can matter: publishing a block's transition and pause, enqueueing it and recording it are
three steps; selecting headers, deciding, consuming and canonicalizing are four. `Crash` drops all
memory and returns to the persisted blocks. A block number stands for block and hash, since
finalized L1 does not reorganize. The peer is modelled by the blocks it can send (`PeerBlock`).
`Poll` joins the poller's two reads, and `Decide` the reads of tip, target, schedule and pause, which
the subscriber publishes before the block can be selected. `LeaderFor` leaves out the forced-recovery
override.

**`WithdrawalProcessor`** is the sequencer's payout side: `proc` and `inFlight` are one cycle of
`process_queue` and the receipt futures of `submit_and_confirm_batches`, one step per await; `mon` is
the monitor's work on the shared `store` (a restored page, a confirmed batch) and its restarts; the
portal is reduced to `head`, `tail`, `done` (the consumed part of the head slot) and the deposit
backlog, and L1 to a `mempool` and the nonce `lane`. A hash in a slot is the slot and the number of
consumed withdrawals, so a payload is `[slot, from]`. A transaction may be refused, dropped, replaced,
mined after its timeout, or revert. The lane is that of one sequencer: a `processWithdrawals` a former
leader left pending in its own lane is not modelled, and `NonceSlotPairing` speaks of one lane. A
`submitBatch` always uses the committed nonce, so a resubmission competes with what an earlier attempt
left behind: `batchPending` tells the two apart, and only the landing of the current one is a receipt
for the monitor (`Awaited`); otherwise it retries, finds the portal advanced and starts again. A
failed submission may also be lost for good, and must then be sent again. Of the batches only those
with withdrawals are listed (`Batches`); the others appear as `SettleDeposits`. Portal slot `i` is `i
+ 1` here.

## 3. Runs

| Run | Checks | Shows | Invariant in `src/invariants.md` |
| --- | --- | --- | --- |
| `portal` | `PortalTypeOK`, `UnprocessedBounded`, `QueueShape`, `BounceBackHasRoom` | the FIFO and the deposit cap survive reentrant deposits and reverting frames; the reserve always suffices | TEMPO-ZONE-WITHDRAWAL-QUEUE-FIFO, -WITHDRAWAL-POP-ONCE |
| `callback_deposits` | `AtMostOneDepositPerWithdrawal` (violated) | the comment on the reserve is too strong: one callback can deposit repeatedly below the public cap | - |
| `bridge` | `Solvency`, `BounceBacksResolvable`, `RequestOrderKept`, `BlocksSettleCompletely`, `CursorsAgree`, `EachRequestSettledOnce`, type | escrow equals all claims at every step; each request is settled once; refinement of `WithdrawalLifecycle` | -PORTAL-SOLVENCY, -SUPPLY-SOLVENCY, -DEPOSIT-PROCESSED-PREFIX, -WITHDRAWAL-HASH-LIFO-FIFO, -BOUNCEBACK-FUNDS-PRESERVED |
| `partial_prefix` | `PrefixCanEnd` (violated) | the comments in the inbox are too weak: `advanceTempo` ends only at the queue head of its anchor | - |
| `governance` | `GovTypeOK`, `LeadershipCoherent`, `LeaderScheduleFunctional`, `PauseBounded`, `AccessPolicyFrozen` | roles, array and leader agree; one leader per Tempo block; a running pause is never prolonged and pauses stop after abdication; an abdicated policy is final | -ADMIN-NONZERO |
| `ingestion`, `handoff` | `QueueMatchesChain`, `LookaheadBounded`, `OnlyTheLeaderProduces`, type | queue and deferred work fit the zone chain under faults and handoffs | - |
| `gates` | `PauseBlocksProduction`, `ForksFollowL1` | the pause gate and the hardfork gate hold under late polls and clock skew | - |
| `catch_up` | `CatchesUp` | no mutual waiting; the node keeps reaching the L1 tip | - |
| `processor` | `ProcessorTypeOK`, `StoreMatchesPortal`, `NonceSlotPairing`, `CapacityNeverRaces`, `PayloadKept` | the plan, its nonces and the cached payloads stay consistent with a portal that moves between the reads; the capacity check never fails | - |
| `drain` | `PayloadKept`, `QueueDrains` | with a cache of one slot every withdrawal is processed after the last fault | - |
| `consumed_before_canonical` | `ConsumedIsCanonical` (violated) | the queue is advanced before the final forkchoice update succeeds | - |

Bounds are in the `MC` modules, conjoined to the next-state relation, so the specifications stay
unbounded; only `WithdrawalProcessor` counts its faults itself (`MaxFaults`, any number in the
proofs). Portal: five deposits, two batches of up to three entries, capacity 4, reserve 2: enough to
fill the queue from a callback of each entry. Bridge: three queue entries, two batches, two requests:
a deposit, its withdrawal, its bounce-back and a second withdrawal, before and after T13. Governance:
three accounts and five Tempo blocks, in two stories that share the run: sets of up to two sequencers,
replaced twice (enough to add a leader, switch and remove the old one), without pauses; or pauses,
abdications and roles with one replacement of a one-member set. Ingestion: three or four L1 blocks, a
lookahead of one to three, two headers per block (one in `catch_up`) and one or two faults, so that a
batch crosses a boundary and the window is full; `LookaheadBounded` is checked while the node leads.
Processor: two batches of up to three withdrawals, a gas limit that splits a batch, two transactions
in flight, a cache and a page of two slots, capacity 3 with reserve 2, and three faults (timeouts,
drops, failed reads, lost receipts, pauses, shutdowns, crashes); `drain` has three slots, a cache of
one, one transaction in flight and two faults.

Deadlock is checked in `processor` and `drain`; it is off in the others, where users and L1 may do
nothing for ever and the bounds end behaviours. The forkchoice fault is combined only with a node that
leads throughout: see the finding.

**Fairness.** `catch_up`: weak fairness of the subscriber, the poller, the engine and the role
controller, which are loops that retry for ever, and of the arrival of the leader's blocks, which live
delivery and backfill repeat; none for L1, users, the clock or faults. `drain`: weak fairness of the
two tasks (loops with a fallback poll), of L1 mining what it can mine, of a confirm timeout for a
transaction that was lost, of a pause ending (`pauseExpiry`), of the supervisor's restart and of the
zone settling the deposits it has processed; without the last the backlog can stay full and
`headroom == 0` for ever. Faults are bounded in number, not fair.

## 4. Proofs

`ZonePortalProofs` proves for every value of the constants, from the assumptions named in
`ZonePortal` (amounts, fees and nonces are naturals, `1 <= Reserve <= MaxUnprocessed`, batches are
sequences of withdrawals):

- `PortalTypeCorrect`, `DepositCapacity`, `WithdrawalQueueWellFormed`, `ReserveSuffices`.

The inductive invariant `PortalIInv` joins the type, the two shape invariants and three facts no
property states: how `status` fixes the number of open frames (`FrameShape`), that the list being
processed is a prefix of the head slot (`ListInSlot`), and that the room left covers the entries left
(`RoomForRest`). The last is the reason `BounceBackHasRoom` holds: a callback spends at most the
reserved slot that its own entry no longer needs, all other deposits stop at the public cap.

`WithdrawalProcessorProofs` proves for every list of non-empty batches, `1 <= Reserve <=
MaxUnprocessed`, positive pipeline, cache and page sizes and any number of faults (assumption
`LimitsAssumption`):

- `ProcessorTypes`, `StoreIsFaithful`, `NoncePairsSlot`, `CapacityIsSafe`.

The inductive invariant `IInv` adds to the properties that the monitor's copies of head and tail are
never ahead of the portal (`MonitorInv`), that the plan is ordered and its nonce not ahead of the lane
(`ProcInv`), and `Room`: for the plan, and for every transaction pending or in flight (`TxInv`), the
larger of the backlog and the public cap, plus the withdrawals up to its end that are still to be
consumed, fits the capacity. Deposits cannot break `Room` because they stop at the public cap, and each
consumed withdrawal gives back the place it may use. `CapacityNeverRaces` alone is not inductive, since
the transactions before the pending one may fill the backlog.

Only model-checked: everything else. Liveness and `ENABLED` are out of the prover's reach.

## 5. What is abstracted or left out

Signatures, hashes, encryption and proofs are taken as sound; decryption and token policy are choices
of outcome. Deposits and withdrawals carry no memo or callback data. Fee rates, the RPC URL, token
pausing, the token registry and the encryption-key history are not modelled yet. `setPortal`-style
deployment, tools and configuration are not modelled.

## 6. Plan

Done: `ZonePortal` and `WithdrawalProcessor` with proofs, `Bridge`, `PortalGovernance`, `L1Ingestion`.

1. `SettlementMonitor`: the preparation task, its cursor and channel, stale anchors and proofs.
2. `Attestation`: a certificate binds set version, height and batch; the set may change meanwhile.
3. `LeadershipHandoff`: several nodes over one schedule, forced recovery; no two blocks at a height.
4. `FollowerSync`: pending buffer, backfill pages, lost and stale answers; liveness.
5. `EncryptionKeys`, `TokenEnablement`, `L1StateCache`; `Checker`; RPC filters; batch rules of `spf`.
6. Proofs: `PortalGovernance` (type, `LeadershipCoherent`, `LeaderScheduleFunctional`,
   `PauseBounded`); `PayloadKept`; `LookaheadBounded` and `QueueMatchesChain` of `L1Ingestion`; that
   every `Bridge` step is a `ZonePortal` step.
