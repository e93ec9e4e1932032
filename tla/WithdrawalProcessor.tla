------------------------- MODULE WithdrawalProcessor -------------------------
(***************************************************************************)
(* The withdrawal processor of the zone sequencer, its in-memory store of   *)
(* withdrawal payloads, the part of the settlement monitor that fills and   *)
(* repairs the store, and the portal's withdrawal queue behind a mempool.   *)
(* Slot i holds the withdrawals Batches[i].  The hash in a slot identifies  *)
(* the slot and how many of its withdrawals are consumed, so a list of      *)
(* withdrawals is written [slot, from]: those of the slot after "from".     *)
(***************************************************************************)
EXTENDS Naturals, Sequences, FiniteSets, FiniteSetsExt, Functions

CONSTANTS
    Batches,              \* the non-empty withdrawal batches the zone settles
    MaxUnprocessed,       \* MAX_UNPROCESSED_DEPOSITS
    Reserve,              \* WITHDRAWAL_BOUNCEBACK_RESERVE
    MaxBatchGas,          \* max_batch_gas
    MaxInFlight,          \* max_in_flight_batches
    MaxCachedSlots,       \* MAX_CACHED_WITHDRAWAL_SLOTS
    PageSize,             \* WITHDRAWAL_RECOVERY_PAGE_SIZE
    MaxFaults             \* bound on the faults of a behaviour

Withdrawal == [gasLimit : Nat, fallbackNonce : Nat]

ASSUME LimitsAssumption ==
    /\ Batches \in Seq(Seq(Withdrawal) \ {<<>>})
    /\ MaxUnprocessed \in Nat
    /\ Reserve \in 1 .. MaxUnprocessed
    /\ {MaxInFlight, MaxCachedSlots, PageSize} \subseteq Nat \ {0}
    /\ {MaxBatchGas, MaxFaults} \subseteq Nat

VARIABLES
    head, tail,     \* the portal's withdrawalQueueHead and withdrawalQueueTail
    done,           \* withdrawals already consumed from the head slot
    unprocessed,    \* depositCount - lastProcessedDepositNumber
    paused,         \* the portal is paused
    lane,           \* committed nonce of PROCESS_WITHDRAWAL_NONCE_KEY
    mempool,        \* pending processWithdrawals transactions
    batchPending,   \* the pending submitBatch transactions, all with the same nonce
    store,          \* WithdrawalStore.batches
    repair,         \* the permit of repair_notify
    proc,           \* the cycle of the processor
    inFlight,       \* state of each transaction the processor waits for
    mon,            \* the monitor's step
    stopping,       \* the shutdown token is cancelled
    faults          \* faults so far

portalVars == <<head, tail, done, unprocessed, paused>>
l1Vars == <<lane, mempool, batchPending>>
procVars == <<proc, inFlight>>
vars == <<portalVars, l1Vars, store, repair, procVars, mon, stopping, faults>>

Slot == 1 .. Len(Batches)
Tx == [nonce : Nat, slot : Slot, from : Nat, to : Nat]
TxState == {"new", "sent", "ok", "reverted", "error"}
List == [slot : Nat, from : Nat]
\* The submission the monitor waits for, and what an attempt before it left behind.
Submission == {"earlier", "current"}
ProcState ==
    [pc : {"idle", "bounds", "store", "nonce", "slot", "headroom", "submit", "stopped"},
     slot : Nat, tail : Nat, list : List, nonce : Nat, from : Nat, next : Nat, limit : Nat,
     retry : BOOLEAN]
MonState ==
    [pc : {"start", "bounds", "slot", "recheck", "apply", "idle", "retry", "submitting",
           "landed"},
     startup : BOOLEAN, cursor : Nat, head : Nat, page : Nat, tail : Nat, from : Nat]

Idle == [pc |-> "idle", slot |-> 0, tail |-> 0, list |-> [slot |-> 0, from |-> 0],
         nonce |-> 0, from |-> 0, next |-> 0, limit |-> 0, retry |-> FALSE]
Starting == [pc |-> "start", startup |-> TRUE, cursor |-> 0, head |-> 0, page |-> 0,
             tail |-> 0, from |-> 0]
Nothing == [x \in {} |-> x]

ProcessorInit ==
    /\ head = 1 /\ tail = 1 /\ done = 0 /\ unprocessed = 0 /\ paused = FALSE
    /\ lane = 0 /\ mempool = {} /\ batchPending = {}
    /\ store = Nothing /\ repair = FALSE
    /\ proc = Idle /\ inFlight = Nothing /\ mon = Starting
    /\ stopping = FALSE /\ faults = 0

Size(i) == Len(Batches[i])
AtLeast(a, b) == IF a >= b THEN a ELSE b
AtMost(a, b) == IF a <= b THEN a ELSE b
Fault == faults < MaxFaults /\ faults' = faults + 1

-----------------------------------------------------------------------------
(* Planning                                                                *)

MAX_WITHDRAWAL_GAS_LIMIT == 10000000
PROCESS_WITHDRAWAL_TX_OVERHEAD_GAS == 500000

process_withdrawal_item_gas(w) ==
    CASE w.fallbackNonce = 0 -> 1250000
      [] w.fallbackNonce # 0 /\ w.gasLimit = 0 -> 1000000
      [] OTHER -> 1750000 + AtMost(w.gasLimit, MAX_WITHDRAWAL_GAS_LIMIT)

\* The gas planned for one transaction with the withdrawals from+1 .. to.
PlannedGas(slot, from, to) ==
    PROCESS_WITHDRAWAL_TX_OVERHEAD_GAS +
    MapThenSumSet(LAMBDA i : process_withdrawal_item_gas(Batches[slot][i]), from + 1 .. to)

\* build_withdrawal_batches closes the batch that begins after "from" at "to":
\* it fits or is a single withdrawal, and one withdrawal more would not fit.
EndsBatch(slot, from, limit, to) ==
    /\ to > from + 1 => PlannedGas(slot, from, to) <= MaxBatchGas
    /\ to < limit => PlannedGas(slot, from, to + 1) > MaxBatchGas

withdrawal_deposit_headroom == MaxUnprocessed - AtMost(unprocessed, MaxUnprocessed)

-----------------------------------------------------------------------------
(* The processor: one step per await of process_queue and of               *)
(* submit_and_confirm_batches                                              *)

Becomes(p) == proc' = p
OnlyProc == UNCHANGED <<portalVars, l1Vars, inFlight, mon, stopping, faults>>

\* run is woken by a notification or by the fallback poll, and the portal is
\* not paused.
Wake ==
    /\ proc.pc = "idle" /\ ~stopping /\ ~paused
    /\ Becomes([proc EXCEPT !.pc = "bounds"])
    /\ OnlyProc /\ UNCHANGED <<store, repair>>

Stop ==
    /\ proc.pc = "idle" /\ stopping
    /\ Becomes([proc EXCEPT !.pc = "stopped"])
    /\ OnlyProc /\ UNCHANGED <<store, repair>>

ReadBounds ==
    /\ proc.pc = "bounds"
    /\ Becomes(IF stopping THEN Idle
               ELSE [proc EXCEPT !.pc = "store", !.slot = head, !.tail = tail])
    /\ OnlyProc /\ UNCHANGED <<store, repair>>

\* Mutant: a missing head slot is only logged.
TakeBatchSilently ==
    LET known == proc.slot # proc.tail /\ proc.slot \in DOMAIN store
    IN  /\ proc.pc = "store"
        /\ store' = Restrict(store, {i \in DOMAIN store : i >= proc.slot})
        /\ Becomes(IF known THEN [proc EXCEPT !.pc = "nonce", !.list = store[proc.slot]] ELSE Idle)
        /\ OnlyProc /\ UNCHANGED repair

\* remove_before and the snapshot of the store; a missing head asks for repair.
TakeBatch ==
    LET pending == proc.slot # proc.tail
        known == proc.slot \in DOMAIN store
    IN  /\ proc.pc = "store"
        /\ store' = Restrict(store, {i \in DOMAIN store : i >= proc.slot})
        /\ repair' = (repair \/ (pending /\ ~known))
        /\ Becomes(IF pending /\ known
                     THEN [proc EXCEPT !.pc = "nonce", !.list = store[proc.slot]]
                     ELSE Idle)
        /\ OnlyProc

ReadNonce ==
    /\ proc.pc = "nonce"
    /\ Becomes([proc EXCEPT !.pc = "slot", !.nonce = lane])
    /\ OnlyProc /\ UNCHANGED <<store, repair>>

\* find_processed_offset: the hash in the slot is that of a suffix of the list.
find_processed_offset(list, slot) == list.slot = slot /\ list.from <= done

\* A slot below the head is cleared, its hash is zero.
ReadSlot ==
    LET cleared == proc.slot < head
        found == find_processed_offset(proc.list, proc.slot)
    IN  /\ proc.pc = "slot"
        /\ repair' = (repair \/ (~cleared /\ ~found))
        /\ Becomes(IF ~cleared /\ found
                     THEN [proc EXCEPT !.pc = "headroom", !.from = done]
                     ELSE Idle)
        /\ OnlyProc /\ UNCHANGED store

\* Mutant: the reserve does not limit what is admitted.
AdmittedUpToHeadroom(slot, from) ==
    AtMost(Size(slot) - from, withdrawal_deposit_headroom)

Admitted(slot, from) ==
    AtMost(AtMost(Size(slot) - from, withdrawal_deposit_headroom), Reserve)

\* Mutant: the nonce is read after the slot.
ReadHeadroomNonceLast ==
    /\ proc.pc = "headroom"
    /\ Becomes(IF withdrawal_deposit_headroom = 0 \/ stopping THEN Idle
               ELSE [proc EXCEPT !.pc = "submit", !.next = proc.from, !.nonce = lane,
                                 !.limit = proc.from + Admitted(proc.slot, proc.from)])
    /\ OnlyProc /\ UNCHANGED <<store, repair>>

ReadHeadroom ==
    /\ proc.pc = "headroom"
    /\ Becomes(IF withdrawal_deposit_headroom = 0 \/ stopping THEN Idle
               ELSE [proc EXCEPT !.pc = "submit", !.next = proc.from,
                                 !.limit = proc.from + Admitted(proc.slot, proc.from)])
    /\ OnlyProc /\ UNCHANGED <<store, repair>>

\* A read fails and process_queue returns the error (the fee estimate, which
\* changes nothing before or after, fails with the read of the headroom).
ReadFails ==
    /\ proc.pc \in {"bounds", "nonce", "slot", "headroom"}
    /\ Fault
    /\ Becomes(Idle)
    /\ UNCHANGED <<portalVars, l1Vars, store, repair, inFlight, mon, stopping>>

CanPush ==
    /\ ~proc.retry /\ ~stopping
    /\ Cardinality(DOMAIN inFlight) < MaxInFlight
    /\ proc.next < proc.limit

\* The next batch of the plan enters the bounded set of receipt futures.
PushBatch ==
    /\ proc.pc = "submit" /\ CanPush
    /\ \E to \in proc.next + 1 .. proc.limit :
          /\ EndsBatch(proc.slot, proc.next, proc.limit, to)
          /\ LET tx == [nonce |-> proc.nonce, slot |-> proc.slot, from |-> proc.next, to |-> to]
             IN  inFlight' = [t \in DOMAIN inFlight \cup {tx} |->
                                IF t = tx THEN "new" ELSE inFlight[t]]
          /\ Becomes([proc EXCEPT !.next = to, !.nonce = proc.nonce + 1])
    /\ UNCHANGED <<portalVars, l1Vars, store, repair, mon, stopping, faults>>

Waiting == proc.pc = "submit" /\ ~CanPush

\* send_sync hands the transaction to an L1 node, which takes the place of a
\* pending transaction with its nonce or refuses it; a used nonce is refused.
Send(t) ==
    /\ Waiting /\ inFlight[t] = "new"
    /\ \/ /\ t.nonce >= lane
          /\ mempool' = {m \in mempool : m.nonce # t.nonce} \cup {t}
          /\ inFlight' = [inFlight EXCEPT ![t] = "sent"]
       \/ /\ t.nonce < lane \/ \E m \in mempool : m.nonce = t.nonce
          /\ inFlight' = [inFlight EXCEPT ![t] = "error"]
          /\ UNCHANGED mempool
    /\ UNCHANGED <<portalVars, lane, batchPending, store, repair, proc, mon, stopping, faults>>

Without(t) == Restrict(inFlight, DOMAIN inFlight \ {t})

\* in_flight.next() yields a receipt or an error.
Drain(t) ==
    /\ Waiting /\ inFlight[t] \in {"ok", "reverted", "error"}
    /\ inFlight' = Without(t)
    /\ Becomes([proc EXCEPT !.retry = proc.retry \/ inFlight[t] # "ok"])
    /\ UNCHANGED <<portalVars, l1Vars, store, repair, mon, stopping, faults>>

\* A transaction that cannot be mined: it, or one with a lower nonce, is lost.
Stuck(t) ==
    \E n \in lane .. t.nonce : \A m \in mempool \cup DOMAIN inFlight :
        m.nonce = n => m \notin mempool /\ inFlight[m] # "new"

\* PROCESS_WITHDRAWAL_CONFIRM_TIMEOUT; of a transaction that could still be
\* mined it is a fault.
TimesOut(t) ==
    /\ Waiting /\ inFlight[t] \in {"new", "sent"}
    /\ IF inFlight[t] = "sent" /\ Stuck(t) THEN UNCHANGED faults ELSE Fault
    /\ inFlight' = Without(t)
    /\ Becomes([proc EXCEPT !.retry = TRUE])
    /\ UNCHANGED <<portalVars, l1Vars, store, repair, mon, stopping>>

\* Mutant: a confirmed prefix of the slot is taken for the whole slot.
FullyAdmittedAlways == TRUE

fully_admitted == proc.limit = Size(proc.slot)

\* The outcome is Confirmed, or Retry or Cancelled.
Finish ==
    LET confirmed == ~proc.retry /\ proc.next = proc.limit
    IN  /\ Waiting /\ DOMAIN inFlight = {}
        /\ store' = IF confirmed /\ fully_admitted
                      THEN Restrict(store, DOMAIN store \ {proc.slot}) ELSE store
        /\ Becomes(IF confirmed THEN [Idle EXCEPT !.pc = "bounds"] ELSE Idle)
        /\ OnlyProc /\ UNCHANGED repair

-----------------------------------------------------------------------------
(* The monitor: restoring a page of the store, settling the next batch     *)

OnlyMon == UNCHANGED <<portalVars, lane, mempool, procVars, stopping>>
BackTo(startup) == IF startup THEN Starting ELSE [mon EXCEPT !.pc = "idle"]

\* new_with_provider resolves the portal's anchor before it restores the store.
StartMonitor ==
    /\ mon.pc = "start"
    /\ mon' = [mon EXCEPT !.pc = "bounds", !.cursor = tail]
    /\ OnlyMon /\ UNCHANGED <<batchPending, store, repair, faults>>

BeginRefill ==
    /\ mon.pc = "idle" /\ repair /\ ~stopping
    /\ repair' = FALSE
    /\ mon' = [mon EXCEPT !.pc = "bounds"]
    /\ OnlyMon /\ UNCHANGED <<batchPending, store, faults>>

\* Step 1 of fetch_pending_withdrawals: an empty queue yields an empty page.
ReadPageBounds ==
    /\ mon.pc = "bounds"
    /\ mon' = [mon EXCEPT !.pc = IF head = tail THEN "apply" ELSE "slot", !.head = head,
                          !.page = AtMost(tail, head + PageSize), !.tail = tail]
    /\ OnlyMon /\ UNCHANGED <<batchPending, store, repair, faults>>

\* Steps 2 to 5: events and zone logs never change, the head slot does.  The
\* hash of a cleared slot is never used, since its head has moved.
ReadPageSlot ==
    /\ mon.pc = "slot"
    /\ mon' = [mon EXCEPT !.pc = "recheck", !.from = done]
    /\ OnlyMon /\ UNCHANGED <<batchPending, store, repair, faults>>

\* The queue must still begin at the head the page was read for.
RecheckPage ==
    /\ mon.pc = "recheck"
    /\ mon' = IF head # mon.head \/ tail < mon.page THEN BackTo(mon.startup)
              ELSE [mon EXCEPT !.pc = "apply", !.tail = tail]
    /\ OnlyMon /\ UNCHANGED <<batchPending, store, repair, faults>>

\* Mutant: the slots nearest to the head are evicted.
CachedFarthest(slots) == {i \in slots : Cardinality({j \in slots : j > i}) < MaxCachedSlots}

\* The slots kept of a set of candidates: the farthest tail is evicted.
Cached(slots) == {i \in slots : Cardinality({j \in slots : j < i}) < MaxCachedSlots}

\* Mutant: the consumed prefix of the head is cut from every slot of the page.
TrimmedAlways(i) == mon.from

\* resolve_pending_slots: only the head slot can be partly processed.
Trimmed(i) == IF i = mon.head THEN mon.from ELSE 0

replace_page ==
    LET page == mon.head .. mon.page - 1
        kept == {i \in DOMAIN store : mon.head <= i /\ i < mon.tail}
    IN  [i \in Cached(page \cup kept) |->
            IF i \in page THEN [slot |-> i, from |-> Trimmed(i)]
                          ELSE store[i]]

ApplyPage ==
    /\ mon.pc = "apply"
    /\ store' = replace_page
    /\ mon' = [mon EXCEPT !.pc = "idle", !.startup = FALSE]
    /\ OnlyMon /\ UNCHANGED <<batchPending, repair, faults>>

RestoreFails ==
    /\ mon.pc \in {"start", "bounds", "slot", "recheck"}
    /\ Fault
    /\ mon' = BackTo(mon.startup)
    /\ OnlyMon /\ UNCHANGED <<batchPending, store, repair>>

\* One attempt of submit_ready_batch: a portal that is not at the batch's
\* predecessor makes the monitor start again.  The nonce is the committed one,
\* so an earlier submission still pending competes for it: L1 takes the new one
\* too, or refuses it and the attempt is retried until the retries are used up.
SubmitBatch ==
    /\ mon.pc = "retry" \/ (mon.pc = "idle" /\ ~repair /\ ~stopping)
    /\ mon.cursor \in Slot
    /\ \/ /\ tail = mon.cursor
          /\ batchPending' = {"current"} \cup IF batchPending = {} THEN {} ELSE {"earlier"}
          /\ mon' = [mon EXCEPT !.pc = "submitting"]
       \/ /\ tail = mon.cursor /\ batchPending # {}
          /\ mon' \in {[mon EXCEPT !.pc = "retry"], Starting}
          /\ UNCHANGED batchPending
       \/ /\ tail # mon.cursor
          /\ mon' = Starting
          /\ UNCHANGED batchPending
    /\ OnlyMon /\ UNCHANGED <<store, repair, faults>>

\* add_batch under the queue index of the BatchSubmitted event; a full cache
\* drops the payload.
ConfirmBatch ==
    LET i == mon.tail
        full == Cardinality(DOMAIN store) >= MaxCachedSlots /\ i \notin DOMAIN store
    IN  /\ mon.pc = "landed"
        /\ store' = IF full THEN store
                    ELSE [j \in DOMAIN store \cup {i} |->
                            IF j = i THEN [slot |-> mon.cursor, from |-> 0] ELSE store[j]]
        /\ mon' = [mon EXCEPT !.pc = "idle", !.cursor = mon.cursor + 1]
        /\ OnlyMon /\ UNCHANGED <<batchPending, repair, faults>>

\* Mutant: a submission that timed out is awaited, not sent again.
SubmissionFailsForGood ==
    /\ mon.pc \in {"submitting", "landed"}
    /\ Fault
    /\ mon' \in {[mon EXCEPT !.pc = "submitting"], Starting}
    /\ batchPending' \in {batchPending, {}}
    /\ OnlyMon /\ UNCHANGED <<store, repair>>

\* The submission never reaches L1, is dropped or its receipt is lost: the
\* attempt is retried, or the retries are used up and the monitor starts again.
SubmissionFails ==
    /\ mon.pc \in {"submitting", "landed"}
    /\ Fault
    /\ mon' \in {[mon EXCEPT !.pc = "retry"], Starting}
    /\ batchPending' \in {batchPending, {}}
    /\ OnlyMon /\ UNCHANGED <<store, repair>>

-----------------------------------------------------------------------------
(* Tempo L1                                                                *)

OnlyL1 == UNCHANGED <<store, repair, proc, stopping>>

\* The monitor has the receipt of its own submission; when an earlier one takes
\* the nonce, its own is refused and the attempt is retried.
Awaited(submission) ==
    IF mon.pc # "submitting" THEN mon
    ELSE IF submission = "current" THEN [mon EXCEPT !.pc = "landed", !.tail = tail]
    ELSE [mon EXCEPT !.pc = "retry"]

\* Mutant: a resubmitted batch is accepted a second time.
BatchLandsTwice ==
    \E submission \in batchPending :
        /\ batchPending' = batchPending \ {submission}
        /\ tail' = tail + 1
        /\ mon' = Awaited(submission)
        /\ OnlyL1 /\ UNCHANGED <<head, done, unprocessed, paused, lane, mempool, inFlight, faults>>

\* submitBatch: the batch takes the slot at the tail, and one of the pending
\* submissions the nonce of all.
BatchLands ==
    \E submission \in batchPending :
        /\ batchPending' = {}
        /\ tail' = tail + 1
        /\ unprocessed' \in 0 .. unprocessed
        /\ mon' = Awaited(submission)
        /\ OnlyL1 /\ UNCHANGED <<head, done, paused, lane, mempool, inFlight, faults>>

\* A batch without withdrawals settles deposits the zone has processed.
SettleDeposits ==
    /\ unprocessed > 0
    /\ unprocessed' \in 0 .. unprocessed - 1
    /\ OnlyL1 /\ UNCHANGED <<head, tail, done, paused, l1Vars, inFlight, mon, faults>>

PublicDeposit ==
    /\ ~paused /\ unprocessed < MaxUnprocessed - Reserve
    /\ unprocessed' = unprocessed + 1
    /\ OnlyL1 /\ UNCHANGED <<head, tail, done, paused, l1Vars, inFlight, mon, faults>>

\* The list is the first part of what the head slot commits to.
Fits(t) == t.slot = head /\ head < tail /\ t.from = done
Preflight(t) == t.to - t.from <= MaxUnprocessed - unprocessed
Executes(t) == ~paused /\ Fits(t) /\ Preflight(t)

\* processWithdrawals: each withdrawal may append a bounce-back or the deposit
\* its callback has a reserved place for, and callbacks may deposit up to the
\* public cap.
Consume(t) ==
    /\ head' = IF t.to = Size(head) THEN head + 1 ELSE head
    /\ done' = IF t.to = Size(head) THEN 0 ELSE t.to
    /\ unprocessed' \in unprocessed .. AtMost(MaxUnprocessed,
          AtLeast(unprocessed, MaxUnprocessed - Reserve) + (t.to - t.from))

Mined(t) ==
    /\ t.nonce = lane
    /\ lane' = lane + 1
    /\ mempool' = {m \in mempool : m.nonce > lane}
    /\ UNCHANGED <<tail, paused, batchPending, mon, faults>>
    /\ OnlyL1

\* The receipt future of the mined transaction resolves; another transaction
\* with its nonce is refused.
Resolve(t, outcome) ==
    inFlight' = [x \in DOMAIN inFlight |->
        IF inFlight[x] = "sent" /\ x.nonce = t.nonce
          THEN IF x = t THEN outcome ELSE "error"
          ELSE inFlight[x]]

Include(t) ==
    /\ Mined(t) /\ Executes(t)
    /\ Consume(t)
    /\ Resolve(t, "ok")

Revert(t) ==
    /\ Mined(t) /\ ~Executes(t)
    /\ Resolve(t, "reverted")
    /\ UNCHANGED <<head, done, unprocessed>>

DropTx(t) ==
    /\ Fault
    /\ mempool' = mempool \ {t}
    /\ OnlyL1 /\ UNCHANGED <<portalVars, lane, batchPending, inFlight, mon>>

Pause ==
    /\ ~paused /\ Fault
    /\ paused' = TRUE
    /\ OnlyL1 /\ UNCHANGED <<head, tail, done, unprocessed, l1Vars, inFlight, mon>>

Unpause ==
    /\ paused /\ paused' = FALSE
    /\ OnlyL1 /\ UNCHANGED <<head, tail, done, unprocessed, l1Vars, inFlight, mon, faults>>

-----------------------------------------------------------------------------
(* Shutdown, crash, restart                                                *)

Shutdown ==
    /\ ~stopping /\ Fault
    /\ stopping' = TRUE
    /\ UNCHANGED <<portalVars, l1Vars, store, repair, procVars, mon>>

\* spawn_zone_sequencer begins with an empty store.
Spawn ==
    /\ store' = Nothing /\ repair' = FALSE
    /\ proc' = Idle /\ inFlight' = Nothing /\ mon' = Starting
    /\ stopping' = FALSE
    /\ UNCHANGED <<portalVars, l1Vars>>

Restart == proc.pc = "stopped" /\ Spawn /\ UNCHANGED faults

Crash == Fault /\ Spawn

-----------------------------------------------------------------------------

ProcessorStep ==
    \/ Wake \/ Stop \/ ReadBounds \/ TakeBatch \/ ReadNonce \/ ReadSlot \/ ReadHeadroom
    \/ PushBatch \/ Finish
    \/ \E t \in DOMAIN inFlight : Send(t) \/ Drain(t)

MonitorStep ==
    \/ StartMonitor \/ BeginRefill \/ ReadPageBounds \/ ReadPageSlot \/ RecheckPage \/ ApplyPage
    \/ SubmitBatch \/ ConfirmBatch

Mine == \E t \in mempool : Include(t) \/ Revert(t)

TimeOut == \E t \in DOMAIN inFlight : TimesOut(t)

Expire == \E t \in DOMAIN inFlight : inFlight[t] = "sent" /\ Stuck(t) /\ TimesOut(t)

ProcessorNext ==
    \/ ProcessorStep \/ MonitorStep \/ Mine \/ BatchLands \/ SettleDeposits \/ PublicDeposit
    \/ TimeOut \/ ReadFails \/ RestoreFails \/ SubmissionFails
    \/ \E t \in mempool : DropTx(t)
    \/ Pause \/ Unpause \/ Shutdown \/ Restart \/ Crash

ProcessorSpec == ProcessorInit /\ [][ProcessorNext]_vars

\* The tasks run, L1 includes what it can, pauses expire and the zone settles
\* the deposits it has processed.
ProcessorFairness ==
    /\ WF_vars(ProcessorStep) /\ WF_vars(MonitorStep) /\ WF_vars(Mine)
    /\ WF_vars(BatchLands) /\ WF_vars(SettleDeposits)
    /\ WF_vars(Expire) /\ WF_vars(Unpause) /\ WF_vars(Restart)

ProcessorFairSpec == ProcessorSpec /\ ProcessorFairness

-----------------------------------------------------------------------------
(* Properties                                                              *)

\* Types of the state of processor, store, monitor and L1.
ProcessorTypeOK ==
    /\ head \in Nat /\ tail \in Nat /\ head <= tail /\ tail <= Len(Batches) + 1
    /\ done \in Nat /\ unprocessed \in 0 .. MaxUnprocessed /\ paused \in BOOLEAN
    /\ lane \in Nat /\ mempool \subseteq Tx /\ batchPending \subseteq Submission
    /\ DOMAIN store \subseteq Slot /\ \A i \in DOMAIN store : store[i] \in List
    /\ repair \in BOOLEAN
    /\ proc \in ProcState
    /\ DOMAIN inFlight \subseteq Tx /\ \A t \in DOMAIN inFlight : inFlight[t] \in TxState
    /\ mon \in MonState
    /\ stopping \in BOOLEAN /\ faults \in 0 .. MaxFaults

\* The payload cached for a pending slot is that slot's, and not trimmed beyond
\* what the portal has consumed: find_processed_offset always finds the
\* offset ("Store data does not match the head slot's on-chain hash").
StoreMatchesPortal ==
    \A i \in DOMAIN store : i >= head =>
        /\ i < tail
        /\ store[i].slot = i
        /\ store[i].from <= IF i = head THEN done ELSE 0

\* process_queue never pairs "a stale slot snapshot with a newer nonce": if the
\* nonce it read is still the next one, the suffix it plans is the queue's.
NonceSlotPairing ==
    proc.pc = "headroom" \/ (proc.pc = "submit" /\ proc.next = proc.from) =>
        (proc.nonce = lane => proc.slot = head /\ proc.from = done)

\* A transaction that fits the queue never fails the portal's preflight for
\* deposit capacity, although deposits land after the headroom was read and
\* transactions of earlier cycles are mined late.
CapacityNeverRaces == \A t \in mempool : Fits(t) => Preflight(t)

\* While the tasks run, a payload leaves the store only when the portal's head
\* has passed it or when the full cache evicts its farthest slot.
PayloadKept ==
    [][mon'.pc # "start" =>
        \A i \in DOMAIN store \ DOMAIN store' :
            \/ i < head'
            \/ /\ Cardinality(DOMAIN store') = MaxCachedSlots
               /\ \A j \in DOMAIN store' : j < i]_vars

\* Every batch is settled and every withdrawal in it processed, whatever is
\* lost, late, evicted or restarted on the way.
QueueDrains == <>[](head = Len(Batches) + 1)
============================================================================
