-------------------------- MODULE ZonePortalProofs --------------------------
(***************************************************************************)
(* Proofs about ZonePortal, for every set of users, amounts, fees, batch   *)
(* contents and every capacity and reserve.                                *)
(*                                                                         *)
(* The invariants are inductive only together with three facts about the   *)
(* running processWithdrawals call: which frames are open in which         *)
(* reentrancy status (FrameShape), that the head slot still holds the      *)
(* withdrawals the call has left (ListInSlot), and that the queue keeps    *)
(* one free place for each of them (RoomForRest).                          *)
(***************************************************************************)
EXTENDS ZonePortal, TLAPS

FrameShape ==
    /\ portal.status = NotEntered => frames = <<>> /\ todo = 0 /\ planned = 0
    /\ portal.status = Processing => Len(frames) = 1
    /\ InCallback => Len(frames) = 2 /\ frames[2].status = Processing /\ todo > 0
    /\ portal.status # NotEntered => frames[1].status = NotEntered
    /\ todo <= planned

\* The first "left" withdrawals to handle are in the head slot of s.
Covers(s, left) == left > 0 => s.head <= Len(s.slots) /\ left <= Len(s.slots[s.head])

ListInSlot ==
    /\ portal.status = Processing => Covers(portal, todo)
    /\ InCallback => Covers(portal, todo - 1) /\ Covers(frames[2], todo)

\* The deposit a callback made from the reserve stands for the bounce-back its
\* own withdrawal will then not need.
RoomForRest ==
    planned <= Reserve =>
        /\ portal.status \in {Processing, CallbackAvailable} =>
              Unprocessed(portal) + todo <= MaxUnprocessed
        /\ portal.status = CallbackConsumed =>
              Unprocessed(portal) + todo - 1 <= MaxUnprocessed
        /\ InCallback => Unprocessed(frames[2]) + todo <= MaxUnprocessed

PortalIInv ==
    /\ PortalTypeOK
    /\ FrameShape
    /\ UnprocessedBounded
    /\ QueueShape
    /\ ListInSlot
    /\ RoomForRest

-----------------------------------------------------------------------------

\* dequeue keeps the queue well formed and touches nothing else.
LEMMA DequeueKeepsQueue ==
    ASSUME NEW s \in Storage, QueueShapeOf(s), s.head <= Len(s.slots)
    PROVE  /\ Dequeue(s) \in Storage
           /\ QueueShapeOf(Dequeue(s))
           /\ Unprocessed(Dequeue(s)) = Unprocessed(s)
           /\ Dequeue(s).status = s.status
           /\ Dequeue(s).escrow = s.escrow
           /\ Dequeue(s).refunds = s.refunds
           /\ Dequeue(s).deposits = s.deposits
           /\ Dequeue(s).lastProcessed = s.lastProcessed
           /\ \A n \in Nat : Covers(s, n + 1) => Covers(Dequeue(s), n)
  <1> DEFINE slot == s.slots[s.head]
             rest == Tail(slot)
             slots == [s.slots EXCEPT ![s.head] = rest]
             newHead == IF rest = <<>> THEN s.head + 1 ELSE s.head
  <1>1. /\ s.head \in 1 .. Len(s.slots)
        /\ s.slots \in Seq(Seq(Withdrawal))
        /\ slot \in Seq(Withdrawal)
        /\ slot # <<>>
    BY DEF Storage, QueueShapeOf
  <1>2. rest \in Seq(Withdrawal) /\ Len(rest) = Len(slot) - 1
    BY <1>1
  <1>3. /\ slots \in Seq(Seq(Withdrawal))
        /\ Len(slots) = Len(s.slots)
        /\ \A i \in 1 .. Len(slots) : slots[i] = IF i = s.head THEN rest ELSE s.slots[i]
    BY <1>1, <1>2
  <1>4. Dequeue(s) = [s EXCEPT !.slots = slots, !.head = newHead]
    BY DEF Dequeue
  <1> HIDE DEF slots, rest
  <1>h. /\ newHead \in Nat
        /\ rest = <<>> => newHead = s.head + 1
        /\ rest # <<>> => newHead = s.head
    <2>1. s.head \in Nat
      BY <1>1
    <2>2. CASE rest = <<>>
      BY <2>1, <2>2
    <2>3. CASE rest # <<>>
      BY <2>1, <2>3
    <2> QED
      BY <2>2, <2>3
  <1>l. Len(slots) = Len(s.slots) /\ Len(slots) \in Nat /\ s.head \in Nat
    BY <1>1, <1>3
  <1> HIDE DEF newHead
  <1>5. Dequeue(s) \in Storage
    BY ZenonT(60), <1>3, <1>4, <1>h DEF Storage
  <1>6. Dequeue(s).slots = slots /\ Dequeue(s).head = newHead
    BY <1>4 DEF Storage
  <1>7. QueueShapeOf(Dequeue(s))
    <2>1. newHead \in 1 .. Len(slots) + 1
      BY SMTT(60), <1>1, <1>h, <1>l
    <2>2. ASSUME NEW i \in 1 .. Len(slots)
          PROVE  slots[i] = <<>> <=> i < newHead
      <3>1. s.slots[i] = <<>> <=> i < s.head
        BY <1>3 DEF QueueShapeOf
      <3>2. CASE i = s.head
        BY <1>3, <1>h, <1>l, <3>2
      <3>3. CASE i # s.head
        BY SMTT(60), <1>3, <1>h, <1>l, <3>1, <3>3
      <3> QED
        BY <3>2, <3>3
    <2> QED
      BY <1>6, <2>1, <2>2 DEF QueueShapeOf
  <1>8. \A n \in Nat : Covers(s, n + 1) => Covers(Dequeue(s), n)
    <2> SUFFICES ASSUME NEW n \in Nat, Covers(s, n + 1), n > 0
                 PROVE  Covers(Dequeue(s), n)
      BY DEF Covers
    <2>1. n <= Len(rest)
      BY <1>2 DEF Covers
    <2>2. rest # <<>>
      BY <1>2, <2>1
    <2> QED
      BY <1>1, <1>3, <1>6, <2>1, <2>2 DEF Covers, newHead
  <1> QED
    BY <1>4, <1>5, <1>7, <1>8 DEF Storage, Unprocessed

\* _enqueueBounceBack appends one queue entry and touches nothing else.
LEMMA EnqueueBounceBackAppends ==
    ASSUME NEW s \in Storage, NEW w \in Withdrawal
    PROVE  /\ EnqueueBounceBack(s, w) \in Storage
           /\ QueueShapeOf(s) => QueueShapeOf(EnqueueBounceBack(s, w))
           /\ Unprocessed(EnqueueBounceBack(s, w)) = Unprocessed(s) + 1
           /\ EnqueueBounceBack(s, w).status = s.status
           /\ \A n \in Nat : Covers(s, n) => Covers(EnqueueBounceBack(s, w), n)
  <1> DEFINE e == [kind |-> "bounceback", nonce |-> w.nonce, amount |-> w.amount]
             d == Append(s.deposits, e)
  <1>1. e \in QueueEntry
    BY DEF QueueEntry, Withdrawal
  <1>2. s.deposits \in Seq(QueueEntry)
    BY DEF Storage
  <1>3. d \in Seq(QueueEntry) /\ Len(d) = Len(s.deposits) + 1
    BY <1>1, <1>2
  <1>4. EnqueueBounceBack(s, w) = [s EXCEPT !.deposits = d]
    BY DEF EnqueueBounceBack
  <1> HIDE DEF d
  <1>5. EnqueueBounceBack(s, w) \in Storage
    BY <1>3, <1>4 DEF Storage
  <1>6. /\ EnqueueBounceBack(s, w).deposits = d
        /\ EnqueueBounceBack(s, w).lastProcessed = s.lastProcessed
        /\ EnqueueBounceBack(s, w).slots = s.slots
        /\ EnqueueBounceBack(s, w).head = s.head
        /\ EnqueueBounceBack(s, w).status = s.status
    BY <1>4 DEF Storage
  <1>7. Unprocessed(EnqueueBounceBack(s, w)) = Unprocessed(s) + 1
    BY SMTT(60), <1>2, <1>3, <1>6 DEF Storage, Unprocessed
  <1> QED
    BY <1>5, <1>6, <1>7 DEF QueueShapeOf, Covers

\* An element of a sequence over a set is in the set.
LEMMA ElementInSet ==
    ASSUME NEW S, NEW q \in Seq(S), NEW i \in 1 .. Len(q)
    PROVE  q[i] \in S
  OBVIOUS

\* Types of the fields of the portal's storage.
LEMMA StorageFields ==
    ASSUME NEW s \in Storage
    PROVE  /\ s.deposits \in Seq(QueueEntry)
           /\ s.lastProcessed \in Nat
           /\ s.slots \in Seq(Seq(Withdrawal))
           /\ s.head \in Nat
           /\ s.refunds \in [Users -> Nat]
           /\ s.escrow \in Nat
           /\ s.status \in 0 .. 3
  BY DEF Storage

\* Types of the fields of a withdrawal.
LEMMA WithdrawalFields ==
    ASSUME NEW w \in Withdrawal
    PROVE  w.to \in Users /\ w.amount \in Nat /\ w.nonce \in Nonces
  BY DEF Withdrawal

\* Writing the reentrancy status changes no other field of the storage.
LEMMA SetStatus ==
    ASSUME NEW s \in Storage, NEW st \in 0 .. 3
    PROVE  [s EXCEPT !.status = st] \in Storage
  BY DEF Storage

\* The withdrawal a call is about to handle is one the queue holds.
LEMMA HeadIsWithdrawal ==
    ASSUME NEW s \in Storage, QueueShapeOf(s), s.head <= Len(s.slots)
    PROVE  s.slots[s.head][1] \in Withdrawal
  <1>1. /\ s.head \in 1 .. Len(s.slots)
        /\ s.slots \in Seq(Seq(Withdrawal))
    BY DEF Storage, QueueShapeOf
  <1>2. s.slots[s.head] \in Seq(Withdrawal) /\ s.slots[s.head] # <<>>
    BY <1>1 DEF QueueShapeOf
  <1> QED
    BY <1>2

-----------------------------------------------------------------------------

\* A freshly deployed portal satisfies the invariant.
LEMMA PortalInitIInv == PortalInit => PortalIInv
  <1> SUFFICES ASSUME PortalInit PROVE PortalIInv
    OBVIOUS
  <1> PICK enforced \in BOOLEAN : portal = InitStorage(enforced)
    BY DEF PortalInit
  <1>1. portal \in Storage
    BY DEF InitStorage, Storage, NotEntered
  <1>2. /\ portal.status = 0 /\ portal.deposits = <<>> /\ portal.lastProcessed = 0
        /\ portal.slots = <<>> /\ portal.head = 1
    BY DEF InitStorage, NotEntered
  <1>3. frames = <<>> /\ todo = 0 /\ planned = 0
    BY DEF PortalInit
  <1> QED
    BY <1>1, <1>2, <1>3, CapacityAssumption
    DEF PortalIInv, PortalTypeOK, FrameShape, UnprocessedBounded, QueueShape, QueueShapeOf,
        ListInSlot, RoomForRest, Unprocessed, InCallback, NotEntered, Processing,
        CallbackAvailable, CallbackConsumed

\* A step of portal storage that opens and closes no frame and leaves the
\* withdrawal queue and the status alone keeps the invariant when it keeps the
\* storage type and the number of unprocessed deposits.
LEMMA QuietStep ==
    ASSUME PortalIInv, portal' \in Storage,
           portal'.slots = portal.slots, portal'.head = portal.head,
           portal'.status = portal.status, Unprocessed(portal)' = Unprocessed(portal),
           UNCHANGED <<frames, todo, planned>>
    PROVE  PortalIInv'
  BY DEF PortalIInv, PortalTypeOK, FrameShape, UnprocessedBounded, QueueShape, QueueShapeOf,
         ListInSlot, RoomForRest, Covers, InCallback

\* A withdrawal settled without a frame: storage t has dequeued it and holds at
\* most one deposit more.
LEMMA SettleStep ==
    ASSUME PortalIInv, AtWithdrawal, NEW t \in Storage, Settle(t),
           QueueShapeOf(t), t.status = portal.status,
           Covers(t, todo - 1),
           \/ Unprocessed(t) = Unprocessed(portal)
           \/ /\ Unprocessed(t) = Unprocessed(portal) + 1
              /\ Unprocessed(portal) < MaxUnprocessed
    PROVE  PortalIInv'
  <1> USE DEF NotEntered, Processing, CallbackAvailable, CallbackConsumed
  <1>1. /\ portal' = t /\ todo' = todo - 1 /\ frames' = frames /\ planned' = planned
        /\ portal.status = 1 /\ todo > 0
    BY DEF Settle, AtWithdrawal
  <1>2. PortalTypeOK'
    BY <1>1 DEF PortalIInv, PortalTypeOK
  <1>3. FrameShape'
    BY <1>1 DEF PortalIInv, PortalTypeOK, FrameShape, InCallback
  <1>4. Unprocessed(portal) \in Int /\ Unprocessed(t) \in Int
    <2>1. portal \in Storage
      BY DEF PortalIInv, PortalTypeOK
    <2>2. \A s \in Storage : Len(s.deposits) \in Nat /\ s.lastProcessed \in Nat
      BY DEF Storage
    <2> QED BY ONLY <2>1, <2>2, t \in Storage DEF Unprocessed
  <1>5. UnprocessedBounded'
    BY <1>1, <1>4, CapacityAssumption DEF PortalIInv, UnprocessedBounded
  <1>6. QueueShape'
    BY <1>1 DEF PortalIInv, QueueShape
  <1>7. ListInSlot'
    BY <1>1 DEF PortalIInv, ListInSlot, InCallback
  <1>8. RoomForRest'
    BY SMTT(60), <1>1, <1>4, CapacityAssumption DEF PortalIInv, PortalTypeOK, RoomForRest, InCallback
  <1> QED
    BY <1>2, <1>3, <1>5, <1>6, <1>7, <1>8 DEF PortalIInv

\* deposit, inside a callback or not, preserves the invariant.
LEMMA DepositKeepsIInv ==
    ASSUME PortalIInv, NEW u \in Users, NEW a \in Amounts, NEW f \in DepositFees,
           NEW b \in BouncebackFees, Deposit(u, a, f, b)
    PROVE  PortalIInv'
  <1> USE DEF NotEntered, Processing, CallbackAvailable, CallbackConsumed
  <1> DEFINE e == [kind |-> "deposit", to |-> u, amount |-> a - f]
             d == Append(portal.deposits, e)
             st == IF portal.status = 2 THEN 3 ELSE portal.status
             esc == portal.escrow + (a - f)
  <1>1. portal \in Storage /\ portal.deposits \in Seq(QueueEntry) /\ a - f \in Nat
    <2>1. portal \in Storage
      BY DEF PortalIInv, PortalTypeOK
    <2>2. a \in Nat /\ f \in Nat /\ b \in Nat /\ a >= f + b
      BY AmountsAssumption DEF Deposit
    <2> QED
      BY <2>1, <2>2, StorageFields
  <1>2. d \in Seq(QueueEntry) /\ Len(d) = Len(portal.deposits) + 1
    <2>1. e \in QueueEntry
      BY <1>1 DEF QueueEntry
    <2> QED
      BY <1>1, <2>1
  <1>3. portal.status \in {0, 2, 3} /\ st \in {0, 3} /\ st \in 0 .. 3
    BY <1>1 DEF Storage, Deposit, ExternalCode
  <1>4. portal' = [portal EXCEPT !.deposits = d, !.escrow = esc, !.status = st]
    BY DEF Deposit
  <1>esc. esc \in Nat
    BY <1>1 DEF Storage
  <1>5. UNCHANGED <<frames, todo, planned>>
    BY DEF Deposit
  <1>6. Unprocessed(portal) < IF portal.status = 2 THEN MaxUnprocessed
                                                    ELSE MaxUnprocessed - Reserve
    BY DEF Deposit, DepositMaximum
  <1>st. /\ portal.status = 2 => st = 3
         /\ portal.status # 2 => st = portal.status
    OBVIOUS
  <1> HIDE DEF d, st, esc
  <1>7. portal' \in Storage
    BY <1>1, <1>2, <1>3, <1>4, <1>esc DEF Storage
  <1>8. /\ portal'.deposits = d /\ portal'.status = st /\ portal'.slots = portal.slots
        /\ portal'.head = portal.head /\ portal'.lastProcessed = portal.lastProcessed
    BY <1>1, <1>4 DEF Storage
  <1>9. /\ Unprocessed(portal)' = Unprocessed(portal) + 1
        /\ Unprocessed(portal) \in Int
    BY SMTT(60), <1>1, <1>2, <1>8 DEF Storage, Unprocessed
  <1>10. PortalTypeOK' /\ FrameShape' /\ QueueShape' /\ ListInSlot'
    BY SMTT(60), <1>3, <1>5, <1>7, <1>8, <1>st
    DEF PortalIInv, PortalTypeOK, FrameShape, QueueShape, QueueShapeOf, ListInSlot, Covers,
        InCallback
  <1>11. UnprocessedBounded'
    BY <1>5, <1>6, <1>9, CapacityAssumption DEF PortalIInv, UnprocessedBounded
  <1>12. RoomForRest'
    <2>1. CASE portal.status = 2
      BY <1>5, <1>8, <1>9, <1>st, <2>1 DEF PortalIInv, PortalTypeOK, RoomForRest, InCallback
    <2>2. CASE portal.status # 2
      BY SMTT(60), <1>3, <1>5, <1>6, <1>8, <1>9, <1>st, <2>2, CapacityAssumption
      DEF PortalIInv, PortalTypeOK, FrameShape, RoomForRest, InCallback
    <2> QED
      BY <2>1, <2>2
  <1> QED
    BY <1>10, <1>11, <1>12 DEF PortalIInv

\* claimRefund preserves the invariant.
LEMMA ClaimRefundKeepsIInv ==
    ASSUME PortalIInv, NEW u \in Users, ClaimRefund(u)
    PROVE  PortalIInv'
  <1> DEFINE r == [portal.refunds EXCEPT ![u] = 0]
             esc == portal.escrow - portal.refunds[u]
  <1>1. portal \in Storage /\ portal.refunds \in [Users -> Nat]
    BY DEF PortalIInv, PortalTypeOK, Storage
  <1>2. r \in [Users -> Nat] /\ esc \in Nat
    BY <1>1 DEF ClaimRefund, Storage
  <1>3. portal' = [portal EXCEPT !.refunds = r, !.escrow = esc]
    BY DEF ClaimRefund
  <1> HIDE DEF r, esc
  <1>4. portal' \in Storage
    BY <1>1, <1>2, <1>3 DEF Storage
  <1>5. /\ portal'.slots = portal.slots /\ portal'.head = portal.head
        /\ portal'.status = portal.status /\ portal'.deposits = portal.deposits
        /\ portal'.lastProcessed = portal.lastProcessed
    BY <1>1, <1>3 DEF Storage
  <1> QED
    BY <1>4, <1>5, QuietStep DEF ClaimRefund, Unprocessed

\* Pausing and the access mode touch neither queue.
LEMMA SwitchesKeepIInv ==
    ASSUME PortalIInv, SetPaused \/ SetAccessMode
    PROVE  PortalIInv'
  <1>1. portal \in Storage
    BY DEF PortalIInv, PortalTypeOK
  <1>2. CASE SetPaused
    <2>1. portal' = [portal EXCEPT !.paused = ~portal.paused]
      BY <1>2 DEF SetPaused
    <2>2. portal' \in Storage
      BY <1>1, <2>1 DEF Storage
    <2>3. /\ portal'.slots = portal.slots /\ portal'.head = portal.head
          /\ portal'.status = portal.status /\ portal'.deposits = portal.deposits
          /\ portal'.lastProcessed = portal.lastProcessed
      BY <1>1, <2>1 DEF Storage
    <2> QED
      BY <1>2, <2>2, <2>3, QuietStep DEF SetPaused, Unprocessed
  <1>3. CASE SetAccessMode
    <2>1. portal' = [portal EXCEPT !.accessEnforced = ~portal.accessEnforced]
      BY <1>3 DEF SetAccessMode
    <2>2. portal' \in Storage
      BY <1>1, <2>1 DEF Storage
    <2>3. /\ portal'.slots = portal.slots /\ portal'.head = portal.head
          /\ portal'.status = portal.status /\ portal'.deposits = portal.deposits
          /\ portal'.lastProcessed = portal.lastProcessed
      BY <1>1, <2>1 DEF Storage
    <2> QED
      BY <1>3, <2>2, <2>3, QuietStep DEF SetAccessMode, Unprocessed
  <1> QED
    BY <1>2, <1>3

\* submitBatch moves the deposit cursor and enqueues a slot.
LEMMA SubmitBatchKeepsIInv ==
    ASSUME PortalIInv, NEW next \in 0 .. Len(portal.deposits) + 1, NEW ws \in BatchInputs,
           SubmitBatch(next, ws)
    PROVE  PortalIInv'
  <1> USE DEF NotEntered, Processing, CallbackAvailable, CallbackConsumed
  <1> DEFINE q == IF ws = <<>> THEN portal.slots ELSE Append(portal.slots, ws)
             idx == portal.batchIndex + 1
  <1>1. /\ portal \in Storage /\ portal.slots \in Seq(Seq(Withdrawal))
        /\ ws \in Seq(Withdrawal) /\ next \in Nat /\ idx \in Nat
        /\ portal.status # 1 /\ next >= portal.lastProcessed /\ next <= Len(portal.deposits)
    BY SMTT(60), BatchInputsAssumption DEF PortalIInv, PortalTypeOK, Storage, SubmitBatch, ExternalCode
  <1>2. q \in Seq(Seq(Withdrawal))
    BY <1>1
  <1>3. \/ q = portal.slots
        \/ /\ Len(q) = Len(portal.slots) + 1 /\ q[Len(q)] # <<>>
           /\ \A i \in 1 .. Len(portal.slots) : q[i] = portal.slots[i]
    BY <1>1
  <1>4. portal' = [portal EXCEPT !.batchIndex = idx, !.lastProcessed = next, !.slots = q]
    BY DEF SubmitBatch
  <1>5. frames' = frames /\ todo' = todo /\ planned' = planned
    BY DEF SubmitBatch
  <1> HIDE DEF q, idx
  <1>6. portal' \in Storage
    BY <1>1, <1>2, <1>4 DEF Storage
  <1>7. /\ portal'.slots = q /\ portal'.head = portal.head /\ portal'.lastProcessed = next
        /\ portal'.status = portal.status /\ portal'.deposits = portal.deposits
    BY <1>1, <1>4 DEF Storage
  <1>8. /\ Len(portal.deposits) \in Nat /\ portal.lastProcessed \in Nat
        /\ Unprocessed(portal)' = Len(portal.deposits) - next
        /\ Unprocessed(portal) = Len(portal.deposits) - portal.lastProcessed
    BY <1>1, <1>7 DEF Unprocessed, Storage
  <1>9. PortalTypeOK' /\ FrameShape' /\ ListInSlot' /\ RoomForRest'
    <2>1. PortalTypeOK' /\ FrameShape'
      BY <1>5, <1>6, <1>7 DEF PortalIInv, PortalTypeOK, FrameShape, InCallback
    <2>2. ASSUME NEW n \in Nat, Covers(portal, n)
          PROVE  Covers(portal', n)
      <3>1. portal.head \in Nat /\ portal.head >= 1 /\ Len(portal.slots) \in Nat
        BY <1>1 DEF PortalIInv, QueueShape, QueueShapeOf, Storage
      <3> QED
        BY SMTT(60), <1>3, <1>7, <2>2, <3>1 DEF Covers
    <2>3. ListInSlot'
      <3>1. InCallback => todo - 1 \in Nat
        BY DEF PortalIInv, PortalTypeOK, FrameShape
      <3>2. Covers(frames[2], todo)' = Covers(frames[2], todo)
        BY <1>5 DEF Covers
      <3> QED
        BY <1>1, <1>5, <1>7, <2>2, <3>1, <3>2 DEF PortalIInv, ListInSlot, InCallback
    <2>4. RoomForRest'
      <3>1. InCallback => (Unprocessed(frames[2]) + todo)' = Unprocessed(frames[2]) + todo
        BY <1>5 DEF Unprocessed
      <3>2. todo \in Nat /\ MaxUnprocessed \in Nat
        BY CapacityAssumption DEF PortalIInv, PortalTypeOK
      <3>3. Unprocessed(portal) \in Int /\ Unprocessed(portal)' \in Int
        BY <1>1, <1>8
      <3>4. Unprocessed(portal)' <= Unprocessed(portal)
        BY <1>1, <1>8
      <3>5. ASSUME NEW u \in Int, NEW v \in Int, v <= u
            PROVE  /\ u + todo <= MaxUnprocessed => v + todo <= MaxUnprocessed
                   /\ u + todo - 1 <= MaxUnprocessed => v + todo - 1 <= MaxUnprocessed
        BY <3>2, <3>5
      <3>6. /\ Unprocessed(portal) + todo <= MaxUnprocessed
                  => Unprocessed(portal)' + todo <= MaxUnprocessed
            /\ Unprocessed(portal) + todo - 1 <= MaxUnprocessed
                  => Unprocessed(portal)' + todo - 1 <= MaxUnprocessed
        BY <3>3, <3>4, <3>5
      <3>7. RoomForRest
        BY DEF PortalIInv
      <3> QED
        BY <1>5, <1>7, <3>1, <3>6, <3>7 DEF RoomForRest, InCallback
    <2> QED
      BY <2>1, <2>3, <2>4
  <1>10. UnprocessedBounded'
    <2>1. Unprocessed(portal)' \in 0 .. MaxUnprocessed
      BY SMTT(60), <1>1, <1>8, CapacityAssumption DEF PortalIInv, UnprocessedBounded
    <2>2. \A i \in 1 .. Len(frames) : Unprocessed(frames[i])' = Unprocessed(frames[i])
      BY <1>5 DEF Unprocessed
    <2> QED
      BY <1>5, <2>1, <2>2 DEF PortalIInv, UnprocessedBounded
  <1>11. QueueShapeOf(portal')
    <2>1. /\ portal.head \in 1 .. Len(portal.slots) + 1 /\ Len(portal.slots) \in Nat
          /\ Len(q) \in Nat
          /\ \A i \in 1 .. Len(portal.slots) : portal.slots[i] = <<>> <=> i < portal.head
      BY <1>1, <1>2 DEF PortalIInv, QueueShape, QueueShapeOf
    <2>2. CASE q = portal.slots
      BY <1>7, <2>1, <2>2 DEF QueueShapeOf
    <2>3. CASE /\ Len(q) = Len(portal.slots) + 1 /\ q[Len(q)] # <<>>
               /\ \A i \in 1 .. Len(portal.slots) : q[i] = portal.slots[i]
      <3>1. portal.head \in 1 .. Len(q) + 1
        BY <2>1, <2>3
      <3>2. ASSUME NEW i \in 1 .. Len(q)
            PROVE  q[i] = <<>> <=> i < portal.head
        <4>1. CASE i = Len(q)
          BY <2>1, <2>3, <4>1
        <4>2. CASE i # Len(q)
          <5>1. i \in 1 .. Len(portal.slots)
            BY <2>1, <2>3, <4>2
          <5> QED
            BY <2>1, <2>3, <5>1
        <4> QED
          BY <4>1, <4>2
      <3> QED
        BY <1>7, <3>1, <3>2 DEF QueueShapeOf
    <2> QED
      BY <1>3, <2>2, <2>3
  <1>12. QueueShape'
    <2>1. \A i \in 1 .. Len(frames) : QueueShapeOf(frames[i])' = QueueShapeOf(frames[i])
      BY <1>5 DEF QueueShapeOf
    <2> QED
      BY <1>5, <1>11, <2>1 DEF PortalIInv, QueueShape
  <1> QED
    BY <1>9, <1>10, <1>12 DEF PortalIInv

\* processWithdrawals starts only with room for the whole list.
LEMMA BeginKeepsIInv ==
    ASSUME PortalIInv, NEW n \in 1 .. MaxUnprocessed, BeginProcessWithdrawals(n)
    PROVE  PortalIInv'
  <1> USE DEF NotEntered, Processing, CallbackAvailable, CallbackConsumed
  <1>1. /\ portal \in Storage /\ portal.status = 0 /\ n \in Nat /\ n > 0
        /\ portal.head <= Len(portal.slots) /\ n <= Len(portal.slots[portal.head])
        /\ n <= MaxUnprocessed - Unprocessed(portal)
        /\ frames' = <<portal>> /\ todo' = n /\ planned' = n
    BY CapacityAssumption
    DEF PortalIInv, PortalTypeOK, BeginProcessWithdrawals, HasWithdrawals
  <1>2. portal' = [portal EXCEPT !.status = 1]
    BY DEF BeginProcessWithdrawals
  <1>3. portal' \in Storage
    <2>1. 1 \in 0 .. 3
      OBVIOUS
    <2> QED
      BY <1>1, <1>2, <2>1, SetStatus
  <1>4. /\ portal'.status = 1 /\ portal'.slots = portal.slots /\ portal'.head = portal.head
        /\ portal'.deposits = portal.deposits
        /\ portal'.lastProcessed = portal.lastProcessed
    BY <1>1, <1>2 DEF Storage
  <1>5. frames' \in Seq(Storage) /\ Len(frames') = 1 /\ frames'[1] = portal
    BY <1>1
  <1>6. PortalTypeOK' /\ FrameShape'
    BY <1>1, <1>3, <1>4, <1>5 DEF PortalTypeOK, FrameShape, InCallback
  <1>7. Unprocessed(portal) \in 0 .. MaxUnprocessed /\ QueueShapeOf(portal)
    BY DEF PortalIInv, UnprocessedBounded, QueueShape
  <1>8. Unprocessed(portal)' = Unprocessed(portal) /\ QueueShapeOf(portal)'
    BY <1>4, <1>7 DEF Unprocessed, QueueShapeOf
  <1>9. UnprocessedBounded' /\ QueueShape'
    BY <1>5, <1>7, <1>8 DEF UnprocessedBounded, QueueShape
  <1>10. ListInSlot'
    BY <1>1, <1>4 DEF ListInSlot, Covers, InCallback
  <1>11. RoomForRest'
    BY <1>1, <1>4, <1>7, <1>8, CapacityAssumption DEF RoomForRest, InCallback
  <1> QED
    BY <1>6, <1>9, <1>10, <1>11 DEF PortalIInv

\* What AtWithdrawal gives the actions that settle the next withdrawal.
LEMMA AtWithdrawalFacts ==
    ASSUME PortalIInv, AtWithdrawal
    PROVE  /\ portal \in Storage
           /\ portal.status = 1
           /\ todo \in Nat /\ todo - 1 \in Nat
           /\ QueueShapeOf(portal)
           /\ Covers(portal, todo)
           /\ portal.head <= Len(portal.slots)
           /\ NextWithdrawal \in Withdrawal
           /\ Dequeue(portal) \in Storage
           /\ QueueShapeOf(Dequeue(portal))
           /\ Dequeue(portal).status = portal.status
           /\ Unprocessed(Dequeue(portal)) = Unprocessed(portal)
           /\ Covers(Dequeue(portal), todo - 1)
  <1>1. /\ portal \in Storage /\ portal.status = 1 /\ todo \in Nat /\ todo - 1 \in Nat
        /\ QueueShapeOf(portal) /\ Covers(portal, todo)
    BY DEF PortalIInv, PortalTypeOK, QueueShape, ListInSlot, AtWithdrawal, Processing
  <1>2. portal.head <= Len(portal.slots)
    BY <1>1 DEF Covers, AtWithdrawal
  <1>3. Covers(portal, (todo - 1) + 1)
    BY <1>1
  <1> QED
    BY <1>1, <1>2, <1>3, DequeueKeepsQueue, HeadIsWithdrawal DEF NextWithdrawal

\* A plain transfer that succeeds settles its withdrawal.
LEMMA PayDirectKeepsIInv ==
    ASSUME PortalIInv, PayDirect
    PROVE  PortalIInv'
  <1> DEFINE s == Dequeue(portal)
             esc == s.escrow - NextWithdrawal.amount
             t == [s EXCEPT !.escrow = esc]
  <1>1. AtWithdrawal /\ Settle(t)
    BY DEF PayDirect
  <1>2. s \in Storage /\ s.escrow = portal.escrow
    BY <1>1, AtWithdrawalFacts, DequeueKeepsQueue
  <1>3. esc \in Nat
    <2>1. /\ portal.escrow \in Nat /\ NextWithdrawal.amount \in Nat
          /\ NextWithdrawal.amount <= portal.escrow
      BY <1>1, AtWithdrawalFacts, StorageFields, WithdrawalFields DEF PayDirect
    <2> QED
      BY <1>2, <2>1
  <1> HIDE DEF s, esc
  <1>4. t \in Storage
    BY <1>2, <1>3 DEF Storage
  <1>5. /\ t.slots = s.slots /\ t.head = s.head /\ t.status = s.status
        /\ t.deposits = s.deposits /\ t.lastProcessed = s.lastProcessed
    BY <1>2 DEF Storage
  <1> HIDE DEF t
  <1>6. /\ QueueShapeOf(t) /\ t.status = portal.status /\ Covers(t, todo - 1)
        /\ Unprocessed(t) = Unprocessed(portal)
    BY <1>1, <1>5, AtWithdrawalFacts DEF s, QueueShapeOf, Covers, Unprocessed
  <1> QED
    BY <1>1, <1>4, <1>6, SettleStep

\* A failed withdrawal is settled by a bounce-back deposit.
LEMMA BounceBackKeepsIInv ==
    ASSUME PortalIInv, BounceBack
    PROVE  PortalIInv'
  <1> DEFINE t == EnqueueBounceBack(Dequeue(portal), NextWithdrawal)
  <1>1. AtWithdrawal /\ Settle(t) /\ Unprocessed(portal) < MaxUnprocessed
    BY DEF BounceBack
  <1>2. /\ t \in Storage /\ QueueShapeOf(t) /\ t.status = portal.status
        /\ Covers(t, todo - 1) /\ Unprocessed(t) = Unprocessed(portal) + 1
    BY <1>1, AtWithdrawalFacts, EnqueueBounceBackAppends
  <1> HIDE DEF t
  <1> QED
    BY <1>1, <1>2, SettleStep

\* A returned deposit is paid or parked as a refund.
LEMMA DepositBounceBackKeepsIInv ==
    ASSUME PortalIInv, NEW b \in BouncebackFees, NEW feePaid \in BOOLEAN,
           NEW paid \in BOOLEAN, DepositBounceBack(b, feePaid, paid)
    PROVE  PortalIInv'
  <1> DEFINE w == NextWithdrawal
             due == IF b > w.amount THEN w.amount ELSE b
             collected == IF feePaid THEN due ELSE 0
             refund == w.amount - collected
             out == IF paid THEN w.amount ELSE collected
             s == Dequeue(portal)
             esc == s.escrow - out
             r == IF paid THEN s.refunds ELSE [s.refunds EXCEPT ![w.to] = @ + refund]
             t == [s EXCEPT !.escrow = esc, !.refunds = r]
  <1>1. AtWithdrawal /\ Settle(t) /\ out <= portal.escrow
    BY DEF DepositBounceBack
  <1>2. /\ s \in Storage /\ s.escrow = portal.escrow /\ s.escrow \in Nat
        /\ s.refunds \in [Users -> Nat] /\ w \in Withdrawal
    BY <1>1, AtWithdrawalFacts, DequeueKeepsQueue DEF Storage
  <1>3. w.amount \in Nat /\ w.to \in Users /\ b \in Nat
    BY <1>2, AmountsAssumption DEF Withdrawal
  <1>4. collected \in Nat /\ refund \in Nat /\ out \in Nat
    BY <1>3
  <1>5. esc \in Nat
    BY <1>1, <1>2, <1>4
  <1> HIDE DEF refund, s, esc, w
  <1>6. r \in [Users -> Nat]
    BY <1>2, <1>3, <1>4
  <1> HIDE DEF r
  <1>7. t \in Storage
    BY <1>2, <1>5, <1>6 DEF Storage
  <1>8. /\ t.slots = s.slots /\ t.head = s.head /\ t.status = s.status
        /\ t.deposits = s.deposits /\ t.lastProcessed = s.lastProcessed
    BY <1>2 DEF Storage
  <1> HIDE DEF t
  <1>9. /\ QueueShapeOf(t) /\ t.status = portal.status /\ Covers(t, todo - 1)
        /\ Unprocessed(t) = Unprocessed(portal)
    BY <1>1, <1>8, AtWithdrawalFacts DEF s, QueueShapeOf, Covers, Unprocessed
  <1> QED
    BY <1>1, <1>7, <1>9, SettleStep

\* deliverWithdrawal opens a frame and reserves one callback deposit.
LEMMA BeginDeliveryKeepsIInv ==
    ASSUME PortalIInv, BeginDelivery
    PROVE  PortalIInv'
  <1> USE DEF NotEntered, Processing, CallbackAvailable, CallbackConsumed
  <1> DEFINE s == Dequeue(portal)
             esc == s.escrow - NextWithdrawal.amount
  <1>1. /\ AtWithdrawal /\ portal' = [s EXCEPT !.escrow = esc, !.status = 2]
        /\ frames' = <<frames[1], portal>> /\ todo' = todo /\ planned' = planned
        /\ NextWithdrawal.amount <= portal.escrow
    BY DEF BeginDelivery
  <1>2. s \in Storage /\ s.escrow = portal.escrow
    BY <1>1, AtWithdrawalFacts, DequeueKeepsQueue
  <1>3. esc \in Nat /\ 2 \in 0 .. 3
    <2>1. portal.escrow \in Nat /\ NextWithdrawal.amount \in Nat
      BY <1>1, AtWithdrawalFacts, StorageFields, WithdrawalFields
    <2> QED
      BY <1>1, <1>2, <2>1
  <1> HIDE DEF s, esc
  <1>4. portal' \in Storage
    BY <1>1, <1>2, <1>3 DEF Storage
  <1>5. /\ portal'.slots = s.slots /\ portal'.head = s.head /\ portal'.status = 2
        /\ portal'.deposits = s.deposits /\ portal'.lastProcessed = s.lastProcessed
    BY <1>1, <1>2 DEF Storage
  <1>6. /\ QueueShapeOf(portal)' /\ Covers(portal', todo - 1)
        /\ Unprocessed(portal)' = Unprocessed(portal)
    BY <1>1, <1>5, AtWithdrawalFacts DEF s, QueueShapeOf, Covers, Unprocessed
  <1>7. /\ Len(frames) = 1 /\ frames \in Seq(Storage) /\ frames[1].status = 0
        /\ Unprocessed(frames[1]) \in 0 .. MaxUnprocessed /\ QueueShapeOf(frames[1])
        /\ Unprocessed(portal) \in 0 .. MaxUnprocessed
        /\ portal.status = 1 /\ todo \in Nat /\ todo > 0 /\ planned \in Nat
        /\ todo <= planned
    <2>1. portal.status = 1 /\ todo \in Nat /\ todo > 0
      BY <1>1, AtWithdrawalFacts DEF AtWithdrawal
    <2>2. /\ Len(frames) = 1 /\ frames \in Seq(Storage) /\ frames[1].status = 0
          /\ planned \in Nat /\ todo <= planned
      BY <2>1 DEF PortalIInv, PortalTypeOK, FrameShape
    <2>3. /\ Unprocessed(frames[1]) \in 0 .. MaxUnprocessed /\ QueueShapeOf(frames[1])
          /\ Unprocessed(portal) \in 0 .. MaxUnprocessed
      BY <2>2 DEF PortalIInv, UnprocessedBounded, QueueShape
    <2> QED
      BY <2>1, <2>2, <2>3
  <1>8. /\ frames' \in Seq(Storage) /\ Len(frames') = 2 /\ frames'[1] = frames[1]
        /\ frames'[2] = portal
    <2>1. 1 \in 1 .. Len(frames)
      BY <1>7
    <2>2. frames[1] \in Storage /\ portal \in Storage
      BY <1>1, <1>7, <2>1, AtWithdrawalFacts, ElementInSet
    <2> QED
      BY <1>1, <2>2
  <1>9. PortalTypeOK' /\ FrameShape'
    BY <1>1, <1>4, <1>5, <1>7, <1>8 DEF PortalTypeOK, FrameShape, InCallback
  <1>10. UnprocessedBounded'
    BY <1>6, <1>7, <1>8 DEF UnprocessedBounded
  <1>11. QueueShape'
    BY SMTT(60), <1>1, <1>6, <1>7, <1>8, AtWithdrawalFacts DEF QueueShape
  <1>12. ListInSlot'
    BY <1>1, <1>5, <1>6, <1>8, AtWithdrawalFacts DEF ListInSlot, InCallback
  <1>13. RoomForRest'
    BY <1>1, <1>5, <1>6, <1>7, <1>8, CapacityAssumption DEF PortalIInv, RoomForRest, InCallback
  <1> QED
    BY <1>9, <1>10, <1>11, <1>12, <1>13 DEF PortalIInv

\* What the open delivery frame gives the actions that close it.
LEMMA InCallbackFacts ==
    ASSUME PortalIInv, InCallback
    PROVE  /\ portal \in Storage /\ portal.status \in {2, 3}
           /\ Len(frames) = 2 /\ frames \in Seq(Storage)
           /\ frames[1] \in Storage /\ frames[2] \in Storage
           /\ frames[1].status = 0 /\ frames[2].status = 1
           /\ QueueShapeOf(frames[1]) /\ QueueShapeOf(frames[2])
           /\ Unprocessed(frames[1]) \in 0 .. MaxUnprocessed
           /\ Unprocessed(frames[2]) \in 0 .. MaxUnprocessed
           /\ todo \in Nat /\ todo - 1 \in Nat /\ planned \in Nat
           /\ todo <= planned
           /\ Covers(portal, todo - 1) /\ Covers(frames[2], todo)
           /\ <<frames[1]>> \in Seq(Storage) /\ Len(<<frames[1]>>) = 1
           /\ <<frames[1]>>[1] = frames[1]
  <1> USE DEF NotEntered, Processing, CallbackAvailable, CallbackConsumed
  <1>1. /\ portal \in Storage /\ portal.status \in {2, 3} /\ Len(frames) = 2
        /\ frames \in Seq(Storage) /\ todo \in Nat /\ todo > 0 /\ planned \in Nat
        /\ frames[1].status = 0 /\ frames[2].status = 1 /\ todo <= planned
        /\ Covers(portal, todo - 1) /\ Covers(frames[2], todo)
    BY DEF PortalIInv, PortalTypeOK, FrameShape, ListInSlot, InCallback
  <1>2. frames[1] \in Storage /\ frames[2] \in Storage
    <2>1. 1 \in 1 .. Len(frames) /\ 2 \in 1 .. Len(frames)
      BY <1>1
    <2> QED
      BY <1>1, <2>1, ElementInSet
  <1>3. /\ QueueShapeOf(frames[1]) /\ QueueShapeOf(frames[2])
        /\ Unprocessed(frames[1]) \in 0 .. MaxUnprocessed
        /\ Unprocessed(frames[2]) \in 0 .. MaxUnprocessed
    BY <1>1 DEF PortalIInv, QueueShape, UnprocessedBounded
  <1> QED
    BY <1>1, <1>2, <1>3

\* A callback that returns closes its frame.
LEMMA EndDeliveryKeepsIInv ==
    ASSUME PortalIInv, EndDelivery
    PROVE  PortalIInv'
  <1> USE DEF NotEntered, Processing, CallbackAvailable, CallbackConsumed
  <1>1. /\ InCallback /\ portal' = [portal EXCEPT !.status = 1] /\ frames' = <<frames[1]>>
        /\ todo' = todo - 1 /\ planned' = planned
    BY DEF EndDelivery
  <1>2. portal' \in Storage
    <2>1. 1 \in 0 .. 3
      OBVIOUS
    <2> QED
      BY <1>1, <2>1, InCallbackFacts, SetStatus
  <1>3. /\ portal'.slots = portal.slots /\ portal'.head = portal.head /\ portal'.status = 1
        /\ portal'.deposits = portal.deposits
        /\ portal'.lastProcessed = portal.lastProcessed
    BY <1>1, InCallbackFacts DEF Storage
  <1>4. /\ QueueShapeOf(portal)' /\ Covers(portal', todo - 1)
        /\ Unprocessed(portal)' = Unprocessed(portal)
        /\ Unprocessed(portal) \in 0 .. MaxUnprocessed
    BY <1>1, <1>3, InCallbackFacts
    DEF PortalIInv, QueueShape, QueueShapeOf, Covers, Unprocessed, UnprocessedBounded
  <1>5. PortalTypeOK' /\ FrameShape'
    BY <1>1, <1>2, <1>3, InCallbackFacts DEF PortalTypeOK, FrameShape, InCallback
  <1>6. UnprocessedBounded' /\ QueueShape'
    BY <1>1, <1>4, InCallbackFacts DEF UnprocessedBounded, QueueShape
  <1>7. ListInSlot'
    BY <1>1, <1>3, <1>4 DEF ListInSlot, InCallback
  <1>8. RoomForRest'
    <2> SUFFICES ASSUME planned <= Reserve
                 PROVE  Unprocessed(portal) + (todo - 1) <= MaxUnprocessed
      BY <1>1, <1>3, <1>4 DEF RoomForRest, InCallback
    <2>1. todo \in Nat /\ portal.status \in {2, 3}
      BY <1>1, InCallbackFacts
    <2>2. Unprocessed(portal) + todo - 1 <= MaxUnprocessed
      BY <1>4, <2>1, CapacityAssumption DEF PortalIInv, RoomForRest
    <2> QED
      BY <1>4, <2>1, <2>2, CapacityAssumption
  <1> QED
    BY <1>5, <1>6, <1>7, <1>8 DEF PortalIInv

\* A callback that reverts restores its frame and bounces back.
LEMMA DeliveryFailsKeepsIInv ==
    ASSUME PortalIInv, DeliveryFails
    PROVE  PortalIInv'
  <1> USE DEF NotEntered, Processing, CallbackAvailable, CallbackConsumed
  <1> DEFINE s == frames[2]
             w == s.slots[s.head][1]
             t == EnqueueBounceBack(Dequeue(s), w)
  <1>1. /\ InCallback /\ Unprocessed(s) < MaxUnprocessed /\ portal' = t
        /\ frames' = <<frames[1]>> /\ todo' = todo - 1 /\ planned' = planned
    BY DEF DeliveryFails
  <1>2. s \in Storage /\ QueueShapeOf(s) /\ s.head <= Len(s.slots) /\ s.status = 1
    BY <1>1, InCallbackFacts DEF Covers
  <1>3. w \in Withdrawal
    BY <1>2, HeadIsWithdrawal
  <1>4. Covers(s, (todo - 1) + 1)
    BY <1>1, InCallbackFacts
  <1> HIDE DEF s, w
  <1>5. /\ Dequeue(s) \in Storage /\ QueueShapeOf(Dequeue(s)) /\ Dequeue(s).status = 1
        /\ Covers(Dequeue(s), todo - 1) /\ Unprocessed(Dequeue(s)) = Unprocessed(s)
    BY <1>1, <1>2, <1>4, DequeueKeepsQueue, InCallbackFacts
  <1>6. /\ t \in Storage /\ QueueShapeOf(t) /\ t.status = 1 /\ Covers(t, todo - 1)
        /\ Unprocessed(t) = Unprocessed(s) + 1
    BY <1>1, <1>3, <1>5, EnqueueBounceBackAppends, InCallbackFacts
  <1> HIDE DEF t
  <1>7. PortalTypeOK' /\ FrameShape'
    BY <1>1, <1>6, InCallbackFacts DEF PortalTypeOK, FrameShape, InCallback
  <1>8. Unprocessed(s) \in 0 .. MaxUnprocessed
    BY <1>1, InCallbackFacts DEF s
  <1>9. UnprocessedBounded' /\ QueueShape'
    BY <1>1, <1>6, <1>8, InCallbackFacts, CapacityAssumption DEF UnprocessedBounded, QueueShape
  <1>10. ListInSlot'
    BY <1>1, <1>6 DEF ListInSlot, InCallback
  <1>11. RoomForRest'
    BY <1>1, <1>6, <1>8, InCallbackFacts, CapacityAssumption
    DEF PortalIInv, RoomForRest, InCallback, s
  <1> QED
    BY <1>7, <1>9, <1>10, <1>11 DEF PortalIInv

\* processWithdrawals ends or is reverted as a whole.
LEMMA LeavingKeepsIInv ==
    ASSUME PortalIInv, AbortProcessWithdrawals \/ EndProcessWithdrawals
    PROVE  PortalIInv'
  <1> USE DEF NotEntered, Processing, CallbackAvailable, CallbackConsumed
  <1>1. /\ portal' \in Storage /\ portal'.status = 0 /\ QueueShapeOf(portal')
        /\ Unprocessed(portal)' \in 0 .. MaxUnprocessed
    <2>1. CASE AbortProcessWithdrawals
      <3>1. portal.status # 0 /\ portal' = frames[1]
        BY <2>1 DEF AbortProcessWithdrawals
      <3>2. Len(frames) \in {1, 2} /\ frames \in Seq(Storage) /\ frames[1].status = 0
        BY <3>1 DEF PortalIInv, PortalTypeOK, FrameShape, InCallback, Storage
      <3>3. 1 \in 1 .. Len(frames)
        BY <3>2
      <3> QED
        BY <3>1, <3>2, <3>3, ElementInSet DEF PortalIInv, QueueShape, UnprocessedBounded
    <2>2. CASE EndProcessWithdrawals
      <3>1. portal' = [portal EXCEPT !.status = 0] /\ portal \in Storage /\ 0 \in 0 .. 3
        BY <2>2 DEF EndProcessWithdrawals, PortalIInv, PortalTypeOK
      <3>2. /\ portal'.status = 0 /\ portal'.slots = portal.slots
            /\ portal'.head = portal.head /\ portal'.deposits = portal.deposits
            /\ portal'.lastProcessed = portal.lastProcessed
        BY <3>1 DEF Storage
      <3>3. portal' \in Storage
        BY ZenonT(60), <3>1, SetStatus
      <3> QED
        BY <3>2, <3>3
        DEF PortalIInv, QueueShape, QueueShapeOf, UnprocessedBounded, Unprocessed
    <2> QED
      BY <2>1, <2>2
  <1>2. frames' = <<>> /\ todo' = 0 /\ planned' = 0
    BY DEF AbortProcessWithdrawals, EndProcessWithdrawals
  <1> QED
    BY <1>1, <1>2, CapacityAssumption
    DEF PortalIInv, PortalTypeOK, FrameShape, UnprocessedBounded, QueueShape, ListInSlot,
        RoomForRest, InCallback

-----------------------------------------------------------------------------

\* Every operation of the portal preserves the invariant.
LEMMA PortalStepKeepsIInv == PortalIInv /\ PortalStep => PortalIInv'
  BY DepositKeepsIInv, ClaimRefundKeepsIInv, SwitchesKeepIInv, BeginKeepsIInv,
     PayDirectKeepsIInv, BounceBackKeepsIInv, DepositBounceBackKeepsIInv,
     BeginDeliveryKeepsIInv, EndDeliveryKeepsIInv, DeliveryFailsKeepsIInv, LeavingKeepsIInv
  DEF PortalStep

\* Every step, stuttering included, preserves the invariant.
LEMMA PortalNextIInv == PortalIInv /\ [PortalNext]_portalVars => PortalIInv'
  <1> SUFFICES ASSUME PortalIInv, [PortalNext]_portalVars PROVE PortalIInv'
    OBVIOUS
  <1>1. CASE PortalNext
    BY <1>1, PortalStepKeepsIInv, SubmitBatchKeepsIInv DEF PortalNext
  <1>2. CASE UNCHANGED portalVars
    BY <1>2
    DEF portalVars, PortalIInv, PortalTypeOK, FrameShape, UnprocessedBounded, QueueShape,
        QueueShapeOf, ListInSlot, RoomForRest, Covers, Unprocessed, InCallback
  <1> QED
    BY <1>1, <1>2

\* The room left for the rest of the list gives the room for the next bounce-back.
LEMMA RoomGivesBounceBackRoom == PortalIInv => BounceBackHasRoom
  <1> SUFFICES ASSUME PortalIInv, planned <= Reserve
               PROVE  /\ AtWithdrawal => Unprocessed(portal) < MaxUnprocessed
                      /\ InCallback => Unprocessed(frames[2]) < MaxUnprocessed
    BY DEF BounceBackHasRoom
  <1>1. ASSUME AtWithdrawal PROVE Unprocessed(portal) < MaxUnprocessed
    <2>1. Unprocessed(portal) \in Int /\ todo \in Nat /\ todo > 0
      BY <1>1 DEF PortalIInv, PortalTypeOK, UnprocessedBounded, AtWithdrawal
    <2>2. Unprocessed(portal) + todo <= MaxUnprocessed
      BY <1>1 DEF PortalIInv, RoomForRest, AtWithdrawal
    <2> QED
      BY <2>1, <2>2, CapacityAssumption
  <1>2. ASSUME InCallback PROVE Unprocessed(frames[2]) < MaxUnprocessed
    <2>1. Unprocessed(frames[2]) + todo <= MaxUnprocessed
      BY <1>2 DEF PortalIInv, RoomForRest
    <2> QED
      BY <1>2, <2>1, InCallbackFacts, CapacityAssumption
  <1> QED
    BY <1>1, <1>2

\* Portal storage, and every snapshot a revert may restore, stays well typed.
THEOREM PortalTypeCorrect == PortalSpec => []PortalTypeOK
  <1>1. PortalIInv => PortalTypeOK
    BY DEF PortalIInv
  <1> QED
    BY <1>1, PortalInitIInv, PortalNextIInv, PTL DEF PortalSpec

\* The deposit queue never exceeds MAX_UNPROCESSED_DEPOSITS: no sequence of
\* deposits, callbacks, reverts, bounce-backs and batches gets past
\* _recordDeposit, the reserve and submitBatch's checks.
THEOREM DepositCapacity == PortalSpec => []UnprocessedBounded
  <1>1. PortalIInv => UnprocessedBounded
    BY DEF PortalIInv
  <1> QED
    BY <1>1, PortalInitIInv, PortalNextIInv, PTL DEF PortalSpec

\* WithdrawalQueueLib's queue keeps its shape: cleared slots before head, a
\* hash chain in every slot from head to tail.
THEOREM WithdrawalQueueWellFormed == PortalSpec => []QueueShape
  <1>1. PortalIInv => QueueShape
    BY DEF PortalIInv
  <1> QED
    BY <1>1, PortalInitIInv, PortalNextIInv, PTL DEF PortalSpec

\* A processWithdrawals call no longer than the reserve never runs out of room
\* for a bounce-back, whatever its callbacks deposit.
THEOREM ReserveSuffices == PortalSpec => []BounceBackHasRoom
  BY RoomGivesBounceBackRoom, PortalInitIInv, PortalNextIInv, PTL DEF PortalSpec
=============================================================================
