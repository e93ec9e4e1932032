---------------------------- MODULE DepositQueue ----------------------------
(***************************************************************************)
(* The node's queue of finalized L1 blocks (l1/src/queue.rs,               *)
(* PendingDeposits). The subscriber appends; the zone engine or the        *)
(* follower consumes the front, either fully (its portal events enter the  *)
(* zone) or as a checkpoint (its events are deferred to the next full      *)
(* block). Every method holds the queue's mutex, so each is one operator   *)
(* from queue to queue.                                                    *)
(*                                                                         *)
(* Tempo finality is deterministic, so a block number stands for the block *)
(* and its hash. An entry is [number, events]; events says whether the     *)
(* block carries deposits or token enablements, and the events themselves  *)
(* are identified by that number.                                          *)
(***************************************************************************)
EXTENDS Integers, Sequences

Entry == [number : Nat, events : BOOLEAN]

\* Option<DeferredPortalWork>::None. L1 heights the queue ever holds are
\* positive, so 0 is free to mean "none" here and in lastEnqueued.
NoWork == [last |-> 0, events |-> <<>>]

EmptyQueue == [pending |-> <<>>, deferred |-> NoWork, lastEnqueued |-> 0]

Queue ==
    [pending : Seq(Entry),
     deferred : [last : Nat, events : Seq(Nat)],
     lastEnqueued : Nat]

\* The heights of the blocks of bs that carry portal events, in order.
EventBlocks(bs) ==
    LET eventful == SelectSeq(bs, LAMBDA b : b.events)
    IN  [i \in DOMAIN eventful |-> eventful[i].number]

\* The exact redelivery of a block that is pending or is the newest one.
Redelivered(q, b) ==
    \/ \E i \in DOMAIN q.pending : q.pending[i].number = b.number
    \/ b.number = q.lastEnqueued

\* Anything else that does not extend the newest block is refused.
Enqueueable(q, b) ==
    q.lastEnqueued # 0 => (Redelivered(q, b) \/ b.number = q.lastEnqueued + 1)

TryEnqueue(q, b) ==
    IF Redelivered(q, b)
    THEN q
    ELSE [q EXCEPT !.pending = Append(@, b), !.lastEnqueued = b.number]

\* The loops of defer_through and confirm_operational_through pop the front
\* while it is at or below the anchor; heights ascend, so the popped entries
\* are the ones at or below it.
Through(q, anchor) == SelectSeq(q.pending, LAMBDA b : b.number <= anchor)

Beyond(q, anchor) == SelectSeq(q.pending, LAMBDA b : b.number > anchor)

DeferThrough(q, anchor) ==
    LET moved == Through(q, anchor)
    IN  IF moved = <<>>
        THEN q
        ELSE [q EXCEPT !.pending = Beyond(q, anchor),
                       !.deferred = [last |-> moved[Len(moved)].number,
                                     events |-> @.events \o EventBlocks(moved)]]

AtFront(q, anchor) == q.pending # <<>> /\ Head(q.pending).number = anchor

\* Defined where AtFront(q, anchor), as in the code.
OperationalWork(q) ==
    q.deferred.events \o EventBlocks(<<Head(q.pending)>>)

ConfirmOperational(q) ==
    [q EXCEPT !.pending = Tail(@), !.deferred = NoWork]

ConfirmOperationalThroughErases(q, anchor) ==
    [q EXCEPT !.pending = Beyond(q, anchor), !.deferred = NoWork]

ConfirmOperationalThrough(q, anchor) ==
    [q EXCEPT !.pending = Beyond(q, anchor),
              !.deferred = IF @.last <= anchor THEN NoWork ELSE @]

\* restore_deferred accepts only a queue nothing was ever put into.
RestoreDeferred(blocks) ==
    [EmptyQueue EXCEPT
        !.deferred = [last |-> blocks[Len(blocks)].number,
                      events |-> EventBlocks(blocks)],
        !.lastEnqueued = blocks[Len(blocks)].number]
=============================================================================
