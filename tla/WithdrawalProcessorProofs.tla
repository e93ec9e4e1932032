----------------------- MODULE WithdrawalProcessorProofs -----------------------
(***************************************************************************)
(* Safety of the withdrawal processor for every list of batches, every      *)
(* capacity and reserve, every pipeline width, cache and page size, and any *)
(* number of faults.                                                        *)
(***************************************************************************)
EXTENDS WithdrawalProcessor, TLAPS

\* The consumed prefix of the head slot; a pending batch has a slot to take.
QueueInv ==
    /\ head >= 1
    /\ head = tail => done = 0
    /\ head < tail => done < Size(head)
    /\ batchPending # {} => tail \in Slot

\* What the monitor remembers of the portal is not newer than the portal.
MonitorInv ==
    /\ mon.pc \in {"slot", "recheck", "apply"} =>
          mon.head >= 1 /\ mon.head <= head /\ mon.page <= tail /\ mon.tail <= tail
    /\ mon.pc \in {"recheck", "apply"} /\ mon.head = head /\ mon.head < mon.page =>
          mon.from <= done
    /\ mon.pc = "submitting" => mon.cursor = tail
    /\ mon.pc = "landed" => mon.tail = mon.cursor /\ mon.tail >= 1 /\ mon.tail < tail

\* The plan up to "to" leaves room in the deposit queue for each of its
\* withdrawals that is still to come, on top of the public cap.
Room(slot, to) ==
    slot = head /\ to > done =>
        AtLeast(unprocessed, MaxUnprocessed - Reserve) + (to - done) <= MaxUnprocessed

ProcInv ==
    /\ proc.pc \in {"store", "nonce", "slot", "headroom", "submit"} =>
          /\ proc.slot >= 1 /\ proc.slot <= head
          /\ proc.slot <= proc.tail /\ proc.tail <= tail
    /\ proc.pc \in {"nonce", "slot", "headroom", "submit"} => proc.slot < proc.tail
    /\ proc.pc \in {"headroom", "submit"} =>
          proc.from < Size(proc.slot) /\ (proc.slot = head => proc.from <= done)
    /\ proc.pc \in {"slot", "headroom"} => proc.nonce <= lane
    /\ proc.pc = "submit" =>
          /\ proc.from <= proc.next /\ proc.next <= proc.limit
          /\ proc.limit <= Size(proc.slot)
          /\ proc.next = proc.from => proc.nonce <= lane
          /\ Room(proc.slot, proc.limit)

TxInv ==
    \A t \in mempool \cup DOMAIN inFlight :
        t.slot <= head /\ t.slot < tail /\ t.from < t.to /\ t.to <= Size(t.slot) /\ Room(t.slot, t.to)

\* The inductive invariant.
IInv ==
    /\ ProcessorTypeOK /\ QueueInv /\ MonitorInv /\ ProcInv /\ TxInv
    /\ NonceSlotPairing /\ StoreMatchesPortal

-----------------------------------------------------------------------------

\* A slot holds at least one withdrawal.
LEMMA SlotSize == \A i \in Slot : Size(i) \in Nat /\ Size(i) >= 1
<1> SUFFICES ASSUME NEW i \in Slot PROVE Size(i) \in Nat /\ Size(i) >= 1
  OBVIOUS
<1>1. Batches[i] \in Seq(Withdrawal) /\ Batches[i] # <<>>
  BY LimitsAssumption DEF Slot
<1>2. Len(Batches[i]) \in Nat /\ Len(Batches[i]) # 0
  BY <1>1
<1> QED BY <1>2 DEF Size

\* Types of the constants.
LEMMA ConstantTypes ==
    /\ Len(Batches) \in Nat /\ MaxUnprocessed \in Nat /\ Reserve \in 1 .. MaxUnprocessed
    /\ MaxCachedSlots \in Nat \ {0} /\ PageSize \in Nat \ {0} /\ MaxFaults \in Nat
BY LimitsAssumption

\* Fresh tasks have well-typed state.
LEMMA FreshTypes == Idle \in ProcState /\ Starting \in MonState
BY DEF Idle, Starting, ProcState, MonState, List

\* An empty queue, store and pipeline satisfy the invariant.
LEMMA InitIInv == ProcessorInit => IInv
<1> SUFFICES ASSUME ProcessorInit PROVE IInv
  OBVIOUS
<1> USE ConstantTypes DEF ProcessorInit, Nothing
<1>1. ProcessorTypeOK
  <2>1. tail <= Len(Batches) + 1 /\ unprocessed \in 0 .. MaxUnprocessed /\ faults \in 0 .. MaxFaults
    OBVIOUS
  <2>2. /\ DOMAIN store \subseteq Slot /\ \A i \in DOMAIN store : store[i] \in List
        /\ DOMAIN inFlight \subseteq Tx /\ \A t \in DOMAIN inFlight : inFlight[t] \in TxState
    OBVIOUS
  <2>3. head \in Nat /\ tail \in Nat /\ head <= tail /\ done \in Nat /\ lane \in Nat /\ mempool \subseteq Tx
    OBVIOUS
  <2>4. {paused, repair, stopping} \subseteq BOOLEAN /\ batchPending \subseteq Submission
    BY ZenonT(60)
  <2> QED BY <2>1, <2>2, <2>3, <2>4, FreshTypes DEF ProcessorTypeOK
<1>2. QueueInv /\ MonitorInv /\ ProcInv /\ TxInv
  BY DEF QueueInv, MonitorInv, ProcInv, TxInv, Idle, Starting
<1>3. NonceSlotPairing /\ StoreMatchesPortal
  BY DEF NonceSlotPairing, StoreMatchesPortal, Idle
<1> QED BY <1>1, <1>2, <1>3 DEF IInv

-----------------------------------------------------------------------------
(* What a step preserves by leaving variables alone                        *)

\* The queue facts read only the portal's queue and the pending batch.
LEMMA QueueFrame ==
    QueueInv /\ UNCHANGED <<head, tail, done, batchPending>> => QueueInv'
BY DEF QueueInv

\* The monitor facts read only its own state and the queue.
LEMMA MonitorFrame ==
    MonitorInv /\ UNCHANGED <<head, tail, done, mon>> => MonitorInv'
BY DEF MonitorInv

\* The facts on the processor's plan read only the plan, the queue, the
\* backlog and the nonce lane.
LEMMA ProcFrame ==
    /\ ProcInv /\ NonceSlotPairing
    /\ UNCHANGED <<head, tail, done, unprocessed, lane, proc>>
    => ProcInv' /\ NonceSlotPairing'
BY DEF ProcInv, NonceSlotPairing, Room

\* Fewer transactions on an unchanged portal keep their facts.
LEMMA TxFrame ==
    /\ TxInv /\ UNCHANGED <<head, tail, done, unprocessed>>
    /\ mempool' \cup DOMAIN inFlight' \subseteq mempool \cup DOMAIN inFlight
    => TxInv'
BY DEF TxInv, Room

\* Removing slots from the store (remove_before) keeps the others faithful.
LEMMA StoreFrame ==
    /\ StoreMatchesPortal /\ UNCHANGED <<head, tail, done>>
    /\ DOMAIN store' \subseteq DOMAIN store /\ \A i \in DOMAIN store' : store'[i] = store[i]
    => StoreMatchesPortal'
BY DEF StoreMatchesPortal

-----------------------------------------------------------------------------
(* Steps of the processor                                                  *)

\* Steps that read, decide and clean up.
ProcessorReads ==
    \/ Wake \/ Stop \/ ReadBounds \/ TakeBatch \/ ReadNonce \/ ReadSlot \/ ReadHeadroom
    \/ ReadFails \/ Finish \/ TimeOut
    \/ \E t \in DOMAIN inFlight : Drain(t)

\* These steps leave the portal alone, and only remove from the store and the
\* pipeline.
LEMMA ReadsShrink ==
    ASSUME IInv, ProcessorReads
    PROVE  /\ UNCHANGED <<head, tail, done, unprocessed, paused, lane, mempool, batchPending, mon>>
           /\ stopping' = stopping /\ faults' \in 0 .. MaxFaults /\ repair' \in BOOLEAN
           /\ DOMAIN store' \subseteq DOMAIN store /\ \A i \in DOMAIN store' : store'[i] = store[i]
           /\ DOMAIN inFlight' \subseteq DOMAIN inFlight
           /\ \A t \in DOMAIN inFlight' : inFlight'[t] = inFlight[t]
<1> USE ConstantTypes DEF IInv, ProcessorTypeOK, OnlyProc, portalVars, l1Vars, Restrict, Becomes
<1>1. CASE Wake \/ Stop \/ ReadBounds \/ ReadNonce \/ ReadHeadroom
  BY <1>1 DEF Wake, Stop, ReadBounds, ReadNonce, ReadHeadroom
<1>2. CASE TakeBatch
  BY <1>2 DEF TakeBatch
<1>3. CASE ReadSlot
  BY <1>3 DEF ReadSlot
<1>4. CASE ReadFails
  BY <1>4 DEF ReadFails, Fault
<1>5. CASE Finish
  BY <1>5 DEF Finish
<1>6. CASE TimeOut
  BY SMTT(60), <1>6 DEF TimeOut, TimesOut, Fault, Without
<1>7. ASSUME NEW t \in DOMAIN inFlight, Drain(t)
      PROVE  /\ UNCHANGED <<head, tail, done, unprocessed, paused, lane, mempool, batchPending, mon>>
             /\ stopping' = stopping /\ faults' \in 0 .. MaxFaults /\ repair' \in BOOLEAN
             /\ DOMAIN store' \subseteq DOMAIN store /\ \A i \in DOMAIN store' : store'[i] = store[i]
             /\ DOMAIN inFlight' \subseteq DOMAIN inFlight
             /\ \A x \in DOMAIN inFlight' : inFlight'[x] = inFlight[x]
  BY <1>7 DEF Drain, Without
<1> QED BY <1>1, <1>2, <1>3, <1>4, <1>5, <1>6, <1>7 DEF ProcessorReads

\* What is admitted fits the slot, the headroom and the reserve.
LEMMA AdmittedBounds ==
    ASSUME unprocessed \in 0 .. MaxUnprocessed, NEW slot, NEW from \in Nat,
           Size(slot) \in Nat, from < Size(slot)
    PROVE  /\ Admitted(slot, from) \in Nat
           /\ from + Admitted(slot, from) <= Size(slot)
           /\ Admitted(slot, from) <= MaxUnprocessed - unprocessed
           /\ Admitted(slot, from) <= Reserve
BY ConstantTypes DEF Admitted, AtMost, withdrawal_deposit_headroom

\* Whatever has been consumed since the slot was read, the plan has room.
LEMMA PlanHasRoom ==
    ASSUME unprocessed \in 0 .. MaxUnprocessed, done \in Nat, NEW slot, NEW from \in Nat,
           Size(slot) \in Nat, from < Size(slot), slot = head => from <= done
    PROVE  Room(slot, from + Admitted(slot, from))
BY SMTT(60), AdmittedBounds, ConstantTypes DEF Room, AtLeast

\* What process_queue reads, in the order it reads it, makes a plan that is
\* paired with its nonce and has room.
LEMMA ReadsPlan ==
    ASSUME IInv, ProcessorReads
    PROVE  proc' \in ProcState /\ ProcInv' /\ NonceSlotPairing'
<1> DEFINE Goal == proc' \in ProcState /\ ProcInv' /\ NonceSlotPairing'
<1>0. UNCHANGED <<head, tail, done, unprocessed, lane>>
  BY ReadsShrink
<1>p. proc \in ProcState /\ ProcInv /\ NonceSlotPairing
  BY DEF IInv, ProcessorTypeOK
<1>n. /\ head \in Nat /\ tail \in Nat /\ done \in Nat /\ lane \in Nat
      /\ head >= 1 /\ head <= tail /\ tail <= Len(Batches) + 1
      /\ (head < tail => done < Size(head)) /\ unprocessed \in 0 .. MaxUnprocessed
  BY DEF IInv, ProcessorTypeOK, QueueInv
<1>f. /\ proc.slot \in Nat /\ proc.tail \in Nat /\ proc.nonce \in Nat /\ proc.from \in Nat
      /\ proc.next \in Nat /\ proc.limit \in Nat
  BY <1>p DEF ProcState
<1> HIDE DEF IInv
<1> USE <1>0, <1>p, <1>n, <1>f, FreshTypes DEF ProcInv, NonceSlotPairing, Becomes
<1>s. \A i \in DOMAIN store : store[i] \in List
  BY DEF IInv, ProcessorTypeOK
<1>1. ASSUME proc' = Idle PROVE Goal
  BY <1>1 DEF Idle
<1>2. CASE Wake \/ Stop
  BY ZenonT(60), <1>2 DEF Wake, Stop, ProcState
<1>3. CASE ReadBounds
  <2>1. CASE proc' = [proc EXCEPT !.pc = "store", !.slot = head, !.tail = tail]
    <3>1. proc' \in ProcState /\ proc'.pc = "store" /\ proc'.slot = head /\ proc'.tail = tail
      BY ZenonT(60), <2>1 DEF ProcState
    <3> QED BY <3>1
  <2> QED BY <1>3, <1>1, <2>1 DEF ReadBounds
<1>4. CASE TakeBatch
  <2>1. CASE /\ proc.slot # proc.tail /\ proc.slot \in DOMAIN store
             /\ proc' = [proc EXCEPT !.pc = "nonce", !.list = store[proc.slot]]
    <3>1. /\ proc' \in ProcState /\ proc'.pc = "nonce" /\ proc'.slot = proc.slot
          /\ proc'.tail = proc.tail
      BY <2>1, <1>s DEF ProcState
    <3> QED BY SMTT(60), <1>4, <2>1, <3>1 DEF TakeBatch
  <2> QED BY <1>4, <1>1, <2>1 DEF TakeBatch
<1>5. CASE ReadNonce
  <2>1. /\ proc' \in ProcState /\ proc'.pc = "slot" /\ proc'.slot = proc.slot
        /\ proc'.tail = proc.tail /\ proc'.nonce = lane
    BY ZenonT(60), <1>5 DEF ReadNonce, ProcState
  <2> QED BY <1>5, <2>1 DEF ReadNonce
<1>6. CASE ReadSlot
  <2>1. CASE proc' = [proc EXCEPT !.pc = "headroom", !.from = done] /\ ~(proc.slot < head)
    <3>1. /\ proc' \in ProcState /\ proc'.pc = "headroom" /\ proc'.slot = proc.slot
          /\ proc'.tail = proc.tail /\ proc'.nonce = proc.nonce /\ proc'.from = done
      BY <2>1 DEF ProcState
    <3> QED BY SMTT(60), <1>6, <2>1, <3>1 DEF ReadSlot
  <2> QED BY <1>6, <1>1, <2>1 DEF ReadSlot
<1>7. CASE ReadHeadroom
  <2>1. CASE proc' = [proc EXCEPT !.pc = "submit", !.next = proc.from,
                               !.limit = proc.from + Admitted(proc.slot, proc.from)]
    <3>0. proc.slot >= 1 /\ proc.slot < proc.tail /\ proc.tail <= tail
      BY <1>7 DEF ReadHeadroom
    <3>a. proc.slot \in Slot
      <4> HIDE DEF ProcInv, NonceSlotPairing
      <4> QED BY <3>0, ConstantTypes DEF Slot
    <3>1. proc.slot \in Slot /\ Size(proc.slot) \in Nat
      BY ONLY <3>a, SlotSize
    <3>2. proc.pc = "headroom" /\ proc.from < Size(proc.slot) /\ (proc.slot = head => proc.from <= done)
      BY <1>7 DEF ReadHeadroom
    <3>3. /\ Admitted(proc.slot, proc.from) \in Nat
          /\ proc.from + Admitted(proc.slot, proc.from) <= Size(proc.slot)
      BY <3>1, <3>2, AdmittedBounds
    <3>4. Room(proc.slot, proc.from + Admitted(proc.slot, proc.from))
      BY <3>1, <3>2, PlanHasRoom
    <3>5. /\ proc' \in ProcState /\ proc'.pc = "submit" /\ proc'.slot = proc.slot
          /\ proc'.tail = proc.tail /\ proc'.nonce = proc.nonce /\ proc'.from = proc.from
          /\ proc'.next = proc.from /\ proc'.limit = proc.from + Admitted(proc.slot, proc.from)
      <4> DEFINE limit == proc.from + Admitted(proc.slot, proc.from)
      <4>1. limit \in Nat
        BY SMTT(60), <3>3
      <4>2. proc' = [proc EXCEPT !.pc = "submit", !.next = proc.from, !.limit = limit]
        BY <2>1
      <4> HIDE DEF limit, ProcInv, NonceSlotPairing
      <4>3. /\ proc' \in ProcState /\ proc'.pc = "submit" /\ proc'.slot = proc.slot
            /\ proc'.tail = proc.tail /\ proc'.nonce = proc.nonce /\ proc'.from = proc.from
            /\ proc'.next = proc.from /\ proc'.limit = limit
        BY <4>1, <4>2 DEF ProcState
      <4> QED BY <4>3 DEF limit
    <3> QED BY SMTT(60), <3>2, <3>3, <3>4, <3>5 DEF Room
  <2> QED BY <1>7, <1>1, <2>1 DEF ReadHeadroom
<1>8. CASE ReadFails
  BY <1>8, <1>1 DEF ReadFails
<1>9. CASE Finish
  BY ZenonT(60), <1>9, <1>1 DEF Finish, Idle, ProcState, List
<1>10. ASSUME proc.pc = "submit", NEW r \in BOOLEAN, proc' = [proc EXCEPT !.retry = r] PROVE Goal
  BY ZenonT(60), <1>10 DEF ProcState, Room
<1>11. CASE TimeOut
  BY <1>11, <1>10 DEF TimeOut, TimesOut, Waiting
<1>12. ASSUME NEW t \in DOMAIN inFlight, Drain(t) PROVE Goal
  BY <1>12, <1>10 DEF Drain, Waiting
<1> QED BY <1>2, <1>3, <1>4, <1>5, <1>6, <1>7, <1>8, <1>9, <1>11, <1>12 DEF ProcessorReads

\* The reading and cleaning steps of process_queue preserve the invariant.
LEMMA ReadsIInv == ASSUME IInv, ProcessorReads PROVE IInv'
<1>1. ProcessorTypeOK'
  <2>1. proc' \in ProcState
    BY ReadsPlan
  <2> QED BY <2>1, ReadsShrink DEF IInv, ProcessorTypeOK
<1>2. QueueInv' /\ MonitorInv' /\ TxInv' /\ StoreMatchesPortal'
  BY ReadsShrink, QueueFrame, MonitorFrame, TxFrame, StoreFrame DEF IInv
<1>3. ProcInv' /\ NonceSlotPairing'
  BY ReadsPlan
<1> QED BY <1>1, <1>2, <1>3 DEF IInv

\* submit_and_confirm_batches puts a prefix of the remaining plan in flight.
LEMMA PushIInv == ASSUME IInv, PushBatch PROVE IInv'
<1> DEFINE tx(to) == [nonce |-> proc.nonce, slot |-> proc.slot, from |-> proc.next, to |-> to]
<1>1. PICK to \in proc.next + 1 .. proc.limit :
         /\ inFlight' = [t \in DOMAIN inFlight \cup {tx(to)} |->
                            IF t = tx(to) THEN "new" ELSE inFlight[t]]
         /\ proc' = [proc EXCEPT !.next = to, !.nonce = proc.nonce + 1]
  BY DEF PushBatch, Becomes
<1>2. /\ proc.pc = "submit" /\ proc \in ProcState /\ ProcInv /\ TxInv
      /\ UNCHANGED <<head, tail, done, unprocessed, paused, lane, mempool, batchPending>>
      /\ UNCHANGED <<store, repair, mon, stopping, faults>>
  BY DEF PushBatch, portalVars, l1Vars, IInv, ProcessorTypeOK
<1>3. /\ proc.slot \in Nat /\ proc.nonce \in Nat /\ proc.next \in Nat /\ proc.limit \in Nat
      /\ proc.tail \in Nat /\ proc.from \in Nat
  BY <1>2 DEF ProcState
<1>4. /\ proc' \in ProcState /\ proc'.pc = "submit" /\ proc'.slot = proc.slot
      /\ proc'.tail = proc.tail /\ proc'.nonce = proc.nonce + 1 /\ proc'.from = proc.from
      /\ proc'.next = to /\ proc'.limit = proc.limit
  <2> DEFINE n == proc.nonce + 1
  <2>1. n \in Nat /\ to \in Nat
    BY <1>3
  <2>2. proc' = [proc EXCEPT !.next = to, !.nonce = n]
    BY <1>1
  <2> HIDE DEF n
  <2>3. /\ proc' \in ProcState /\ proc'.pc = "submit" /\ proc'.slot = proc.slot
        /\ proc'.tail = proc.tail /\ proc'.nonce = n /\ proc'.from = proc.from
        /\ proc'.next = to /\ proc'.limit = proc.limit
    BY <1>2, <2>1, <2>2 DEF ProcState
  <2> QED BY <2>3 DEF n
<1>5. proc.slot \in Slot /\ to \in Nat /\ to > proc.next /\ to <= proc.limit
  BY SMTT(60), <1>2, <1>3, ConstantTypes DEF IInv, ProcessorTypeOK, ProcInv, Slot
<1>6. tx(to) \in Tx
  BY <1>3, <1>5 DEF Tx
<1>7. ProcessorTypeOK'
  <2>1. DOMAIN inFlight' \subseteq Tx /\ \A t \in DOMAIN inFlight' : inFlight'[t] \in TxState
    BY <1>1, <1>6 DEF IInv, ProcessorTypeOK, TxState
  <2> QED BY <1>2, <1>4, <2>1 DEF IInv, ProcessorTypeOK
<1>8. TxInv'
  <2>1. head \in Nat /\ tail \in Nat /\ done \in Nat /\ unprocessed \in Nat
    BY DEF IInv, ProcessorTypeOK
  <2>2. Size(proc.slot) \in Nat
    BY <1>5, SlotSize
  <2>3. /\ proc.slot <= head /\ proc.slot < tail /\ proc.next < to /\ to <= Size(proc.slot)
        /\ Room(proc.slot, to)
    <3>1. /\ proc.slot <= head /\ proc.slot < proc.tail /\ proc.tail <= tail
          /\ proc.limit <= Size(proc.slot) /\ Room(proc.slot, proc.limit)
      BY <1>2 DEF ProcInv
    <3>2. Room(proc.slot, to)
      <4> DEFINE top == AtLeast(unprocessed, MaxUnprocessed - Reserve)
      <4>1. top \in Int /\ MaxUnprocessed \in Nat
        BY <2>1, ConstantTypes DEF AtLeast
      <4>2. proc.slot = head /\ proc.limit > done => top + (proc.limit - done) <= MaxUnprocessed
        BY <3>1 DEF Room
      <4> HIDE DEF top
      <4>3. proc.slot = head /\ to > done => top + (to - done) <= MaxUnprocessed
        BY ONLY <1>3, <1>5, <2>1, <4>1, <4>2
      <4> QED BY <4>3 DEF Room, top
    <3> QED BY <1>3, <1>5, <2>1, <2>2, <3>1, <3>2
  <2>4. \A t \in mempool \cup DOMAIN inFlight :
           t.slot <= head /\ t.slot < tail /\ t.from < t.to /\ t.to <= Size(t.slot) /\ Room(t.slot, t.to)
    BY <1>2 DEF TxInv
  <2>5. mempool' \cup DOMAIN inFlight' = mempool \cup DOMAIN inFlight \cup {tx(to)}
    BY <1>1, <1>2
  <2> QED BY <1>2, <2>3, <2>4, <2>5 DEF TxInv, Room
<1>9. ProcInv' /\ NonceSlotPairing'
  BY <1>2, <1>3, <1>4, <1>5 DEF ProcInv, NonceSlotPairing, Room
<1>10. QueueInv' /\ MonitorInv' /\ StoreMatchesPortal'
  BY <1>2, QueueFrame, MonitorFrame, StoreFrame DEF IInv
<1> QED BY <1>7, <1>8, <1>9, <1>10 DEF IInv

\* A transaction of the pipeline is handed to L1, or refused by it.
LEMMA SendIInv == ASSUME IInv, NEW t \in DOMAIN inFlight, Send(t) PROVE IInv'
<1>1. /\ UNCHANGED <<head, tail, done, unprocessed, paused, lane, batchPending>>
      /\ UNCHANGED <<store, repair, proc, mon, stopping, faults>>
  BY DEF Send, portalVars
<1>2. /\ DOMAIN inFlight' = DOMAIN inFlight /\ mempool' \subseteq mempool \cup DOMAIN inFlight
      /\ \A x \in DOMAIN inFlight : inFlight'[x] \in TxState
  BY DEF Send, IInv, ProcessorTypeOK, TxState
<1>3. ProcessorTypeOK'
  BY <1>1, <1>2 DEF IInv, ProcessorTypeOK
<1> QED BY <1>1, <1>2, <1>3, QueueFrame, MonitorFrame, ProcFrame, TxFrame, StoreFrame DEF IInv

-----------------------------------------------------------------------------
(* Steps of Tempo L1                                                       *)

\* The queue consumes at least as much as the deposit backlog grows beyond the
\* public cap, or moves to the next slot.
Advances ==
    /\ head' \in Nat /\ tail' \in Nat /\ done' \in Nat /\ unprocessed' \in 0 .. MaxUnprocessed
    /\ tail' >= tail /\ lane' \in Nat
    /\ \/ /\ head' = head /\ done' >= done
          /\ AtLeast(unprocessed', MaxUnprocessed - Reserve) + done
                <= AtLeast(unprocessed, MaxUnprocessed - Reserve) + done'
       \/ head' > head
    /\ lane' > lane \/ (lane' = lane /\ head' = head /\ done' = done)

\* Consuming withdrawals, whose bounces may take capacity, and admitting
\* public deposits up to their cap keep the room of every plan.
LEMMA RoomKept ==
    ASSUME IInv, Advances
    PROVE  \A slot, to \in Nat : slot <= head /\ Room(slot, to) =>
              (slot = head' /\ to > done' =>
                 AtLeast(unprocessed', MaxUnprocessed - Reserve) + (to - done') <= MaxUnprocessed)
<1> SUFFICES ASSUME NEW slot \in Nat, NEW to \in Nat, slot <= head, Room(slot, to),
                    slot = head', to > done'
             PROVE  AtLeast(unprocessed', MaxUnprocessed - Reserve) + (to - done') <= MaxUnprocessed
  OBVIOUS
<1>1. head \in Nat /\ done \in Nat /\ unprocessed \in Nat
  BY DEF IInv, ProcessorTypeOK
<1>2. AtLeast(unprocessed, MaxUnprocessed - Reserve) \in Int
  BY <1>1, ConstantTypes DEF AtLeast
<1>3. AtLeast(unprocessed', MaxUnprocessed - Reserve) \in Int
  BY ConstantTypes DEF AtLeast, Advances
<1>4. /\ head' = head /\ done' >= done /\ done' \in Nat
      /\ AtLeast(unprocessed', MaxUnprocessed - Reserve) + done
            <= AtLeast(unprocessed, MaxUnprocessed - Reserve) + done'
  BY <1>1 DEF Advances
<1>5. AtLeast(unprocessed, MaxUnprocessed - Reserve) + (to - done) <= MaxUnprocessed
  BY <1>1, <1>4 DEF Room
<1>6. \A a, b, d, e, m, x \in Int : b + d <= a + e /\ a + (x - d) <= m => b + (x - e) <= m
  OBVIOUS
<1>7. done \in Int /\ done' \in Int /\ MaxUnprocessed \in Int /\ to \in Int
  BY <1>1, <1>4, ConstantTypes
<1> QED BY <1>2, <1>3, <1>4, <1>5, <1>6, <1>7

\* Plans and transactions keep their room; plans keep their pairing.
LEMMA AdvanceKeepsPlans ==
    ASSUME IInv, Advances, proc' = proc,
           mempool' \cup DOMAIN inFlight' \subseteq mempool \cup DOMAIN inFlight
    PROVE  ProcInv' /\ NonceSlotPairing' /\ TxInv'
<1>1. /\ head \in Nat /\ tail \in Nat /\ done \in Nat /\ lane \in Nat
      /\ mempool \cup DOMAIN inFlight \subseteq Tx /\ proc \in ProcState
  BY DEF IInv, ProcessorTypeOK
<1>2. /\ proc.slot \in Nat /\ proc.limit \in Nat /\ proc.tail \in Nat /\ proc.nonce \in Nat
      /\ proc.from \in Nat
  BY <1>1 DEF ProcState
<1>3. TxInv'
  <2> SUFFICES ASSUME NEW t \in mempool' \cup DOMAIN inFlight'
               PROVE  /\ t.slot <= head' /\ t.slot < tail' /\ t.from < t.to /\ t.to <= Size(t.slot)
                      /\ Room(t.slot, t.to)'
    BY DEF TxInv, Size
  <2>1. /\ t.slot <= head /\ t.slot < tail /\ t.from < t.to /\ t.to <= Size(t.slot)
        /\ Room(t.slot, t.to)
    BY DEF IInv, TxInv
  <2>2. t.slot \in Nat /\ t.to \in Nat
    BY <1>1 DEF Tx, Slot
  <2> QED BY <1>1, <2>1, <2>2, RoomKept DEF Advances, Room
<1>4. ProcInv'
  <2>1. ProcInv
    BY DEF IInv
  <2>2. head <= head' /\ tail <= tail' /\ lane <= lane' /\ (head' = head => done' >= done)
    BY <1>1 DEF Advances
  <2>3. /\ head' \in Nat /\ tail' \in Nat /\ done' \in Nat /\ lane' \in Nat
    BY DEF Advances
  <2>4. proc.pc = "submit" => Room(proc.slot, proc.limit)'
    BY <1>2, <2>1, RoomKept DEF ProcInv, Room
  <2> QED BY <1>1, <1>2, <2>1, <2>2, <2>3, <2>4 DEF ProcInv
<1>5. NonceSlotPairing'
  BY <1>1, <1>2 DEF IInv, ProcInv, NonceSlotPairing, Advances
<1> QED BY <1>3, <1>4, <1>5

\* What mon and store say of the queue stays true when the queue advances.
LEMMA AdvanceKeepsCopies ==
    ASSUME IInv, Advances
    PROVE  /\ mon' = mon /\ tail' = tail => MonitorInv'
           /\ store' = store => StoreMatchesPortal'
<1>1. /\ head \in Nat /\ tail \in Nat /\ done \in Nat /\ mon \in MonState
      /\ DOMAIN store \subseteq Slot /\ \A i \in DOMAIN store : store[i] \in List
  BY DEF IInv, ProcessorTypeOK
<1>2. /\ mon.head \in Nat /\ mon.page \in Nat /\ mon.tail \in Nat /\ mon.from \in Nat
      /\ mon.cursor \in Nat
  BY <1>1 DEF MonState
<1>3. /\ head' \in Nat /\ tail' \in Nat /\ done' \in Nat /\ head' >= head /\ tail' >= tail
      /\ head' = head => done' >= done
  BY <1>1 DEF Advances
<1>4. ASSUME mon' = mon, tail' = tail PROVE MonitorInv'
  BY <1>1, <1>2, <1>3, <1>4 DEF IInv, MonitorInv
<1>5. ASSUME store' = store PROVE StoreMatchesPortal'
  <2> SUFFICES ASSUME NEW i \in DOMAIN store, i >= head'
               PROVE  /\ i < tail' /\ store[i].slot = i
                      /\ store[i].from <= IF i = head' THEN done' ELSE 0
    BY <1>5 DEF StoreMatchesPortal
  <2>1. i \in Nat /\ store[i].from \in Nat
    BY <1>1 DEF Slot, List
  <2>2. i >= head
    BY <1>1, <1>3, <2>1
  <2>3. i < tail /\ store[i].slot = i /\ store[i].from <= IF i = head THEN done ELSE 0
    BY <2>2 DEF IInv, StoreMatchesPortal
  <2> QED BY <1>1, <1>3, <2>1, <2>2, <2>3
<1> QED BY <1>4, <1>5

\* processWithdrawals is mined: it consumes the queue or changes nothing.
LEMMA IncludeIInv == ASSUME IInv, NEW t \in mempool, Include(t) PROVE IInv'
<1>1. /\ head \in Nat /\ tail \in Nat /\ done \in Nat /\ lane \in Nat /\ head <= tail
      /\ unprocessed \in 0 .. MaxUnprocessed /\ t \in Tx /\ tail <= Len(Batches) + 1 /\ head >= 1
  BY DEF IInv, ProcessorTypeOK, QueueInv
<1>2. /\ UNCHANGED <<tail, paused, batchPending, mon, faults, store, repair, proc, stopping>>
      /\ lane' = lane + 1 /\ mempool' \subseteq mempool
  BY DEF Include, Mined, OnlyL1
<1>3. /\ DOMAIN inFlight' = DOMAIN inFlight
      /\ \A x \in DOMAIN inFlight : inFlight'[x] \in TxState
  BY DEF Include, Resolve, IInv, ProcessorTypeOK, TxState
<1>4. t.slot = head /\ head < tail /\ t.from = done /\ t.to - done <= MaxUnprocessed - unprocessed
  BY DEF Include, Executes, Fits, Preflight
<1>5. t.to \in Nat /\ t.to > done /\ t.to <= Size(head) /\ head \in Slot /\ Size(head) \in Nat
  BY <1>1, <1>4, SlotSize DEF IInv, TxInv, Tx
<1>6. /\ head' = IF t.to = Size(head) THEN head + 1 ELSE head
      /\ done' = IF t.to = Size(head) THEN 0 ELSE t.to
  BY DEF Include, Consume
<1>7. /\ unprocessed' \in 0 .. MaxUnprocessed
      /\ AtLeast(unprocessed', MaxUnprocessed - Reserve) + done
            <= AtLeast(unprocessed, MaxUnprocessed - Reserve) + t.to
  <2>1. unprocessed' \in unprocessed .. AtMost(MaxUnprocessed,
          AtLeast(unprocessed, MaxUnprocessed - Reserve) + (t.to - done))
    BY <1>4 DEF Include, Consume
  <2> DEFINE a == AtLeast(unprocessed, MaxUnprocessed - Reserve)
  <2>2. a \in Int /\ a >= unprocessed /\ a >= MaxUnprocessed - Reserve
    BY <1>1, ConstantTypes DEF AtLeast
  <2>3. /\ unprocessed' \in Int /\ unprocessed' >= unprocessed
        /\ unprocessed' <= MaxUnprocessed /\ unprocessed' <= a + (t.to - done)
    <3>1. unprocessed' \in unprocessed .. AtMost(MaxUnprocessed, a + (t.to - done))
      BY <2>1
    <3> HIDE DEF a
    <3> QED BY SMTT(60), <1>1, <1>5, <2>2, <3>1, ConstantTypes DEF AtMost
  <2> HIDE DEF a
  <2>4. AtLeast(unprocessed', MaxUnprocessed - Reserve) + done <= a + t.to
    BY SMTT(60), <1>1, <1>5, <2>2, <2>3, ConstantTypes DEF AtLeast
  <2> QED BY <1>1, <2>3, <2>4, ConstantTypes DEF a
<1>8. Advances
  BY <1>1, <1>2, <1>5, <1>6, <1>7 DEF Advances
<1>9. ProcInv' /\ NonceSlotPairing' /\ TxInv'
  BY <1>2, <1>3, <1>8, AdvanceKeepsPlans
<1>10. MonitorInv' /\ StoreMatchesPortal'
  BY <1>2, <1>8, AdvanceKeepsCopies
<1>11. QueueInv'
  <2>1. CASE t.to = Size(head)
    <3>1. head' = head + 1 /\ done' = 0 /\ tail' = tail
      BY <1>2, <1>6, <2>1
    <3>2. head + 1 < tail => head + 1 \in Slot
      BY <1>1, ConstantTypes DEF Slot
    <3> QED BY <1>1, <1>2, <3>1, <3>2, SlotSize DEF IInv, QueueInv
  <2>2. CASE t.to # Size(head)
    BY <1>1, <1>2, <1>4, <1>5, <1>6, <2>2 DEF IInv, QueueInv
  <2> QED BY <2>1, <2>2
<1>12. ProcessorTypeOK'
  <2>1. head' \in Nat /\ head' <= tail /\ done' \in Nat /\ lane' \in Nat
    BY <1>1, <1>2, <1>4, <1>5, <1>6
  <2> QED BY <1>2, <1>3, <1>7, <2>1 DEF IInv, ProcessorTypeOK
<1> QED BY <1>9, <1>10, <1>11, <1>12 DEF IInv

\* Deposits up to the public cap, and settled deposits, take no reserved room.
LEMMA BacklogAdvances ==
    ASSUME IInv, head' = head, done' = done, lane' = lane, tail' \in Nat, tail' >= tail,
           unprocessed' \in 0 .. MaxUnprocessed,
           unprocessed' <= unprocessed \/ unprocessed' <= MaxUnprocessed - Reserve
    PROVE  Advances
<1>1. /\ head \in Nat /\ done \in Nat /\ lane \in Nat /\ unprocessed \in 0 .. MaxUnprocessed
  BY DEF IInv, ProcessorTypeOK
<1>2. /\ AtLeast(unprocessed', MaxUnprocessed - Reserve) <= AtLeast(unprocessed, MaxUnprocessed - Reserve)
      /\ AtLeast(unprocessed', MaxUnprocessed - Reserve) \in Int
      /\ AtLeast(unprocessed, MaxUnprocessed - Reserve) \in Int
  BY <1>1, ConstantTypes DEF AtLeast
<1>3. \A a, b, d \in Int : a <= b => a + d <= b + d
  OBVIOUS
<1>4. AtLeast(unprocessed', MaxUnprocessed - Reserve) + done
         <= AtLeast(unprocessed, MaxUnprocessed - Reserve) + done
  BY <1>1, <1>2, <1>3
<1> QED BY <1>1, <1>4 DEF Advances

\* A mined transaction that reverts takes its nonce and nothing else.
LEMMA RevertIInv == ASSUME IInv, NEW t \in mempool, Revert(t) PROVE IInv'
<1>1. /\ head \in Nat /\ tail \in Nat /\ done \in Nat /\ lane \in Nat
      /\ unprocessed \in 0 .. MaxUnprocessed
  BY DEF IInv, ProcessorTypeOK
<1>2. /\ UNCHANGED <<head, tail, done, unprocessed, paused, batchPending>>
      /\ UNCHANGED <<mon, faults, store, repair, proc, stopping>>
      /\ lane' = lane + 1 /\ mempool' \subseteq mempool
  BY DEF Revert, Mined, OnlyL1
<1>3. /\ DOMAIN inFlight' = DOMAIN inFlight
      /\ \A x \in DOMAIN inFlight : inFlight'[x] \in TxState
  BY DEF Revert, Resolve, IInv, ProcessorTypeOK, TxState
<1>4. Advances
  BY <1>1, <1>2, ConstantTypes DEF Advances, AtLeast
<1>5. ProcInv' /\ NonceSlotPairing' /\ TxInv' /\ MonitorInv' /\ StoreMatchesPortal'
  BY <1>2, <1>3, <1>4, AdvanceKeepsPlans, AdvanceKeepsCopies
<1>6. ProcessorTypeOK'
  BY <1>1, <1>2, <1>3 DEF IInv, ProcessorTypeOK
<1> QED BY <1>2, <1>5, <1>6, QueueFrame DEF IInv

\* Deposits, batches without withdrawals, pauses, lost transactions, shutdown.
Environment ==
    \/ SettleDeposits \/ PublicDeposit \/ Pause \/ Unpause \/ Shutdown
    \/ \E t \in mempool : DropTx(t)

\* Deposits, settlements of deposits, pauses, drops and shutdown requests.
LEMMA EnvironmentIInv == ASSUME IInv, Environment PROVE IInv'
<1>1. /\ head \in Nat /\ tail \in Nat /\ done \in Nat /\ lane \in Nat
      /\ unprocessed \in 0 .. MaxUnprocessed
  BY DEF IInv, ProcessorTypeOK
<1>2. /\ UNCHANGED <<head, tail, done, lane, batchPending, mon, store, repair, proc, inFlight>>
      /\ mempool' \subseteq mempool
  BY DEF Environment, SettleDeposits, PublicDeposit, Pause, Unpause, Shutdown, DropTx, OnlyL1,
         portalVars, l1Vars, procVars
<1>3. /\ unprocessed' \in 0 .. MaxUnprocessed
      /\ unprocessed' <= unprocessed \/ unprocessed' <= MaxUnprocessed - Reserve
  BY <1>1, ConstantTypes
     DEF Environment, SettleDeposits, PublicDeposit, Pause, Unpause, Shutdown, DropTx, portalVars
<1>4. paused' \in BOOLEAN /\ stopping' \in BOOLEAN /\ faults' \in 0 .. MaxFaults
  <2>1. paused \in BOOLEAN /\ stopping \in BOOLEAN /\ faults \in 0 .. MaxFaults
    BY DEF IInv, ProcessorTypeOK
  <2>2. paused' \in {paused, TRUE, FALSE} /\ stopping' \in {stopping, TRUE}
    BY DEF Environment, SettleDeposits, PublicDeposit, Pause, Unpause, Shutdown, DropTx, OnlyL1,
           portalVars
  <2>3. faults' = faults \/ Fault
    BY DEF Environment, SettleDeposits, PublicDeposit, Pause, Unpause, Shutdown, DropTx
  <2>4. faults' \in 0 .. MaxFaults
    BY <2>1, <2>3, ConstantTypes DEF Fault
  <2> QED BY <2>1, <2>2, <2>4
<1>5. Advances
  BY <1>1, <1>2, <1>3, BacklogAdvances
<1>6. ProcInv' /\ NonceSlotPairing' /\ TxInv' /\ MonitorInv' /\ StoreMatchesPortal'
  BY <1>2, <1>5, AdvanceKeepsPlans, AdvanceKeepsCopies
<1>7. ProcessorTypeOK'
  BY <1>1, <1>2, <1>3, <1>4 DEF IInv, ProcessorTypeOK
<1> QED BY <1>2, <1>6, <1>7, QueueFrame DEF IInv

\* submitBatch appends the slot the monitor's cursor stands for.
LEMMA BatchLandsIInv == ASSUME IInv, BatchLands PROVE IInv'
<1>1. /\ head \in Nat /\ tail \in Nat /\ done \in Nat /\ lane \in Nat /\ head <= tail
      /\ unprocessed \in 0 .. MaxUnprocessed /\ mon \in MonState /\ tail \in Slot /\ head >= 1
  BY DEF IInv, ProcessorTypeOK, QueueInv, BatchLands
<1>2. /\ UNCHANGED <<head, done, paused, lane, mempool, inFlight, faults, store, repair, proc, stopping>>
      /\ tail' = tail + 1 /\ batchPending' = {} /\ unprocessed' \in 0 .. unprocessed
  BY DEF BatchLands, OnlyL1
<1>3. Advances
  BY <1>1, <1>2, ConstantTypes, BacklogAdvances
<1>4. ProcInv' /\ NonceSlotPairing' /\ TxInv' /\ StoreMatchesPortal'
  BY <1>2, <1>3, AdvanceKeepsPlans, AdvanceKeepsCopies
<1>5. QueueInv'
  <2>1. head < tail + 1 => head \in Slot
    BY <1>1 DEF Slot
  <2>2. head = tail => done = 0 /\ done < Size(head)
    BY <1>1, SlotSize DEF IInv, QueueInv
  <2> QED BY <1>1, <1>2, <2>2 DEF IInv, QueueInv
<1>6. mon' \in MonState /\ MonitorInv'
  <2>1. /\ mon.head \in Nat /\ mon.page \in Nat /\ mon.tail \in Nat /\ mon.from \in Nat
        /\ mon.cursor \in Nat
    BY <1>1 DEF MonState
  <2>p. PICK submission \in batchPending : mon' = Awaited(submission)
    BY DEF BatchLands
  <2>2. CASE mon.pc = "submitting" /\ submission = "current"
    <3>1. mon' = [mon EXCEPT !.pc = "landed", !.tail = tail]
      BY <2>p, <2>2 DEF Awaited
    <3>2. /\ mon' \in MonState /\ mon'.pc = "landed" /\ mon'.tail = tail /\ mon'.cursor = mon.cursor
      BY ZenonT(60), <1>1, <3>1 DEF MonState
    <3> QED BY <1>1, <1>2, <2>1, <2>2, <3>2 DEF IInv, MonitorInv, Slot
  <2>3. CASE mon.pc = "submitting" /\ submission # "current"
    <3>1. mon' = [mon EXCEPT !.pc = "retry"]
      BY <2>p, <2>3 DEF Awaited
    <3>2. mon' \in MonState /\ mon'.pc = "retry"
      BY <1>1, <3>1 DEF MonState
    <3> QED BY <3>2 DEF MonitorInv
  <2>4. CASE mon.pc # "submitting"
    <3>1. mon' = mon
      BY <2>p, <2>4 DEF Awaited
    <3> QED BY <1>1, <1>2, <2>1, <2>4, <3>1 DEF IInv, MonitorInv
  <2> QED BY <2>2, <2>3, <2>4
<1>7. ProcessorTypeOK'
  <2>1. tail' \in Nat /\ head' <= tail' /\ tail' <= Len(Batches) + 1 /\ unprocessed' \in 0 .. MaxUnprocessed
    BY <1>1, <1>2, ConstantTypes DEF Slot
  <2> QED BY <1>1, <1>2, <1>6, <2>1 DEF IInv, ProcessorTypeOK
<1> QED BY <1>4, <1>5, <1>6, <1>7 DEF IInv

-----------------------------------------------------------------------------
(* Steps of the monitor                                                    *)

MonitorStepOrFault == MonitorStep \/ RestoreFails \/ SubmissionFails

\* The monitor's copies of head and tail stay within the portal's.
LEMMA MonitorMoves ==
    ASSUME IInv, MonitorStepOrFault
    PROVE  mon' \in MonState /\ MonitorInv'
<1> DEFINE Goal == mon' \in MonState /\ MonitorInv'
<1>0. UNCHANGED <<head, tail, done>>
  BY DEF MonitorStepOrFault, MonitorStep, StartMonitor, BeginRefill, ReadPageBounds, ReadPageSlot,
     RecheckPage, ApplyPage, SubmitBatch, ConfirmBatch, RestoreFails, SubmissionFails, OnlyMon, portalVars
<1>n. /\ head \in Nat /\ tail \in Nat /\ done \in Nat /\ head <= tail /\ head >= 1
      /\ mon \in MonState /\ MonitorInv
  BY DEF IInv, ProcessorTypeOK, QueueInv
<1>f. /\ mon.head \in Nat /\ mon.page \in Nat /\ mon.tail \in Nat /\ mon.from \in Nat
      /\ mon.cursor \in Nat /\ mon.startup \in BOOLEAN
  BY <1>n DEF MonState
<1> USE <1>0, <1>n, <1>f
<1>1. ASSUME mon' = Starting PROVE Goal
  BY <1>1, FreshTypes DEF Starting, MonitorInv
<1>2. ASSUME mon' \in {[mon EXCEPT !.pc = "idle"], [mon EXCEPT !.pc = "bounds"], [mon EXCEPT !.pc = "retry"]}
      PROVE  Goal
  BY <1>2 DEF MonState, MonitorInv
<1>3. CASE StartMonitor
  <2>1. mon' \in MonState /\ mon'.pc = "bounds"
    BY <1>3 DEF StartMonitor, MonState
  <2> QED BY <2>1 DEF MonitorInv
<1>4. CASE BeginRefill
  BY <1>4, <1>2 DEF BeginRefill
<1>5. CASE ReadPageBounds
  <2> DEFINE page == AtMost(tail, head + PageSize)
  <2>1. page \in Nat /\ page <= tail /\ (head = tail => page = head)
    BY ConstantTypes DEF AtMost
  <2>2. mon' = [mon EXCEPT !.pc = IF head = tail THEN "apply" ELSE "slot", !.head = head,
                          !.page = page, !.tail = tail]
    BY <1>5 DEF ReadPageBounds
  <2> HIDE DEF page
  <2>3. /\ mon' \in MonState /\ mon'.pc = IF head = tail THEN "apply" ELSE "slot"
        /\ mon'.head = head /\ mon'.page = page /\ mon'.tail = tail
    BY <2>1, <2>2 DEF MonState
  <2> QED BY <2>1, <2>3 DEF MonitorInv
<1>6. CASE ReadPageSlot
  <2>1. /\ mon' \in MonState /\ mon'.pc = "recheck" /\ mon'.head = mon.head
        /\ mon'.page = mon.page /\ mon'.tail = mon.tail /\ mon'.from = done
    BY <1>6 DEF ReadPageSlot, MonState
  <2> QED BY <1>6, <2>1 DEF ReadPageSlot, MonitorInv
<1>7. CASE RecheckPage
  <2>1. CASE mon' = [mon EXCEPT !.pc = "apply", !.tail = tail]
    <3>1. /\ mon' \in MonState /\ mon'.pc = "apply" /\ mon'.head = mon.head
          /\ mon'.page = mon.page /\ mon'.tail = tail /\ mon'.from = mon.from
      BY <2>1 DEF MonState
    <3> QED BY <1>7, <3>1 DEF RecheckPage, MonitorInv
  <2> QED BY <1>7, <1>1, <1>2, <2>1 DEF RecheckPage, BackTo
<1>8. CASE ApplyPage
  <2>1. mon' \in MonState /\ mon'.pc = "idle"
    BY <1>8 DEF ApplyPage, MonState
  <2> QED BY <2>1 DEF MonitorInv
<1>9. CASE SubmitBatch
  <2>1. CASE tail = mon.cursor /\ mon' = [mon EXCEPT !.pc = "submitting"]
    BY <2>1 DEF MonState, MonitorInv
  <2> QED BY <1>9, <1>1, <1>2, <2>1 DEF SubmitBatch
<1>10. CASE ConfirmBatch
  <2> DEFINE next == mon.cursor + 1
  <2>1. next \in Nat /\ mon' = [mon EXCEPT !.pc = "idle", !.cursor = next]
    BY <1>10 DEF ConfirmBatch
  <2> HIDE DEF next
  <2>2. mon' \in MonState /\ mon'.pc = "idle"
    BY ZenonT(60), <2>1 DEF MonState
  <2> QED BY <2>2 DEF MonitorInv
<1>11. CASE RestoreFails
  BY <1>11, <1>1, <1>2 DEF RestoreFails, BackTo
<1>12. CASE SubmissionFails
  BY <1>12, <1>1, <1>2 DEF SubmissionFails
<1> QED BY <1>3, <1>4, <1>5, <1>6, <1>7, <1>8, <1>9, <1>10, <1>11, <1>12
        DEF MonitorStepOrFault, MonitorStep


\* replace_page and add_batch write faithful payloads.
LEMMA MonitorStore ==
    ASSUME IInv, MonitorStepOrFault
    PROVE  /\ DOMAIN store' \subseteq Slot /\ \A i \in DOMAIN store' : store'[i] \in List
           /\ StoreMatchesPortal'
<1> DEFINE Goal == /\ DOMAIN store' \subseteq Slot /\ \A i \in DOMAIN store' : store'[i] \in List
                   /\ StoreMatchesPortal'
<1>0. UNCHANGED <<head, tail, done>>
  BY DEF MonitorStepOrFault, MonitorStep, StartMonitor, BeginRefill, ReadPageBounds, ReadPageSlot,
     RecheckPage, ApplyPage, SubmitBatch, ConfirmBatch, RestoreFails, SubmissionFails, OnlyMon, portalVars
<1>n. /\ head \in Nat /\ tail \in Nat /\ done \in Nat /\ head >= 1 /\ tail <= Len(Batches) + 1
      /\ Len(Batches) \in Nat /\ mon \in MonState /\ MonitorInv
  BY ConstantTypes DEF IInv, ProcessorTypeOK, QueueInv
<1>f. /\ mon.head \in Nat /\ mon.page \in Nat /\ mon.tail \in Nat /\ mon.from \in Nat /\ mon.cursor \in Nat
  BY <1>n DEF MonState
<1>s. /\ DOMAIN store \subseteq Slot /\ \A i \in DOMAIN store : store[i] \in List
      /\ StoreMatchesPortal
  BY DEF IInv, ProcessorTypeOK
<1>1. ASSUME store' = store PROVE Goal
  BY <1>0, <1>s, <1>1 DEF StoreMatchesPortal
<1>2. CASE ApplyPage
  <2> DEFINE page == mon.head .. mon.page - 1
             kept == {i \in DOMAIN store : mon.head <= i /\ i < mon.tail}
  <2>m. /\ mon.head >= 1 /\ mon.head <= head /\ mon.page <= tail /\ mon.tail <= tail
        /\ mon.head = head /\ mon.head < mon.page => mon.from <= done
    BY <1>2, <1>n DEF ApplyPage, MonitorInv
  <2>1. store' = [i \in Cached(page \cup kept) |->
                    IF i \in page THEN [slot |-> i, from |-> Trimmed(i)] ELSE store[i]]
    BY <1>2 DEF ApplyPage, replace_page
  <2>2. Cached(page \cup kept) \subseteq page \cup kept
    BY DEF Cached
  <2>3. page \subseteq Slot
    BY SMTT(60), <1>n, <1>f, <2>m DEF Slot
  <2>4. \A i \in page : Trimmed(i) \in Nat /\ (i >= head => Trimmed(i) <= IF i = head THEN done ELSE 0)
    BY <1>n, <1>f, <2>m DEF Trimmed
  <2>5. \A i \in DOMAIN store' :
            \/ i \in page /\ store'[i] = [slot |-> i, from |-> Trimmed(i)]
            \/ i \in kept /\ store'[i] = store[i]
    BY <2>1, <2>2
  <2>6. \A i \in page : i \in Nat /\ i < tail
    BY <1>n, <1>f, <2>m
  <2>7. \A i \in kept : i \in DOMAIN store /\ i < tail
    BY <1>n, <1>f, <1>s, <2>m DEF Slot
  <2>8. \A i \in DOMAIN store' : i \in Slot /\ store'[i] \in List
    <3> HIDE DEF page, kept
    <3> QED BY SMTT(60), <2>3, <2>4, <2>5, <2>6, <2>7, <1>s DEF List
  <2>9. StoreMatchesPortal'
    <3> SUFFICES ASSUME NEW i \in DOMAIN store', i >= head
                 PROVE  i < tail /\ store'[i].slot = i /\ store'[i].from <= IF i = head THEN done ELSE 0
      BY <1>0 DEF StoreMatchesPortal
    <3> HIDE DEF page, kept
    <3>1. CASE i \in page /\ store'[i] = [slot |-> i, from |-> Trimmed(i)]
      BY <3>1, <2>4, <2>6
    <3>2. CASE i \in kept /\ store'[i] = store[i]
      BY <3>2, <2>7, <1>s DEF StoreMatchesPortal
    <3> QED BY <2>5, <3>1, <3>2
  <2> QED BY <2>8, <2>9
<1>3. CASE ConfirmBatch
  <2> DEFINE new == [slot |-> mon.cursor, from |-> 0]
  <2>1. mon.tail = mon.cursor /\ mon.tail >= 1 /\ mon.tail < tail
    BY <1>3, <1>n DEF ConfirmBatch, MonitorInv
  <2>2. mon.tail \in Slot /\ new \in List
    BY <2>1, <1>n, <1>f DEF Slot, List
  <2>3. CASE store' = [j \in DOMAIN store \cup {mon.tail} |-> IF j = mon.tail THEN new ELSE store[j]]
    <3>1. \A i \in DOMAIN store' : i \in Slot /\ store'[i] \in List
      BY <2>2, <2>3, <1>s
    <3>2. StoreMatchesPortal'
      BY SMTT(60), <1>0, <1>n, <1>f, <2>1, <2>3, <1>s DEF StoreMatchesPortal
    <3> QED BY <3>1, <3>2
  <2> QED BY <1>3, <1>1, <2>3 DEF ConfirmBatch
<1> QED BY <1>1, <1>2, <1>3
        DEF MonitorStepOrFault, MonitorStep, StartMonitor, BeginRefill, ReadPageBounds, ReadPageSlot,
            RecheckPage, SubmitBatch, RestoreFails, SubmissionFails

\* Every step of the monitor preserves the invariant.
LEMMA MonitorIInv == ASSUME IInv, MonitorStepOrFault PROVE IInv'
<1> USE DEF OnlyMon, portalVars, procVars
<1>0. UNCHANGED <<head, tail, done, unprocessed, paused, lane, mempool, proc, inFlight, stopping>>
  BY DEF MonitorStepOrFault, MonitorStep, StartMonitor, BeginRefill, ReadPageBounds, ReadPageSlot,
     RecheckPage, ApplyPage, SubmitBatch, ConfirmBatch, RestoreFails, SubmissionFails
<1>a. faults' = faults \/ Fault
  BY DEF MonitorStepOrFault, MonitorStep, StartMonitor, BeginRefill, ReadPageBounds, ReadPageSlot,
     RecheckPage, ApplyPage, SubmitBatch, ConfirmBatch, RestoreFails, SubmissionFails
<1>b. faults' \in 0 .. MaxFaults
  BY <1>a, ConstantTypes DEF IInv, ProcessorTypeOK, Fault
<1>1. repair' \in BOOLEAN
  BY ZenonT(60) DEF IInv, ProcessorTypeOK, MonitorStepOrFault, MonitorStep, StartMonitor, BeginRefill,
     ReadPageBounds, ReadPageSlot, RecheckPage, ApplyPage, SubmitBatch, ConfirmBatch, RestoreFails,
     SubmissionFails
<1>2. batchPending' \subseteq Submission /\ (batchPending' # {} => tail \in Slot)
  <2>1. \/ batchPending' \in {batchPending, {}}
        \/ SubmitBatch /\ batchPending' \subseteq Submission /\ tail = mon.cursor
    BY DEF MonitorStepOrFault, MonitorStep, StartMonitor, BeginRefill,
       ReadPageBounds, ReadPageSlot, RecheckPage, ApplyPage, SubmitBatch, ConfirmBatch, RestoreFails,
       SubmissionFails, Submission
  <2> QED BY <2>1 DEF SubmitBatch, IInv, ProcessorTypeOK, QueueInv
<1>3. ProcessorTypeOK'
  BY <1>0, <1>1, <1>2, <1>b, MonitorMoves, MonitorStore DEF IInv, ProcessorTypeOK
<1>4. QueueInv'
  BY <1>0, <1>2 DEF IInv, QueueInv
<1>5. ProcInv' /\ NonceSlotPairing'
  BY <1>0, ProcFrame DEF IInv
<1>6. TxInv'
  BY <1>0, TxFrame DEF IInv
<1> QED BY <1>3, <1>4, <1>5, <1>6, MonitorMoves, MonitorStore DEF IInv


\* A restarted or crashed sequencer forgets its cache, its plan and what it
\* had in flight; what it sent before stays in the mempool and keeps its room.
LEMMA SpawnIInv == ASSUME IInv, Spawn, faults' \in 0 .. MaxFaults PROVE IInv'
<1>1. /\ UNCHANGED <<head, tail, done, unprocessed, paused, lane, mempool, batchPending>>
      /\ repair' = FALSE /\ stopping' = FALSE /\ proc' = Idle /\ mon' = Starting
  BY DEF Spawn, portalVars, l1Vars
<1>2. DOMAIN store' = {} /\ DOMAIN inFlight' = {}
  BY DEF Spawn, Nothing
<1>3. ProcessorTypeOK'
  <2>1. repair' \in BOOLEAN /\ stopping' \in BOOLEAN /\ proc' \in ProcState /\ mon' \in MonState
    BY ZenonT(60), <1>1, FreshTypes
  <2> QED BY <1>1, <1>2, <2>1 DEF IInv, ProcessorTypeOK
<1>4. QueueInv'
  BY <1>1, QueueFrame DEF IInv
<1>5. MonitorInv' /\ ProcInv' /\ NonceSlotPairing'
  BY <1>1 DEF Idle, Starting, MonitorInv, ProcInv, NonceSlotPairing
<1>6. TxInv'
  BY <1>1, <1>2, TxFrame DEF IInv
<1>7. StoreMatchesPortal'
  BY <1>2 DEF StoreMatchesPortal
<1> QED BY <1>3, <1>4, <1>5, <1>6, <1>7 DEF IInv

\* Stuttering changes nothing the invariant speaks of.
LEMMA StutterIInv == ASSUME IInv, UNCHANGED vars PROVE IInv'
<1> USE DEF vars, portalVars, l1Vars, procVars
<1>1. ProcessorTypeOK'
  BY DEF IInv, ProcessorTypeOK
<1>2. QueueInv' /\ MonitorInv' /\ ProcInv' /\ NonceSlotPairing'
  BY QueueFrame, MonitorFrame, ProcFrame DEF IInv
<1>3. TxInv' /\ StoreMatchesPortal'
  BY TxFrame, StoreFrame DEF IInv
<1> QED BY <1>1, <1>2, <1>3 DEF IInv

\* Every step of the processor, the monitor, L1 and the process preserves the
\* inductive invariant.
LEMMA StepIInv == IInv /\ [ProcessorNext]_vars => IInv'
<1> SUFFICES ASSUME IInv, [ProcessorNext]_vars PROVE IInv'
  OBVIOUS
<1>1. CASE ProcessorReads
  BY <1>1, ReadsIInv
<1>2. CASE PushBatch
  BY <1>2, PushIInv
<1>3. ASSUME NEW t \in DOMAIN inFlight, Send(t) PROVE IInv'
  BY <1>3, SendIInv
<1>4. CASE Mine
  BY <1>4, IncludeIInv, RevertIInv DEF Mine
<1>5. CASE MonitorStepOrFault
  BY <1>5, MonitorIInv
<1>6. CASE BatchLands
  BY <1>6, BatchLandsIInv
<1>7. CASE Environment
  BY <1>7, EnvironmentIInv
<1>8. CASE Restart \/ Crash
  <2>1. Spawn /\ faults' \in 0 .. MaxFaults
    BY <1>8, ConstantTypes DEF Restart, Crash, Fault, IInv, ProcessorTypeOK
  <2> QED BY <2>1, SpawnIInv
<1>9. CASE UNCHANGED vars
  BY <1>9, StutterIInv
<1>10. CASE ProcessorStep
  BY <1>10, <1>1, <1>2, <1>3 DEF ProcessorStep, ProcessorReads
<1> QED BY <1>1, <1>4, <1>5, <1>6, <1>7, <1>8, <1>9, <1>10
        DEF ProcessorNext, ProcessorReads, MonitorStepOrFault, Environment

\* The inductive invariant holds in every state of the system.
LEMMA Inductive == ProcessorSpec => []IInv
BY InitIInv, StepIInv, PTL DEF ProcessorSpec

-----------------------------------------------------------------------------

\* The processor, the store, the monitor and the portal keep their types; the
\* head never overtakes the tail and the backlog never exceeds its capacity.
THEOREM ProcessorTypes == ProcessorSpec => []ProcessorTypeOK
<1>1. IInv => ProcessorTypeOK
  BY DEF IInv
<1> QED BY <1>1, Inductive, PTL

\* The payload process_queue takes from the store for the head slot is that
\* slot's and is cut at most where the portal has consumed it, through
\* evictions, restores racing L1, lost receipts and restarts.
THEOREM StoreIsFaithful == ProcessorSpec => []StoreMatchesPortal
<1>1. IInv => StoreMatchesPortal
  BY DEF IInv
<1> QED BY <1>1, Inductive, PTL

\* Reading the nonce before the slot is enough: a plan that the nonce lane can
\* still execute is a plan for the current head and offset.
THEOREM NoncePairsSlot == ProcessorSpec => []NonceSlotPairing
<1>1. IInv => NonceSlotPairing
  BY DEF IInv
<1> QED BY <1>1, Inductive, PTL

\* The reserve above the public cap makes the headroom read safe: a
\* processWithdrawals transaction that fits the queue always has the deposit
\* capacity that the portal's preflight asks for.
THEOREM CapacityIsSafe == ProcessorSpec => []CapacityNeverRaces
<1>1. ASSUME IInv PROVE CapacityNeverRaces
  <2> SUFFICES ASSUME NEW t \in mempool, Fits(t) PROVE Preflight(t)
    BY DEF CapacityNeverRaces
  <2>1. t \in Tx /\ done \in Nat /\ unprocessed \in 0 .. MaxUnprocessed
    BY <1>1 DEF IInv, ProcessorTypeOK
  <2>2. t.from < t.to /\ Room(t.slot, t.to) /\ t.slot = head /\ t.from = done
    BY <1>1 DEF IInv, TxInv, Fits
  <2>3. t.to \in Nat
    BY <2>1 DEF Tx
  <2>4. AtLeast(unprocessed, MaxUnprocessed - Reserve) + (t.to - done) <= MaxUnprocessed
    BY <2>1, <2>2, <2>3 DEF Room
  <2> QED BY <2>1, <2>2, <2>3, <2>4, ConstantTypes DEF Preflight, AtLeast
<1> QED BY <1>1, Inductive, PTL
============================================================================
