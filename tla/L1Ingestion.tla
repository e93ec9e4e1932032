----------------------------- MODULE L1Ingestion -----------------------------
(***************************************************************************)
(* One zone node following finalized Tempo: the L1 subscriber that fills   *)
(* the deposit queue, the pause poller, the zone engine that turns queued  *)
(* L1 blocks into zone blocks while this node leads, the follower that     *)
(* imports the leader's blocks while it does not, the role controller that *)
(* switches between them, and crash with restart.                          *)
(*                                                                         *)
(* Threads share the queue, the tracker and the leadership schedule, each  *)
(* behind its own lock; a step of the model is what happens between two    *)
(* points at which another thread's access can matter.                     *)
(***************************************************************************)
EXTENDS DepositQueue

CONSTANTS
    Headers,        \* what a finalized L1 block may look like (see L1Block)
    GenesisLeader,  \* who leads until the first transition
    GenesisFork,    \* the hardfork level the zone starts in; T13 is level 1
    MaxFork,        \* the newest hardfork level
    MaxHeaders,     \* MAX_TEMPO_HEADERS_PER_ZONE_BLOCK
    Lookahead,      \* MAX_L1_LOOKAHEAD_BLOCKS
    Faults          \* the kinds of fault that can happen

\* What this node reads from an L1 block: whether it has operational portal
\* events, who leads its anchor, the hardfork its timestamp falls in, whether
\* the portal is paused at it, and whether a pause or resume event is in it.
L1Block ==
    [events : BOOLEAN, leader : {"self", "peer"}, fork : 0 .. MaxFork,
     paused : BOOLEAN, signalled : BOOLEAN]

ASSUME IngestionAssumption ==
    /\ Headers \subseteq L1Block
    /\ GenesisLeader \in {"self", "peer"}
    /\ MaxFork \in Nat
    /\ GenesisFork \in 0 .. MaxFork
    /\ MaxHeaders \in Nat \ {0}
    /\ Lookahead \in Nat \ {0}
    /\ Faults \subseteq {"build", "transport", "forkchoice", "crash"}

VARIABLES
    l1,         \* the finalized L1 chain; block n is l1[n], genesis is 0
    clock,      \* the hardfork level the node's wall clock is in
    tracker,    \* L1BlockTracker
    schedule,   \* LeadershipSchedule: retained transitions [at, leader]
    queue,      \* DepositQueue
    sub,        \* the subscriber task
    role,       \* what the role controller runs: "leader", "follower", "none"
    engine,     \* the engine task of a leader
    chain,      \* zone blocks up to the engine's head
    canonical,  \* how many of them are canonical
    durable     \* how many of those are persisted

vars == <<l1, clock, tracker, schedule, queue, sub, role, engine, chain,
          canonical, durable>>

Max(a, b) == IF a >= b THEN a ELSE b

Min(a, b) == IF a <= b THEN a ELSE b

Tip == Len(l1)

Leader(n) == IF n = 0 THEN GenesisLeader ELSE l1[n].leader

Fork(n) == IF n = 0 THEN GenesisFork ELSE l1[n].fork

PausedAt(n) == n # 0 /\ l1[n].paused

\* A zone block imports the L1 headers first .. last, one of them if full.
Block == [first : Nat, last : Nat, full : BOOLEAN, fork : Nat, own : BOOLEAN]

Checkpoint(blocks) == IF blocks = <<>> THEN 0 ELSE blocks[Len(blocks)].last

HeadFork(blocks) ==
    IF blocks = <<>> THEN GenesisFork ELSE blocks[Len(blocks)].fork

LatestOperational(blocks) ==
    LET full == SelectSeq(blocks, LAMBDA b : b.full) IN Checkpoint(full)

Known == SubSeq(chain, 1, canonical)

Persisted == SubSeq(chain, 1, durable)

\* Blocks a .. b of L1 as the queue stores them.
Fetched(a, b) ==
    [i \in 1 .. b - a + 1 |->
        [number |-> a + i - 1, events |-> l1[a + i - 1].events]]

\* The portal events the inbox accepts from a full import of anchor: all of
\* those since the last full import, in order (its hash check is an equality).
Owed(blocks, anchor) ==
    EventBlocks(Fetched(LatestOperational(blocks) + 1, anchor))

IdleEngine ==
    [stage |-> "idle", headers |-> <<>>, first |-> 0, last |-> 0,
     full |-> FALSE, fork |-> 0, work |-> <<>>]

\* initialize_portal_pause reads the tip's pause state before anything runs.
FreshTracker ==
    [target |-> 0, ready |-> FALSE, latest |-> 0, pruned |-> 0,
     fork |-> Fork(Tip), pauseAt |-> Tip, paused |-> PausedAt(Tip)]

FreshSubscriber == [phase |-> "start", next |-> 0, finalized |-> 0]

IngestionInit ==
    /\ l1 = <<>>
    /\ clock = GenesisFork
    /\ tracker = FreshTracker
    /\ schedule = {[at |-> 0, leader |-> GenesisLeader]}
    /\ queue = EmptyQueue
    /\ sub = FreshSubscriber
    /\ role = "none"
    /\ engine = IdleEngine
    /\ chain = <<>>
    /\ canonical = 0
    /\ durable = 0

-----------------------------------------------------------------------------
(* The world outside the node.                                             *)

\* L1 finalizes a block. Hardforks do not go back; a pause is signalled by an
\* event, but it also expires without one.
FinalizeL1 ==
    /\ \E h \in Headers :
        /\ h.fork >= Fork(Tip)
        /\ h.paused /\ ~PausedAt(Tip) => h.signalled
        /\ l1' = Append(l1, h)
    /\ UNCHANGED <<clock, tracker, schedule, queue, sub, role, engine, chain,
                   canonical, durable>>

\* The wall clock passes the next hardfork's activation time.
Tick ==
    /\ clock < MaxFork
    /\ clock' = clock + 1
    /\ UNCHANGED <<l1, tracker, schedule, queue, sub, role, engine, chain,
                   canonical, durable>>

-----------------------------------------------------------------------------
(* The tracker and the schedule.                                           *)

HasCapacityOffByOne(n) == n <= tracker.pruned + Lookahead + 1

HasCapacity(n) == n <= tracker.pruned + Lookahead

\* observe_portal_pause: observations at or below the newest are ignored.
ObservePauseUnordered(t, n, paused) ==
    [t EXCEPT !.pauseAt = n, !.paused = paused]

ObservePause(t, n, paused) ==
    IF n > t.pauseAt THEN [t EXCEPT !.pauseAt = n, !.paused = paused] ELSE t

RecordTarget(t, n) ==
    IF n > t.target THEN [t EXCEPT !.target = n, !.ready = FALSE] ELSE t

PruneThrough(t, n) == [t EXCEPT !.pruned = Max(@, n)]

\* record_observation refuses what is not the next height.
Contiguous(t, n) ==
    /\ n <= t.pruned + Lookahead
    /\ n = (IF t.latest # 0 THEN t.latest ELSE t.pruned) + 1

\* The retained record with the greatest activation at or below the anchor.
LeaderFor(anchor) ==
    LET governing == {r \in schedule : r.at <= anchor}
    IN  IF governing = {}
        THEN "none"
        ELSE (CHOOSE r \in governing :
                \A other \in governing : other.at <= r.at).leader

\* The record that governs the next anchor and its predecessor are kept.
RecordAppliedAnchor(records, anchor) ==
    LET governing == {r \in records : r.at <= anchor + 1}
    IN  {r \in records :
            ~ \E x, y \in governing : r.at < x.at /\ x.at < y.at}

-----------------------------------------------------------------------------
(* The L1 subscriber. phase says what the task does next.                  *)

\* recover_deferred_work, only into a queue nothing entered yet.
\* deferred_work_start was computed when the process started; nothing is
\* imported before the first observation, so the canonical chain still gives
\* it.
RecoverDeferredWorkSkipped == queue

RecoverDeferredWork ==
    LET from       == LatestOperational(Known) + 1
        checkpoint == Checkpoint(Known)
    IN  IF queue.lastEnqueued = 0 /\ from <= checkpoint
        THEN RestoreDeferred(Fetched(from, checkpoint))
        ELSE queue

\* run, up to follow_finalized's loop: the recovery, then next_block_to_sync.
Connect ==
    /\ sub.phase = "start"
    /\ queue' = RecoverDeferredWork
    /\ tracker' = PruneThrough(tracker, Checkpoint(Known))
    /\ sub' = [sub EXCEPT
            !.phase = "read",
            !.next = Max(Checkpoint(Known),
                         Max(queue'.lastEnqueued, tracker.latest)) + 1]
    /\ UNCHANGED <<l1, clock, schedule, role, engine, chain, canonical,
                   durable>>

\* sync_to_finalized reads the finalized height and announces it before the
\* first block of the range is fetched.
ReadFinalized ==
    /\ sub.phase = "read"
    /\ tracker' = RecordTarget(tracker, Tip)
    /\ sub' = [sub EXCEPT !.finalized = Tip,
                          !.phase = IF sub.next <= Tip THEN "fetch" ELSE "check"]
    /\ UNCHANGED <<l1, clock, schedule, queue, role, engine, chain, canonical,
                   durable>>

\* backfill waits for capacity, fetches the next block, and publishes its
\* leadership transition and its pause before anyone can consume the block.
Publish ==
    /\ sub.phase = "fetch"
    /\ HasCapacity(sub.next)
    /\ schedule' = IF Leader(sub.next) # Leader(sub.next - 1)
                   THEN schedule \cup {[at |-> sub.next,
                                        leader |-> Leader(sub.next)]}
                   ELSE schedule
    /\ tracker' = IF l1[sub.next].signalled
                  THEN ObservePause(tracker, sub.next, PausedAt(sub.next))
                  ELSE tracker
    /\ sub' = [sub EXCEPT !.phase = "enqueue"]
    /\ UNCHANGED <<l1, clock, queue, role, engine, chain, canonical, durable>>

Enqueue ==
    /\ sub.phase = "enqueue"
    /\ LET b == [number |-> sub.next, events |-> l1[sub.next].events]
       IN  IF Enqueueable(queue, b)
           THEN /\ queue' = TryEnqueue(queue, b)
                /\ sub' = [sub EXCEPT !.phase = "record"]
           ELSE /\ sub' = [sub EXCEPT !.phase = "start"]
                /\ UNCHANGED queue
    /\ UNCHANGED <<l1, clock, tracker, schedule, role, engine, chain,
                   canonical, durable>>

\* record_observation. A refused observation is an ordinary error: the task
\* reconnects and resumes after everything it enqueued.
Record ==
    /\ sub.phase = "record"
    /\ \/ /\ Contiguous(tracker, sub.next)
          /\ tracker' = [tracker EXCEPT !.latest = sub.next]
          /\ sub' = [sub EXCEPT
                !.next = @ + 1,
                !.phase = IF sub.next < sub.finalized THEN "fetch" ELSE "check"]
       \/ /\ ~Contiguous(tracker, sub.next)
          /\ sub' = [sub EXCEPT !.phase = "start"]
          /\ UNCHANGED tracker
    /\ UNCHANGED <<l1, clock, schedule, queue, role, engine, chain, canonical,
                   durable>>

\* The second finalized read: the target is ready only if it did not move.
CheckFinalized ==
    /\ sub.phase = "check"
    /\ \/ /\ Tip = sub.finalized
          /\ tracker' = [RecordTarget(tracker, Tip) EXCEPT !.ready = TRUE]
          /\ sub' = [sub EXCEPT !.phase = "idle"]
       \/ /\ Tip # sub.finalized
          /\ tracker' = RecordTarget(tracker, Tip)
          /\ sub' = [sub EXCEPT
                !.finalized = Tip,
                !.phase = IF sub.next <= Tip THEN "fetch" ELSE "check"]
    /\ UNCHANGED <<l1, clock, schedule, queue, role, engine, chain, canonical,
                   durable>>

\* A head notification starts the next sync.
Wake ==
    /\ sub.phase = "idle"
    /\ sub.next <= Tip
    /\ sub' = [sub EXCEPT !.phase = "read"]
    /\ UNCHANGED <<l1, clock, tracker, schedule, queue, role, engine, chain,
                   canonical, durable>>

\* Any RPC of the task fails, or the head stream ends. Between enqueueing a
\* block and recording it the task awaits nothing.
TransportError ==
    /\ "transport" \in Faults
    /\ sub.phase \in {"read", "fetch", "check", "idle"}
    /\ sub' = [sub EXCEPT !.phase = "start"]
    /\ UNCHANGED <<l1, clock, tracker, schedule, queue, role, engine, chain,
                   canonical, durable>>

\* refresh_portal_pause. The answer of a poll may be applied late, so n is
\* any block that has been the finalized tip.
Poll ==
    /\ \E n \in 1 .. Tip :
        /\ tracker' = ObservePause([tracker EXCEPT !.fork = Max(@, Fork(n))],
                                   n, PausedAt(n))
        /\ tracker' # tracker
    /\ UNCHANGED <<l1, clock, schedule, queue, sub, role, engine, chain,
                   canonical, durable>>

-----------------------------------------------------------------------------
(* The zone engine, while this node leads.                                 *)

\* next_available, first half: the bounded snapshot of queued headers.
Select ==
    /\ role = "leader"
    /\ engine.stage = "idle"
    /\ queue.pending # <<>>
    /\ engine' = [IdleEngine EXCEPT
            !.stage = "selected",
            !.headers = [i \in 1 .. Min(Len(queue.pending), MaxHeaders + 1) |->
                            queue.pending[i].number]]
    /\ UNCHANGED <<l1, clock, tracker, schedule, queue, sub, role, chain,
                   canonical, durable>>

\* The newest hardfork L1 is known to have activated, from the queue or from
\* the poller.
TipForkQueued == Fork(queue.pending[Len(queue.pending)].number)

TipFork ==
    Max(Fork(queue.pending[Len(queue.pending)].number), tracker.fork)

\* A header from an older hardfork than the zone's is always checkpointed.
CheckpointCountBounded(queued, reserved, behind) ==
    Min(queued - reserved, MaxHeaders)

CheckpointCount(queued, reserved, behind) ==
    Max(Min(queued - reserved, MaxHeaders), IF behind THEN 1 ELSE 0)

\* tempo_import_decision: how many of the headers to import as checkpoints,
\* 0 to import the first one fully, -1 to wait.
ImportDecision(headers) ==
    LET first    == headers[1]
        zoneFork == Max(Fork(first), Max(HeadFork(chain), clock))
        visible  == /\ tracker.target # 0
                    /\ headers[Len(headers)] >= tracker.target
        reserved == IF tracker.target = 0 \/ visible THEN 1 ELSE 0
        count    == CheckpointCount(Len(headers), reserved,
                                    Fork(first) < zoneFork)
    IN  CASE zoneFork < 1       -> 0
          [] zoneFork > TipFork -> -1
          [] OTHER              -> IF count = 0 /\ visible /\ ~tracker.ready
                                   THEN -1
                                   ELSE count

\* apply_permit stops a checkpoint batch before the first header that this
\* node does not lead.
PermittedWholeBatch(headers, count) == count

Permitted(headers, count) ==
    LET led == {k \in 0 .. count :
                    \A i \in 1 .. k : LeaderFor(headers[i]) = "self"}
    IN  CHOOSE k \in led : \A j \in led : j <= k

\* drain_all_available after the snapshot: the decision, the permit, and the
\* pause gate, which is read last. advance then fixes the work of a full
\* import and the timestamp of the block.
Decide ==
    /\ engine.stage = "selected"
    /\ LET headers == engine.headers
           count   == ImportDecision(headers)
           full    == count = 0
           last    == IF full THEN headers[1]
                      ELSE headers[Permitted(headers, count)]
       IN  \/ /\ count = -1
              /\ engine' = IdleEngine
              /\ UNCHANGED role
           \/ /\ count # -1
              /\ LeaderFor(headers[1]) # "self"
              /\ engine' = IdleEngine
              /\ role' = "none"
           \/ /\ count # -1
              /\ LeaderFor(headers[1]) = "self"
              /\ engine' = IF tracker.paused
                    THEN IdleEngine
                    ELSE [stage |-> "building", headers |-> <<>>,
                          first |-> headers[1], last |-> last, full |-> full,
                          fork |-> Max(Fork(last), Max(HeadFork(chain), clock)),
                          work |-> IF full THEN OperationalWork(queue)
                                   ELSE <<>>]
              /\ UNCHANGED role
    /\ UNCHANGED <<l1, clock, tracker, schedule, queue, sub, chain, canonical,
                   durable>>

\* What the payload builder and the inbox require of the import.
Executable(blocks, import) ==
    /\ import.first = Checkpoint(blocks) + 1
    /\ import.full => import.work = Owed(blocks, import.last)

\* The rest of advance up to the final forkchoice: the build (its forkchoice
\* makes the parent canonical), the witness, and then the queue, the tracker,
\* the schedule and last_header.
Consume ==
    /\ engine.stage = "building"
    /\ Executable(chain, engine)
    /\ engine.full => AtFront(queue, engine.last)
    /\ queue' = IF engine.full THEN ConfirmOperational(queue)
                ELSE DeferThrough(queue, engine.last)
    /\ tracker' = PruneThrough(tracker, engine.last)
    /\ schedule' = RecordAppliedAnchor(schedule, engine.last)
    /\ chain' = Append(chain, [first |-> engine.first, last |-> engine.last,
                               full |-> engine.full, fork |-> engine.fork,
                               own |-> TRUE])
    /\ canonical' = Len(chain)
    /\ engine' = [engine EXCEPT !.stage = "built"]
    /\ UNCHANGED <<l1, clock, sub, role, durable>>

\* Anything before that can fail; the L1 block stays queued.
BuildFails ==
    /\ "build" \in Faults
    /\ engine.stage = "building"
    /\ engine' = IdleEngine
    /\ UNCHANGED <<l1, clock, tracker, schedule, queue, sub, role, chain,
                   canonical, durable>>

Canonicalize ==
    /\ engine.stage = "built"
    /\ canonical' = Len(chain)
    /\ engine' = IdleEngine
    /\ UNCHANGED <<l1, clock, tracker, schedule, queue, sub, role, chain,
                   durable>>

\* The final forkchoice fails; the error is logged and the engine goes on.
ForkchoiceFails ==
    /\ "forkchoice" \in Faults
    /\ engine.stage = "built"
    /\ engine' = IdleEngine
    /\ UNCHANGED <<l1, clock, tracker, schedule, queue, sub, role, chain,
                   canonical, durable>>

\* The periodic forkchoice update of run_until.
Heartbeat ==
    /\ role = "leader"
    /\ engine.stage = "idle"
    /\ canonical # Len(chain)
    /\ canonical' = Len(chain)
    /\ UNCHANGED <<l1, clock, tracker, schedule, queue, sub, role, engine,
                   chain, durable>>

-----------------------------------------------------------------------------
(* The follower, while another node leads.                                 *)

\* The next block of the leader, which runs this same code: it imports only
\* anchors that node leads, its work is what the inbox accepts, and its
\* hardfork is the one tempo_import_decision lets it have.
PeerBlock(first, last, full, fork) ==
    /\ \A n \in first .. last : Leader(n) = "peer"
    /\ full => last = first
    /\ last - first < MaxHeaders
    /\ fork >= Max(Fork(last), HeadFork(Known))
    /\ full => fork = Fork(first)
    /\ fork < 1 => full

\* import_peer_block, once the anchor is observed: a full import must match
\* the local queue; then the block becomes canonical and the queue follows.
ImportPeerBlock ==
    /\ role = "follower"
    /\ \E last \in 1 .. tracker.latest, full \in BOOLEAN,
          fork \in 0 .. Fork(Tip) :
        LET first == Checkpoint(Known) + 1
        IN  /\ first <= last
            /\ tracker.pruned < last
            /\ PeerBlock(first, last, full, fork)
            /\ full => /\ AtFront(queue, last)
                       /\ OperationalWork(queue) = Owed(Known, last)
            /\ tracker' = PruneThrough(tracker, last)
            /\ queue' = IF full THEN ConfirmOperationalThrough(queue, last)
                        ELSE DeferThrough(queue, last)
            /\ schedule' = RecordAppliedAnchor(schedule, last)
            /\ chain' = Append(Known, [first |-> first, last |-> last,
                                       full |-> full, fork |-> fork,
                                       own |-> FALSE])
            /\ canonical' = canonical + 1
    /\ UNCHANGED <<l1, clock, sub, role, engine, durable>>

\* reconcile_canonical_import: a block that is already canonical arrives
\* again, however late, and its queue update is applied again.
ImportDuplicate ==
    /\ role = "follower"
    /\ \E i \in 1 .. canonical :
        queue' = IF chain[i].full
                 THEN ConfirmOperationalThrough(queue, chain[i].last)
                 ELSE DeferThrough(queue, chain[i].last)
    /\ UNCHANGED <<l1, clock, tracker, schedule, sub, role, engine, chain,
                   canonical, durable>>

-----------------------------------------------------------------------------
(* The role controller, persistence and crashes.                           *)

\* desired_role: who leads the anchor after the canonical checkpoint.
DesiredRole ==
    LET leader == LeaderFor(Checkpoint(Known) + 1)
    IN  CASE leader = "self" -> "leader"
          [] leader = "peer" -> "follower"
          [] OTHER -> "none"

\* The controller stops one generation at a block boundary and starts the
\* next from the canonical head.
SwitchRole ==
    /\ engine.stage = "idle"
    /\ role # DesiredRole
    /\ role' = DesiredRole
    /\ chain' = Known
    /\ UNCHANGED <<l1, clock, tracker, schedule, queue, sub, engine, canonical,
                   durable>>

Persist ==
    /\ durable < canonical
    /\ durable' = durable + 1
    /\ UNCHANGED <<l1, clock, tracker, schedule, queue, sub, role, engine,
                   chain, canonical>>

CrashKeepsCanonical ==
    /\ "crash" \in Faults
    /\ chain' = Persisted
    /\ queue' = EmptyQueue
    /\ tracker' = FreshTracker
    /\ schedule' = {[at |-> 0, leader |-> Leader(Checkpoint(Persisted))]}
    /\ sub' = FreshSubscriber
    /\ role' = "none"
    /\ engine' = IdleEngine
    /\ UNCHANGED <<l1, clock, canonical, durable>>

\* Memory is lost; the node comes back with the persisted chain, the schedule
\* seeded from the portal at its checkpoint, and the pause state of the tip.
Crash ==
    /\ "crash" \in Faults
    /\ chain' = Persisted
    /\ canonical' = durable
    /\ queue' = EmptyQueue
    /\ tracker' = FreshTracker
    /\ schedule' = {[at |-> 0, leader |-> Leader(Checkpoint(Persisted))]}
    /\ sub' = FreshSubscriber
    /\ role' = "none"
    /\ engine' = IdleEngine
    /\ UNCHANGED <<l1, clock, durable>>

-----------------------------------------------------------------------------
Environment == FinalizeL1 \/ Tick

Subscriber ==
    \/ Connect
    \/ ReadFinalized
    \/ Publish
    \/ Enqueue
    \/ Record
    \/ CheckFinalized
    \/ Wake

Engine == Select \/ Decide \/ Consume \/ Canonicalize \/ Heartbeat

Follower == ImportPeerBlock \/ ImportDuplicate

Steady ==
    Environment \/ Subscriber \/ Engine \/ Follower \/ SwitchRole \/ Persist

Fault == TransportError \/ BuildFails \/ ForkchoiceFails \/ Crash

IngestionNext == Steady \/ Poll \/ Fault

\* The subscriber, poller, engine and controller are loops that retry for
\* ever, and the leader's blocks keep arriving (live or by backfill). L1
\* need not make progress.
IngestionFairness ==
    /\ WF_vars(Subscriber)
    /\ WF_vars(Poll)
    /\ WF_vars(Engine)
    /\ WF_vars(ImportPeerBlock)
    /\ WF_vars(SwitchRole)

IngestionSpec == IngestionInit /\ [][IngestionNext]_vars

-----------------------------------------------------------------------------
(* Properties.                                                             *)

\* Type correctness of the state of the subscriber, the tracker, the queue,
\* the engine and the zone chain.
IngestionTypeOK ==
    /\ l1 \in Seq(Headers)
    /\ clock \in 0 .. MaxFork
    /\ tracker \in [target : Nat, ready : BOOLEAN, latest : Nat, pruned : Nat,
                    fork : 0 .. MaxFork, pauseAt : Nat, paused : BOOLEAN]
    /\ schedule \subseteq [at : Nat, leader : {"self", "peer"}]
    /\ queue \in Queue
    /\ sub \in [phase : {"start", "read", "fetch", "enqueue", "record",
                         "check", "idle"},
                next : Nat, finalized : Nat]
    /\ role \in {"leader", "follower", "none"}
    /\ engine \in [stage : {"idle", "selected", "building", "built"},
                   headers : Seq(Nat), first : Nat, last : Nat,
                   full : BOOLEAN, fork : 0 .. MaxFork, work : Seq(Nat)]
    /\ chain \in Seq(Block)
    /\ canonical \in 0 .. Len(chain)
    /\ durable \in 0 .. canonical

\* The queue always holds exactly the L1 blocks after the zone's checkpoint,
\* and the deferred work exactly the portal events the zone has crossed with
\* checkpoint-only blocks since its last full block: through every order of
\* ingestion, production, peer imports, late duplicates, handoffs and
\* restarts. Otherwise the next full block is refused by the inbox's hash
\* check (or, on a follower, by validate_full_portal_inputs) for ever. An
\* observed block is also queued, which is what import_peer_block relies on.
QueueMatchesChain ==
    /\ queue.lastEnqueued # 0 =>
        /\ queue.pending = Fetched(Checkpoint(chain) + 1, queue.lastEnqueued)
        /\ queue.deferred.events =
            EventBlocks(Fetched(LatestOperational(chain) + 1,
                                Checkpoint(chain)))
    /\ tracker.latest <= queue.lastEnqueued

\* The subscriber never holds more than the lookahead window, in the queue or
\* in the tracker, although it runs ahead of the consumer (has_capacity_for).
LookaheadBounded ==
    /\ Len(queue.pending) <= Lookahead
    /\ tracker.latest <= tracker.pruned + Lookahead

\* No block of this node imports an anchor another node leads, even when the
\* handoff is finalized while a batch that crosses it is being prepared
\* (apply_permit and the order in which backfill publishes).
OnlyTheLeaderProduces ==
    /\ \A i \in DOMAIN chain : chain[i].own =>
        \A n \in chain[i].first .. chain[i].last : Leader(n) = "self"
    /\ engine.stage = "building" =>
        \A n \in engine.first .. engine.last : Leader(n) = "self"

\* The engine never imports a block that pauses the portal before the portal was
\* observed at a later finalized block: a poll that began earlier and answers
\* late cannot lift the pause.
PauseBlocksProduction ==
    engine.stage = "building" =>
        \A n \in engine.first .. engine.last :
            l1[n].signalled /\ l1[n].paused => tracker.pauseAt > n

\* A zone block never runs a hardfork that L1 has not activated, and from T13
\* on a full import runs under the hardfork of the L1 block it imports.
ForksFollowL1 ==
    \A i \in DOMAIN chain :
        /\ chain[i].fork <= Max(Fork(Tip), GenesisFork)
        /\ chain[i].full /\ chain[i].fork >= 1 =>
            chain[i].fork = Fork(chain[i].first)

\* Production may legitimately stop: the portal is paused, or the zone's
\* clock is in a hardfork L1 has not reached.
Halted == PausedAt(Tip) \/ clock > Fork(Tip)

\* Unless production is halted, the zone keeps catching up with finalized L1:
\* the lookahead bound, the finalized target, the hardfork gate, handoffs and
\* restarts never leave subscriber, engine and follower waiting for each
\* other.
CatchesUp == []<>(Halted \/ Checkpoint(Known) = Tip)

\* engine.rs, module comment: an L1 block is removed from the queue only after
\* the zone block importing it is canonical.
ConsumedIsCanonical ==
    engine.stage = "idle" /\ queue.lastEnqueued # 0 =>
        queue.lastEnqueued - Len(queue.pending) <= Checkpoint(Known)
=============================================================================
