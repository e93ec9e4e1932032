-------------------------- MODULE PortalGovernance --------------------------
(***************************************************************************)
(* Who may do what on a ZonePortal: the mutually exclusive roles, the      *)
(* sequencer set and its threshold, the block-producing leader with its    *)
(* fencing epoch, the two-step admin handover, the emergency pause and the *)
(* permanent abdication of a configuration surface.                        *)
(*                                                                         *)
(* One tick of the clock is one Tempo block: "now" is both block.number    *)
(* and block.timestamp.                                                    *)
(***************************************************************************)
EXTENDS Integers, Sequences

CONSTANTS
    Accounts,              \* addresses other than address(0)
    ZeroAddress,           \* address(0)
    Messenger,             \* the portal's messenger
    Creator,               \* the first admin
    MaxSequencers,         \* MAX_SEQUENCERS
    PauseDuration,         \* PAUSE_DURATION
    AbdicationDelay,       \* ABDICATION_DELAY
    SequencerLists         \* arrays a caller may pass as a new sequencer set

ASSUME GovernanceAssumption ==
    /\ ZeroAddress \notin Accounts
    /\ Messenger \in Accounts
    /\ Creator \in Accounts
    /\ MaxSequencers \in Nat \ {0}
    /\ PauseDuration \in Nat
    /\ AbdicationDelay \in Nat
    /\ SequencerLists \subseteq Seq(Accounts \cup {ZeroAddress})

VARIABLES
    gov,      \* governance part of the portal's storage
    now,      \* current Tempo block
    history   \* LeaderUpdated events, oldest first

govVars == <<gov, now, history>>

Role == {"None", "Sequencer", "Account", "CallbackGateway", "PauseGuardian"}

Capability == {"AccessPolicy", "PausePortal"}

Governance ==
    [admin : Accounts,
     pendingAdmin : Accounts \cup {ZeroAddress},
     role : [Accounts -> Role],
     sequencers : Seq(Accounts),                   \* _sequencers
     threshold : Nat,                              \* sequencerThreshold
     version : Nat,                                \* sequencerSetVersion
     leader : Accounts \cup {ZeroAddress},         \* address(0) until the first setLeader
     epoch : Nat,                                  \* leaderEpoch
     activation : Nat,                             \* leaderActivationTempoBlock
     access : BOOLEAN,                             \* _isAccessEnforced
     gateway : BOOLEAN,                            \* _isGatewayEnforced
     pauseExpiry : Nat,
     abdicated : [Capability -> Nat]]              \* abdicationEffectiveAt

LeaderUpdated == [leader : Accounts, epoch : Nat, block : Nat]

Elements(list) == {list[i] : i \in DOMAIN list}

-----------------------------------------------------------------------------

IsSequencer(a) == gov.role[a] = "Sequencer"

Paused == now < gov.pauseExpiry

\* _requireCapabilityActive
CapabilityActive(c) == gov.abdicated[c] = 0 \/ now < gov.abdicated[c]

\* Mutant: address(0) is accepted as a member.
ValidSetWithZero(list, threshold, role) ==
    /\ Len(list) \in 1 .. MaxSequencers
    /\ threshold \in 1 .. Len(list)
    /\ \A a \in Elements(list) \ {ZeroAddress} : role[a] \in {"None", "Sequencer"}
    /\ \A i, j \in DOMAIN list : list[i] = list[j] => i = j

\* The checks _replaceSequencerSet makes of its arguments
ValidSet(list, threshold, role) ==
    /\ Len(list) \in 1 .. MaxSequencers
    /\ threshold \in 1 .. Len(list)
    /\ ZeroAddress \notin Elements(list)
    /\ \A a \in Elements(list) : role[a] \in {"None", "Sequencer"}
    /\ \A i, j \in DOMAIN list : list[i] = list[j] => i = j

\* Roles after the members are replaced: every old one is cleared first.
RolesWith(list, role) ==
    [a \in Accounts |-> IF a \in Elements(list) THEN "Sequencer"
                        ELSE IF role[a] = "Sequencer" THEN "None" ELSE role[a]]

\* The leadership fields of a portal that was initialized before they existed.
LegacyLeadership ==
    [leader |-> ZeroAddress, epoch |-> 0, activation |-> 0, updates |-> <<>>]

\* The leadership initialize sets up: its first sequencer, by _setLeader.
FirstLeadership(list) ==
    [leader |-> list[1], epoch |-> 1, activation |-> now,
     updates |-> <<[leader |-> list[1], epoch |-> 1, block |-> now]>>]

\* initialize, called by the factory in the block that creates the zone, by this
\* code or by the code before leadership landed
GovInit ==
    /\ now = 1
    /\ \E list \in SequencerLists, threshold \in 1 .. MaxSequencers, access, gateway \in BOOLEAN :
          LET none == [a \in Accounts |-> "None"]
          IN  /\ ValidSet(list, threshold, none)
              /\ \E lead \in {FirstLeadership(list), LegacyLeadership} :
                    /\ gov = [admin |-> Creator, pendingAdmin |-> ZeroAddress,
                              role |-> RolesWith(list, none), sequencers |-> list,
                              threshold |-> threshold, version |-> 0, leader |-> lead.leader,
                              epoch |-> lead.epoch, activation |-> lead.activation,
                              access |-> access, gateway |-> gateway, pauseExpiry |-> 0,
                              abdicated |-> [c \in Capability |-> 0]]
                    /\ history = lead.updates

-----------------------------------------------------------------------------
(* Sequencers and leadership                                               *)

\* setSequencerSet, by the admin; the active leader stays a member
SetSequencerSet(list, threshold) ==
    /\ ValidSet(list, threshold, gov.role)
    /\ Elements(list) # Elements(gov.sequencers) \/ threshold # gov.threshold
    /\ gov.leader # ZeroAddress => gov.leader \in Elements(list)
    /\ gov' = [gov EXCEPT !.role = RolesWith(list, gov.role), !.sequencers = list,
                          !.threshold = threshold, !.version = @ + 1]
    /\ UNCHANGED <<now, history>>

\* Mutant: setLeader forgets that it already moved leadership in this block.
SetLeaderTwicePerBlock(caller, target, expected) ==
    /\ caller = gov.admin \/ IsSequencer(caller)
    /\ IsSequencer(target)
    /\ target # gov.leader
    /\ gov.epoch = expected
    /\ gov' = [gov EXCEPT !.leader = target, !.epoch = @ + 1, !.activation = now]
    /\ history' = Append(history, [leader |-> target, epoch |-> gov.epoch + 1, block |-> now])
    /\ UNCHANGED now

\* setLeader: a compare-and-set on the epoch that every node may relay, late or
\* repeatedly.  With the leader as target the call returns without effect.  The
\* first call on a portal without a leader begins epoch 1.
SetLeader(caller, target, expected) ==
    /\ caller = gov.admin \/ IsSequencer(caller)
    /\ IsSequencer(target)
    /\ target # gov.leader
    /\ gov.epoch = expected
    /\ gov.activation # now
    /\ gov' = [gov EXCEPT !.leader = target, !.epoch = @ + 1, !.activation = now]
    /\ history' = Append(history, [leader |-> target, epoch |-> gov.epoch + 1, block |-> now])
    /\ UNCHANGED now

-----------------------------------------------------------------------------
(* Admin                                                                   *)

TransferAdmin(a) ==
    /\ gov' = [gov EXCEPT !.pendingAdmin = a]
    /\ UNCHANGED <<now, history>>

\* acceptAdmin, called by the pending admin itself
AcceptAdmin ==
    /\ gov.pendingAdmin # ZeroAddress
    /\ gov' = [gov EXCEPT !.admin = gov.pendingAdmin, !.pendingAdmin = ZeroAddress]
    /\ UNCHANGED <<now, history>>

\* setAccessMode, setGatewayMode
SetModes(access, gateway) ==
    /\ CapabilityActive("AccessPolicy")
    /\ gov' = [gov EXCEPT !.access = access, !.gateway = gateway]
    /\ UNCHANGED <<now, history>>

\* Mutant: granting overwrites whatever role the account has.
SetRoleOverwrites(a, r, allowed, capability) ==
    /\ CapabilityActive(capability)
    /\ gov.role[a] # IF allowed THEN r ELSE "None"
    /\ gov' = [gov EXCEPT !.role = [@ EXCEPT ![a] = IF allowed THEN r ELSE "None"]]
    /\ UNCHANGED <<now, history>>

\* Mutant: the check that the capability is still active is missing.
SetRoleAfterAbdication(a, r, allowed, capability) ==
    /\ gov.role[a] = IF allowed THEN "None" ELSE r
    /\ gov' = [gov EXCEPT !.role = [@ EXCEPT ![a] = IF allowed THEN r ELSE "None"]]
    /\ UNCHANGED <<now, history>>

\* The common shape of setAllowedAccount, setGateway and setPauseGuardian: only
\* an account without a role gets one, and only that role is taken away.
SetRole(a, r, allowed, capability) ==
    /\ CapabilityActive(capability)
    /\ gov.role[a] = IF allowed THEN "None" ELSE r
    /\ gov' = [gov EXCEPT !.role = [@ EXCEPT ![a] = IF allowed THEN r ELSE "None"]]
    /\ UNCHANGED <<now, history>>

SetAllowedAccount(a, allowed) ==
    /\ allowed => a # Messenger
    /\ SetRole(a, "Account", allowed, "AccessPolicy")

SetGateway(a, allowed) == SetRole(a, "CallbackGateway", allowed, "AccessPolicy")

SetPauseGuardian(a, allowed) == SetRole(a, "PauseGuardian", allowed, "PausePortal")

-----------------------------------------------------------------------------
(* Pause and abdication                                                    *)

PauseAuthority(a) == a = gov.admin \/ gov.role[a] \in {"Sequencer", "PauseGuardian"}

\* Mutant: a running pause can be prolonged.
PauseProlonged(caller) ==
    /\ CapabilityActive("PausePortal")
    /\ PauseAuthority(caller)
    /\ gov' = [gov EXCEPT !.pauseExpiry = now + PauseDuration]
    /\ UNCHANGED <<now, history>>

Pause(caller) ==
    /\ ~Paused
    /\ CapabilityActive("PausePortal")
    /\ PauseAuthority(caller)
    /\ gov' = [gov EXCEPT !.pauseExpiry = now + PauseDuration]
    /\ UNCHANGED <<now, history>>

\* resume: the admin keeps it after the pause capability is gone
Resume ==
    /\ gov' = [gov EXCEPT !.pauseExpiry = 0]
    /\ UNCHANGED <<now, history>>

Abdicate(capability) ==
    /\ ~Paused
    /\ gov.abdicated[capability] = 0
    /\ gov' = [gov EXCEPT !.abdicated = [@ EXCEPT ![capability] = now + AbdicationDelay]]
    /\ UNCHANGED <<now, history>>

\* The next Tempo block
NextBlock ==
    /\ now' = now + 1
    /\ UNCHANGED <<gov, history>>

AdminStep ==
    \/ \E list \in SequencerLists, threshold \in 1 .. MaxSequencers :
          SetSequencerSet(list, threshold)
    \/ \E a \in Accounts \cup {ZeroAddress} : TransferAdmin(a)
    \/ \E access, gateway \in BOOLEAN : SetModes(access, gateway)
    \/ \E a \in Accounts, allowed \in BOOLEAN :
          \/ SetAllowedAccount(a, allowed)
          \/ SetGateway(a, allowed)
          \/ SetPauseGuardian(a, allowed)
    \/ Resume
    \/ \E c \in Capability : Abdicate(c)

GovNext ==
    \/ AdminStep
    \/ AcceptAdmin
    \/ \E a, target \in Accounts, expected \in 0 .. gov.epoch : SetLeader(a, target, expected)
    \/ \E a \in Accounts : Pause(a)
    \/ NextBlock

GovSpec == GovInit /\ [][GovNext]_govVars

-----------------------------------------------------------------------------

\* Type correctness of the governance storage: the admin is never address(0),
\* neither is a sequencer, and an account has one role.
GovTypeOK ==
    /\ gov \in Governance
    /\ now \in Nat
    /\ history \in Seq(LeaderUpdated)

\* The role mapping and the sequencer array say the same, the threshold can be
\* met by distinct members, and after any mixture of set replacements, leader
\* changes and role grants the leader is one of them; only a portal that never
\* had a leadership epoch has no leader.
LeadershipCoherent ==
    /\ Elements(gov.sequencers) = {a \in Accounts : gov.role[a] = "Sequencer"}
    /\ \A i, j \in DOMAIN gov.sequencers : gov.sequencers[i] = gov.sequencers[j] => i = j
    /\ gov.threshold \in 1 .. Len(gov.sequencers)
    /\ gov.leader \in Elements(gov.sequencers) \cup {ZeroAddress}
    /\ gov.leader = ZeroAddress <=> gov.epoch = 0

\* The leadership the LeaderUpdated events end in.
LastLeadership ==
    IF history = <<>> THEN [leader |-> ZeroAddress, epoch |-> 0, block |-> 0]
    ELSE history[Len(history)]

\* The LeaderUpdated events, from which zone nodes derive their roles, name at
\* most one leader for a Tempo block, count the epochs without a gap, and end in
\* the leader the storage holds, however setLeader calls are repeated or delayed.
LeaderScheduleFunctional ==
    /\ \A i \in DOMAIN history : history[i].epoch = i
    /\ \A i, j \in DOMAIN history : i < j => history[i].block < history[j].block
    /\ LastLeadership =
          [leader |-> gov.leader, epoch |-> gov.epoch, block |-> gov.activation]

\* Once the access policy is abdicated and the delay has passed, no call changes
\* the enforcement modes, the allowed accounts or the callback gateways.
AccessPolicyFrozen ==
    [][~CapabilityActive("AccessPolicy") =>
         /\ gov'.access = gov.access
         /\ gov'.gateway = gov.gateway
         /\ \A a \in Accounts, r \in {"Account", "CallbackGateway"} :
               gov.role[a] = r <=> gov'.role[a] = r]_govVars

\* A pause expires no later than PAUSE_DURATION from now, and after abdication of
\* the capability the last one has expired PAUSE_DURATION after the abdication
\* took effect.
PausesExpire ==
    /\ gov.pauseExpiry <= now + PauseDuration
    /\ gov.abdicated["PausePortal"] # 0 =>
          gov.pauseExpiry < gov.abdicated["PausePortal"] + PauseDuration

\* One call of pause stops the portal for at most PAUSE_DURATION: while a pause
\* runs no call moves its expiry to a later time, and a new pause begins only
\* after it; from PAUSE_DURATION after an abdication of the capability on, the
\* portal is never paused.
PauseBounded ==
    /\ []PausesExpire
    /\ [][Paused => gov'.pauseExpiry <= gov.pauseExpiry]_govVars
=============================================================================
