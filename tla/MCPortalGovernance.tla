------------------------- MODULE MCPortalGovernance -------------------------
(* Small instances of PortalGovernance.  A behaviour plays one of two stories, *)
(* which share no bound: who leads, and what a pause or an abdication stops.   *)
EXTENDS PortalGovernance, TLC

CONSTANTS
    MaxTime,        \* last Tempo block
    MaxVersion      \* replacements of the sequencer set

VARIABLE story

\* An account that plays no part in the second story
Bystander == CHOOSE a \in Accounts : a \notin {Creator, Messenger}

MCSequencerLists ==
    UNION {[1 .. n -> Accounts \cup {ZeroAddress}] : n \in 0 .. MaxSequencers + 1}

\* Sequencer sets, leaders, roles: without pauses, abdications and admin changes
LeadershipStep ==
    /\ gov'.pauseExpiry = 0
    /\ gov'.access = gov.access /\ gov'.gateway = gov.gateway
    /\ gov'.abdicated = gov.abdicated
    /\ gov'.pendingAdmin = gov.pendingAdmin

\* Pauses, abdications, modes, admins and roles: one replacement of the set
AbdicationStep ==
    /\ gov'.version <= 1 /\ Len(gov'.sequencers) = 1
    /\ gov'.leader = gov.leader
    /\ gov'.role[Bystander] = "None"

MCGovInit ==
    /\ GovInit
    /\ \/ story = "leadership" /\ ~gov.access /\ ~gov.gateway
       \/ story = "abdication" /\ Len(gov.sequencers) = 1 /\ gov.role[Bystander] = "None"

MCGovNext ==
    /\ GovNext
    /\ now' <= MaxTime /\ gov'.version <= MaxVersion
    /\ IF story = "leadership" THEN LeadershipStep ELSE AbdicationStep
    /\ UNCHANGED story

MCGovSpec == MCGovInit /\ [][MCGovNext]_<<govVars, story>>
=============================================================================
