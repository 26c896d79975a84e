-------------------------- MODULE MCNodeProtocols --------------------------
(* Instances for TLC of the protocols between a node and the Center that   *)
(* share no state in these models: one run checks each of them, on its     *)
(* own.  The protocol in focus moves, the others stay where they start.    *)
EXTENDS AddressUpload, PublicAddresses, SyncSessions, NodeDeletion, AgentUpdate

VARIABLE focus

\* bound: six events of one path without a change of configuration, three of several,
\* two around a change; a poll outlives its client while there are at most three.
\* Addresses are alike, so that they may be found in the order of their numbers.
ObservedPaths == {p \in Paths : addressDisk'.states[p] # Unchecked \/ addressCheck'.path = p}
FoundIPs == {e.ip : e \in addressLog'.events} \ {NoIP}
AddressesWithin ==
    /\ addressLog'.count <= IF addressCenter'.configuration.revision > 1 THEN 2
                            ELSE IF Cardinality(ObservedPaths) > 1 THEN 3 ELSE 6
    /\ addressLog'.count > 3 => addressLate' = {}
    /\ FoundIPs = 1 .. Cardinality(FoundIPs)

\* bound: two of sessions, changes and losses of a lease; polls fail once the access is
\* lost, and a session that a change concerns is not stopped.
SyncWithin ==
    /\ lease'.issued + lease'.revision + Cardinality(lease'.expired)
          + (IF lease'.revoked THEN 1 ELSE 0) <= 2
    /\ syncAgent'.failed => lease'.revoked
    /\ lease'.revision > 0 => lease'.session = lease'.issued

\* bound: two of polls at a time and reboots; two tasks are probes, with one poll at a
\* time and without reboots.
SecondTask == \E t \in Tasks \ {1} : row'[t].status # "none"
UpdatesWithin ==
    /\ Cardinality(polls') + reboots' <= IF SecondTask THEN 1 ELSE 2
    /\ SecondTask => reboots' = 0 /\ \A t \in Tasks : row'[t].kind = "probe"

MCInit ==
    /\ AddressInit /\ OwnerInit /\ SyncInit /\ DeletionInit /\ UpdateInit
    /\ focus \in {"addresses", "owners", "sync", "deletion", "updates"}
    /\ focus # "updates" => works

InFocus(name) == focus = name /\ UNCHANGED focus

MCNext ==
    \/ /\ InFocus("addresses") /\ AddressNext /\ AddressesWithin
       /\ UNCHANGED <<ownerVars, syncVars, deletionVars, agentUpdateVars>>
    \/ /\ InFocus("owners") /\ OwnerNext
       /\ UNCHANGED <<addressVars, syncVars, deletionVars, agentUpdateVars>>
    \/ /\ InFocus("sync") /\ SyncNext /\ SyncWithin
       /\ UNCHANGED <<addressVars, ownerVars, deletionVars, agentUpdateVars>>
    \/ /\ InFocus("deletion") /\ DeletionNext
       /\ UNCHANGED <<addressVars, ownerVars, syncVars, agentUpdateVars>>
    \/ /\ InFocus("updates") /\ UpdateNext /\ UpdatesWithin
       /\ UNCHANGED <<addressVars, ownerVars, syncVars, deletionVars>>

MCSpec ==
    MCInit /\ [][MCNext]_<<focus, addressVars, ownerVars, syncVars, deletionVars,
                     agentUpdateVars>>
=============================================================================
