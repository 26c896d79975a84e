-------------------------- MODULE PublicAddresses --------------------------
(***************************************************************************)
(* Who probes a public IP.  Nodes report where their paths lead             *)
(* (reconcilePublicAddresses of src/internal/center/nodes/address.go); the  *)
(* Center selects one available path per address, tells the nodes concerned *)
(* by a new configuration revision, and an administrator switches probing   *)
(* of an address on and off (UpdatePublicAddress of network.go).            *)
(*                                                                          *)
(* config.db alone is concerned: an action is one statement outside, or one *)
(* whole transaction.  Which available path is preferred depends on times   *)
(* that are left out, so any may be.                                        *)
(***************************************************************************)
EXTENDS Naturals, FiniteSets

CONSTANTS
    OwnerNodes,          \* nodes
    PathNumbers,         \* numbers the paths of a node
    OwnedIPs,            \* public addresses
    MaxOwnerRevisions,   \* bound on the revisions of a node
    MaxSwitches          \* bound on requests of the administrator

ASSUME OwnerAssumption ==
    /\ 0 \notin OwnerNodes /\ 0 \notin PathNumbers /\ 0 \notin OwnedIPs
    /\ MaxOwnerRevisions \in Nat \ {0} /\ MaxSwitches \in Nat

VARIABLES
    ownership,   \* public_addresses, public_address_paths, desired revisions
    switching,   \* the request under way: its address, the path it read, its step
    assembling,  \* per node: the revision and targets Configuration has read so far
    targeting,   \* per node: the revision and targets its Agent applied
    switches,    \* requests so far
    overtaken    \* addresses whose switch did not reach the node that probes them

ownerVars == <<ownership, switching, assembling, targeting, switches, overtaken>>

OwnerPaths == OwnerNodes \X PathNumbers
NodeOf(p) == p[1]
NoPath == <<0, 0>>
Path == OwnerPaths \cup {NoPath}
Revision == 0 .. MaxOwnerRevisions
Target == [ip : OwnedIPs, path : OwnerPaths, enabled : BOOLEAN]
NoSwitch == [ip |-> 0, path |-> NoPath, step |-> "none"]
NoTargets == [revision |-> 0, targets |-> {}]

OwnerInit ==
    /\ ownership = [at |-> [p \in OwnerPaths |-> 0], available |-> {},
                    selected |-> [a \in OwnedIPs |-> NoPath], enabled |-> OwnedIPs,
                    revision |-> [n \in OwnerNodes |-> 1]]
    /\ switching = NoSwitch
    /\ assembling = [n \in OwnerNodes |-> NoTargets]
    /\ targeting = [n \in OwnerNodes |-> NoTargets]
    /\ switches = 0 /\ overtaken = {}

-----------------------------------------------------------------------------
(* The reports of the nodes                                                *)

\* The paths of node n, as it reports them; one it did not report, or found no
\* address for, keeps its row and becomes unavailable.
Reports(n, found) ==
    [ownership EXCEPT
        !.at = [p \in OwnerPaths |-> IF NodeOf(p) = n /\ found[p] # 0 THEN found[p] ELSE @[p]],
        !.available = {p \in @ : NodeOf(p) # n} \cup {p \in OwnerPaths : NodeOf(p) = n /\ found[p] # 0}]

Serving(o, a) == {p \in o.available : o.at[p] = a}

\* ClearUnavailablePublicAddressSelections and GetPreferredPublicAddressPath: a
\* selection stays while its path is available.
Selections(o) ==
    {s \in [OwnedIPs -> Path] : \A a \in OwnedIPs :
        IF o.selected[a] \in Serving(o, a) THEN s[a] = o.selected[a]
        ELSE IF Serving(o, a) = {} THEN s[a] = NoPath ELSE s[a] \in Serving(o, a)}

\* changedSelectionNodes: of the path before and of the path after.
FaultyAffected(before, after) ==   \* tells the new prober, but not the old one
    {NodeOf(after[a]) : a \in {b \in OwnedIPs : before[b] # after[b] /\ after[b] # NoPath}}
Affected(before, after) ==
    {NodeOf(p) : p \in (UNION {{before[a], after[a]} : a \in {b \in OwnedIPs : before[b] # after[b]}}) \ {NoPath}}

Increment(o, ns) == [o EXCEPT !.revision = [n \in OwnerNodes |-> IF n \in ns THEN @[n] + 1 ELSE @[n]]]

ReconcilePublicAddresses ==
    /\ \E n \in OwnerNodes, found \in [OwnerPaths -> OwnedIPs \cup {0}] :
        /\ \A p \in OwnerPaths : NodeOf(p) # n => found[p] = 0
        /\ \E s \in Selections(Reports(n, found)) :
            /\ ownership' = Increment([Reports(n, found) EXCEPT !.selected = s],
                                      Affected(ownership.selected, s))
            /\ \A m \in OwnerNodes : ownership'.revision[m] <= MaxOwnerRevisions
            \* who probes an address now learns its setting with the new revision
            /\ overtaken' = {a \in overtaken :
                 s[a] # NoPath /\ ownership'.revision[NodeOf(s[a])] = ownership.revision[NodeOf(s[a])]}
    /\ UNCHANGED <<switching, assembling, targeting, switches>>

-----------------------------------------------------------------------------
(* UpdatePublicAddress: four statements without a transaction              *)

ReadPublicAddress ==
    /\ switching = NoSwitch
    /\ switches < MaxSwitches /\ switches' = switches + 1
    /\ \E a \in OwnedIPs : switching' = [ip |-> a, path |-> ownership.selected[a], step |-> "read"]
    /\ UNCHANGED <<ownership, assembling, targeting, overtaken>>

SetProbeSettings ==
    /\ switching.step = "read"
    /\ ownership' = [ownership EXCEPT
            !.enabled = IF switching.ip \in @ THEN @ \ {switching.ip} ELSE @ \cup {switching.ip}]
    /\ switching' = [switching EXCEPT !.step = "set"]
    /\ UNCHANGED <<assembling, targeting, switches, overtaken>>

\* The node of the path that was read, wherever the selection is by now.
Told(sw) == IF sw.path = NoPath THEN {} ELSE {NodeOf(sw.path)}

IncrementRevision ==
    /\ switching.step = "set"
    /\ ownership' = Increment(ownership, Told(switching))
    /\ \A m \in OwnerNodes : ownership'.revision[m] <= MaxOwnerRevisions
    /\ overtaken' = IF ownership.selected[switching.ip] = switching.path
                    THEN overtaken \ {switching.ip} ELSE overtaken \cup {switching.ip}
    /\ switching' = NoSwitch
    /\ UNCHANGED <<assembling, targeting, switches>>

\* The request is cancelled, or the Center stops.
AbandonSwitch ==
    /\ switching # NoSwitch /\ switching' = NoSwitch
    /\ overtaken' = IF switching.step = "set" THEN overtaken \cup {switching.ip} ELSE overtaken
    /\ UNCHANGED <<ownership, assembling, targeting, switches>>

-----------------------------------------------------------------------------
(* Configuration                                                           *)

\* ListNodeAvailablePublicAddressTargets.
TargetsOf(n) ==
    {[ip |-> a, path |-> ownership.selected[a], enabled |-> a \in ownership.enabled] :
        a \in {b \in OwnedIPs : ownership.selected[b] # NoPath /\ NodeOf(ownership.selected[b]) = n}}

\* The revision is read with the node's credential, the targets later.
ReadOwnerRevision ==
    /\ \E n \in OwnerNodes :
        /\ assembling[n] = NoTargets /\ targeting[n].revision < ownership.revision[n]
        /\ assembling' = [assembling EXCEPT ![n].revision = ownership.revision[n]]
    /\ UNCHANGED <<ownership, switching, targeting, switches, overtaken>>

ApplyTargets ==
    /\ \E n \in OwnerNodes :
        /\ assembling[n] # NoTargets
        /\ targeting' = [targeting EXCEPT ![n] = [assembling[n] EXCEPT !.targets = TargetsOf(n)]]
        /\ assembling' = [assembling EXCEPT ![n] = NoTargets]
    /\ UNCHANGED <<ownership, switching, switches, overtaken>>

OwnerNext ==
    \/ ReconcilePublicAddresses
    \/ ReadPublicAddress \/ SetProbeSettings \/ IncrementRevision \/ AbandonSwitch
    \/ ReadOwnerRevision \/ ApplyTargets

OwnerSpec == OwnerInit /\ [][OwnerNext]_ownerVars

-----------------------------------------------------------------------------
(* Properties                                                              *)

\* Types; and of every address with an available path exactly one is selected, which
\* leads to it, whichever node reported last.
OwnerTypeOK ==
    /\ ownership \in [at : [OwnerPaths -> OwnedIPs \cup {0}], available : SUBSET OwnerPaths,
                      selected : [OwnedIPs -> Path], enabled : SUBSET OwnedIPs,
                      revision : [OwnerNodes -> Revision]]
    /\ \A a \in OwnedIPs :
        IF Serving(ownership, a) = {} THEN ownership.selected[a] = NoPath
        ELSE ownership.selected[a] \in Serving(ownership, a)
    /\ switching \in [ip : OwnedIPs \cup {0}, path : Path, step : {"none", "read", "set"}]
    /\ assembling \in [OwnerNodes -> [revision : Revision, targets : SUBSET Target]]
    /\ targeting \in [OwnerNodes -> [revision : Revision, targets : SUBSET Target]]
    /\ switches \in 0 .. MaxSwitches /\ overtaken \subseteq OwnedIPs

\* An Agent at the current revision of its node probes the addresses selected for that
\* node and no other, so that no address has two probers, or none, for good.  It
\* has their settings too, unless the one update that changed them was cut short or
\* overtaken by a report that moved the address between its statements.
TargetsFollow ==
    \A n \in OwnerNodes :
        targeting[n].revision = ownership.revision[n] =>
            /\ {[ip |-> t.ip, path |-> t.path] : t \in targeting[n].targets}
                 = {[ip |-> t.ip, path |-> t.path] : t \in TargetsOf(n)}
            /\ \A t \in targeting[n].targets :
                \/ t.enabled <=> t.ip \in ownership.enabled
                \/ t.ip \in overtaken
                \/ switching.ip = t.ip /\ switching.step = "set"
=============================================================================
