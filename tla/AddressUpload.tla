--------------------------- MODULE AddressUpload ---------------------------
(***************************************************************************)
(* Address observations of one node on their way to the Center: the         *)
(* observer (src/internal/agent/observation/observer.go), the queue in      *)
(* state.db (src/internal/agent/state/address.go), the poll that carries    *)
(* both directions (src/internal/agent/control.go,                          *)
(* src/internal/center/nodes/service.go) and the ingest                     *)
(* (src/internal/center/nodes/address.go).                                  *)
(*                                                                          *)
(* An event is numbered as recorded, a gap by the event it began with.      *)
(* Everything the Agent queues is of the generation it has applied, and so  *)
(* an upload has one.  Interfaces, families, times and reasons of failure   *)
(* are left out.  The paths are those of proxies, which an administrator    *)
(* switches on and off and deletes; the deletion worker                     *)
(* (src/internal/center/nodes/service.go) deletes the rows.                 *)
(***************************************************************************)
EXTENDS Integers, FiniteSets, Sequences

CONSTANTS
    Paths,                \* egress paths of the node
    PublicIPs,            \* public addresses a check can find
    MaxPathEvents,        \* maxPendingAddressEventsPerEgress, small
    MaxAddressEvents,     \* bound on events recorded
    MaxAddressRevisions   \* bound on configuration revisions

ASSUME AddressAssumption ==
    /\ IsFiniteSet(Paths) /\ IsFiniteSet(PublicIPs) /\ 0 \notin PublicIPs
    /\ MaxPathEvents \in Nat \ {0}
    /\ MaxAddressEvents \in Nat /\ MaxAddressRevisions \in Nat \ {0}

VARIABLES
    addressDisk,    \* state.db: configuration, and per path state, events and gap
    addressCheck,   \* the check the observer runs: path and revision, or NoCheck
    addressSent,    \* the upload of the poll in flight, or NoUpload
    addressAnswer,  \* of the poll: none, accepted, refused, error, failed, configure (go on with that)
    addressLate,    \* polls whose client is gone
    addressCenter,  \* config.db and history.db
    addressLog      \* events recorded so far, less those given up with path or generation

addressVars == <<addressDisk, addressCheck, addressSent, addressAnswer, addressLate,
                 addressCenter, addressLog>>

NoIP == 0  \* no address known
IPs == PublicIPs \cup {NoIP}
EventId == 1 .. MaxAddressEvents
Count == 0 .. MaxAddressEvents
Kinds == {"check-failure", "recovery", "first-observation", "address-removed", "address-added"}
AddressEvent == [id : EventId, path : Paths, sequence : EventId, kind : Kinds, ip : IPs]
AddressGap == [id : Count, count : Count, first : Count, last : Count]
NoAddressGap == [id |-> 0, count |-> 0, first |-> 0, last |-> 0]
PathState == [status : {"unchecked", "failed", "confirmed"}, sequence : Count, ip : IPs]
Unchecked == [status |-> "unchecked", sequence |-> 0, ip |-> NoIP]
Configuration == [revision : 1 .. MaxAddressRevisions, generation : 1 .. MaxAddressRevisions,
                  paths : SUBSET Paths]
FirstConfiguration == [revision |-> 1, generation |-> 1, paths |-> Paths]
NoCheck == [path |-> NoIP, revision |-> 0]
Upload == [generation : 0 .. MaxAddressRevisions, ips : [Paths -> IPs],
           events : SUBSET AddressEvent, gaps : [Paths -> AddressGap]]
NoUpload == [generation |-> 0, ips |-> [p \in Paths |-> NoIP], events |-> {},
             gaps |-> [p \in Paths |-> NoAddressGap]]

AddressInit ==
    /\ addressDisk = [configuration |-> FirstConfiguration, queue |-> {},
                      states |-> [p \in Paths |-> Unchecked],
                      gaps |-> [p \in Paths |-> NoAddressGap]]
    /\ addressCheck = NoCheck
    /\ addressSent = NoUpload /\ addressAnswer = "none" /\ addressLate = {}
    /\ addressCenter = [configuration |-> FirstConfiguration, known |-> {},
                        at |-> [p \in Paths |-> NoIP], events |-> {}, gaps |-> {},
                        unattributed |-> {}, rows |-> Paths, deleting |-> {}]
    /\ addressLog = [events |-> {}, count |-> 0]

-----------------------------------------------------------------------------
(* Observing                                                               *)

CheckPath ==
    /\ addressCheck = NoCheck
    /\ \E p \in addressDisk.configuration.paths :
        addressCheck' = [path |-> p, revision |-> addressDisk.configuration.revision]
    /\ UNCHANGED <<addressDisk, addressSent, addressAnswer, addressLate, addressCenter, addressLog>>

\* transitionAddressState: what a check of path p that found ip, or nothing, emits in
\* order.  A path holds its last address while its checks fail.
Holders(ip) == {p \in Paths : addressDisk.states[p].ip = ip}

Failure(p) ==
    IF addressDisk.states[p].status = "failed" THEN <<>>
    ELSE <<[kind |-> "check-failure", ip |-> addressDisk.states[p].ip]>>
Recovery(p, ip) ==
    IF addressDisk.states[p].status # "failed" THEN <<>> ELSE <<[kind |-> "recovery", ip |-> ip]>>
FaultyLeaves(p, ip) ==   \* as if no other path could hold the address
    IF addressDisk.states[p].ip \in {NoIP, ip} THEN <<>>
    ELSE <<[kind |-> "address-removed", ip |-> addressDisk.states[p].ip]>>
Leaves(p, ip) ==
    IF addressDisk.states[p].ip \in {NoIP, ip} \/ Holders(addressDisk.states[p].ip) # {p} THEN <<>>
    ELSE <<[kind |-> "address-removed", ip |-> addressDisk.states[p].ip]>>
Enters(p, ip) ==
    IF Holders(ip) # {} THEN <<>>
    ELSE <<[kind |-> IF addressDisk.states[p].ip = NoIP THEN "first-observation" ELSE "address-added",
            ip |-> ip]>>
Emitted(p, ip) ==
    IF ip = NoIP THEN Failure(p) ELSE Recovery(p, ip) \o Leaves(p, ip) \o Enters(p, ip)

\* extendAddressGap: all losses of a path since the last acknowledged gap are one gap.
Extended(gap, dropped) ==
    IF gap = NoAddressGap
    THEN [id |-> dropped.id, count |-> 1, first |-> dropped.sequence, last |-> dropped.sequence]
    ELSE [gap EXCEPT !.count = @ + 1, !.last = dropped.sequence]

FaultyEnqueueAddress(d, e) ==   \* drops the newest
    IF Cardinality({f \in d.queue : f.path = e.path}) < MaxPathEvents
    THEN [d EXCEPT !.queue = @ \cup {e}]
    ELSE [d EXCEPT !.gaps[e.path] = Extended(@, e)]

EnqueueAddress(d, e) ==
    LET q == d.queue \cup {e}
        mine == {f \in q : f.path = e.path}
        oldest == CHOOSE f \in mine : \A g \in mine : f.sequence <= g.sequence
    IN IF Cardinality(mine) <= MaxPathEvents THEN [d EXCEPT !.queue = q]
       ELSE [d EXCEPT !.queue = q \ {oldest}, !.gaps[e.path] = Extended(@, oldest)]

\* One transaction.  What a check of another revision found is thrown away.
Observe(p, ip) ==
    LET emitted == Emitted(p, ip)
        New(i) == [id |-> addressLog.count + i, path |-> p, kind |-> emitted[i].kind,
                   sequence |-> addressDisk.states[p].sequence + i, ip |-> emitted[i].ip]
        after[i \in 0 .. Len(emitted)] ==
            IF i > 0 THEN EnqueueAddress(after[i - 1], New(i))
            ELSE [addressDisk EXCEPT
                    !.states[p] = [status |-> IF ip = NoIP THEN "failed" ELSE "confirmed",
                                   sequence |-> @.sequence + Len(emitted),
                                   ip |-> IF ip = NoIP THEN @.ip ELSE ip]]
    IN /\ addressLog.count + Len(emitted) <= MaxAddressEvents
       /\ addressDisk' = after[Len(emitted)]
       /\ addressLog' = [events |-> addressLog.events \cup {New(i) : i \in 1 .. Len(emitted)},
                         count |-> addressLog.count + Len(emitted)]

RecordAddressObservation ==
    /\ addressCheck # NoCheck /\ addressCheck' = NoCheck
    /\ IF addressCheck.revision = addressDisk.configuration.revision
       THEN \E ip \in IPs : Observe(addressCheck.path, ip)
       ELSE UNCHANGED <<addressDisk, addressLog>>
    /\ UNCHANGED <<addressSent, addressAnswer, addressLate, addressCenter>>

-----------------------------------------------------------------------------
(* Polling                                                                 *)

SendAddresses ==
    /\ addressSent = NoUpload /\ addressAnswer = "none"
    /\ addressSent' = [generation |-> addressDisk.configuration.generation,
                       ips |-> [p \in Paths |-> addressDisk.states[p].ip],
                       events |-> addressDisk.queue, gaps |-> addressDisk.gaps]
    /\ UNCHANGED <<addressDisk, addressCheck, addressAnswer, addressLate, addressCenter, addressLog>>

\* AcknowledgeAddressUpload: events by id, a gap unless it has grown since.
FaultyAcknowledged(gap, sent) == IF gap.id = sent.id THEN NoAddressGap ELSE gap
Acknowledged(gap, sent) ==
    IF gap.id = sent.id /\ gap.last <= sent.last THEN NoAddressGap ELSE gap

AcknowledgeAddressUpload ==
    /\ addressAnswer = "accepted"
    /\ addressDisk' = [addressDisk EXCEPT
            !.queue = {e \in @ : \A f \in addressSent.events : e.id # f.id},
            !.gaps = [p \in Paths |-> Acknowledged(@[p], addressSent.gaps[p])]]
    /\ addressSent' = NoUpload
    /\ addressAnswer' = "configure"
    /\ UNCHANGED <<addressCheck, addressLate, addressCenter, addressLog>>

\* ApplyConfiguration with reconcileAddressBuckets: a new generation clears everything,
\* a path that left the configuration takes its state, events and gap with it.
ApplyAddressConfiguration ==
    /\ addressAnswer = "configure" /\ addressAnswer' = "none"
    /\ LET new == addressCenter.configuration
           kept == IF new.generation = addressDisk.configuration.generation THEN new.paths ELSE {}
       IN /\ addressDisk' = [configuration |-> new,
               queue |-> {e \in addressDisk.queue : e.path \in kept},
               states |-> [p \in Paths |-> IF p \in kept THEN addressDisk.states[p] ELSE Unchecked],
               gaps |-> [p \in Paths |-> IF p \in kept THEN addressDisk.gaps[p] ELSE NoAddressGap]]
          /\ addressLog' = [addressLog EXCEPT !.events = {e \in @ : e.path \in kept}]
    /\ UNCHANGED <<addressCheck, addressSent, addressLate, addressCenter>>

\* The poll fails at any point, or was refused; it may still reach the Center.  The
\* next one sends what is there then.
PollFails ==
    /\ addressSent # NoUpload \/ addressAnswer = "configure"
    /\ \/ addressLate' = addressLate
       \/ addressAnswer = "none" /\ addressLate' = {addressSent}
    /\ addressSent' = NoUpload /\ addressAnswer' = "none"
    /\ UNCHANGED <<addressDisk, addressCheck, addressCenter, addressLog>>

-----------------------------------------------------------------------------
(* Ingest                                                                  *)

\* ListActiveNodeEgresses.
ActivePaths(c) == c.rows \ c.deleting

\* reconcilePublicAddresses, as far as events depend on it, commits to config.db first.
\* It takes every state with an address, also of a path whose row is gone, to which the
\* foreign key of public_address_paths then refers.
Dangling(c, u) ==
    u.generation = c.configuration.generation /\ \E p \in Paths \ c.rows : u.ips[p] # NoIP
Reconciled(c, u) ==
    IF u.generation # c.configuration.generation THEN c
    ELSE [c EXCEPT !.known = @ \cup ({u.ips[p] : p \in Paths} \ {NoIP}),
                   !.at = [p \in Paths |-> IF u.ips[p] = NoIP THEN @[p] ELSE u.ips[p]]]

\* publicAddressIDForEvent: of an event without an address, that of its path now.
Attribution(c, e) ==
    IF e.ip # NoIP THEN (IF e.ip \in c.known THEN e.ip ELSE NoIP) ELSE c.at[e.path]

\* validateAddressUpload: a gap counts every sequence between its bounds.
Holes(gap) == gap # NoAddressGap /\ gap.count # gap.last - gap.first + 1

\* ingestAddressEvent: a sequence the Center has must come with the event it has, of
\* the address it was stored with.
Conflicts(c, e) ==
    /\ Attribution(c, e) # NoIP
    /\ \E s \in c.events :
        /\ s.event.path = e.path /\ s.event.sequence = e.sequence
        /\ s # [event |-> e, of |-> Attribution(c, e)]

Invalid(u) == \E p \in Paths : Holes(u.gaps[p])
FirstCommit(c, u) == IF Invalid(u) \/ Dangling(c, u) THEN c ELSE Reconciled(c, u)
AddressesRefused(c, u) ==
    \/ Invalid(u)
    \/ /\ u.generation = c.configuration.generation
       /\ ~Dangling(c, u)
       /\ \E e \in u.events : e.path \in ActivePaths(c) /\ Conflicts(FirstCommit(c, u), e)

\* The history transaction.  What is of another generation or of a path going away is
\* discarded, an event of no address the Center knows accepted and not stored.  Versions
\* of one gap, which UpsertAddressGap merges, are kept apart.
Attributed(c, u) == {[event |-> e, of |-> Attribution(c, e)] : e \in {f \in u.events : f.path \in ActivePaths(c)}}
Stored(c, u) ==
    IF u.generation # c.configuration.generation THEN c
    ELSE [c EXCEPT
        !.events = @ \cup {s \in Attributed(c, u) : s.of # NoIP},
        !.unattributed = @ \cup {s.event.id : s \in {t \in Attributed(c, u) : t.of = NoIP}},
        !.gaps = @ \cup {g \in {[path |-> p, gap |-> u.gaps[p]] : p \in ActivePaths(c)} : g.gap # NoAddressGap}]

\* Poll: the second commit may fail, or refuse, after the first is there.  A dangling
\* path is an internal error each time.
Served(c, u) ==
    {[center |-> FirstCommit(c, u),
      answer |-> IF AddressesRefused(c, u) THEN "refused" ELSE IF Dangling(c, u) THEN "error" ELSE "failed"]}
    \cup {o \in {[center |-> Stored(FirstCommit(c, u), u), answer |-> "accepted"]} :
              ~AddressesRefused(c, u) /\ ~Dangling(c, u)}

Poll ==
    /\ addressSent # NoUpload /\ addressAnswer = "none"
    /\ \E o \in Served(addressCenter, addressSent) :
        addressCenter' = o.center /\ addressAnswer' = o.answer
    /\ UNCHANGED <<addressDisk, addressCheck, addressSent, addressLate, addressLog>>

LatePoll ==
    /\ \E u \in addressLate :
        /\ \E o \in Served(addressCenter, u) : addressCenter' = o.center
        /\ addressLate' = addressLate \ {u}
    /\ UNCHANGED <<addressDisk, addressCheck, addressSent, addressAnswer, addressLog>>

\* UpdateNetworkProxy switches a path of the configuration on or off; ResetHistory
\* draws a generation and clears what was observed, but not the public addresses.
SwitchProxy ==
    /\ addressCenter.configuration.revision < MaxAddressRevisions
    /\ \E p \in ActivePaths(addressCenter) :
        addressCenter' = [addressCenter EXCEPT
            !.configuration.revision = @ + 1,
            !.configuration.paths = IF p \in @ THEN @ \ {p} ELSE @ \cup {p}]
    /\ UNCHANGED <<addressDisk, addressCheck, addressSent, addressAnswer, addressLate, addressLog>>

ResetAddresses ==
    /\ addressCenter.configuration.revision < MaxAddressRevisions
    /\ addressCenter' = [addressCenter EXCEPT
            !.configuration.revision = @ + 1, !.configuration.generation = @ + 1,
            !.events = {}, !.gaps = {}, !.unattributed = {}]
    /\ UNCHANGED <<addressDisk, addressCheck, addressSent, addressAnswer, addressLate, addressLog>>

\* DeleteNetworkProxy marks the path of a proxy; the worker then removes its gaps from
\* history.db and, in a second commit, its row, and with that its path to an address.
DeleteProxy ==
    /\ addressCenter.configuration.revision < MaxAddressRevisions
    /\ \E p \in ActivePaths(addressCenter) :
        addressCenter' = [addressCenter EXCEPT
            !.configuration.revision = @ + 1, !.configuration.paths = @ \ {p},
            !.deleting = @ \cup {p}]
    /\ UNCHANGED <<addressDisk, addressCheck, addressSent, addressAnswer, addressLate, addressLog>>

DeletePathHistory ==
    /\ \E p \in addressCenter.deleting :
        addressCenter' = [addressCenter EXCEPT !.gaps = {g \in @ : g.path # p}]
    /\ UNCHANGED <<addressDisk, addressCheck, addressSent, addressAnswer, addressLate, addressLog>>

DeletePath ==
    /\ \E p \in addressCenter.deleting :
        /\ \A g \in addressCenter.gaps : g.path # p
        /\ addressCenter' = [addressCenter EXCEPT
                !.rows = @ \ {p}, !.deleting = @ \ {p}, !.at[p] = NoIP]
    /\ UNCHANGED <<addressDisk, addressCheck, addressSent, addressAnswer, addressLate, addressLog>>

AddressNext ==
    \/ CheckPath \/ RecordAddressObservation
    \/ SendAddresses \/ Poll \/ LatePoll \/ AcknowledgeAddressUpload
    \/ ApplyAddressConfiguration \/ PollFails
    \/ SwitchProxy \/ DeleteProxy \/ DeletePathHistory \/ DeletePath \/ ResetAddresses

AddressSpec == AddressInit /\ [][AddressNext]_addressVars

-----------------------------------------------------------------------------
(* Properties                                                              *)

\* Types; the queue keeps the limit of each path.
AddressTypeOK ==
    /\ addressDisk \in [configuration : Configuration, queue : SUBSET AddressEvent,
                        states : [Paths -> PathState], gaps : [Paths -> AddressGap]]
    /\ \A p \in Paths : Cardinality({e \in addressDisk.queue : e.path = p}) <= MaxPathEvents
    /\ addressCheck \in {NoCheck} \cup [path : Paths, revision : 1 .. MaxAddressRevisions]
    /\ addressSent \in Upload /\ addressLate \subseteq Upload
    /\ addressAnswer \in {"none", "accepted", "refused", "error", "failed", "configure"}
    /\ addressCenter \in [configuration : Configuration, known : SUBSET PublicIPs, at : [Paths -> IPs],
                          events : SUBSET [event : AddressEvent, of : PublicIPs],
                          gaps : SUBSET [path : Paths, gap : AddressGap],
                          unattributed : SUBSET EventId,
                          rows : SUBSET Paths, deleting : SUBSET Paths]
    /\ addressLog \in [events : SUBSET AddressEvent, count : Count]

SameGeneration == addressCenter.configuration.generation = addressDisk.configuration.generation
Reconfigured == addressCenter.configuration.revision > 1
AtCenter(e) ==
    \/ e.id \in addressCenter.unattributed
    \/ \E s \in addressCenter.events : s.event = e

\* What TestObsoleteAndDeletedEgressAddressUploadsAreDiscarded says of the Center: an
\* upload of a path that was deleted is taken, and what it says of the path discarded.
DeletedPathsDiscarded == addressAnswer # "error"

\* What TestAddressUploadIsIdempotentAndRejectsConflictingOrder says of the Center: what an
\* Agent repeats it takes again.  An upload without holes is not refused.
UploadsIdempotent == addressAnswer = "refused" => \E p \in Paths : Holes(addressSent.gaps[p])

\* Without a change of configuration the Center refuses a poll for two reasons only: a gap
\* that grew past events the Center already had, so that what it does not count is there,
\* and an event of no address that the Center stored with the address its path had then,
\* repeated after the path found another.
AddressRefusals ==
    addressAnswer = "refused" /\ ~Reconfigured =>
        \/ \E p \in Paths :
            /\ Holes(addressSent.gaps[p])
            /\ \E e \in addressLog.events :
                /\ e.path = p /\ AtCenter(e)
                /\ e.sequence \in addressSent.gaps[p].first .. addressSent.gaps[p].last
        \/ \E e \in addressSent.events :
            /\ e.ip = NoIP
            /\ \E s \in addressCenter.events : s.event = e /\ s.of # addressSent.ips[e.path]

\* Through the limit of the queue, a gap that grows while it is on its way, lost answers,
\* late polls and commits that fail half way, every event of the current generation is
\* queued within that limit, counted in a gap, or known to the Center.
EveryAddressEventAccounted ==
    /\ AddressTypeOK
    /\ SameGeneration =>
        \A e \in {f \in addressLog.events : f.path \in ActivePaths(addressCenter)} :
            \/ e \in addressDisk.queue
            \/ AtCenter(e)
            \/ e.sequence \in addressDisk.gaps[e.path].first .. addressDisk.gaps[e.path].last
            \/ \E g \in addressCenter.gaps : g.path = e.path /\ e.sequence \in g.gap.first .. g.gap.last

\* The events of entering and leaving tell which addresses the node has, although each
\* path is checked on its own and several may share an address.
SetEventsBalance ==
    ~Reconfigured =>
        \A ip \in PublicIPs :
            LET OfKind(kinds) == {e \in addressLog.events : e.ip = ip /\ e.kind \in kinds} IN
            Cardinality(OfKind({"first-observation", "address-added"}))
              - Cardinality(OfKind({"address-removed"})) = IF Holders(ip) = {} THEN 0 ELSE 1
=============================================================================
