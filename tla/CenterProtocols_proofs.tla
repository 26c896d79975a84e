----------------------- MODULE CenterProtocols_proofs -----------------------
(***************************************************************************)
(* Services of the Center and its protocols with the nodes, which share no *)
(* state in these models.  The reset of the history keeps its types, the   *)
(* probe rows of history.db and the Agent's configuration consistent, and  *)
(* the Center refuses to open in two kinds of state only, for every number *)
(* of generations and wherever the Center stops.  The notifications keep   *)
(* every delivery that is under way with its sender and within its         *)
(* attempts, for any events, senders, rules, limits, stops and edits.      *)
(* No sync connection outlives the session leased to the node and no       *)
(* wake-up is lost, for any number of callers, sessions, connections and   *)
(* changes; the Agents of a public IP follow the selection of its path,    *)
(* for any nodes, paths, addresses and requests; a deleted node leaves no  *)
(* history behind but what a poll that overtook its revocation stores, for *)
(* any number of polls and of restarts.                                    *)
(***************************************************************************)
EXTENDS HistoryReset, NotificationOutbox, SyncSessions, PublicAddresses, NodeDeletion,
        FiniteSetTheorems, TLAPS

-----------------------------------------------------------------------------
(* Reset of the history                                                    *)

\* Where the process stands bounds how far the two databases are apart.
Databases ==
    /\ config.gen = 0 => /\ config.pending = 0 /\ history.meta = 0
                         /\ step \notin {"describe", "serving"}
    /\ config.pending = 0 /\ history.meta # 0 => history.meta = config.gen
    /\ step # "down" => history.file
    /\ step = "describe" => history.meta = 0 /\ config.pending = 0
    /\ step = "serving" /\ config.pending = 0 => history.meta = config.gen
    /\ resetting # "no" => step = "serving" /\ config.pending # 0
    /\ resetting = "cleared" => history.meta = config.pending

\* A revision handed out names the generation it was handed out with.
Revisions ==
    /\ config.gen = 0 => agent.rev = 0 /\ fetch = NoFetch
    /\ config.revision > 0 /\ agent.rev <= config.revision /\ fetch.rev <= config.revision
    /\ fetch.rev = config.revision /\ fetch.gen # 0 => fetch.gen = config.gen

Inductive == TypeOK /\ ProbesOfGeneration /\ AgentFollows /\ CenterReopens
             /\ Databases /\ Revisions

LEMMA InitInductive == Init => Inductive
<1> SUFFICES ASSUME Init PROVE Inductive
  OBVIOUS
<1> USE DEF Init, NoFile, NoFetch
<1>1. TypeOK
  <2>1. config \in [gen : Generation \cup {0}, pending : Generation \cup {0}, revision : Nat]
    OBVIOUS
  <2>2. history \in [file : BOOLEAN, meta : Generation \cup {0},
                    probes : SUBSET Generation, addresses : SUBSET Generation]
    OBVIOUS
  <2>3. drawn \in 0 .. MaxGeneration
    BY ResetAssumption
  <2> QED
    BY <2>1, <2>2, <2>3 DEF TypeOK
<1>2. ProbesOfGeneration /\ AgentFollows /\ CenterReopens
  BY DEF ProbesOfGeneration, AgentFollows, CenterReopens
<1>3. Databases /\ Revisions
  BY DEF Databases, Revisions
<1> QED
  BY <1>1, <1>2, <1>3 DEF Inductive

LEMMA NextInductive == Inductive /\ [Next]_vars => Inductive'
<1> SUFFICES ASSUME Inductive, [Next]_vars PROVE Inductive'
  OBVIOUS
<1> USE ResetAssumption
        DEF Inductive, TypeOK, ProbesOfGeneration, AgentFollows, CenterReopens, Created,
            Announced, Databases, Revisions, Generation
<1>1. CASE OpenDatabases
  BY <1>1 DEF OpenDatabases, agentVars
<1>2. CASE CreateSystemState
  BY <1>2 DEF CreateSystemState, agentVars
<1>3. CASE AnnounceGeneration
  BY <1>3 DEF AnnounceGeneration, agentVars
<1>4. CASE CreateHistoryMetadata
  BY <1>4 DEF CreateHistoryMetadata, agentVars
<1>5. CASE PromoteAtOpen
  BY <1>5 DEF PromoteAtOpen, Promoted, agentVars
<1>6. CASE Serve
  BY <1>6 DEF Serve, agentVars
<1>7. CASE Refuse
  BY <1>7 DEF Refuse, Fits, agentVars
<1>8. CASE StopCenter
  BY <1>8 DEF StopCenter, NoFetch
<1>9. CASE RemoveHistory
  BY <1>9 DEF RemoveHistory, NoFile, agentVars
<1>10. CASE BeginReset
  BY <1>10 DEF BeginReset, HistoryFree, agentVars
<1>11. CASE ClearObservedHistory
  BY <1>11 DEF ClearObservedHistory, Cleared, agentVars
<1>12. CASE FinishReset
  BY <1>12 DEF FinishReset, Promoted, agentVars
<1>13. CASE AbortReset
  BY <1>13 DEF AbortReset, agentVars
<1>14. CASE UploadProbe
  BY <1>14 DEF UploadProbe, ProbesAdmitted, HistoryFree, agentVars
<1>15. CASE UploadAddress
  BY <1>15 DEF UploadAddress, HistoryFree, agentVars
<1>16. CASE ReadRevision
  BY <1>16 DEF ReadRevision, Read, NoFetch, centerVars
<1>17. CASE ReadGeneration
  BY <1>17 DEF ReadGeneration, Read, centerVars
<1>18. CASE ApplyConfiguration
  BY <1>18 DEF ApplyConfiguration, NoFetch, centerVars
<1>19. CASE LoseConfiguration
  BY <1>19 DEF LoseConfiguration, NoFetch, centerVars
<1>20. CASE UNCHANGED vars
  BY <1>20 DEF vars, centerVars, agentVars
<1> QED
  BY <1>1, <1>2, <1>3, <1>4, <1>5, <1>6, <1>7, <1>8, <1>9, <1>10,
     <1>11, <1>12, <1>13, <1>14, <1>15, <1>16, <1>17, <1>18, <1>19, <1>20
     DEF Next, Open, Reset, Upload, Configure

LEMMA AlwaysInductive == Spec => []Inductive
BY InitInductive, NextInductive, PTL DEF Spec

\* The types of HistoryReset's variables are kept: a generation in use is one drawn.
THEOREM ResetTypeCorrect == Spec => []TypeOK
BY AlwaysInductive, PTL DEF Inductive

\* Probe rows always belong to the generation history.db names (UploadProbeArtifact's
\* check of the pending generation against resets that stop half way).
THEOREM ProbesKeepGeneration == Spec => []ProbesOfGeneration
BY AlwaysInductive, PTL DEF Inductive

\* An Agent at the Center's revision has the Center's generation (the read order of
\* Configuration and the revision PromotePendingHistoryGeneration comes with).
THEOREM AgentsFollow == Spec => []AgentFollows
BY AlwaysInductive, PTL DEF Inductive

\* The Center refuses to open in the two windows CenterReopens names and in no other
\* state that stops, failed resets and removals of history.db lead to.
THEOREM CenterOpens == Spec => []CenterReopens
BY AlwaysInductive, PTL DEF Inductive

-----------------------------------------------------------------------------
(* Notifications                                                           *)

\* Events of a sender under way.
UnderWay(s) == {e \in Events : ActiveDelivery(<<e, s>>)}
ActiveFinite == \A s \in Senders : IsFiniteSet(UnderWay(s))

\* Before its event is processed and after it was cleared, there is no delivery.
OnlyProcessedDelivered ==
    \A e \in Events : events[e] \in {"none", "pending", "cleared"} =>
        \A s \in Senders : deliveries[<<e, s>>] = NoDelivery

\* What the holder of processMu read of the senders stays true until it lets go.
HolderKnows ==
    /\ processing.op \in {"events", "test", "delete"} =>
          \A s \in processing.senders : senders[s] \in {"enabled", "disabled"}
    /\ processing.op = "delete" =>
          \A s \in processing.senders, e \in Events : ~ActiveDelivery(<<e, s>>)

\* A delivery is in the hands of one worker, which has not sent the attempt it claimed;
\* one that was cleared meanwhile does not come back.
WorkersHold ==
    /\ ~centerRuns => workers = {}
    /\ \A v, w \in workers : v.delivery = w.delivery => v = w
    /\ \A w \in workers :
        /\ deliveries[w.delivery].status = "running" \/ events[w.delivery[1]] = "cleared"
        /\ deliveries[w.delivery].status = "running" =>
             /\ w.outcome = "claimed" => received[w.delivery].sent < deliveries[w.delivery].attempts
             /\ w.outcome = "sent" => received[w.delivery].accepted

OutboxInductive == /\ DeliveriesSound /\ ActiveFinite /\ OnlyProcessedDelivered
                   /\ HolderKnows /\ WorkersHold

LEMMA UnderWayIs == \A s \in Senders : ActiveOf(s) = Cardinality(UnderWay(s))
BY DEF ActiveOf, UnderWay

\* A sender whose deliveries under way are no more than before keeps its bound.
LEMMA FewerUnderWay ==
  ASSUME NEW s \in Senders, IsFiniteSet(UnderWay(s)), ActiveOf(s) <= MaxActive, MaxActive \in Nat,
         UnderWay(s)' \subseteq UnderWay(s)
  PROVE  IsFiniteSet(UnderWay(s)') /\ ActiveOf(s)' <= MaxActive
<1>1. IsFiniteSet(UnderWay(s)') /\ Cardinality(UnderWay(s)') <= Cardinality(UnderWay(s))
  BY FS_Subset
<1>2. Cardinality(UnderWay(s)) \in Nat /\ Cardinality(UnderWay(s)') \in Nat
  BY <1>1, FS_CardinalityType
<1>3. ActiveOf(s)' = Cardinality(UnderWay(s)') /\ ActiveOf(s) = Cardinality(UnderWay(s))
  BY DEF ActiveOf, UnderWay
<1> QED BY <1>1, <1>2, <1>3

\* One that is not at its limit may take one more.
LEMMA OneMoreUnderWay ==
  ASSUME NEW s \in Senders, NEW e, IsFiniteSet(UnderWay(s)), ActiveOf(s) < MaxActive, MaxActive \in Nat,
         UnderWay(s)' \subseteq UnderWay(s) \cup {e}
  PROVE  IsFiniteSet(UnderWay(s)') /\ ActiveOf(s)' <= MaxActive
<1>1. /\ IsFiniteSet(UnderWay(s) \cup {e})
      /\ Cardinality(UnderWay(s) \cup {e}) \in {Cardinality(UnderWay(s)), Cardinality(UnderWay(s)) + 1}
  BY FS_AddElement
<1>2. /\ IsFiniteSet(UnderWay(s)')
      /\ Cardinality(UnderWay(s)') <= Cardinality(UnderWay(s) \cup {e})
  BY <1>1, FS_Subset
<1>3. Cardinality(UnderWay(s)) \in Nat /\ Cardinality(UnderWay(s)') \in Nat
  BY <1>2, FS_CardinalityType
<1>4. ActiveOf(s)' = Cardinality(UnderWay(s)') /\ ActiveOf(s) = Cardinality(UnderWay(s))
  BY DEF ActiveOf, UnderWay
<1> QED BY <1>1, <1>2, <1>3, <1>4

LEMMA OutboxTypeInit == OutboxInit => OutboxTypeOK
<1> SUFFICES ASSUME OutboxInit PROVE OutboxTypeOK
  OBVIOUS
<1> USE OutboxAssumption DEF OutboxInit
<1>1. deliveries \in [Deliveries ->
           [status : {"none", "pending", "running", "retrying", "succeeded", "failed"},
            attempts : 0 .. MaxAttempts]]
  BY DEF NoDelivery
<1>2. received \in [Deliveries -> [sent : 0 .. MaxAttempts, accepted : BOOLEAN]]
  BY DEF Unseen
<1>3. processing \in [op : {"idle", "events", "test", "delete"},
                      events : SUBSET Events, senders : SUBSET Senders]
  BY DEF Idle
<1>4. outboxCounts \in [stops : 0 .. MaxCenterStops, edits : 0 .. MaxRuleEdits]
  OBVIOUS
<1>5. senders \in [Senders -> {"new", "enabled", "disabled", "deleted"}]
  OBVIOUS
<1>6. rules \in [Senders -> {"none", "off", "on"}] /\ events \in [Events -> {"none", "pending", "processed", "cleared"}]
  OBVIOUS
<1> QED BY <1>1, <1>2, <1>3, <1>4, <1>5, <1>6 DEF OutboxTypeOK

LEMMA OutboxStart == OutboxInit => OutboxInductive
<1> SUFFICES ASSUME OutboxInit PROVE OutboxInductive
  OBVIOUS
<1> USE OutboxAssumption
<1>1. OutboxTypeOK
  BY OutboxTypeInit
<1>2. \A d \in Deliveries : deliveries[d] = NoDelivery /\ ~ActiveDelivery(d) /\ received[d] = Unseen
  BY DEF OutboxInit, NoDelivery, ActiveDelivery
<1>3. \A s \in Senders : UnderWay(s) = {}
  BY <1>2 DEF UnderWay, Deliveries
<1>4. ActiveFinite /\ QueueBounded
  <2>1. \A s \in Senders : IsFiniteSet(UnderWay(s)) /\ ActiveOf(s) = 0
    BY <1>3, UnderWayIs, FS_EmptySet
  <2> QED BY <2>1 DEF ActiveFinite, QueueBounded
<1>5. ActiveHasSender /\ AttemptsBounded
  BY <1>2 DEF ActiveHasSender, AttemptsBounded, NoDelivery, Unseen
<1>6. OnlyProcessedDelivered
  BY <1>2 DEF OnlyProcessedDelivered, Deliveries
<1>7. HolderKnows /\ WorkersHold
  BY DEF OutboxInit, HolderKnows, WorkersHold, Idle
<1> QED BY <1>1, <1>4, <1>5, <1>6, <1>7 DEF OutboxInductive, DeliveriesSound

Row == [status : {"none", "pending", "running", "retrying", "succeeded", "failed"},
        attempts : 0 .. MaxAttempts]
Seen == [sent : 0 .. MaxAttempts, accepted : BOOLEAN]
Held == [op : {"idle", "events", "test", "delete"}, events : SUBSET Events, senders : SUBSET Senders]
Hand == [delivery : Deliveries, outcome : {"claimed", "sent", "retryable", "refused"}]
Counts == [stops : 0 .. MaxCenterStops, edits : 0 .. MaxRuleEdits]

LEMMA OutboxTypeParts ==
    OutboxTypeOK <=>
      /\ senders \in [Senders -> {"new", "enabled", "disabled", "deleted"}]
      /\ rules \in [Senders -> {"none", "off", "on"}]
      /\ events \in [Events -> {"none", "pending", "processed", "cleared"}]
      /\ deliveries \in [Deliveries -> Row] /\ processing \in Held /\ workers \subseteq Hand
      /\ received \in [Deliveries -> Seen] /\ centerRuns \in BOOLEAN /\ outboxCounts \in Counts
BY DEF OutboxTypeOK, Row, Seen, Held, Hand, Counts

LEMMA RowsTyped ==
    /\ NoDelivery \in Row /\ Unseen \in Seen /\ Idle \in Held
    /\ \A s : NewDelivery(s) \in Row
    /\ \A r \in Row : r.attempts < MaxAttempts => Claimed(r) \in Row
    /\ \A r \in Row : \A outcome : Settled(r, outcome) \in Row
    /\ \A r \in Row : Recovered(r) \in Row
<1> USE OutboxAssumption
<1>1. NoDelivery \in Row /\ Unseen \in Seen /\ Idle \in Held /\ \A s : NewDelivery(s) \in Row
  BY DEF NoDelivery, Unseen, Idle, NewDelivery, Row, Seen, Held
<1>2. \A r \in Row : r.attempts < MaxAttempts => Claimed(r) \in Row
  BY DEF Claimed, Row
<1>3. ASSUME NEW r \in Row, NEW outcome PROVE Settled(r, outcome) \in Row
  BY DEF Settled, Row
<1>4. ASSUME NEW r \in Row PROVE Recovered(r) \in Row
  BY DEF Recovered, Row
<1> QED BY <1>1, <1>2, <1>3, <1>4

LEMMA OutboxTypeStep ==
  ASSUME OutboxInductive, OutboxNext PROVE OutboxTypeOK'
<1> USE OutboxAssumption
<1>1. /\ senders \in [Senders -> {"new", "enabled", "disabled", "deleted"}]
      /\ rules \in [Senders -> {"none", "off", "on"}]
      /\ events \in [Events -> {"none", "pending", "processed", "cleared"}]
      /\ deliveries \in [Deliveries -> Row] /\ processing \in Held /\ workers \subseteq Hand
      /\ received \in [Deliveries -> Seen] /\ centerRuns \in BOOLEAN /\ outboxCounts \in Counts
  BY OutboxTypeParts DEF OutboxInductive, DeliveriesSound
<1>2. MayEdit => Edited \in Counts
  BY <1>1 DEF MayEdit, Edited, Counts
<1> SUFFICES /\ senders' \in [Senders -> {"new", "enabled", "disabled", "deleted"}]
             /\ rules' \in [Senders -> {"none", "off", "on"}]
             /\ events' \in [Events -> {"none", "pending", "processed", "cleared"}]
             /\ deliveries' \in [Deliveries -> Row] /\ processing' \in Held /\ workers' \subseteq Hand
             /\ received' \in [Deliveries -> Seen] /\ centerRuns' \in BOOLEAN /\ outboxCounts' \in Counts
  BY DEF OutboxTypeOK, Row, Seen, Held, Hand, Counts
<1>3. ASSUME NEW e \in Events, RecordEvent(e) PROVE events' \in [Events -> {"none", "pending", "processed", "cleared"}]
  BY <1>1, <1>3 DEF RecordEvent
<1>4. CASE \E e \in Events : RecordEvent(e)
  BY <1>1, <1>3, <1>4 DEF RecordEvent
<1>5. ASSUME NEW e \in Events, ProcessEvent(e)
      PROVE  /\ events' \in [Events -> {"none", "pending", "processed", "cleared"}]
             /\ deliveries' \in [Deliveries -> Row] /\ processing' \in Held
  <2>1. events' \in [Events -> {"none", "pending", "processed", "cleared"}]
    BY <1>1, <1>5 DEF ProcessEvent
  <2>2. deliveries' \in [Deliveries -> Row]
    BY <1>1, <1>5, RowsTyped DEF ProcessEvent
  <2>3. [processing EXCEPT !.events = @ \ {e}] \in Held /\ Idle \in Held
    BY <1>1, RowsTyped DEF Held
  <2>4. processing' \in Held
    BY <1>5, <2>3 DEF ProcessEvent
  <2> QED BY <2>1, <2>2, <2>4
<1>6. CASE \E e \in Events : ProcessEvent(e)
  BY <1>1, <1>5, <1>6 DEF ProcessEvent
<1>7. ASSUME NEW e \in Events, StoreTest(e)
      PROVE  /\ events' \in [Events -> {"none", "pending", "processed", "cleared"}]
             /\ deliveries' \in [Deliveries -> Row] /\ processing' \in Held
  BY <1>1, <1>7, RowsTyped DEF StoreTest
<1>8. CASE \E e \in Events : StoreTest(e)
  BY <1>1, <1>7, <1>8 DEF StoreTest
<1>9. ASSUME NEW gone PROVE Without(gone) \in [Deliveries -> Row] /\ Forget(gone) \in [Deliveries -> Seen]
  BY <1>1, RowsTyped DEF Without, Forget
<1>10. CASE \E e \in Events : PruneEvent(e)
  BY <1>1, <1>9, <1>10 DEF PruneEvent
<1>11. CASE ReadRules
  <2>1. processing' \in Held
    BY <1>11 DEF ReadRules, Held
  <2> QED BY <1>1, <1>11, <2>1 DEF ReadRules
<1>12. CASE DeleteSender
  BY <1>1, <1>12, RowsTyped DEF DeleteSender
<1>13. CASE AbandonRequest
  BY <1>1, <1>13, RowsTyped DEF AbandonRequest
<1>14. CASE StopNotifications
  <2>1. outboxCounts' \in Counts
    BY <1>1, <1>14 DEF StopNotifications, Counts
  <2> QED BY <1>1, <1>14, <2>1, RowsTyped DEF StopNotifications
<1>15. CASE StartCenter
  BY <1>1, <1>15, RowsTyped DEF StartCenter
<1>16. ASSUME NEW d \in Deliveries, Claim(d)
       PROVE  deliveries' \in [Deliveries -> Row] /\ workers' \subseteq Hand
  BY <1>1, <1>16, RowsTyped DEF Claim, Hand
<1>17. CASE \E d \in Deliveries : Claim(d)
  BY <1>1, <1>16, <1>17 DEF Claim
<1>18. ASSUME NEW d \in Deliveries, Dispatch(d)
       PROVE  received' \in [Deliveries -> Seen] /\ workers' \subseteq Hand
  <2> DEFINE w == [delivery |-> d, outcome |-> "claimed"]
  <2>1. PICK outcome \in {"sent", "retryable", "refused"}, accepted \in BOOLEAN :
           /\ workers' = (workers \ {w}) \cup {[w EXCEPT !.outcome = outcome]}
           /\ received' = IF senders[d[2]] # "enabled" \/ deliveries[d].status # "running" THEN received
                          ELSE [received EXCEPT ![d] = [sent |-> @.sent + 1, accepted |-> @.accepted \/ accepted]]
    BY <1>18 DEF Dispatch
  <2>2. workers' \subseteq Hand
    BY <1>1, <2>1 DEF Hand
  <2>3. w \in workers
    BY <1>18 DEF Dispatch
  <2>4. deliveries[d].status = "running" => received[d].sent < deliveries[d].attempts
    BY <2>3 DEF OutboxInductive, WorkersHold
  <2>5. deliveries[d].attempts \in 0 .. MaxAttempts /\ received[d] \in Seen
    BY <1>1 DEF Row
  <2>6. CASE senders[d[2]] # "enabled" \/ deliveries[d].status # "running"
    BY <1>1, <2>1, <2>2, <2>6
  <2>7. CASE ~(senders[d[2]] # "enabled" \/ deliveries[d].status # "running")
    <3>1. [sent |-> received[d].sent + 1, accepted |-> received[d].accepted \/ accepted] \in Seen
      BY <2>4, <2>5, <2>7 DEF Seen
    <3> QED BY <1>1, <2>1, <2>2, <2>7, <3>1
  <2> QED BY <2>6, <2>7
<1>19. CASE \E d \in Deliveries : Dispatch(d)
  BY <1>1, <1>18, <1>19 DEF Dispatch
<1>20. ASSUME NEW w \in workers, Settle(w) PROVE deliveries' \in [Deliveries -> Row] /\ workers' \subseteq Hand
  <2>1. w.delivery \in Deliveries
    BY <1>1 DEF Hand
  <2> QED BY <1>1, <1>20, <2>1, RowsTyped DEF Settle
<1>21. CASE \E w \in workers : Settle(w)
  BY <1>1, <1>20, <1>21 DEF Settle
<1>22. CASE \E s \in Senders, value \in {"enabled", "disabled"} : EditSender(s, value)
  BY <1>1, <1>2, <1>22 DEF EditSender
<1>23. CASE \E s \in Senders, value \in {"none", "off", "on"} : EditRule(s, value)
  BY <1>1, <1>2, <1>23 DEF EditRule
<1>24. ASSUME NEW s \in Senders, BeginTest(s) \/ BeginDelete(s) PROVE processing' \in Held
  BY <1>24 DEF BeginTest, BeginDelete, Held
<1>25. CASE \E s \in Senders : BeginTest(s) \/ BeginDelete(s)
  BY <1>1, <1>2, <1>24, <1>25 DEF BeginTest, BeginDelete
<1>26. CASE \E gone \in (SUBSET Events) \ {{}} : ClearEvents(gone)
  <2>1. PICK gone \in SUBSET Events : ClearEvents(gone)
    BY <1>26
  <2>2. events' \in [Events -> {"none", "pending", "processed", "cleared"}]
    BY <1>1, <2>1 DEF ClearEvents
  <2> QED BY <1>1, <1>2, <1>9, <2>1, <2>2 DEF ClearEvents
<1> QED
  BY <1>4, <1>6, <1>8, <1>10, <1>11, <1>12, <1>13, <1>14, <1>15, <1>17, <1>19, <1>21, <1>22, <1>23,
     <1>25, <1>26 DEF OutboxNext

\* What one step does to the rows of the deliveries: a new row, for a sender the holder of
\* processMu read; a removed one; or one step of a worker or of a start.
RowStep(d) ==
    \/ deliveries'[d] = deliveries[d] /\ events'[d[1]] = events[d[1]]
    \/ deliveries'[d] = deliveries[d] /\ events'[d[1]] = "pending" /\ events[d[1]] = "none"
    \/ /\ deliveries'[d] \in {deliveries[d], NewDelivery(d[2])} /\ events'[d[1]] = "processed"
       /\ events[d[1]] \in {"pending", "none"} /\ UNCHANGED <<senders, workers, received>>
       /\ deliveries'[d] # deliveries[d] =>
             /\ d[2] \in processing.senders /\ processing.op \in {"events", "test"}
             /\ deliveries[d] = NoDelivery
             /\ \A e \in Events : e # d[1] => deliveries'[<<e, d[2]>>] = deliveries[<<e, d[2]>>]
    \/ /\ deliveries'[d] = NoDelivery /\ received'[d] = Unseen
       /\ \/ events'[d[1]] = "none" /\ events[d[1]] = "processed" /\ ~ActiveDelivery(d)
          \/ events'[d[1]] = "cleared"
       /\ UNCHANGED <<senders, workers>>
    \/ /\ deliveries[d].status \in {"pending", "retrying"} /\ deliveries[d].attempts < MaxAttempts
       /\ deliveries'[d] = Claimed(deliveries[d]) /\ UNCHANGED <<events, received, senders>>
    \/ /\ deliveries[d].status = "running" /\ UNCHANGED <<events, received, senders>>
       /\ \/ ~centerRuns /\ deliveries'[d] = Recovered(deliveries[d])
          \/ \E w \in workers : /\ w.delivery = d /\ w.outcome # "claimed"
                                /\ deliveries'[d] = Settled(deliveries[d], w.outcome)
                                /\ workers' = workers \ {w}

LEMMA RowMoves ==
  ASSUME OutboxInductive, OutboxNext PROVE \A d \in Deliveries : RowStep(d)
<1> USE OutboxAssumption
<1>1. /\ events \in [Events -> {"none", "pending", "processed", "cleared"}]
      /\ deliveries \in [Deliveries -> Row] /\ received \in [Deliveries -> Seen]
      /\ workers \subseteq Hand
  BY OutboxTypeParts DEF OutboxInductive, DeliveriesSound
<1>2. \A e \in Events, s \in Senders : events[e] \in {"none", "pending", "cleared"} =>
          deliveries[<<e, s>>] = NoDelivery
  BY DEF OutboxInductive, OnlyProcessedDelivered
<1> SUFFICES ASSUME NEW d \in Deliveries PROVE RowStep(d)
  OBVIOUS
<1>3. PICK e0 \in Events, s0 \in Senders : d = <<e0, s0>>
  BY DEF Deliveries
<1>4. d[1] = e0 /\ d[2] = s0
  BY <1>3
<1>5. CASE UNCHANGED <<events, deliveries>>
  BY <1>5 DEF RowStep
<1>6. CASE \E e \in Events : RecordEvent(e)
  <2>1. PICK e \in Events : RecordEvent(e)
    BY <1>6
  <2>2. deliveries' = deliveries /\ events[e] = "none" /\ events' = [events EXCEPT ![e] = "pending"]
    BY <2>1 DEF RecordEvent
  <2>3. events'[e0] = IF e0 = e THEN "pending" ELSE events[e0]
    BY <1>1, <2>2
  <2> QED BY <1>4, <2>2, <2>3 DEF RowStep
<1>7. CASE \E e \in Events : ProcessEvent(e)
  <2>1. PICK e \in Events : ProcessEvent(e)
    BY <1>7
  <2>2. CASE events[e] # "pending"
    BY <1>5, <2>1, <2>2 DEF ProcessEvent
  <2>3. CASE events[e] = "pending"
    <3>1. /\ processing.op = "events" /\ UNCHANGED <<senders, workers, received>>
          /\ events' = [events EXCEPT ![e] = "processed"]
          /\ \A c \in Deliveries : deliveries'[c] =
                IF c[1] = e /\ c[2] \in processing.senders /\ c \in Selected /\ deliveries[c] = NoDelivery
                THEN NewDelivery(c[2]) ELSE deliveries[c]
      BY <2>1, <2>3 DEF ProcessEvent
    <3>2. CASE e0 # e
      <4>1. deliveries'[d] = deliveries[d] /\ events'[e0] = events[e0]
        BY <1>1, <1>4, <3>1, <3>2
      <4> QED BY <1>4, <4>1 DEF RowStep
    <3>3. CASE e0 = e
      <4>1. events'[d[1]] = "processed" /\ events[d[1]] = "pending"
        BY <1>1, <1>4, <2>3, <3>1, <3>3
      <4>2. deliveries'[d] \in {deliveries[d], NewDelivery(d[2])}
        BY <3>1
      <4>3. ASSUME deliveries'[d] # deliveries[d]
            PROVE  d[2] \in processing.senders /\ deliveries[d] = NoDelivery
        BY <3>1, <4>3
      <4>4. ASSUME NEW f \in Events, f # d[1]
            PROVE  deliveries'[<<f, d[2]>>] = deliveries[<<f, d[2]>>]
        <5>1. <<f, d[2]>> \in Deliveries /\ <<f, d[2]>>[1] # e
          BY <1>4, <3>3, <4>4 DEF Deliveries
        <5> QED BY <3>1, <5>1
      <4> QED BY <3>1, <4>1, <4>2, <4>3, <4>4 DEF RowStep
    <3> QED BY <3>2, <3>3
  <2> QED BY <2>2, <2>3
<1>8. CASE \E e \in Events : StoreTest(e)
  <2>1. PICK e \in Events : StoreTest(e)
    BY <1>8
  <2>2. /\ processing.op = "test" /\ events[e] = "none" /\ UNCHANGED <<senders, workers, received>>
        /\ events' = [events EXCEPT ![e] = "processed"]
        /\ \A c \in Deliveries : deliveries'[c] =
                IF c[1] = e /\ c[2] \in processing.senders THEN NewDelivery(c[2]) ELSE deliveries[c]
    BY <2>1 DEF StoreTest
  <2>3. CASE e0 # e
    <3>1. deliveries'[d] = deliveries[d] /\ events'[e0] = events[e0]
      BY <1>1, <1>4, <2>2, <2>3
    <3> QED BY <1>4, <3>1 DEF RowStep
  <2>4. CASE e0 = e
    <3>1. events'[d[1]] = "processed" /\ events[d[1]] = "none"
      BY <1>1, <1>4, <2>2, <2>4
    <3>2. deliveries'[d] \in {deliveries[d], NewDelivery(d[2])}
      BY <2>2
    <3>3. ASSUME deliveries'[d] # deliveries[d] PROVE d[2] \in processing.senders
      BY <2>2, <3>3
    <3>4. deliveries[d] = NoDelivery
      BY <1>2, <1>3, <2>2, <2>4
    <3>5. ASSUME NEW f \in Events, f # d[1]
          PROVE  deliveries'[<<f, d[2]>>] = deliveries[<<f, d[2]>>]
      <4>1. <<f, d[2]>> \in Deliveries /\ <<f, d[2]>>[1] # e
        BY <1>4, <2>4, <3>5 DEF Deliveries
      <4> QED BY <2>2, <4>1
    <3> QED BY <2>2, <3>1, <3>2, <3>3, <3>4, <3>5 DEF RowStep
  <2> QED BY <2>3, <2>4
<1>9. CASE \E e \in Events : PruneEvent(e)
  <2>1. PICK e \in Events : PruneEvent(e)
    BY <1>9
  <2>2. /\ events' = [events EXCEPT ![e] = "none"] /\ UNCHANGED <<senders, workers>>
        /\ events[e] = "processed" /\ \A s \in Senders : ~ActiveDelivery(<<e, s>>)
        /\ deliveries'[d] = (IF d[1] \in {e} THEN NoDelivery ELSE deliveries[d])
        /\ received'[d] = (IF d[1] \in {e} THEN Unseen ELSE received[d])
    BY <2>1 DEF PruneEvent, Prunable, Without, Forget
  <2>3. CASE e0 # e
    <3>1. deliveries'[d] = deliveries[d] /\ events'[e0] = events[e0]
      BY <1>1, <1>4, <2>2, <2>3
    <3> QED BY <1>4, <3>1 DEF RowStep
  <2>4. CASE e0 = e
    <3>1. events'[d[1]] = "none" /\ events[d[1]] = "processed" /\ ~ActiveDelivery(d)
      BY <1>1, <1>3, <1>4, <2>2, <2>4
    <3>2. deliveries'[d] = NoDelivery /\ received'[d] = Unseen
      BY <1>4, <2>2, <2>4
    <3> QED BY <2>2, <3>1, <3>2 DEF RowStep
  <2> QED BY <2>3, <2>4
<1>10. CASE \E gone \in (SUBSET Events) \ {{}} : ClearEvents(gone)
  <2>1. PICK gone \in SUBSET Events : ClearEvents(gone)
    BY <1>10
  <2>2. /\ events'[e0] = (IF e0 \in gone THEN "cleared" ELSE events[e0]) /\ UNCHANGED <<senders, workers>>
        /\ deliveries'[d] = (IF d[1] \in gone THEN NoDelivery ELSE deliveries[d])
        /\ received'[d] = (IF d[1] \in gone THEN Unseen ELSE received[d])
    BY <2>1 DEF ClearEvents, Without, Forget
  <2>3. CASE e0 \notin gone
    BY <1>4, <2>2, <2>3 DEF RowStep
  <2>4. CASE e0 \in gone
    BY <1>4, <2>2, <2>4 DEF RowStep
  <2> QED BY <2>3, <2>4
<1>11. CASE StartCenter
  <2>1. ~centerRuns /\ deliveries'[d] = Recovered(deliveries[d]) /\ UNCHANGED <<events, received, senders>>
    BY <1>11 DEF StartCenter
  <2>2. deliveries[d].status # "running" => deliveries'[d] = deliveries[d]
    BY <2>1 DEF Recovered
  <2> QED BY <2>1, <2>2 DEF RowStep
<1>12. CASE \E c \in Deliveries : Claim(c)
  <2>1. PICK c \in Deliveries : Claim(c)
    BY <1>12
  <2>2. /\ UNCHANGED <<events, received, senders>>
        /\ deliveries[c].status \in {"pending", "retrying"} /\ deliveries[c].attempts < MaxAttempts
        /\ deliveries'[d] = IF d = c THEN Claimed(deliveries[d]) ELSE deliveries[d]
    BY <1>1, <2>1 DEF Claim
  <2> QED BY <2>2 DEF RowStep
<1>13. CASE \E w \in workers : Settle(w)
  <2>1. PICK w \in workers : Settle(w)
    BY <1>13
  <2>2. /\ UNCHANGED <<events, received, senders>> /\ w.outcome # "claimed" /\ workers' = workers \ {w}
        /\ deliveries'[d] = IF deliveries[w.delivery].status = "running" /\ d = w.delivery
                            THEN Settled(deliveries[d], w.outcome) ELSE deliveries[d]
    BY <1>1, <2>1 DEF Settle
  <2> QED BY <2>2 DEF RowStep
<1> QED
  BY <1>5, <1>6, <1>7, <1>8, <1>9, <1>10, <1>11, <1>12, <1>13
     DEF OutboxNext, ReadRules, DeleteSender, AbandonRequest, StopNotifications, Dispatch,
         EditSender, EditRule, BeginTest, BeginDelete

LEMMA ActiveIs ==
    /\ ~(NoDelivery.status \in {"pending", "running", "retrying"})
    /\ \A s : /\ NewDelivery(s).status \in {"pending", "failed"} /\ NewDelivery(s).attempts = 0
              /\ ActiveOf(s) >= MaxActive => NewDelivery(s).status = "failed"
    /\ \A r \in Row : Claimed(r).status = "running" /\ Claimed(r).attempts = r.attempts + 1
    /\ \A r \in Row : \A outcome :
          /\ Settled(r, outcome).status \in {"succeeded", "retrying", "failed"}
          /\ Settled(r, outcome).status = "succeeded" => outcome = "sent"
          /\ Settled(r, outcome).attempts = r.attempts
    /\ \A r \in Row : r.status = "running" => /\ Recovered(r).status \in {"retrying", "failed"}
                                              /\ Recovered(r).attempts = r.attempts
<1>1. ~(NoDelivery.status \in {"pending", "running", "retrying"})
  BY DEF NoDelivery
<1>2. ASSUME NEW s
      PROVE  /\ NewDelivery(s).status \in {"pending", "failed"} /\ NewDelivery(s).attempts = 0
             /\ ActiveOf(s) >= MaxActive => NewDelivery(s).status = "failed"
  BY DEF NewDelivery
<1>3. ASSUME NEW r \in Row
      PROVE  /\ Claimed(r).status = "running" /\ Claimed(r).attempts = r.attempts + 1
             /\ r.status = "running" => /\ Recovered(r).status \in {"retrying", "failed"}
                                        /\ Recovered(r).attempts = r.attempts
  BY DEF Claimed, Recovered, Row
<1>4. ASSUME NEW r \in Row, NEW outcome
      PROVE  /\ Settled(r, outcome).status \in {"succeeded", "retrying", "failed"}
             /\ Settled(r, outcome).status = "succeeded" => outcome = "sent"
             /\ Settled(r, outcome).attempts = r.attempts
  BY DEF Settled, Row
<1> QED BY <1>1, <1>2, <1>3, <1>4

\* A sender is deleted by the holder of processMu only.
LEMMA SendersMove ==
  ASSUME OutboxInductive, OutboxNext, NEW s \in Senders, senders[s] \in {"enabled", "disabled"}
  PROVE  \/ senders'[s] \in {"enabled", "disabled"}
         \/ processing.op = "delete" /\ s \in processing.senders /\ deliveries' = deliveries
<1>1. senders \in [Senders -> {"new", "enabled", "disabled", "deleted"}]
  BY OutboxTypeParts DEF OutboxInductive, DeliveriesSound
<1>2. CASE DeleteSender
  BY <1>1, <1>2 DEF DeleteSender
<1>3. CASE \E c \in Senders, value \in {"enabled", "disabled"} : EditSender(c, value)
  BY <1>1, <1>3 DEF EditSender
<1>4. CASE UNCHANGED senders
  BY <1>4
<1> QED
  BY <1>2, <1>3, <1>4
     DEF OutboxNext, RecordEvent, ProcessEvent, StoreTest, PruneEvent, ReadRules, AbandonRequest,
         StopNotifications, StartCenter, Claim, Dispatch, Settle, EditRule, BeginTest, BeginDelete,
         ClearEvents

LEMMA ActiveHasSenderStep ==
  ASSUME OutboxInductive, OutboxNext PROVE ActiveHasSender'
<1> SUFFICES ASSUME NEW d \in Deliveries, ActiveDelivery(d)'
             PROVE  senders'[d[2]] \in {"enabled", "disabled"}
  BY DEF ActiveHasSender
<1>1. deliveries[d] \in Row
  BY OutboxTypeParts DEF OutboxInductive, DeliveriesSound
<1>2. d[2] \in Senders
  BY DEF Deliveries
<1>3. RowStep(d)
  BY RowMoves
<1>4. CASE ActiveDelivery(d)
  <2>1. senders[d[2]] \in {"enabled", "disabled"}
    BY <1>4 DEF OutboxInductive, DeliveriesSound, ActiveHasSender
  <2>2. ~(processing.op = "delete" /\ d[2] \in processing.senders)
    BY <1>4 DEF OutboxInductive, HolderKnows, Deliveries
  <2> QED BY <1>2, <2>1, <2>2, SendersMove
<1>5. CASE ~ActiveDelivery(d)
  <2>1. /\ deliveries'[d] = NewDelivery(d[2]) /\ UNCHANGED senders
        /\ d[2] \in processing.senders /\ processing.op \in {"events", "test"}
    BY <1>1, <1>3, <1>5, ActiveIs DEF RowStep, ActiveDelivery
  <2> QED BY <2>1 DEF OutboxInductive, HolderKnows
<1> QED BY <1>4, <1>5

LEMMA QueueBoundedStep ==
  ASSUME OutboxInductive, OutboxNext PROVE QueueBounded' /\ ActiveFinite'
<1> SUFFICES ASSUME NEW s \in Senders
             PROVE  IsFiniteSet(UnderWay(s)') /\ ActiveOf(s)' <= MaxActive
  BY DEF QueueBounded, ActiveFinite
<1>1. IsFiniteSet(UnderWay(s)) /\ ActiveOf(s) <= MaxActive /\ MaxActive \in Nat
  BY OutboxAssumption DEF OutboxInductive, DeliveriesSound, QueueBounded, ActiveFinite
<1>2. \A e \in Events : <<e, s>> \in Deliveries /\ deliveries[<<e, s>>] \in Row /\ RowStep(<<e, s>>)
  BY RowMoves, OutboxTypeParts DEF OutboxInductive, DeliveriesSound, Deliveries
<1> DEFINE New(e) == /\ deliveries[<<e, s>>] = NoDelivery /\ deliveries'[<<e, s>>] = NewDelivery(s)
                     /\ \A f \in Events : f # e => deliveries'[<<f, s>>] = deliveries[<<f, s>>]
<1>3. ASSUME NEW e \in Events, ActiveDelivery(<<e, s>>)', ~ActiveDelivery(<<e, s>>) PROVE New(e)
  <2>1. deliveries[<<e, s>>] \in Row /\ RowStep(<<e, s>>)
    BY <1>2
  <2>2. <<e, s>>[1] = e /\ <<e, s>>[2] = s
    OBVIOUS
  <2>3. deliveries'[<<e, s>>] # deliveries[<<e, s>>]
    BY <1>3 DEF ActiveDelivery
  <2> QED BY <1>3, <2>1, <2>2, <2>3, ActiveIs DEF RowStep, ActiveDelivery
<1>4. CASE \E e \in Events : New(e)
  <2>1. PICK e \in Events : New(e)
    BY <1>4
  <2>2. \A f \in Events : f # e => (ActiveDelivery(<<f, s>>)' <=> ActiveDelivery(<<f, s>>))
    BY <2>1 DEF ActiveDelivery
  <2>3. UnderWay(s)' \subseteq UnderWay(s) \cup {e}
    BY <2>2 DEF UnderWay
  <2>4. CASE ActiveOf(s) < MaxActive
    BY <1>1, <2>3, <2>4, OneMoreUnderWay
  <2>5. CASE ActiveOf(s) = MaxActive
    <3>1. ~ActiveDelivery(<<e, s>>)'
      BY <1>1, <2>1, <2>5, ActiveIs DEF ActiveDelivery
    <3>2. UnderWay(s)' \subseteq UnderWay(s)
      BY <2>2, <3>1 DEF UnderWay
    <3> QED BY <1>1, <3>2, FewerUnderWay
  <2>6. ActiveOf(s) \in Nat
    BY <1>1, FS_CardinalityType, UnderWayIs
  <2> QED BY <1>1, <2>4, <2>5, <2>6
<1>5. CASE ~ \E e \in Events : New(e)
  <2>1. UnderWay(s)' \subseteq UnderWay(s)
    BY <1>3, <1>5 DEF UnderWay
  <2> QED BY <1>1, <2>1, FewerUnderWay
<1> QED BY <1>4, <1>5

LEMMA OnlyProcessedStep ==
  ASSUME OutboxInductive, OutboxNext PROVE OnlyProcessedDelivered'
<1> SUFFICES ASSUME NEW e \in Events, NEW s \in Senders, events'[e] \in {"none", "pending", "cleared"}
             PROVE  deliveries'[<<e, s>>] = NoDelivery
  BY DEF OnlyProcessedDelivered
<1> DEFINE d == <<e, s>>
<1>1. d \in Deliveries /\ d[1] = e /\ d[2] = s
  BY DEF Deliveries
<1>2. RowStep(d)
  BY <1>1, RowMoves
<1>3. events[e] \in {"none", "pending", "cleared"} => deliveries[d] = NoDelivery
  BY DEF OutboxInductive, OnlyProcessedDelivered
<1>4. NoDelivery.status = "none"
  BY DEF NoDelivery
<1> HIDE DEF d
<1>5. deliveries'[d] = NoDelivery
  BY <1>1, <1>2, <1>3, <1>4 DEF RowStep
<1> QED BY <1>5 DEF d

\* What the holder of processMu has read, it read under the mutex.
LEMMA HolderMoves ==
  ASSUME OutboxInductive, OutboxNext
  PROVE  \/ processing' = Idle
         \/ processing' = processing
         \/ /\ processing.op = "events" /\ processing'.op = "events"
            /\ processing'.senders = processing.senders
         \/ /\ UNCHANGED <<deliveries, senders>> /\ processing'.op \in {"events", "test"}
            /\ \A s \in processing'.senders : senders[s] \in {"enabled", "disabled"}
         \/ /\ UNCHANGED <<deliveries, senders>> /\ processing'.op = "delete"
            /\ \A s \in processing'.senders : s \in Senders /\ MayDelete(s)
<1>1. processing \in Held
  BY OutboxTypeParts DEF OutboxInductive, DeliveriesSound
<1>2. CASE \E e \in Events : ProcessEvent(e)
  BY <1>1, <1>2 DEF ProcessEvent, Held
<1>3. CASE ReadRules
  BY <1>3 DEF ReadRules
<1>4. CASE \E s \in Senders : BeginTest(s)
  BY <1>4 DEF BeginTest
<1>5. CASE \E s \in Senders : BeginDelete(s)
  BY <1>5 DEF BeginDelete
<1>6. CASE processing' \in {processing, Idle}
  BY <1>6
<1> QED
  BY <1>2, <1>3, <1>4, <1>5, <1>6
     DEF OutboxNext, RecordEvent, StoreTest, PruneEvent, DeleteSender, AbandonRequest,
         StopNotifications, StartCenter, Claim, Dispatch, Settle, EditSender, EditRule, ClearEvents

\* A row that is not under way does not become so while DeleteSender holds the mutex.
LEMMA DeletingAddsNothing ==
  ASSUME OutboxInductive, OutboxNext, NEW d \in Deliveries, processing.op \notin {"events", "test"},
         ~ActiveDelivery(d)
  PROVE  ~ActiveDelivery(d)'
<1>1. deliveries[d] \in Row /\ RowStep(d)
  BY RowMoves, OutboxTypeParts DEF OutboxInductive, DeliveriesSound
<1> QED BY <1>1, ActiveIs DEF RowStep, ActiveDelivery

LEMMA HolderKnowsStep ==
  ASSUME OutboxInductive, OutboxNext PROVE HolderKnows'
<1> USE DEF OutboxInductive
<1>1. processing \in Held /\ \A s \in Senders : IsFiniteSet(UnderWay(s))
  BY OutboxTypeParts DEF DeliveriesSound, ActiveFinite
<1>2. ASSUME NEW s \in processing.senders, processing.op \in {"events", "test"}
      PROVE  senders'[s] \in {"enabled", "disabled"}
  <2>1. s \in Senders /\ senders[s] \in {"enabled", "disabled"}
    BY <1>1, <1>2 DEF Held, HolderKnows
  <2> QED BY <1>2, <2>1, SendersMove
<1>3. CASE processing' = Idle
  BY <1>3 DEF HolderKnows, Idle
<1>4. CASE processing' = processing
  <2>1. CASE processing.op \in {"events", "test"}
    BY <1>2, <1>4, <2>1 DEF HolderKnows
  <2>2. CASE processing.op = "delete"
    <3>1. \A s \in processing.senders, e \in Events : ~ActiveDelivery(<<e, s>>)'
      BY <1>1, <2>2, DeletingAddsNothing DEF HolderKnows, Held, Deliveries
    <3>2. \A s \in processing.senders : senders[s] \in {"enabled", "disabled"}
      BY <2>2 DEF HolderKnows
    <3>3. UNCHANGED senders \/ \E c \in Senders, value \in {"enabled", "disabled"} : EditSender(c, value)
      <4>1. ~DeleteSender
        BY <1>4, <2>2 DEF DeleteSender, Idle
      <4> QED
        BY <4>1 DEF OutboxNext, RecordEvent, ProcessEvent, StoreTest, PruneEvent, ReadRules,
             AbandonRequest, StopNotifications, StartCenter, Claim, Dispatch, Settle, EditRule,
             BeginTest, BeginDelete, ClearEvents
    <3>4. \A s \in processing.senders : senders'[s] \in {"enabled", "disabled"}
      <4>1. senders \in [Senders -> {"new", "enabled", "disabled", "deleted"}]
        BY OutboxTypeParts DEF DeliveriesSound
      <4> QED BY <1>1, <3>2, <3>3, <4>1 DEF EditSender, Held
    <3> QED BY <1>4, <3>1, <3>4 DEF HolderKnows
  <2>3. CASE processing.op = "idle"
    BY <1>4, <2>3 DEF HolderKnows
  <2> QED BY <1>1, <2>1, <2>2, <2>3 DEF Held
<1>5. CASE /\ processing.op = "events" /\ processing'.op = "events"
           /\ processing'.senders = processing.senders
  BY <1>2, <1>5 DEF HolderKnows
<1>6. CASE /\ UNCHANGED <<deliveries, senders>> /\ processing'.op \in {"events", "test"}
           /\ \A s \in processing'.senders : senders[s] \in {"enabled", "disabled"}
  BY <1>6 DEF HolderKnows
<1>7. CASE /\ UNCHANGED <<deliveries, senders>> /\ processing'.op = "delete"
           /\ \A s \in processing'.senders : s \in Senders /\ MayDelete(s)
  <2>1. ASSUME NEW s \in processing'.senders
        PROVE  senders'[s] \in {"enabled", "disabled"} /\ \A e \in Events : ~ActiveDelivery(<<e, s>>)'
    <3>1. s \in Senders /\ senders[s] \in {"enabled", "disabled"} /\ ActiveOf(s) = 0
      BY <1>7 DEF MayDelete
    <3>2. UnderWay(s) = {}
      BY <1>1, <3>1, UnderWayIs, FS_EmptySet
    <3>3. \A e \in Events : ~ActiveDelivery(<<e, s>>)
      BY <3>2 DEF UnderWay
    <3> QED BY <1>7, <3>1, <3>3 DEF ActiveDelivery
  <2> QED BY <1>7, <2>1 DEF HolderKnows
<1> QED BY <1>3, <1>4, <1>5, <1>6, <1>7, HolderMoves

\* Only a dispatch tells the destination of a delivery.
LEMMA SeenMoves ==
  ASSUME OutboxInductive, OutboxNext, NEW d \in Deliveries
  PROVE  \/ received'[d] = received[d]
         \/ received'[d] = Unseen /\ deliveries'[d] = NoDelivery
         \/ /\ \E w \in workers : w.delivery = d /\ w.outcome = "claimed"
            /\ deliveries' = deliveries /\ deliveries[d].status = "running"
            /\ received'[d].sent = received[d].sent + 1
            /\ received[d].accepted => received'[d].accepted
<1>1. received \in [Deliveries -> Seen]
  BY OutboxTypeParts DEF OutboxInductive, DeliveriesSound
<1>2. CASE UNCHANGED received
  BY <1>2
<1>3. CASE \E c \in Deliveries : Dispatch(c)
  <2>1. PICK c \in Deliveries : Dispatch(c)
    BY <1>3
  <2>2. PICK accepted \in BOOLEAN :
           /\ [delivery |-> c, outcome |-> "claimed"] \in workers /\ deliveries' = deliveries
           /\ received' = IF senders[c[2]] # "enabled" \/ deliveries[c].status # "running" THEN received
                          ELSE [received EXCEPT ![c] = [sent |-> @.sent + 1, accepted |-> @.accepted \/ accepted]]
    BY <2>1 DEF Dispatch
  <2>3. CASE senders[c[2]] # "enabled" \/ deliveries[c].status # "running"
    BY <2>2, <2>3
  <2>4. CASE senders[c[2]] = "enabled" /\ deliveries[c].status = "running" /\ c # d
    BY <1>1, <2>2, <2>4
  <2>5. CASE senders[c[2]] = "enabled" /\ deliveries[c].status = "running" /\ c = d
    <3>1. received'[d] = [sent |-> received[d].sent + 1, accepted |-> received[d].accepted \/ accepted]
      BY <1>1, <2>2, <2>5
    <3>2. received'[d].sent = received[d].sent + 1
      BY <3>1
    <3>3. received'[d].accepted = (received[d].accepted \/ accepted)
      BY <3>1
    <3>4. received[d].accepted => received'[d].accepted
      BY <3>3, Zenon
    <3> DEFINE w == [delivery |-> c, outcome |-> "claimed"]
    <3>5. w \in workers /\ w.delivery = d /\ w.outcome = "claimed"
      BY <2>2, <2>5
    <3> HIDE DEF w
    <3> QED BY <2>2, <2>5, <3>2, <3>4, <3>5
  <2> QED BY <2>3, <2>4, <2>5
<1>4. CASE \E e \in Events : PruneEvent(e)
  BY <1>4 DEF PruneEvent, Without, Forget
<1>5. CASE \E gone \in (SUBSET Events) \ {{}} : ClearEvents(gone)
  BY <1>5 DEF ClearEvents, Without, Forget
<1> QED
  BY <1>2, <1>3, <1>4, <1>5
     DEF OutboxNext, RecordEvent, ProcessEvent, StoreTest, ReadRules, DeleteSender, AbandonRequest,
         StopNotifications, StartCenter, Claim, Settle, EditSender, EditRule, BeginTest, BeginDelete

LEMMA AttemptsStep ==
  ASSUME OutboxInductive, OutboxNext PROVE AttemptsBounded'
<1> USE OutboxAssumption
<1> SUFFICES ASSUME NEW d \in Deliveries
             PROVE  /\ received'[d].sent <= deliveries'[d].attempts /\ deliveries'[d].attempts <= MaxAttempts
                    /\ deliveries'[d].status = "succeeded" => received'[d].accepted
  BY DEF AttemptsBounded
<1>1. deliveries[d] \in Row /\ received[d] \in Seen /\ deliveries'[d] \in Row /\ received'[d] \in Seen
  BY OutboxTypeStep DEF OutboxInductive, DeliveriesSound, OutboxTypeOK, Row, Seen
<1>2. /\ received[d].sent <= deliveries[d].attempts /\ deliveries[d].attempts <= MaxAttempts
      /\ deliveries[d].status = "succeeded" => received[d].accepted
  BY DEF OutboxInductive, DeliveriesSound, AttemptsBounded
<1>3. deliveries'[d].attempts <= MaxAttempts
  BY <1>1 DEF Row
<1>4. NoDelivery.attempts = 0 /\ NoDelivery.status = "none" /\ Unseen.sent = 0
  BY DEF NoDelivery, Unseen
<1>5. CASE received'[d] = Unseen /\ deliveries'[d] = NoDelivery
  BY <1>3, <1>4, <1>5
<1>6. CASE /\ \E w \in workers : w.delivery = d /\ w.outcome = "claimed"
           /\ deliveries' = deliveries /\ deliveries[d].status = "running"
           /\ received'[d].sent = received[d].sent + 1
           /\ received[d].accepted => received'[d].accepted
  <2>1. received[d].sent < deliveries[d].attempts
    BY <1>6 DEF OutboxInductive, WorkersHold
  <2> QED BY <1>1, <1>2, <1>3, <1>6, <2>1 DEF Row, Seen
<1>7. CASE received'[d] = received[d]
  <2>1. RowStep(d)
    BY RowMoves
  <2>2. CASE deliveries'[d] = deliveries[d]
    BY <1>2, <1>7, <2>2
  <2>3. CASE deliveries'[d] \in {NoDelivery, NewDelivery(d[2])} /\ deliveries[d] = NoDelivery
    BY <1>1, <1>2, <1>3, <1>4, <1>7, <2>3, ActiveIs DEF Row, Seen
  <2>4. CASE received'[d] = Unseen /\ deliveries'[d] = NoDelivery
    BY <1>5, <2>4
  <2>5. CASE deliveries'[d] = Claimed(deliveries[d])
    BY <1>1, <1>2, <1>3, <1>7, <2>5, ActiveIs DEF Row, Seen
  <2>6. CASE deliveries[d].status = "running" /\ deliveries'[d] = Recovered(deliveries[d])
    BY <1>1, <1>2, <1>3, <1>7, <2>6, ActiveIs
  <2>7. CASE /\ deliveries[d].status = "running"
             /\ \E w \in workers : /\ w.delivery = d /\ w.outcome # "claimed"
                                   /\ deliveries'[d] = Settled(deliveries[d], w.outcome)
    <3>1. PICK w \in workers : /\ w.delivery = d /\ w.outcome # "claimed"
                               /\ deliveries'[d] = Settled(deliveries[d], w.outcome)
      BY <2>7
    <3>2. w.outcome = "sent" => received[d].accepted
      BY <2>7, <3>1 DEF OutboxInductive, WorkersHold
    <3> QED BY <1>1, <1>2, <1>3, <1>7, <3>1, <3>2, ActiveIs
  <2> QED BY <2>1, <2>2, <2>3, <2>4, <2>5, <2>6, <2>7 DEF RowStep
<1> QED BY <1>5, <1>6, <1>7, SeenMoves

\* The hands after a step: those before it without what is settled, or with one more, or
\* with one of them moved on.
LEMMA WorkersMove ==
  ASSUME OutboxInductive, OutboxNext
  PROVE  \/ workers' \subseteq workers
         \/ \E d \in Deliveries : Claim(d)
         \/ \E d \in Deliveries : Dispatch(d)
<1>1. CASE UNCHANGED workers
  BY <1>1
<1> QED
  BY <1>1
     DEF OutboxNext, RecordEvent, ProcessEvent, StoreTest, PruneEvent, ReadRules, DeleteSender,
         AbandonRequest, StopNotifications, StartCenter, Settle, EditSender, EditRule, BeginTest,
         BeginDelete, ClearEvents

\* A worker that keeps its delivery keeps what WorkersHold says of it.
Holds(w) ==
    /\ deliveries[w.delivery].status = "running" \/ events[w.delivery[1]] = "cleared"
    /\ deliveries[w.delivery].status = "running" =>
         /\ w.outcome = "claimed" => received[w.delivery].sent < deliveries[w.delivery].attempts
         /\ w.outcome = "sent" => received[w.delivery].accepted

LEMMA WorkersHoldStep ==
  ASSUME OutboxInductive, OutboxNext PROVE WorkersHold'
<1> USE OutboxAssumption DEF OutboxInductive
<1>1. /\ deliveries \in [Deliveries -> Row] /\ received \in [Deliveries -> Seen]
      /\ events \in [Events -> {"none", "pending", "processed", "cleared"}]
      /\ workers \subseteq Hand /\ centerRuns \in BOOLEAN
  BY OutboxTypeParts DEF DeliveriesSound
<1>2. /\ ~centerRuns => workers = {}
      /\ \A v, w \in workers : v.delivery = w.delivery => v = w
      /\ \A w \in workers : Holds(w)
  BY DEF WorkersHold, Holds
<1>3. SUFFICES /\ ~centerRuns' => workers' = {}
               /\ \A v, w \in workers' : v.delivery = w.delivery => v = w
               /\ \A w \in workers' : Holds(w)'
  BY DEF WorkersHold, Holds
<1>4. \A d \in Deliveries : d[1] \in Events
  BY DEF Deliveries
<1>5. NoDelivery.status = "none" /\ Unseen.sent = 0
  BY DEF NoDelivery, Unseen
\* A delivery whose event is cleared has no row and gets none.
<1>6. ASSUME NEW d \in Deliveries, events[d[1]] = "cleared"
      PROVE  events'[d[1]] = "cleared" /\ deliveries'[d].status # "running"
  <2>1. deliveries[d] = NoDelivery
    BY <1>6 DEF OnlyProcessedDelivered, Deliveries
  <2>2. RowStep(d)
    BY RowMoves
  <2> QED BY <1>5, <1>6, <2>1, <2>2 DEF RowStep
<1>7. CASE \E d \in Deliveries : Claim(d)
  <2>1. PICK d \in Deliveries : Claim(d)
    BY <1>7
  <2> DEFINE new == [delivery |-> d, outcome |-> "claimed"]
  <2>2. /\ centerRuns /\ centerRuns' /\ workers' = workers \cup {new}
        /\ deliveries[d].status \in {"pending", "retrying"}
        /\ deliveries' = [deliveries EXCEPT ![d] = Claimed(@)]
        /\ UNCHANGED <<events, received>>
    BY <2>1 DEF Claim
  <2>3. events[d[1]] # "cleared"
    BY <1>5, <2>2 DEF OnlyProcessedDelivered, Deliveries
  <2>4. \A w \in workers : w.delivery # d
    BY <1>2, <2>2, <2>3 DEF Holds
  <2>5. \A w \in workers : w.delivery \in Deliveries /\ deliveries'[w.delivery] = deliveries[w.delivery]
    BY <1>1, <2>2, <2>4 DEF Hand
  <2>6. \A w \in workers : Holds(w)'
    BY <1>2, <2>2, <2>5 DEF Holds
  <2>7. Holds(new)'
    <3>1. deliveries'[d].status = "running" /\ deliveries'[d].attempts = deliveries[d].attempts + 1
      BY <1>1, <2>2, ActiveIs
    <3>2. received[d].sent <= deliveries[d].attempts
      BY DEF DeliveriesSound, AttemptsBounded
    <3>3. received'[d].sent < deliveries'[d].attempts
      BY <1>1, <2>2, <3>1, <3>2 DEF Row, Seen
    <3> QED BY <3>1, <3>3 DEF Holds
  <2>8. new.delivery = d
    OBVIOUS
  <2> HIDE DEF new
  <2> QED BY <1>2, <2>2, <2>4, <2>6, <2>7, <2>8
<1>8. CASE \E d \in Deliveries : Dispatch(d)
  <2>1. PICK d \in Deliveries : Dispatch(d)
    BY <1>8
  <2> DEFINE old == [delivery |-> d, outcome |-> "claimed"]
  <2>2. PICK outcome \in {"sent", "retryable", "refused"}, accepted \in BOOLEAN :
           /\ outcome \in (IF senders[d[2]] = "enabled" THEN {"sent", "retryable", "refused"} ELSE {"refused"})
           /\ outcome = "sent" => accepted
           /\ workers' = (workers \ {old}) \cup {[old EXCEPT !.outcome = outcome]}
           /\ received' = IF senders[d[2]] # "enabled" \/ deliveries[d].status # "running" THEN received
                          ELSE [received EXCEPT ![d] = [sent |-> @.sent + 1, accepted |-> @.accepted \/ accepted]]
    BY <2>1 DEF Dispatch
  <2> DEFINE new == [old EXCEPT !.outcome = outcome]
  <2>3. old \in workers /\ UNCHANGED <<deliveries, events, centerRuns>> /\ centerRuns
    BY <2>1 DEF Dispatch
  <2>4. new.delivery = d /\ new.outcome = outcome /\ old.delivery = d
    OBVIOUS
  <2>5. \A w \in workers \ {old} : w.delivery # d /\ w.delivery \in Deliveries
    BY <1>1, <1>2, <2>3, <2>4 DEF Hand
  <2>6. \A w \in workers \ {old} : received'[w.delivery] = received[w.delivery]
    BY <1>1, <2>2, <2>5
  <2>7. \A w \in workers \ {old} : Holds(w)'
    BY <1>2, <2>3, <2>6 DEF Holds
  <2>8. Holds(new)'
    <3>1. deliveries[d].status = "running" \/ events[d[1]] = "cleared"
      BY <1>2, <2>3, <2>4 DEF Holds
    <3>2. ASSUME deliveries[d].status = "running", outcome = "sent" PROVE received'[d].accepted
      <4>1. received' = [received EXCEPT ![d] = [sent |-> @.sent + 1, accepted |-> @.accepted \/ accepted]]
        BY <2>2, <3>2
      <4>2. received'[d] = [sent |-> received[d].sent + 1, accepted |-> received[d].accepted \/ accepted]
        BY <1>1, <4>1
      <4>3. received'[d].accepted = (received[d].accepted \/ accepted)
        BY <4>2
      <4>4. accepted
        BY <2>2, <3>2
      <4> QED BY <4>3, <4>4, Zenon
    <3> HIDE DEF new
    <3> QED BY <2>2, <2>3, <2>4, <3>1, <3>2 DEF Holds
  <2>9. workers' = (workers \ {old}) \cup {new}
    BY <2>2
  <2> HIDE DEF old, new
  <2> QED BY <1>2, <2>3, <2>4, <2>5, <2>7, <2>8, <2>9
<1>9. CASE workers' \subseteq workers /\ ~(\E d \in Deliveries : Dispatch(d)) /\ ~(\E d \in Deliveries : Claim(d))
  <2>1. ~centerRuns' => workers' = {}
    <3>1. CASE StopNotifications
      BY <3>1 DEF StopNotifications
    <3>2. CASE StartCenter
      BY <3>2 DEF StartCenter
    <3>3. CASE UNCHANGED centerRuns
      BY <1>2, <1>9, <3>3
    <3> QED
      BY <3>1, <3>2, <3>3
         DEF OutboxNext, RecordEvent, ProcessEvent, StoreTest, PruneEvent, ReadRules, DeleteSender,
             AbandonRequest, Claim, Dispatch, Settle, EditSender, EditRule, BeginTest, BeginDelete,
             ClearEvents, MayEdit
  <2>2. ASSUME NEW w \in workers' PROVE Holds(w)'
    <3>1. w \in workers /\ Holds(w) /\ w.delivery \in Deliveries
      BY <1>1, <1>2, <1>9, <2>2 DEF Hand
    <3> DEFINE d == w.delivery
    <3>2. CASE events[d[1]] = "cleared"
      BY <1>6, <3>1, <3>2 DEF Holds
    <3>3. CASE deliveries[d].status = "running"
      <4>1. RowStep(d)
        BY <3>1, RowMoves
      <4>2. received'[d] = received[d] \/ (received'[d] = Unseen /\ deliveries'[d] = NoDelivery)
        <5>1. ~ \E c \in Deliveries : Dispatch(c)
          BY <1>9
        <5>2. CASE \E e \in Events : PruneEvent(e)
          BY <3>1, <5>2 DEF PruneEvent, Without, Forget
        <5>3. CASE \E gone \in (SUBSET Events) \ {{}} : ClearEvents(gone)
          BY <3>1, <5>3 DEF ClearEvents, Without, Forget
        <5>4. CASE UNCHANGED received
          BY <5>4
        <5> QED
          BY <5>1, <5>2, <5>3, <5>4
             DEF OutboxNext, RecordEvent, ProcessEvent, StoreTest, ReadRules, DeleteSender,
                 AbandonRequest, StopNotifications, StartCenter, Claim, Settle, EditSender, EditRule,
                 BeginTest, BeginDelete
      <4>3. CASE deliveries'[d] = deliveries[d]
        <5>1. received'[d] = received[d]
          BY <1>5, <3>3, <4>2, <4>3
        <5> QED BY <3>1, <3>3, <4>3, <5>1 DEF Holds
      <4>4. CASE events'[d[1]] = "cleared" /\ deliveries'[d] = NoDelivery
        BY <1>5, <4>4 DEF Holds
      <4>5. centerRuns
        BY <1>2, <3>1
      <4>6. ~ \E v \in workers : v.delivery = d /\ workers' = workers \ {v}
        BY <1>2, <2>2, <3>1
      <4>7. \/ deliveries'[d] = deliveries[d]
            \/ events'[d[1]] = "cleared" /\ deliveries'[d] = NoDelivery
        <5>1. deliveries[d] # NoDelivery
          BY <1>5, <3>3
        <5> HIDE DEF d
        <5> QED BY <3>3, <4>1, <4>5, <4>6, <5>1 DEF RowStep, ActiveDelivery
      <4> QED BY <4>3, <4>4, <4>7
    <3> QED BY <3>1, <3>2, <3>3 DEF Holds
  <2> QED BY <1>2, <1>9, <2>1, <2>2
<1> QED BY <1>7, <1>8, <1>9, WorkersMove

LEMMA OutboxStep ==
  ASSUME OutboxInductive, [OutboxNext]_outboxVars PROVE OutboxInductive'
<1>1. CASE OutboxNext
  BY <1>1, OutboxTypeStep, ActiveHasSenderStep, AttemptsStep, QueueBoundedStep, OnlyProcessedStep,
     HolderKnowsStep, WorkersHoldStep DEF OutboxInductive, DeliveriesSound
<1>2. CASE UNCHANGED outboxVars
  BY <1>2 DEF outboxVars, OutboxInductive, DeliveriesSound, OutboxTypeOK, ActiveHasSender, AttemptsBounded,
              QueueBounded, ActiveOf, ActiveDelivery, ActiveFinite, UnderWay, OnlyProcessedDelivered,
              HolderKnows, WorkersHold
<1> QED BY <1>1, <1>2

\* The queue of notifications owes nothing it does not hold: whatever stops of the Center,
\* edits of the administrator, resets and retention interleave, no work under way loses its
\* sender, no delivery is sent more often than its attempts or settled without having been
\* accepted, and no sender has more under way than its limit.
THEOREM DeliveriesAreSound == OutboxSpec => []DeliveriesSound
<1>1. OutboxInductive => DeliveriesSound
  BY DEF OutboxInductive
<1>2. OutboxInductive /\ [OutboxNext]_outboxVars => OutboxInductive'
  BY OutboxStep
<1> QED BY <1>1, <1>2, OutboxStart, PTL DEF OutboxSpec

\* A delivery under way leaves the table only with a reset or a deleted node, and one that
\* has ended does not come back.
THEOREM ActiveStaysProtected == OutboxSpec => ActiveProtected
<1> DEFINE Protected(d) ==
          /\ ActiveDelivery(d) /\ ~ActiveDelivery(d)' => \/ deliveries'[d].status \in {"succeeded", "failed"}
                                         \/ events'[d[1]] = "cleared"
          /\ deliveries[d].status \in {"succeeded", "failed"} =>
                \/ deliveries'[d] = deliveries[d]
                \/ events'[d[1]] \in {"none", "cleared"}
<1>1. ASSUME OutboxInductive, OutboxNext, NEW d \in Deliveries PROVE Protected(d)
  <2>1. RowStep(d) /\ deliveries[d] \in Row
    BY <1>1, RowMoves, OutboxTypeParts DEF OutboxInductive, DeliveriesSound
  <2>2. deliveries'[d] = deliveries[d] => Protected(d)
    BY DEF ActiveDelivery
  <2>3. NoDelivery.status = "none"
    BY DEF NoDelivery
  <2> QED BY <2>1, <2>2, <2>3, ActiveIs DEF RowStep, ActiveDelivery
<1>2. OutboxInductive /\ [OutboxNext]_outboxVars => [\A d \in Deliveries : Protected(d)]_outboxVars
  BY <1>1
<1>3. OutboxInductive /\ [OutboxNext]_outboxVars => OutboxInductive'
  BY OutboxStep
<1> QED BY <1>2, <1>3, OutboxStart, PTL DEF OutboxSpec, ActiveProtected

-----------------------------------------------------------------------------
(* Sync sessions                                                           *)

\* A caller acts on the connection its lookup found.
CallShape == \A c \in Callers : callers[c].found <=> callers[c].connection # None

\* A connection that came through Attach is the hub's, or another replaced it.
HubKnows ==
    \A k \in Connection :
        connections[k].stage \in {"attached", "waking", "running"} => hub = k \/ k \in replaced

\* The Agent's answers do not go back.
AnswersAdvance ==
    /\ syncAgent.seen <= lease.revision
    /\ syncAgent.poll = "answered" => /\ syncAgent.seen <= syncAgent.answer.revision
                                      /\ syncAgent.answer.revision <= lease.revision

\* WakeNotLost with what it rests on: a caller that found another connection is not
\* counted, and an answer under way is good even after a failed poll.
WakeComes(k) ==
    \/ \E c \in Callers : /\ callers[c].call = "wake"
                          /\ callers[c].connection \in {None, k}
    \/ connections[k].stage = "waking" \/ connections[k].wake \/ connections[k].unread
    \/ syncAgent.wake \/ syncAgent.poll = "sent"
    \/ syncAgent.poll = "answered" /\ syncAgent.answer.revision = lease.revision

Awaiting(k) ==
    /\ k = syncAgent.connection /\ connections[k].stage \in {"waking", "running"}
    /\ k \notin replaced /\ syncAgent.seen < lease.revision
    /\ ~syncAgent.failed \/ syncAgent.poll = "answered"

WakesCome == \A k \in Connection : Awaiting(k) => WakeComes(k)

SyncInductive == /\ SyncTypeOK /\ CallShape /\ HubKnows /\ NoConnectionOutlivesLease
                 /\ AnswersAdvance /\ WakesCome

LEMMA InitSync == SyncInit => SyncInductive
<1> SUFFICES ASSUME SyncInit PROVE SyncInductive
  OBVIOUS
<1> USE SyncAssumption DEF SyncInit, None, NoCall, Unused, Connection
<1>1. SyncTypeOK
  <2>1. lease \in [session : Session \cup {None}, issued : 0 .. MaxSessions,
                   expired : SUBSET Session, revoked : BOOLEAN, revision : SyncRevision]
    BY DEF Session, SyncRevision
  <2>2. callers \in [Callers -> Call] /\ connections \in [Connection -> End]
    BY DEF Call, End
  <2>3. syncAgent \in [session : Session \cup {None}, connection : Connection \cup {None},
                       dialled : 0 .. MaxConnections, wake : BOOLEAN,
                       poll : {"idle", "sent", "answered"},
                       answer : [revision : SyncRevision, session : Session \cup {None}],
                       seen : SyncRevision, failed : BOOLEAN]
    BY DEF Session, SyncRevision
  <2> QED
    BY <2>1, <2>2, <2>3 DEF SyncTypeOK
<1>2. CallShape /\ HubKnows /\ NoConnectionOutlivesLease /\ AnswersAdvance
  BY DEF CallShape, HubKnows, NoConnectionOutlivesLease, AnswersAdvance
<1>3. WakesCome
  BY DEF WakesCome, Awaiting
<1> QED
  BY <1>1, <1>2, <1>3 DEF SyncInductive

\* The conjuncts of SyncTypeOK.
LeaseOK == lease \in [session : Session \cup {None}, issued : 0 .. MaxSessions,
                      expired : SUBSET Session, revoked : BOOLEAN, revision : SyncRevision]
CallersOK == callers \in [Callers -> Call]
ConnectionsOK == connections \in [Connection -> End]
HubOK == hub \in Connection \cup {None} /\ replaced \subseteq Connection
AgentOK == syncAgent \in [session : Session \cup {None}, connection : Connection \cup {None},
                          dialled : 0 .. MaxConnections, wake : BOOLEAN,
                          poll : {"idle", "sent", "answered"},
                          answer : [revision : SyncRevision, session : Session \cup {None}],
                          seen : SyncRevision, failed : BOOLEAN]

LEMMA SyncTypes ==
    /\ SyncTypeOK <=> LeaseOK /\ CallersOK /\ ConnectionsOK /\ HubOK /\ AgentOK
    /\ SyncTypeOK' <=> LeaseOK' /\ CallersOK' /\ ConnectionsOK' /\ HubOK' /\ AgentOK'
BY DEF SyncTypeOK, LeaseOK, CallersOK, ConnectionsOK, HubOK, AgentOK

\* The requests of callers.
LEMMA CommittedTypes ==
  ASSUME SyncTypeOK, NEW c \in Callers, NEW l, NEW call \in {"none", "disconnect", "wake"},
         Committed(c, l, call),
         l \in [session : Session \cup {None}, issued : 0 .. MaxSessions,
                expired : SUBSET Session, revoked : BOOLEAN, revision : SyncRevision]
  PROVE  SyncTypeOK'
<1>1. LeaseOK'
  BY DEF Committed, LeaseOK
<1>2. [NoCall EXCEPT !.call = call] \in Call
  BY DEF NoCall, Call
<1>3. CallersOK'
  BY <1>2, SyncTypes DEF Committed, CallersOK
<1> QED
  BY <1>1, <1>3, SyncTypes DEF Committed, ConnectionsOK, HubOK, AgentOK

LEMMA CallerTypes ==
  ASSUME SyncTypeOK, NEW c \in Callers,
         StartSyncSession(c) \/ StopSyncSession(c) \/ Revoke(c) \/ ChangeNode(c)
  PROVE  SyncTypeOK'
<1> LeaseOK
  BY SyncTypes
<1>1. CASE StartSyncSession(c)
  <2>1. lease.issued + 1 \in Session /\ lease.issued + 1 \in 0 .. MaxSessions
    BY <1>1, SyncAssumption DEF StartSyncSession, LeaseOK, Session
  <2>2. [lease EXCEPT !.session = lease.issued + 1, !.issued = @ + 1] \in
            [session : Session \cup {None}, issued : 0 .. MaxSessions,
             expired : SUBSET Session, revoked : BOOLEAN, revision : SyncRevision]
    BY <2>1 DEF LeaseOK
  <2> QED
    BY <1>1, <2>2, CommittedTypes DEF StartSyncSession
<1>2. CASE StopSyncSession(c)
  BY <1>2, CommittedTypes DEF StopSyncSession, LeaseOK
<1>3. CASE Revoke(c)
  BY <1>3, CommittedTypes DEF Revoke, LeaseOK
<1>4. CASE ChangeNode(c)
  BY <1>4, CommittedTypes, SyncAssumption DEF ChangeNode, LeaseOK, SyncRevision
<1> QED
  BY <1>1, <1>2, <1>3, <1>4

\* A connection that is closed, and the hub after it.
LEMMA ClosedTypes ==
  ASSUME SyncTypeOK, NEW k \in Connection, Closed(k)
  PROVE  ConnectionsOK' /\ hub' \in Connection \cup {None}
<1>1. [Unused EXCEPT !.stage = "closed", !.unread = connections[k].unread] \in End
  BY SyncTypes DEF ConnectionsOK, Unused, End, None
<1> QED
  BY <1>1, SyncTypes DEF Closed, ConnectionsOK, HubOK

LEMMA EndsTypes ==
  ASSUME SyncTypeOK, NEW k \in Connection, ConnectionEnds(k)
  PROVE  SyncTypeOK'
BY ClosedTypes, SyncTypes DEF ConnectionEnds, LeaseOK, CallersOK, HubOK, AgentOK

LEMMA HubCallTypes ==
  ASSUME SyncTypeOK, NEW c \in Callers, Lookup(c) \/ Disconnect(c) \/ Wake(c)
  PROVE  SyncTypeOK'
<1> CallersOK /\ ConnectionsOK /\ HubOK
  BY SyncTypes
<1>0. NoCall \in Call
  BY DEF NoCall, Call
<1>1. CASE Lookup(c)
  <2>1. ASSUME hub # None PROVE [callers[c] EXCEPT !.found = TRUE, !.connection = hub] \in Call
    BY <2>1 DEF CallersOK, HubOK, Call
  <2> QED
    BY <1>0, <1>1, <2>1, SyncTypes DEF Lookup, CallersOK, LeaseOK, ConnectionsOK, HubOK, AgentOK
<1>2. CASE Disconnect(c)
  <2>1. CASE callers[c].connection \in Connection
    BY <1>0, <1>2, <2>1, ClosedTypes, SyncTypes DEF Disconnect, CallersOK, LeaseOK, HubOK, AgentOK
  <2>2. CASE callers[c].connection \notin Connection
    <3>1. callers[c].connection = None
      BY <2>2 DEF CallersOK, Call
    <3>2. connections' = connections
      BY <1>2, <3>1, <2>2 DEF Disconnect, Closed, ConnectionsOK
    <3>3. hub' \in Connection \cup {None}
      BY <1>2 DEF Disconnect, Closed, HubOK
    <3> QED
      BY <1>0, <1>2, <3>2, <3>3, SyncTypes DEF Disconnect, CallersOK, LeaseOK, ConnectionsOK, HubOK, AgentOK
  <2> QED
    BY <2>1, <2>2
<1>3. CASE Wake(c)
  <2>1. ConnectionsOK'
    <3> DEFINE k == callers[c].connection
    <3>1. CASE k \in Connection
      <4>1. [connections[k] EXCEPT !.wake = @ \/ IsOpen(k)] \in End
        BY <3>1 DEF ConnectionsOK, End, IsOpen
      <4> QED
        BY <1>3, <3>1, <4>1 DEF Wake, ConnectionsOK
    <3>2. CASE k \notin Connection
      BY <1>3, <3>2 DEF Wake, ConnectionsOK
    <3> QED
      BY <3>1, <3>2
  <2> QED
    BY <1>0, <1>3, <2>1, SyncTypes DEF Wake, CallersOK, LeaseOK, HubOK, AgentOK
<1> QED
  BY <1>1, <1>2, <1>3

LEMMA HandlerTypes ==
  ASSUME SyncTypeOK, NEW k \in Connection,
         Revalidate(k) \/ Attach(k) \/ RevalidateAttached(k) \/ FirstWake(k) \/ WriteWake(k) \/ RunReturns(k)
  PROVE  SyncTypeOK'
<1> LeaseOK /\ CallersOK /\ ConnectionsOK /\ HubOK /\ AgentOK
  BY SyncTypes
<1>0. ASSUME NEW s \in {"attached", "valid", "waking"},
             connections' = [connections EXCEPT ![k].stage = s]
      PROVE  ConnectionsOK'
  BY <1>0 DEF ConnectionsOK, End
<1>1. CASE ConnectionEnds(k)
  BY <1>1, EndsTypes
<1>2. ASSUME NEW s \in {"valid", "waking"}, AtStage(k, s) PROVE SyncTypeOK'
  BY <1>2, <1>0, SyncTypes DEF AtStage, LeaseOK, CallersOK, HubOK, AgentOK
<1>3. CASE Revalidate(k) \/ RevalidateAttached(k) \/ RunReturns(k)
  BY <1>1, <1>2, <1>3 DEF Revalidate, RevalidateAttached, RunReturns
<1>4. CASE Attach(k)
  <2>1. CASE MayAttach(k)
    <3>1. ConnectionsOK'
      BY <1>0, <1>4, <2>1 DEF Attach
    <3>2. HubOK'
      BY <1>4, <2>1 DEF Attach, HubOK
    <3> QED
      BY <1>4, <2>1, <3>1, <3>2, SyncTypes DEF Attach, LeaseOK, CallersOK, AgentOK
  <2>2. CASE ~MayAttach(k)
    BY <1>1, <1>4, <2>2 DEF Attach
  <2> QED
    BY <2>1, <2>2
<1>5. CASE FirstWake(k) \/ WriteWake(k)
  <2>1. ConnectionsOK'
    <3>1. [connections[k] EXCEPT !.stage = "running", !.unread = TRUE] \in End
      BY DEF ConnectionsOK, End
    <3>2. [connections[k] EXCEPT !.wake = FALSE, !.unread = TRUE] \in End
      BY DEF ConnectionsOK, End
    <3>3. CASE FirstWake(k)
      BY <3>1, <3>3 DEF FirstWake, FirstUnread, ConnectionsOK
    <3>4. CASE WriteWake(k)
      BY <3>2, <3>4 DEF WriteWake, ConnectionsOK
    <3> QED
      BY <1>5, <3>3, <3>4
  <2>2. LeaseOK' /\ CallersOK'
    BY <1>5 DEF FirstWake, WriteWake, LeaseOK, CallersOK
  <2>3. HubOK' /\ AgentOK'
    BY <1>5 DEF FirstWake, WriteWake, HubOK, AgentOK
  <2> QED
    BY <2>1, <2>2, <2>3, SyncTypes
<1> QED
  BY <1>3, <1>4, <1>5

LEMMA AgentTypes ==
  ASSUME SyncTypeOK,
         ReadWake \/ LoseConnection \/ StartPoll \/ AnswerPoll \/ ReceiveAnswer \/ PollFailed
  PROVE  SyncTypeOK'
<1> LeaseOK /\ CallersOK /\ ConnectionsOK /\ HubOK /\ AgentOK
  BY SyncTypes
<1> USE SyncAssumption
<1>0. NoAnswer \in [revision : SyncRevision, session : Session \cup {None}]
  BY DEF NoAnswer, SyncRevision, None
<1>1. LeaseOK' /\ CallersOK' /\ HubOK'
  BY DEF ReadWake, LoseConnection, StartPoll, AnswerPoll, ReceiveAnswer, PollFailed, AgentSteps,
         LeaseOK, CallersOK, HubOK
<1>2. ConnectionsOK'
  <2>1. CASE ReadWake \/ LoseConnection
    <3>1. connections' = [connections EXCEPT ![syncAgent.connection].unread = FALSE]
      BY <2>1 DEF ReadWake, LoseConnection
    <3>2. \A k \in DOMAIN connections : [connections[k] EXCEPT !.unread = FALSE] \in End
      BY DEF ConnectionsOK, End
    <3> QED
      BY <3>1, <3>2 DEF ConnectionsOK
  <2>2. CASE StartPoll \/ AnswerPoll \/ ReceiveAnswer \/ PollFailed
    BY <2>2 DEF StartPoll, AnswerPoll, ReceiveAnswer, PollFailed, ConnectionsOK
  <2> QED
    BY <2>1, <2>2
<1>3. AgentOK'
  <2>1. CASE ReadWake
    BY <2>1 DEF ReadWake, AgentSteps, AgentOK
  <2>2. CASE LoseConnection
    BY <2>2 DEF LoseConnection, AgentSteps, AgentOK
  <2>3. CASE StartPoll
    <3>1. PICK woken \in {syncAgent.wake, FALSE} :
            \/ AgentSteps([syncAgent EXCEPT !.poll = "sent", !.wake = @ /\ ~woken,
                  !.answer.session = IF Authorized(lease.session) THEN lease.session ELSE None])
            \/ AgentSteps([syncAgent EXCEPT !.wake = @ /\ ~woken, !.failed = TRUE])
      BY <2>3 DEF StartPoll
    <3>2. (syncAgent.wake /\ ~woken) \in BOOLEAN
      BY DEF AgentOK
    <3>3. (IF Authorized(lease.session) THEN lease.session ELSE None) \in Session \cup {None}
      BY DEF LeaseOK
    <3>4. ASSUME NEW s \in Session \cup {None}
          PROVE  [syncAgent.answer EXCEPT !.session = s] \in [revision : SyncRevision, session : Session \cup {None}]
      BY DEF AgentOK
    <3>5. CASE AgentSteps([syncAgent EXCEPT !.wake = @ /\ ~woken, !.failed = TRUE])
      BY <3>2, <3>5 DEF AgentSteps, AgentOK
    <3>6. ASSUME NEW s \in Session \cup {None},
                 syncAgent' = [syncAgent EXCEPT !.poll = "sent", !.wake = @ /\ ~woken, !.answer.session = s]
          PROVE  AgentOK'
      <4>1. syncAgent' = [syncAgent EXCEPT !.poll = "sent", !.wake = @ /\ ~woken,
                                           !.answer = [@ EXCEPT !.session = s]]
        BY <3>6
      <4>2. [syncAgent.answer EXCEPT !.session = s] \in [revision : SyncRevision, session : Session \cup {None}]
        BY <3>4
      <4> HIDE <3>6
      <4> QED
        BY <4>1, <4>2, <3>2 DEF AgentOK
    <3> QED
      BY <3>1, <3>3, <3>5, <3>6 DEF AgentSteps
  <2>4. CASE AnswerPoll
    BY <2>4 DEF AnswerPoll, AgentSteps, AgentOK, LeaseOK
  <2>5. CASE ReceiveAnswer
    <3>1. syncAgent.answer.revision \in SyncRevision /\ syncAgent.answer.session \in Session \cup {None}
      BY DEF AgentOK
    <3> QED
      BY <1>0, <2>5, <3>1 DEF ReceiveAnswer, AgentSteps, AgentOK
  <2>6. CASE PollFailed
    BY <1>0, <2>6 DEF PollFailed, AgentSteps, AgentOK
  <2> QED
    BY <2>1, <2>2, <2>3, <2>4, <2>5, <2>6
<1> QED
  BY <1>1, <1>2, <1>3, SyncTypes

LEMMA NextSyncTypes == SyncTypeOK /\ [SyncNext]_syncVars => SyncTypeOK'
<1> SUFFICES ASSUME SyncTypeOK, [SyncNext]_syncVars PROVE SyncTypeOK'
  OBVIOUS
<1> LeaseOK /\ CallersOK /\ ConnectionsOK /\ HubOK /\ AgentOK
  BY SyncTypes
<1>1. CASE Expire
  BY <1>1, SyncTypes DEF Expire, LeaseOK, CallersOK, ConnectionsOK, HubOK, AgentOK
<1>2. CASE Dial
  <2> DEFINE k == syncAgent.dialled + 1
  <2>1. k \in 0 .. MaxConnections /\ k \in Connection
    BY <1>2, SyncAssumption DEF Dial, AgentOK, Connection
  <2>2. [Unused EXCEPT !.stage = "authorized", !.session = syncAgent.session] \in End
    BY DEF Unused, End, AgentOK
  <2>3. ConnectionsOK'
    BY <1>2, <2>2 DEF Dial, ConnectionsOK
  <2>4. AgentOK'
    BY <1>2, <2>1 DEF Dial, AgentOK
  <2> QED
    BY <1>2, <2>3, <2>4, SyncTypes DEF Dial, LeaseOK, CallersOK, HubOK
<1>3. CASE CloseReplaced
  <2>1. PICK k \in replaced : Closed(k) /\ replaced' = replaced \ {k}
    BY <1>3 DEF CloseReplaced
  <2> QED
    BY <1>3, <2>1, ClosedTypes, SyncTypes DEF CloseReplaced, HubOK, LeaseOK, CallersOK, AgentOK
<1>4. CASE UNCHANGED syncVars
  BY <1>4, SyncTypes DEF syncVars, LeaseOK, CallersOK, ConnectionsOK, HubOK, AgentOK
<1> QED
  BY <1>1, <1>2, <1>3, <1>4, CallerTypes, HubCallTypes, HandlerTypes, AgentTypes DEF SyncNext

LEMMA NextCallShape == SyncTypeOK /\ CallShape /\ [SyncNext]_syncVars => CallShape'
<1> SUFFICES ASSUME SyncTypeOK, CallShape, [SyncNext]_syncVars PROVE CallShape'
  OBVIOUS
<1> CallersOK /\ HubOK
  BY SyncTypes
<1>1. CASE callers' = callers
  BY <1>1 DEF CallShape
<1>2. ASSUME NEW c \in Callers, NEW r, callers' = [callers EXCEPT ![c] = r],
             r.found <=> r.connection # None
      PROVE  CallShape'
  BY <1>2 DEF CallShape, CallersOK
<1>3. NoCall.found <=> NoCall.connection # None
  BY DEF NoCall
<1>4. ASSUME NEW c \in Callers,
             StartSyncSession(c) \/ StopSyncSession(c) \/ Revoke(c) \/ ChangeNode(c)
      PROVE  CallShape'
  <2>1. \E call : callers' = [callers EXCEPT ![c] = [NoCall EXCEPT !.call = call]]
    BY <1>4 DEF StartSyncSession, StopSyncSession, Revoke, ChangeNode, Committed
  <2> QED
    BY <1>2, <2>1 DEF NoCall
<1>5. ASSUME NEW c \in Callers, Lookup(c) PROVE CallShape'
  <2>1. CASE hub = None
    BY <1>2, <1>3, <1>5, <2>1 DEF Lookup
  <2>2. CASE hub # None
    BY <1>2, <1>5, <2>2 DEF Lookup, CallersOK, Call
  <2> QED
    BY <2>1, <2>2
<1>6. ASSUME NEW c \in Callers, Disconnect(c) \/ Wake(c) PROVE CallShape'
  BY <1>2, <1>3, <1>6 DEF Disconnect, Wake
<1> QED
  BY <1>1, <1>4, <1>5, <1>6
     DEF SyncNext, syncVars, Expire, Dial, CloseReplaced, Revalidate, Attach, RevalidateAttached,
         FirstWake, WriteWake, RunReturns, AtStage, ConnectionEnds, ReadWake, LoseConnection,
         StartPoll, AnswerPoll, ReceiveAnswer, PollFailed, AgentSteps

\* Connections that neither come up further nor end leave what is said of the hub alone.
LEMMA NextHubKnows ==
  SyncTypeOK /\ CallShape /\ HubKnows /\ [SyncNext]_syncVars => HubKnows'
<1> SUFFICES ASSUME SyncTypeOK, CallShape, HubKnows, [SyncNext]_syncVars PROVE HubKnows'
  OBVIOUS
<1> LeaseOK /\ CallersOK /\ ConnectionsOK /\ HubOK /\ AgentOK
  BY SyncTypes
<1> DEFINE Up(k) == connections[k].stage \in {"attached", "waking", "running"}
<1>1. ASSUME UNCHANGED <<hub, replaced>>,
             \A k \in Connection : Up(k)' => Up(k)
      PROVE  HubKnows'
  BY <1>1 DEF HubKnows
<1>2. ASSUME NEW k \in Connection, Closed(k),
             replaced' = replaced \/ replaced' = replaced \ {k}
      PROVE  HubKnows'
  <2>1. connections'[k].stage = "closed" /\ \A j \in Connection \ {k} : connections'[j] = connections[j]
    BY <1>2 DEF Closed, ConnectionsOK, Unused
  <2>2. ASSUME NEW j \in Connection \ {k}, Up(j)' PROVE hub' = j \/ j \in replaced'
    BY <1>2, <2>1, <2>2 DEF Closed, HubKnows
  <2> QED
    BY <2>1, <2>2 DEF HubKnows
<1>3. CASE UNCHANGED <<connections, hub, replaced>>
  BY <1>1, <1>3
<1>4. ASSUME NEW c \in Callers, Disconnect(c) PROVE HubKnows'
  <2>1. callers[c].connection \in Connection
    BY <1>4 DEF Disconnect, CallShape, CallersOK, Call
  <2> QED
    BY <1>2, <1>4, <2>1 DEF Disconnect
<1>5. ASSUME NEW c \in Callers, Wake(c) PROVE HubKnows'
  <2>1. callers[c].connection \in Connection
    BY <1>5 DEF Wake, CallShape, CallersOK, Call
  <2>2. \A k \in Connection : connections'[k].stage = connections[k].stage
    BY <1>5, <2>1 DEF Wake, ConnectionsOK, End
  <2> QED
    BY <1>1, <1>5, <2>2 DEF Wake
<1>6. CASE Dial
  <2>1. syncAgent.dialled + 1 \in Connection
    BY <1>6, SyncAssumption DEF Dial, AgentOK, Connection
  <2>2. connections' = [connections EXCEPT ![syncAgent.dialled + 1] =
                            [Unused EXCEPT !.stage = "authorized", !.session = syncAgent.session]]
    BY <1>6 DEF Dial
  <2>3. \A k \in Connection : Up(k)' => Up(k)
    BY <2>1, <2>2 DEF ConnectionsOK, Unused
  <2> QED
    BY <1>1, <1>6, <2>3 DEF Dial
<1>7. CASE CloseReplaced
  BY <1>2, <1>7 DEF CloseReplaced, HubOK
<1>8. ASSUME NEW k \in Connection, ConnectionEnds(k) PROVE HubKnows'
  BY <1>2, <1>8 DEF ConnectionEnds
<1>9. ASSUME NEW k \in Connection, AtStage(k, "valid") PROVE HubKnows'
  BY <1>1, <1>9 DEF AtStage, ConnectionsOK, End
<1>10. ASSUME NEW k \in Connection, connections[k].stage = "attached", AtStage(k, "waking") PROVE HubKnows'
  BY <1>1, <1>10 DEF AtStage, ConnectionsOK, End
<1>11. ASSUME NEW k \in Connection, FirstWake(k) \/ WriteWake(k) PROVE HubKnows'
  BY <1>1, <1>11 DEF FirstWake, WriteWake, ConnectionsOK, End
<1>12. ASSUME NEW k \in Connection, Attach(k) PROVE HubKnows'
  <2>1. CASE MayAttach(k)
    <3>1. \A j \in Connection \ {k} : connections'[j] = connections[j]
      BY <1>12, <2>1 DEF Attach, ConnectionsOK
    <3>2. hub' = k /\ replaced' = replaced \cup ({hub} \ {None})
      BY <1>12, <2>1 DEF Attach
    <3> QED
      BY <3>1, <3>2 DEF HubKnows, None, Connection
  <2>2. CASE ~MayAttach(k)
    BY <1>8, <1>12, <2>2 DEF Attach
  <2> QED
    BY <2>1, <2>2
<1>13. CASE ReadWake \/ LoseConnection
  <2>1. \A k \in Connection : connections'[k].stage = connections[k].stage
    BY <1>13 DEF ReadWake, LoseConnection, ConnectionsOK, End, AgentOK
  <2> QED
    BY <1>1, <1>13, <2>1 DEF ReadWake, LoseConnection, AgentSteps
<1> QED
  BY <1>3, <1>4, <1>5, <1>6, <1>7, <1>8, <1>9, <1>10, <1>11, <1>12, <1>13
     DEF SyncNext, syncVars, StartSyncSession, StopSyncSession, Revoke, ChangeNode, Committed,
         Lookup, Expire, Revalidate, RevalidateAttached, RunReturns,
         StartPoll, AnswerPoll, ReceiveAnswer, PollFailed, AgentSteps

\* Every connection a step touches, besides the ones a caller's lookup found, is closed,
\* or comes up one stage further with the session it has.
LEMMA NextOutlives ==
  SyncTypeOK /\ CallShape /\ HubKnows /\ NoConnectionOutlivesLease /\ [SyncNext]_syncVars
    => NoConnectionOutlivesLease'
<1> SUFFICES ASSUME SyncTypeOK, CallShape, HubKnows, NoConnectionOutlivesLease, [SyncNext]_syncVars
             PROVE  NoConnectionOutlivesLease'
  OBVIOUS
<1> LeaseOK /\ CallersOK /\ ConnectionsOK /\ HubOK /\ AgentOK
  BY SyncTypes
<1> DEFINE Stray(k) == connections[k].stage \in {"waking", "running"} /\ connections[k].session # lease.session
<1>1. ASSUME \A k \in Connection : Stray(k)' => Stray(k),
             \A k \in Connection : Stray(k)' /\ Ending(k) => Ending(k)'
      PROVE  NoConnectionOutlivesLease'
  BY <1>1 DEF NoConnectionOutlivesLease
<1>2. ASSUME UNCHANGED <<callers, replaced>>, \A k \in Connection : Stray(k)' => Stray(k)
      PROVE  NoConnectionOutlivesLease'
  BY <1>1, <1>2 DEF Ending
<1>3. ASSUME NEW k \in Connection, Closed(k)
      PROVE  ~Stray(k)' /\ \A j \in Connection \ {k} : connections'[j] = connections[j]
  BY <1>3 DEF Closed, ConnectionsOK, Unused
<1>4. ASSUME NEW c \in Callers, StartSyncSession(c) \/ StopSyncSession(c) \/ Revoke(c)
      PROVE  NoConnectionOutlivesLease'
  <2>1. callers' = [callers EXCEPT ![c] = [NoCall EXCEPT !.call = "disconnect"]]
    BY <1>4 DEF StartSyncSession, StopSyncSession, Revoke, Committed
  <2>2. callers'[c].call = "disconnect" /\ callers'[c].connection = None
    BY <2>1 DEF CallersOK, NoCall
  <2>3. \A k \in Connection : Ending(k)'
    BY <2>2 DEF Ending
  <2> QED
    BY <2>3 DEF NoConnectionOutlivesLease
<1>5. ASSUME NEW c \in Callers, ChangeNode(c) PROVE NoConnectionOutlivesLease'
  <2>1. callers[c] = NoCall /\ UNCHANGED <<connections, replaced>> /\ lease'.session = lease.session
    BY <1>5 DEF ChangeNode, Committed, LeaseOK
  <2>2. \A d \in Callers \ {c} : callers'[d] = callers[d]
    BY <1>5 DEF ChangeNode, Committed, CallersOK
  <2>3. \A k \in Connection : Ending(k) => Ending(k)'
    BY <2>1, <2>2 DEF Ending, NoCall
  <2> QED
    BY <1>1, <2>1, <2>3
<1>6. ASSUME NEW c \in Callers, Lookup(c) PROVE NoConnectionOutlivesLease'
  <2>1. \A d \in Callers \ {c} : callers'[d] = callers[d]
    BY <1>6 DEF Lookup, CallersOK
  <2>2. UNCHANGED <<lease, connections, hub, replaced>>
    BY <1>6 DEF Lookup
  <2>3. hub # None => callers'[c].call = callers[c].call /\ callers'[c].connection = hub
    BY <1>6 DEF Lookup, CallersOK, Call
  <2>4. \A k \in Connection : Stray(k) => hub = k \/ k \in replaced
    BY DEF HubKnows
  <2>5. \A k \in Connection : hub = k => hub # None
    BY DEF None, Connection
  <2>6. ASSUME NEW k \in Connection, Stray(k), Ending(k), k \notin replaced PROVE Ending(k)'
    BY <2>1, <2>3, <2>4, <2>5, <2>6 DEF Ending
  <2>7. ASSUME NEW k \in Connection, k \in replaced PROVE Ending(k)'
    BY <2>2, <2>7 DEF Ending
  <2> QED
    BY <1>1, <2>2, <2>6, <2>7
<1>7. ASSUME NEW c \in Callers, Disconnect(c) PROVE NoConnectionOutlivesLease'
  <2>0. callers[c].connection \in Connection /\ callers[c].connection # None
    BY <1>7 DEF Disconnect, CallShape, CallersOK, Call
  <2>1. PICK k \in Connection : k = callers[c].connection /\ k # None
    BY <2>0
  <2>2. ~Stray(k)' /\ \A j \in Connection \ {k} : connections'[j] = connections[j]
    BY <1>3, <1>7, <2>1 DEF Disconnect
  <2>3. \A d \in Callers \ {c} : callers'[d] = callers[d]
    BY <1>7 DEF Disconnect, CallersOK
  <2>4. UNCHANGED <<lease, replaced>>
    BY <1>7 DEF Disconnect
  <2>5. \A j \in Connection \ {k} : Ending(j) => Ending(j)'
    BY <2>1, <2>3, <2>4 DEF Ending
  <2> QED
    BY <1>1, <2>2, <2>4, <2>5
<1>8. ASSUME NEW c \in Callers, Wake(c) PROVE NoConnectionOutlivesLease'
  <2>1. callers[c].connection \in Connection
    BY <1>8 DEF Wake, CallShape, CallersOK, Call
  <2>2. \A k \in Connection : /\ connections'[k].stage = connections[k].stage
                              /\ connections'[k].session = connections[k].session
    BY <1>8, <2>1 DEF Wake, ConnectionsOK, End
  <2>3. \A d \in Callers \ {c} : callers'[d] = callers[d]
    BY <1>8 DEF Wake, CallersOK
  <2>4. UNCHANGED <<lease, replaced>> /\ callers[c].call = "wake"
    BY <1>8 DEF Wake
  <2>5. \A k \in Connection : Ending(k) => Ending(k)'
    BY <2>3, <2>4 DEF Ending
  <2> QED
    BY <1>1, <2>2, <2>4, <2>5
<1>9. CASE Expire
  BY <1>2, <1>9 DEF Expire, LeaseOK
<1>10. CASE Dial
  <2>1. syncAgent.dialled + 1 \in Connection
    BY <1>10, SyncAssumption DEF Dial, AgentOK, Connection
  <2>2. connections' = [connections EXCEPT ![syncAgent.dialled + 1] =
                            [Unused EXCEPT !.stage = "authorized", !.session = syncAgent.session]]
        /\ UNCHANGED <<lease, callers, replaced>>
    BY <1>10 DEF Dial
  <2>3. \A k \in Connection : Stray(k)' => Stray(k)
    BY <2>1, <2>2 DEF ConnectionsOK, Unused
  <2> QED
    BY <1>2, <2>2, <2>3
<1>11. CASE CloseReplaced
  <2>1. PICK k \in replaced : Closed(k) /\ replaced' = replaced \ {k}
    BY <1>11 DEF CloseReplaced
  <2>2. ~Stray(k)' /\ \A j \in Connection \ {k} : connections'[j] = connections[j]
    BY <1>3, <2>1 DEF HubOK
  <2>3. UNCHANGED <<lease, callers>>
    BY <1>11 DEF CloseReplaced
  <2>4. \A j \in Connection \ {k} : Ending(j) => Ending(j)'
    BY <2>1, <2>3 DEF Ending
  <2> QED
    BY <1>1, <2>2, <2>3, <2>4
<1>12. ASSUME NEW k \in Connection, ConnectionEnds(k) PROVE NoConnectionOutlivesLease'
  BY <1>2, <1>3, <1>12 DEF ConnectionEnds
<1>13. ASSUME NEW k \in Connection, AtStage(k, "valid") PROVE NoConnectionOutlivesLease'
  BY <1>2, <1>13 DEF AtStage, ConnectionsOK, End
<1>14. ASSUME NEW k \in Connection, StillAuthorized(k), AtStage(k, "waking")
       PROVE  NoConnectionOutlivesLease'
  <2>1. connections'[k].session = lease'.session
    BY <1>14 DEF StillAuthorized, Authorized, AtStage, ConnectionsOK, End
  <2>2. \A j \in Connection \ {k} : connections'[j] = connections[j]
    BY <1>14 DEF AtStage, ConnectionsOK
  <2> QED
    BY <1>2, <1>14, <2>1, <2>2 DEF AtStage
<1>15. ASSUME NEW k \in Connection, FirstWake(k) \/ WriteWake(k) PROVE NoConnectionOutlivesLease'
  BY <1>2, <1>15 DEF FirstWake, WriteWake, ConnectionsOK, End
<1>16. ASSUME NEW k \in Connection, Attach(k) PROVE NoConnectionOutlivesLease'
  <2>1. CASE MayAttach(k)
    <3>1. \A j \in Connection : Stray(j)' => Stray(j)
      BY <1>16, <2>1 DEF Attach, ConnectionsOK, End
    <3>2. \A j \in Connection : Ending(j) => Ending(j)'
      BY <1>16, <2>1 DEF Attach, Ending
    <3> QED
      BY <1>1, <3>1, <3>2
  <2>2. CASE ~MayAttach(k)
    BY <1>12, <1>16, <2>2 DEF Attach
  <2> QED
    BY <2>1, <2>2
<1>17. CASE ReadWake \/ LoseConnection
  <2>1. \A k \in Connection : /\ connections'[k].stage = connections[k].stage
                              /\ connections'[k].session = connections[k].session
    BY <1>17 DEF ReadWake, LoseConnection, ConnectionsOK, End, AgentOK
  <2> QED
    BY <1>2, <1>17, <2>1 DEF ReadWake, LoseConnection, AgentSteps
<1>18. CASE StartPoll \/ AnswerPoll \/ ReceiveAnswer \/ PollFailed \/ UNCHANGED syncVars
  BY <1>2, <1>18 DEF StartPoll, AnswerPoll, ReceiveAnswer, PollFailed, AgentSteps, syncVars
<1> QED
  BY <1>4, <1>5, <1>6, <1>7, <1>8, <1>9, <1>10, <1>11, <1>12, <1>13, <1>14, <1>15, <1>16, <1>17, <1>18
     DEF SyncNext, Revalidate, RevalidateAttached, RunReturns

LEMMA NextAnswers == SyncTypeOK /\ AnswersAdvance /\ [SyncNext]_syncVars => AnswersAdvance'
<1> SUFFICES ASSUME SyncTypeOK, AnswersAdvance, [SyncNext]_syncVars PROVE AnswersAdvance'
  OBVIOUS
<1> LeaseOK /\ AgentOK
  BY SyncTypes
<1> USE SyncAssumption DEF SyncRevision, LeaseOK, AgentOK
<1>1. ASSUME UNCHANGED syncAgent, lease'.revision \in Nat, lease'.revision >= lease.revision
      PROVE  AnswersAdvance'
  BY <1>1 DEF AnswersAdvance
<1>2. ASSUME NEW c \in Callers,
             StartSyncSession(c) \/ StopSyncSession(c) \/ Revoke(c) \/ ChangeNode(c)
      PROVE  AnswersAdvance'
  <2>1. UNCHANGED syncAgent /\ lease'.revision \in {lease.revision, lease.revision + 1}
    BY <1>2 DEF StartSyncSession, StopSyncSession, Revoke, ChangeNode, Committed
  <2> QED
    BY <1>1, <2>1
<1>3. CASE Expire
  BY <1>1, <1>3 DEF Expire
<1>4. CASE UNCHANGED <<lease, syncAgent>>
  BY <1>1, <1>4
<1>5. ASSUME UNCHANGED lease, syncAgent'.seen = syncAgent.seen, syncAgent'.answer = syncAgent.answer,
             syncAgent'.poll = syncAgent.poll
      PROVE  AnswersAdvance'
  BY <1>5 DEF AnswersAdvance
<1>6. CASE Dial \/ ReadWake \/ LoseConnection
  BY <1>5, <1>6 DEF Dial, ReadWake, LoseConnection, AgentSteps
<1>7. CASE StartPoll
  <2>1. UNCHANGED lease /\ syncAgent'.seen = syncAgent.seen /\ syncAgent'.poll # "answered"
    BY <1>7 DEF StartPoll, AgentSteps
  <2> QED
    BY <2>1 DEF AnswersAdvance
<1>8. CASE AnswerPoll
  <2>1. UNCHANGED lease /\ syncAgent'.seen = syncAgent.seen /\ syncAgent'.answer.revision = lease.revision
    BY <1>8 DEF AnswerPoll, AgentSteps
  <2> QED
    BY <2>1 DEF AnswersAdvance
<1>9. CASE ReceiveAnswer
  <2>1. UNCHANGED lease /\ syncAgent'.seen = syncAgent.answer.revision /\ syncAgent'.poll = "idle"
        /\ syncAgent.poll = "answered"
    BY <1>9 DEF ReceiveAnswer, AgentSteps
  <2> QED
    BY <2>1 DEF AnswersAdvance
<1>10. CASE PollFailed
  <2>1. UNCHANGED lease /\ syncAgent'.seen = syncAgent.seen /\ syncAgent'.poll = "idle"
    BY <1>10 DEF PollFailed, AgentSteps
  <2> QED
    BY <2>1 DEF AnswersAdvance
<1> QED
  BY <1>2, <1>3, <1>4, <1>6, <1>7, <1>8, <1>9, <1>10
     DEF SyncNext, syncVars, Lookup, Disconnect, Wake, CloseReplaced, Revalidate, Attach,
         RevalidateAttached, FirstWake, WriteWake, RunReturns, AtStage, ConnectionEnds

LEMMA NextWakes ==
  SyncTypeOK /\ CallShape /\ HubKnows /\ AnswersAdvance /\ WakesCome /\ [SyncNext]_syncVars
    => WakesCome'
<1> SUFFICES ASSUME SyncTypeOK, CallShape, HubKnows, AnswersAdvance, WakesCome,
                    [SyncNext]_syncVars
             PROVE  WakesCome'
  OBVIOUS
<1> SUFFICES ASSUME NEW k \in Connection', Awaiting(k)'
             PROVE  WakeComes(k)'
  BY DEF WakesCome
<1>k. k \in Connection
  BY DEF Connection
<1> USE <1>k
<1> LeaseOK /\ CallersOK /\ ConnectionsOK /\ HubOK /\ AgentOK
  BY SyncTypes
<1>0. k # None
  BY DEF None, Connection
<1>1. ASSUME UNCHANGED <<callers, syncAgent>>, lease'.revision = lease.revision,
             connections'[k] = connections[k], k \in replaced => k \in replaced'
      PROVE  WakeComes(k)'
  BY <1>1 DEF WakesCome, Awaiting, WakeComes
<1>2. ASSUME NEW j \in Connection, Closed(j)
      PROVE  j # k /\ connections'[k] = connections[k]
  BY <1>2 DEF Closed, ConnectionsOK, Unused, Awaiting
<1>3. ASSUME NEW c \in Callers, StartSyncSession(c) \/ StopSyncSession(c) \/ Revoke(c)
      PROVE  WakeComes(k)'
  <2>1. UNCHANGED <<connections, hub, replaced, syncAgent>> /\ callers[c] = NoCall
        /\ lease'.revision = lease.revision
    BY <1>3 DEF StartSyncSession, StopSyncSession, Revoke, Committed, LeaseOK
  <2>2. \A d \in Callers \ {c} : callers'[d] = callers[d]
    BY <1>3 DEF StartSyncSession, StopSyncSession, Revoke, Committed, CallersOK
  <2>3. Awaiting(k)
    BY <2>1 DEF Awaiting
  <2> QED
    BY <2>1, <2>2, <2>3 DEF WakesCome, WakeComes, NoCall
<1>4. ASSUME NEW c \in Callers, ChangeNode(c) PROVE WakeComes(k)'
  <2>1. callers'[c].call = "wake" /\ callers'[c].connection = None
    BY <1>4 DEF ChangeNode, Committed, CallersOK, NoCall
  <2> QED
    BY <2>1 DEF WakeComes
<1>5. ASSUME NEW c \in Callers, Lookup(c) PROVE WakeComes(k)'
  <2>1. UNCHANGED <<lease, connections, hub, replaced, syncAgent>>
    BY <1>5 DEF Lookup
  <2>2. Awaiting(k) /\ WakeComes(k)
    BY <2>1 DEF Awaiting, WakesCome
  <2>3. hub = k
    BY <2>2 DEF HubKnows, Awaiting
  <2>4. callers'[c].call = callers[c].call /\ callers'[c].connection = k
    BY <1>0, <1>5, <2>3 DEF Lookup, CallersOK, Call
  <2>5. \A d \in Callers \ {c} : callers'[d] = callers[d]
    BY <1>5 DEF Lookup, CallersOK
  <2> QED
    BY <2>1, <2>2, <2>4, <2>5 DEF WakeComes
<1>6. ASSUME NEW c \in Callers, Disconnect(c) PROVE WakeComes(k)'
  <2>1. PICK j \in Connection : j = callers[c].connection
    BY <1>6 DEF Disconnect, CallShape, CallersOK, Call
  <2>2. connections'[k] = connections[k]
    BY <1>2, <1>6, <2>1 DEF Disconnect
  <2>3. \A d \in Callers \ {c} : callers'[d] = callers[d]
    BY <1>6 DEF Disconnect, CallersOK
  <2>4. UNCHANGED <<lease, replaced, syncAgent>> /\ callers[c].call = "disconnect"
    BY <1>6 DEF Disconnect
  <2>5. Awaiting(k) /\ WakeComes(k)
    BY <2>2, <2>4 DEF Awaiting, WakesCome
  <2> QED
    BY <2>2, <2>3, <2>4, <2>5 DEF WakeComes
<1>7. ASSUME NEW c \in Callers, Wake(c) PROVE WakeComes(k)'
  <2>1. PICK j \in Connection : j = callers[c].connection /\ j # None
    BY <1>7 DEF Wake, CallShape, CallersOK, Call
  <2>2. connections' = [connections EXCEPT ![j].wake = @ \/ IsOpen(j)]
    BY <1>7, <2>1 DEF Wake
  <2>3. \A d \in Callers \ {c} : callers'[d] = callers[d]
    BY <1>7 DEF Wake, CallersOK
  <2>4. UNCHANGED <<lease, hub, replaced, syncAgent>>
    BY <1>7 DEF Wake
  <2>5. CASE j = k
    BY <2>2, <2>5 DEF ConnectionsOK, End, IsOpen, Awaiting, WakeComes
  <2>6. CASE j # k
    <3>1. connections'[k] = connections[k]
      BY <2>2, <2>6 DEF ConnectionsOK
    <3>2. Awaiting(k) /\ WakeComes(k)
      BY <2>4, <3>1 DEF Awaiting, WakesCome
    <3> QED
      BY <2>1, <2>3, <2>4, <2>6, <3>1, <3>2 DEF WakeComes
  <2> QED
    BY <2>5, <2>6
<1>8. CASE Expire
  BY <1>1, <1>8 DEF Expire, LeaseOK
<1>9. CASE Dial
  <2>1. syncAgent.dialled + 1 \in Connection
    BY <1>9, SyncAssumption DEF Dial, AgentOK, Connection
  <2>2. syncAgent'.connection = syncAgent.dialled + 1
    BY <1>9 DEF Dial, AgentOK
  <2>3. connections'[syncAgent.dialled + 1].stage = "authorized"
    BY <1>9, <2>1 DEF Dial, ConnectionsOK, Unused
  <2> QED
    BY <2>2, <2>3 DEF Awaiting
<1>10. CASE CloseReplaced
  <2>1. PICK j \in replaced : Closed(j) /\ replaced' = replaced \ {j}
    BY <1>10 DEF CloseReplaced
  <2>2. j # k /\ connections'[k] = connections[k]
    BY <1>2, <2>1 DEF HubOK
  <2> QED
    BY <1>1, <1>10, <2>1, <2>2 DEF CloseReplaced
<1>11. ASSUME NEW j \in Connection, ConnectionEnds(j) PROVE WakeComes(k)'
  BY <1>1, <1>2, <1>11 DEF ConnectionEnds
<1>12. ASSUME NEW j \in Connection, AtStage(j, "valid") \/ AtStage(j, "waking") PROVE WakeComes(k)'
  <2>1. CASE j = k
    BY <1>12, <2>1 DEF AtStage, ConnectionsOK, End, Awaiting, WakeComes
  <2>2. CASE j # k
    BY <1>1, <1>12, <2>2 DEF AtStage, ConnectionsOK
  <2> QED
    BY <2>1, <2>2
<1>13. ASSUME NEW j \in Connection, FirstWake(j) \/ WriteWake(j) PROVE WakeComes(k)'
  <2>1. CASE j = k
    BY <1>13, <2>1 DEF FirstWake, FirstUnread, WriteWake, ConnectionsOK, End, WakeComes
  <2>2. CASE j # k
    BY <1>1, <1>13, <2>2 DEF FirstWake, WriteWake, ConnectionsOK
  <2> QED
    BY <2>1, <2>2
<1>14. ASSUME NEW j \in Connection, Attach(j) PROVE WakeComes(k)'
  <2>1. CASE MayAttach(j) /\ j = k
    BY <1>14, <2>1 DEF Attach, ConnectionsOK, End, Awaiting
  <2>2. CASE MayAttach(j) /\ j # k
    BY <1>1, <1>14, <2>2 DEF Attach, ConnectionsOK
  <2>3. CASE ~MayAttach(j)
    BY <1>11, <1>14, <2>3 DEF Attach
  <2> QED
    BY <2>1, <2>2, <2>3
<1>15. CASE ReadWake
  BY <1>15 DEF ReadWake, AgentSteps, AgentOK, WakeComes
<1>16. CASE LoseConnection
  BY <1>0, <1>16 DEF LoseConnection, AgentSteps, AgentOK, Awaiting
<1>17. CASE StartPoll
  <2>1. \/ syncAgent'.poll = "sent"
        \/ syncAgent'.poll = "idle" /\ syncAgent'.failed
    BY <1>17 DEF StartPoll, AgentSteps, AgentOK
  <2> QED
    BY <2>1 DEF Awaiting, WakeComes
<1>18. CASE AnswerPoll
  BY <1>18 DEF AnswerPoll, AgentSteps, AgentOK, WakeComes
<1>19. CASE ReceiveAnswer
  <2>1. /\ syncAgent'.seen = syncAgent.answer.revision /\ syncAgent.poll = "answered"
        /\ syncAgent'.connection \in {syncAgent.connection, None}
        /\ syncAgent'.wake = syncAgent.wake
        /\ UNCHANGED <<lease, callers, hub, replaced, connections>>
    BY <1>19 DEF ReceiveAnswer, AgentSteps, AgentOK
  <2>2. syncAgent.answer.revision < lease.revision /\ syncAgent.seen < lease.revision
    BY <2>1, SyncAssumption DEF Awaiting, AnswersAdvance, AgentOK, LeaseOK, SyncRevision
  <2>3. Awaiting(k)
    BY <1>0, <2>1, <2>2 DEF Awaiting
  <2>4. syncAgent.answer.revision # lease.revision
    BY <2>2, SyncAssumption DEF AgentOK, LeaseOK, SyncRevision
  <2> QED
    BY <2>1, <2>3, <2>4 DEF WakesCome, WakeComes
<1>20. CASE PollFailed
  BY <1>20 DEF PollFailed, AgentSteps, AgentOK, Awaiting
<1>21. CASE UNCHANGED syncVars
  BY <1>1, <1>21 DEF syncVars
<1> QED
  BY <1>3, <1>4, <1>5, <1>6, <1>7, <1>8, <1>9, <1>10, <1>11, <1>12, <1>13, <1>14, <1>15,
     <1>16, <1>17, <1>18, <1>19, <1>20, <1>21
     DEF SyncNext, Revalidate, RevalidateAttached, RunReturns

LEMMA AlwaysSync == SyncSpec => []SyncInductive
<1>1. SyncInductive /\ [SyncNext]_syncVars => SyncInductive'
  BY NextSyncTypes, NextCallShape, NextHubKnows, NextOutlives, NextAnswers, NextWakes
     DEF SyncInductive
<1> QED
  BY <1>1, InitSync, PTL DEF SyncSpec

\* A connection that runs is of the session leased to the node, or its end is under way:
\* the three checks of the handler against every order of commits and calls of the hub.
THEOREM ConnectionsEndWithLease == SyncSpec => []NoConnectionOutlivesLease
BY AlwaysSync, PTL DEF SyncInductive

LEMMA WakesComeTo == WakesCome /\ SyncTypeOK => WakeNotLost
<1> SUFFICES ASSUME WakesCome, SyncTypeOK,
                    syncAgent.connection # None,
                    Awaiting(syncAgent.connection)
             PROVE  OnItsWay(syncAgent.connection)
  BY DEF WakeNotLost, Awaiting
<1>1. syncAgent.connection \in Connection
  BY DEF SyncTypeOK
<1> QED
  BY <1>1 DEF WakesCome, WakeComes, OnItsWay

\* A change the Agent has not seen is on its way to a node with a running connection,
\* whichever connection the call that announces it found.
THEOREM WakesAreNotLost == SyncSpec => []WakeNotLost
<1>1. SyncInductive => WakeNotLost
  BY WakesComeTo DEF SyncInductive
<1> QED
  BY <1>1, AlwaysSync, PTL

-----------------------------------------------------------------------------
(* Public addresses                                                        *)

OwnershipOK ==
    ownership \in [at : [OwnerPaths -> OwnedIPs \cup {0}], available : SUBSET OwnerPaths,
                   selected : [OwnedIPs -> Path], enabled : SUBSET OwnedIPs,
                   revision : [OwnerNodes -> Revision]]
SelectedServes ==
    \A a \in OwnedIPs :
        IF Serving(ownership, a) = {} THEN ownership.selected[a] = NoPath
        ELSE ownership.selected[a] \in Serving(ownership, a)
SwitchingOK ==
    /\ switching \in [ip : OwnedIPs \cup {0}, path : Path, step : {"none", "read", "set"}]
    /\ switching.step # "none" => switching.ip \in OwnedIPs
    /\ switches \in 0 .. MaxSwitches /\ overtaken \subseteq OwnedIPs
AssemblingOK == assembling \in [OwnerNodes -> [revision : Revision, targets : SUBSET Target]]
TargetingOK == targeting \in [OwnerNodes -> [revision : Revision, targets : SUBSET Target]]

\* No Agent, and no configuration under way, is ahead of its node.
RevisionsBehind ==
    \A n \in OwnerNodes : /\ assembling[n].revision <= ownership.revision[n]
                          /\ targeting[n].revision <= ownership.revision[n]

\* The Agent of n has the paths selected for n ...
Matches(n) ==
    /\ \A t \in targeting[n].targets : ownership.selected[t.ip] = t.path /\ NodeOf(t.path) = n
    /\ \A a \in OwnedIPs :
        ownership.selected[a] # NoPath /\ NodeOf(ownership.selected[a]) = n =>
            \E t \in targeting[n].targets : t.ip = a /\ t.path = ownership.selected[a]

\* ... and the settings of their addresses.
Settings(n) ==
    \A t \in targeting[n].targets :
        \/ t.enabled <=> t.ip \in ownership.enabled
        \/ t.ip \in overtaken
        \/ switching.ip = t.ip /\ switching.step = "set"

Follows ==
    \A n \in OwnerNodes :
        targeting[n].revision = ownership.revision[n] => Matches(n) /\ Settings(n)

OwnerInductive ==
    /\ OwnershipOK /\ SelectedServes /\ SwitchingOK /\ AssemblingOK /\ TargetingOK
    /\ RevisionsBehind /\ Follows

LEMMA InitOwner == OwnerInit => OwnerInductive
<1> SUFFICES ASSUME OwnerInit PROVE OwnerInductive
  OBVIOUS
<1>1. OwnershipOK
  BY OwnerAssumption DEF OwnerInit, OwnershipOK, Path, Revision
<1>2. SelectedServes
  BY DEF OwnerInit, SelectedServes, Serving
<1>3. SwitchingOK
  BY OwnerAssumption DEF OwnerInit, SwitchingOK, NoSwitch, Path
<1>4. NoTargets \in [revision : Revision, targets : SUBSET Target]
  BY OwnerAssumption DEF NoTargets, Revision
<1>5. AssemblingOK /\ TargetingOK
  BY <1>4 DEF OwnerInit, AssemblingOK, TargetingOK
<1>6. RevisionsBehind /\ Follows
  BY DEF OwnerInit, RevisionsBehind, Follows, NoTargets
<1> QED
  BY <1>1, <1>2, <1>3, <1>5, <1>6 DEF OwnerInductive

\* What a node probes does not change unless the node is told of a new revision.
LEMMA UnaffectedKeeps ==
  ASSUME NEW before \in [OwnedIPs -> Path], NEW after \in [OwnedIPs -> Path],
         NEW n, n \notin Affected(before, after), NEW a \in OwnedIPs,
         \/ before[a] # NoPath /\ NodeOf(before[a]) = n
         \/ after[a] # NoPath /\ NodeOf(after[a]) = n
  PROVE  before[a] = after[a]
<1> SUFFICES ASSUME before[a] # after[a] PROVE FALSE
  OBVIOUS
<1>1. before[a] \in UNION {{before[b], after[b]} : b \in {c \in OwnedIPs : before[c] # after[c]}}
      /\ after[a] \in UNION {{before[b], after[b]} : b \in {c \in OwnedIPs : before[c] # after[c]}}
  OBVIOUS
<1>2. n \in Affected(before, after)
  BY <1>1 DEF Affected
<1> QED
  BY <1>2

LEMMA IncrementRevisions ==
  ASSUME OwnershipOK, NEW o, o.revision = ownership.revision, NEW ns,
         o \in [at : [OwnerPaths -> OwnedIPs \cup {0}], available : SUBSET OwnerPaths,
                selected : [OwnedIPs -> Path], enabled : SUBSET OwnedIPs,
                revision : [OwnerNodes -> Revision]],
         ownership' = Increment(o, ns),
         \A m \in OwnerNodes : ownership'.revision[m] <= MaxOwnerRevisions
  PROVE  /\ OwnershipOK'
         /\ ownership'.selected = o.selected /\ ownership'.enabled = o.enabled
         /\ ownership'.at = o.at /\ ownership'.available = o.available
         /\ \A m \in OwnerNodes :
              ownership'.revision[m] = IF m \in ns THEN ownership.revision[m] + 1 ELSE ownership.revision[m]
<1>1. ownership' = [o EXCEPT !.revision =
                      [n \in OwnerNodes |-> IF n \in ns THEN o.revision[n] + 1 ELSE o.revision[n]]]
  BY DEF Increment
<1>2. \A m \in OwnerNodes :
        ownership'.revision[m] = IF m \in ns THEN ownership.revision[m] + 1 ELSE ownership.revision[m]
  BY <1>1
<1>3. \A m \in OwnerNodes : ownership'.revision[m] \in Revision
  BY <1>2, OwnerAssumption DEF OwnershipOK, Revision
<1>4. ownership'.revision \in [OwnerNodes -> Revision]
  BY <1>1, <1>3
<1> QED
  BY <1>1, <1>2, <1>4 DEF OwnershipOK

LEMMA ReportsTypes ==
  ASSUME OwnershipOK, NEW n \in OwnerNodes, NEW found \in [OwnerPaths -> OwnedIPs \cup {0}],
         NEW s \in Selections(Reports(n, found))
  PROVE  LET o == [Reports(n, found) EXCEPT !.selected = s] IN
         /\ o \in [at : [OwnerPaths -> OwnedIPs \cup {0}], available : SUBSET OwnerPaths,
                   selected : [OwnedIPs -> Path], enabled : SUBSET OwnedIPs,
                   revision : [OwnerNodes -> Revision]]
         /\ o.revision = ownership.revision /\ o.enabled = ownership.enabled /\ o.selected = s
         /\ \A a \in OwnedIPs : IF Serving(o, a) = {} THEN s[a] = NoPath ELSE s[a] \in Serving(o, a)
<1> DEFINE r == Reports(n, found)
           o == [r EXCEPT !.selected = s]
           at == [p \in OwnerPaths |-> IF NodeOf(p) = n /\ found[p] # 0 THEN found[p] ELSE ownership.at[p]]
           available == {p \in ownership.available : NodeOf(p) # n}
                          \cup {p \in OwnerPaths : NodeOf(p) = n /\ found[p] # 0}
<1>1. at \in [OwnerPaths -> OwnedIPs \cup {0}] /\ available \in SUBSET OwnerPaths
  BY DEF OwnershipOK
<1>2. r = [ownership EXCEPT !.at = at, !.available = available]
  BY DEF Reports
<1>3. s \in [OwnedIPs -> Path]
  BY DEF Selections
<1> HIDE DEF at, available
<1>4. r \in [at : [OwnerPaths -> OwnedIPs \cup {0}], available : SUBSET OwnerPaths,
             selected : [OwnedIPs -> Path], enabled : SUBSET OwnedIPs,
             revision : [OwnerNodes -> Revision]]
      /\ r.revision = ownership.revision /\ r.enabled = ownership.enabled
  BY <1>1, <1>2 DEF OwnershipOK
<1>5. \A a \in OwnedIPs : IF Serving(r, a) = {} THEN s[a] = NoPath ELSE s[a] \in Serving(r, a)
  BY DEF Selections
<1> HIDE DEF r
<1>6. o \in [at : [OwnerPaths -> OwnedIPs \cup {0}], available : SUBSET OwnerPaths,
             selected : [OwnedIPs -> Path], enabled : SUBSET OwnedIPs,
             revision : [OwnerNodes -> Revision]]
      /\ o.at = r.at /\ o.available = r.available
      /\ o.revision = ownership.revision /\ o.enabled = ownership.enabled /\ o.selected = s
  BY <1>3, <1>4
<1>7. \A a : Serving(o, a) = Serving(r, a)
  BY <1>6 DEF Serving
<1> HIDE DEF o
<1>8. \A a \in OwnedIPs : IF Serving(o, a) = {} THEN s[a] = NoPath ELSE s[a] \in Serving(o, a)
  BY <1>5, <1>7
<1> QED
  BY <1>6, <1>8 DEF o, r

LEMMA ReconcileInductive == OwnerInductive /\ ReconcilePublicAddresses => OwnerInductive'
<1> SUFFICES ASSUME OwnerInductive, ReconcilePublicAddresses PROVE OwnerInductive'
  OBVIOUS
<1> OwnershipOK /\ SwitchingOK /\ AssemblingOK /\ TargetingOK /\ RevisionsBehind /\ Follows
  BY DEF OwnerInductive
<1>1. PICK n \in OwnerNodes, found \in [OwnerPaths -> OwnedIPs \cup {0}] :
        \E s \in Selections(Reports(n, found)) :
            /\ ownership' = Increment([Reports(n, found) EXCEPT !.selected = s],
                                      Affected(ownership.selected, s))
            /\ \A m \in OwnerNodes : ownership'.revision[m] <= MaxOwnerRevisions
            /\ overtaken' = {a \in overtaken :
                 s[a] # NoPath /\ ownership'.revision[NodeOf(s[a])] = ownership.revision[NodeOf(s[a])]}
  BY DEF ReconcilePublicAddresses
<1>2. PICK s \in Selections(Reports(n, found)) :
            /\ ownership' = Increment([Reports(n, found) EXCEPT !.selected = s],
                                      Affected(ownership.selected, s))
            /\ \A m \in OwnerNodes : ownership'.revision[m] <= MaxOwnerRevisions
            /\ overtaken' = {a \in overtaken :
                 s[a] # NoPath /\ ownership'.revision[NodeOf(s[a])] = ownership.revision[NodeOf(s[a])]}
  BY <1>1
<1>3. UNCHANGED <<switching, assembling, targeting, switches>>
  BY DEF ReconcilePublicAddresses
<1> DEFINE o == [Reports(n, found) EXCEPT !.selected = s]
           ns == Affected(ownership.selected, s)
<1>4. /\ o \in [at : [OwnerPaths -> OwnedIPs \cup {0}], available : SUBSET OwnerPaths,
                selected : [OwnedIPs -> Path], enabled : SUBSET OwnedIPs,
                revision : [OwnerNodes -> Revision]]
      /\ o.revision = ownership.revision /\ o.enabled = ownership.enabled /\ o.selected = s
      /\ \A a \in OwnedIPs : IF Serving(o, a) = {} THEN s[a] = NoPath ELSE s[a] \in Serving(o, a)
  BY ReportsTypes
<1>5. ownership' = Increment(o, ns)
  BY <1>2
<1> HIDE DEF o
<1>6. /\ OwnershipOK'
      /\ ownership'.selected = s /\ ownership'.enabled = ownership.enabled
      /\ ownership'.at = o.at /\ ownership'.available = o.available
      /\ \A m \in OwnerNodes :
            ownership'.revision[m] = IF m \in ns THEN ownership.revision[m] + 1 ELSE ownership.revision[m]
  BY <1>2, <1>4, <1>5, IncrementRevisions
<1>7. \A a : Serving(ownership, a)' = Serving(o, a)
  BY <1>6 DEF Serving
<1>8. SelectedServes'
  BY <1>4, <1>6, <1>7 DEF SelectedServes
<1>9. SwitchingOK' /\ AssemblingOK' /\ TargetingOK'
  BY <1>2, <1>3 DEF SwitchingOK, AssemblingOK, TargetingOK
<1>10. \A m \in OwnerNodes : /\ ownership.revision[m] \in Nat /\ ownership'.revision[m] >= ownership.revision[m]
                             /\ targeting[m].revision \in Nat /\ assembling[m].revision \in Nat
  BY <1>6 DEF OwnershipOK, TargetingOK, AssemblingOK, Revision
<1>11. RevisionsBehind'
  BY <1>3, <1>6, <1>10 DEF RevisionsBehind, OwnershipOK, Revision
<1>12. ASSUME NEW m \in OwnerNodes, targeting'[m].revision = ownership'.revision[m]
       PROVE  Matches(m)' /\ Settings(m)'
  <2>1. m \notin ns /\ targeting[m].revision = ownership.revision[m]
    BY <1>3, <1>6, <1>10, <1>12 DEF RevisionsBehind
  <2>2. Matches(m) /\ Settings(m)
    BY <2>1 DEF Follows
  <2>3. ownership.selected \in [OwnedIPs -> Path] /\ s \in [OwnedIPs -> Path]
    BY <1>4 DEF OwnershipOK
  <2>4. ASSUME NEW a \in OwnedIPs,
               \/ ownership.selected[a] # NoPath /\ NodeOf(ownership.selected[a]) = m
               \/ s[a] # NoPath /\ NodeOf(s[a]) = m
        PROVE  ownership.selected[a] = s[a]
    BY <2>1, <2>3, <2>4, UnaffectedKeeps
  <2>5. \A t \in targeting[m].targets : t.ip \in OwnedIPs /\ t.path \in OwnerPaths /\ t.path # NoPath
    BY OwnerAssumption DEF TargetingOK, Target, OwnerPaths, NoPath
  <2>6. \A t \in targeting[m].targets : s[t.ip] = t.path /\ NodeOf(t.path) = m
    BY <2>2, <2>4, <2>5 DEF Matches
  <2>7. Matches(m)'
    BY <1>3, <1>6, <2>2, <2>4, <2>6 DEF Matches
  <2>8. ownership'.revision[m] = ownership.revision[m]
    BY <1>6, <2>1
  <2>9. \A t \in targeting[m].targets : t.ip \in overtaken => t.ip \in overtaken'
    BY <1>2, <2>5, <2>6, <2>8
  <2> QED
    BY <1>3, <1>6, <2>2, <2>7, <2>9 DEF Settings
<1>13. Follows'
  BY <1>12 DEF Follows
<1> QED
  BY <1>6, <1>8, <1>9, <1>11, <1>13 DEF OwnerInductive

\* A request of the administrator.
LEMMA SwitchInductive ==
  OwnerInductive /\ (ReadPublicAddress \/ SetProbeSettings \/ IncrementRevision \/ AbandonSwitch)
    => OwnerInductive'
<1> SUFFICES ASSUME OwnerInductive,
                    ReadPublicAddress \/ SetProbeSettings \/ IncrementRevision \/ AbandonSwitch
             PROVE  OwnerInductive'
  OBVIOUS
<1> OwnershipOK /\ SelectedServes /\ SwitchingOK /\ AssemblingOK /\ TargetingOK /\ RevisionsBehind /\ Follows
  BY DEF OwnerInductive
<1>1. UNCHANGED <<assembling, targeting>>
  BY DEF ReadPublicAddress, SetProbeSettings, IncrementRevision, AbandonSwitch
<1>2. AssemblingOK' /\ TargetingOK'
  BY <1>1 DEF AssemblingOK, TargetingOK
<1>3. NoPath \in Path /\ NoSwitch.step = "none" /\ NoSwitch.ip = 0
      /\ NoSwitch \in [ip : OwnedIPs \cup {0}, path : Path, step : {"none", "read", "set"}]
  BY DEF NoSwitch, Path
<1>4. CASE ReadPublicAddress
  <2>1. PICK a \in OwnedIPs : switching' = [ip |-> a, path |-> ownership.selected[a], step |-> "read"]
    BY <1>4 DEF ReadPublicAddress
  <2>2. SwitchingOK'
    BY <1>4, <2>1, OwnerAssumption DEF ReadPublicAddress, SwitchingOK, OwnershipOK
  <2>3. UNCHANGED <<ownership, overtaken>> /\ switching.step # "set"
    BY <1>3, <1>4 DEF ReadPublicAddress
  <2>4. OwnershipOK' /\ SelectedServes' /\ RevisionsBehind'
    BY <1>1, <2>3 DEF OwnershipOK, SelectedServes, Serving, RevisionsBehind
  <2>5. Follows'
    BY <1>1, <2>3 DEF Follows, Matches, Settings
  <2> QED
    BY <1>2, <2>2, <2>4, <2>5 DEF OwnerInductive
<1>5. CASE SetProbeSettings
  <2>1. ownership' = [ownership EXCEPT !.enabled = ownership'.enabled]
        /\ ownership'.enabled \in SUBSET OwnedIPs
        /\ \A a \in OwnedIPs : a # switching.ip => (a \in ownership'.enabled <=> a \in ownership.enabled)
    BY <1>5 DEF SetProbeSettings, OwnershipOK, SwitchingOK
  <2>2. switching' = [switching EXCEPT !.step = "set"] /\ UNCHANGED <<switches, overtaken>>
        /\ switching.step = "read"
    BY <1>5 DEF SetProbeSettings
  <2>3. /\ OwnershipOK' /\ ownership'.at = ownership.at /\ ownership'.available = ownership.available
        /\ ownership'.selected = ownership.selected /\ ownership'.revision = ownership.revision
    BY <2>1 DEF OwnershipOK
  <2>4. SelectedServes' /\ RevisionsBehind'
    BY <1>1, <2>3 DEF SelectedServes, Serving, RevisionsBehind
  <2>5. SwitchingOK' /\ switching'.ip = switching.ip /\ switching'.step = "set"
    BY <2>2 DEF SwitchingOK
  <2>6. ASSUME NEW m \in OwnerNodes, targeting'[m].revision = ownership'.revision[m]
        PROVE  Matches(m)' /\ Settings(m)'
    <3>1. Matches(m) /\ Settings(m)
      BY <1>1, <2>3, <2>6 DEF Follows
    <3>2. \A t \in targeting[m].targets : t.ip \in OwnedIPs
      BY DEF TargetingOK, Target
    <3>3. Matches(m)'
      BY <1>1, <2>3, <3>1 DEF Matches
    <3>4. Settings(m)'
      BY <1>1, <2>1, <2>2, <2>5, <3>1, <3>2 DEF Settings
    <3> QED
      BY <3>3, <3>4
  <2>7. Follows'
    BY <2>6 DEF Follows
  <2> QED
    BY <1>2, <2>3, <2>4, <2>5, <2>7 DEF OwnerInductive
<1>6. CASE IncrementRevision
  <2> DEFINE ip == switching.ip
             ns == Told(switching)
  <2>1. /\ ownership' = Increment(ownership, ns)
        /\ \A m \in OwnerNodes : ownership'.revision[m] <= MaxOwnerRevisions
        /\ overtaken' = IF ownership.selected[ip] = switching.path
                        THEN overtaken \ {ip} ELSE overtaken \cup {ip}
        /\ switching' = NoSwitch /\ switching.step = "set" /\ UNCHANGED switches
    BY <1>6 DEF IncrementRevision
  <2>2. /\ OwnershipOK'
        /\ ownership'.selected = ownership.selected /\ ownership'.enabled = ownership.enabled
        /\ ownership'.at = ownership.at /\ ownership'.available = ownership.available
        /\ \A m \in OwnerNodes :
              ownership'.revision[m] = IF m \in ns THEN ownership.revision[m] + 1 ELSE ownership.revision[m]
    BY <2>1, IncrementRevisions DEF OwnershipOK
  <2>3. SelectedServes'
    BY <2>2 DEF SelectedServes, Serving
  <2>4. ip \in OwnedIPs
    BY <2>1 DEF SwitchingOK
  <2>5. SwitchingOK'
    BY <1>3, <2>1, <2>4 DEF SwitchingOK
  <2>6. \A m \in OwnerNodes : /\ ownership.revision[m] \in Nat /\ ownership'.revision[m] >= ownership.revision[m]
                              /\ targeting[m].revision \in Nat /\ assembling[m].revision \in Nat
    BY <2>2 DEF OwnershipOK, TargetingOK, AssemblingOK, Revision
  <2>7. RevisionsBehind'
    BY <1>1, <2>2, <2>6 DEF RevisionsBehind, OwnershipOK, Revision
  <2>8. ASSUME NEW m \in OwnerNodes, targeting'[m].revision = ownership'.revision[m]
        PROVE  Matches(m)' /\ Settings(m)'
    <3>1. m \notin ns /\ targeting[m].revision = ownership.revision[m]
      BY <1>1, <2>2, <2>6, <2>8 DEF RevisionsBehind
    <3>2. Matches(m) /\ Settings(m)
      BY <3>1 DEF Follows
    <3>3. Matches(m)'
      BY <1>1, <2>2, <3>2 DEF Matches
    <3>4. \A t \in targeting[m].targets : t.path # NoPath
      BY OwnerAssumption DEF TargetingOK, Target, OwnerPaths, NoPath
    <3>5. ASSUME NEW t \in targeting[m].targets, t.ip = ip
          PROVE  t.ip \in overtaken'
      <4>1. ownership.selected[ip] = t.path /\ NodeOf(t.path) = m /\ t.path # NoPath
        BY <3>2, <3>4, <3>5 DEF Matches
      <4>2. ownership.selected[ip] # switching.path
        BY <3>1, <4>1 DEF Told
      <4> QED
        BY <2>1, <3>5, <4>2
    <3>6. \A t \in targeting[m].targets : t.ip # ip /\ t.ip \in overtaken => t.ip \in overtaken'
      BY <2>1
    <3>7. Settings(m)'
      BY <1>1, <2>2, <3>2, <3>5, <3>6 DEF Settings
    <3> QED
      BY <3>3, <3>7
  <2>9. Follows'
    BY <2>8 DEF Follows
  <2> QED
    BY <1>2, <2>2, <2>3, <2>5, <2>7, <2>9 DEF OwnerInductive
<1>7. CASE AbandonSwitch
  <2>1. /\ UNCHANGED <<ownership, switches>> /\ switching' = NoSwitch
        /\ overtaken' = IF switching.step = "set" THEN overtaken \cup {switching.ip} ELSE overtaken
    BY <1>7 DEF AbandonSwitch
  <2>2. OwnershipOK' /\ SelectedServes' /\ RevisionsBehind'
    BY <1>1, <2>1 DEF OwnershipOK, SelectedServes, Serving, RevisionsBehind
  <2>3. SwitchingOK'
    BY <1>3, <2>1 DEF SwitchingOK
  <2>4. Follows'
    BY <1>1, <2>1 DEF Follows, Matches, Settings
  <2> QED
    BY <1>2, <2>2, <2>3, <2>4 DEF OwnerInductive
<1> QED
  BY <1>4, <1>5, <1>6, <1>7

\* A configuration: the revision first, the targets later.
LEMMA ConfigureInductive ==
  OwnerInductive /\ (ReadOwnerRevision \/ ApplyTargets) => OwnerInductive'
<1> SUFFICES ASSUME OwnerInductive, ReadOwnerRevision \/ ApplyTargets PROVE OwnerInductive'
  OBVIOUS
<1> OwnershipOK /\ SelectedServes /\ SwitchingOK /\ AssemblingOK /\ TargetingOK /\ RevisionsBehind /\ Follows
  BY DEF OwnerInductive
<1>1. UNCHANGED <<ownership, switching, switches, overtaken>>
  BY DEF ReadOwnerRevision, ApplyTargets
<1>2. OwnershipOK' /\ SelectedServes' /\ SwitchingOK'
  BY <1>1 DEF OwnershipOK, SelectedServes, Serving, SwitchingOK
<1>3. CASE ReadOwnerRevision
  <2>1. PICK n \in OwnerNodes : assembling' = [assembling EXCEPT ![n].revision = ownership.revision[n]]
    BY <1>3 DEF ReadOwnerRevision
  <2>2. ownership.revision[n] \in Revision
    BY DEF OwnershipOK
  <2>3. AssemblingOK'
    BY <2>1, <2>2 DEF AssemblingOK
  <2>4. UNCHANGED targeting
    BY <1>3 DEF ReadOwnerRevision
  <2>5. \A m \in OwnerNodes : assembling'[m].revision \in {assembling[m].revision, ownership.revision[m]}
    BY <2>1 DEF AssemblingOK
  <2>6. RevisionsBehind'
    BY <1>1, <2>4, <2>5 DEF RevisionsBehind, OwnershipOK, Revision
  <2>7. TargetingOK' /\ Follows'
    BY <1>1, <2>4 DEF TargetingOK, Follows, Matches, Settings
  <2> QED
    BY <1>2, <2>3, <2>6, <2>7 DEF OwnerInductive
<1>4. CASE ApplyTargets
  <2>1. PICK n \in OwnerNodes :
          /\ targeting' = [targeting EXCEPT ![n] = [assembling[n] EXCEPT !.targets = TargetsOf(n)]]
          /\ assembling' = [assembling EXCEPT ![n] = NoTargets]
    BY <1>4 DEF ApplyTargets
  <2>2. TargetsOf(n) \in SUBSET Target
    <3>1. ASSUME NEW a \in OwnedIPs, ownership.selected[a] # NoPath
          PROVE  [ip |-> a, path |-> ownership.selected[a], enabled |-> a \in ownership.enabled] \in Target
      <4>1. ownership.selected[a] \in OwnerPaths /\ (a \in ownership.enabled) \in BOOLEAN
        BY <3>1 DEF OwnershipOK, Path
      <4> QED
        BY <4>1, Zenon DEF Target
    <3> QED
      BY <3>1 DEF TargetsOf
  <2>3. [assembling[n] EXCEPT !.targets = TargetsOf(n)] \in [revision : Revision, targets : SUBSET Target]
        /\ [assembling[n] EXCEPT !.targets = TargetsOf(n)].revision = assembling[n].revision
        /\ [assembling[n] EXCEPT !.targets = TargetsOf(n)].targets = TargetsOf(n)
    BY <2>2 DEF AssemblingOK
  <2>4. TargetingOK'
    BY <2>1, <2>3 DEF TargetingOK
  <2>5. AssemblingOK'
    BY <2>1, OwnerAssumption DEF AssemblingOK, NoTargets, Revision
  <2>6. /\ \A m \in OwnerNodes \ {n} : targeting'[m] = targeting[m] /\ assembling'[m] = assembling[m]
        /\ targeting'[n].revision = assembling[n].revision /\ targeting'[n].targets = TargetsOf(n)
        /\ assembling'[n].revision = 0
    BY <2>1, <2>3 DEF TargetingOK, AssemblingOK, NoTargets
  <2>7. RevisionsBehind'
    BY <1>1, <2>6 DEF RevisionsBehind, OwnershipOK, Revision
  <2>8. ASSUME NEW m \in OwnerNodes \ {n} PROVE targeting'[m].revision = ownership'.revision[m]
                                                  => Matches(m)' /\ Settings(m)'
    BY <1>1, <2>6 DEF Follows, Matches, Settings
  <2>9. Matches(n)' /\ Settings(n)'
    <3>1. ASSUME NEW t \in TargetsOf(n)
          PROVE  /\ ownership.selected[t.ip] = t.path /\ NodeOf(t.path) = n
                 /\ t.enabled <=> t.ip \in ownership.enabled
      <4>1. PICK a \in OwnedIPs :
              /\ NodeOf(ownership.selected[a]) = n
              /\ t = [ip |-> a, path |-> ownership.selected[a], enabled |-> a \in ownership.enabled]
        BY DEF TargetsOf
      <4>2. t.ip = a /\ t.path = ownership.selected[a]
        BY <4>1
      <4>3. t.enabled = (a \in ownership.enabled)
        BY <4>1, Zenon
      <4> QED
        BY <4>1, <4>2, <4>3, Zenon
    <3>2. ASSUME NEW a \in OwnedIPs, ownership.selected[a] # NoPath, NodeOf(ownership.selected[a]) = n
          PROVE  \E t \in TargetsOf(n) : t.ip = a /\ t.path = ownership.selected[a]
      <4>1. [ip |-> a, path |-> ownership.selected[a], enabled |-> a \in ownership.enabled] \in TargetsOf(n)
        BY <3>2 DEF TargetsOf
      <4> QED
        BY <4>1
    <3> QED
      BY <1>1, <2>6, <3>1, <3>2 DEF Matches, Settings
  <2>10. Follows'
    BY <2>8, <2>9 DEF Follows
  <2> QED
    BY <1>2, <2>4, <2>5, <2>7, <2>10 DEF OwnerInductive
<1> QED
  BY <1>3, <1>4

LEMMA AlwaysOwner == OwnerSpec => []OwnerInductive
<1>1. OwnerInductive /\ [OwnerNext]_ownerVars => OwnerInductive'
  <2> SUFFICES ASSUME OwnerInductive, UNCHANGED ownerVars PROVE OwnerInductive'
    BY ReconcileInductive, SwitchInductive, ConfigureInductive DEF OwnerNext
  <2> QED
    BY DEF ownerVars, OwnerInductive, OwnershipOK, SelectedServes, Serving, SwitchingOK, AssemblingOK,
           TargetingOK, RevisionsBehind, Follows, Matches, Settings
<1> QED
  BY <1>1, InitOwner, PTL DEF OwnerSpec

\* The types, and with them: of every address with an available path exactly one is
\* selected, which leads to it (reconcilePublicAddresses).
THEOREM OwnerTypeCorrect == OwnerSpec => []OwnerTypeOK
<1>1. OwnerInductive => OwnerTypeOK
  BY DEF OwnerInductive, OwnershipOK, SelectedServes, SwitchingOK, AssemblingOK, TargetingOK, OwnerTypeOK
<1> QED
  BY <1>1, AlwaysOwner, PTL

LEMMA FollowsTargets == OwnerInductive => TargetsFollow
<1> SUFFICES ASSUME OwnerInductive, NEW n \in OwnerNodes,
                    targeting[n].revision = ownership.revision[n]
             PROVE  /\ {[ip |-> t.ip, path |-> t.path] : t \in targeting[n].targets}
                         = {[ip |-> t.ip, path |-> t.path] : t \in TargetsOf(n)}
                    /\ Settings(n)
  BY DEF TargetsFollow, Settings
<1>1. Matches(n) /\ Settings(n) /\ TargetingOK
  BY DEF OwnerInductive, Follows
<1>2. \A t \in targeting[n].targets : t.ip \in OwnedIPs /\ t.path # NoPath
  BY <1>1, OwnerAssumption DEF TargetingOK, Target, OwnerPaths, NoPath
<1>3. ASSUME NEW t \in targeting[n].targets
      PROVE  \E u \in TargetsOf(n) : u.ip = t.ip /\ u.path = t.path
  <2>1. ownership.selected[t.ip] = t.path /\ NodeOf(t.path) = n /\ t.ip \in OwnedIPs /\ t.path # NoPath
    BY <1>1, <1>2 DEF Matches
  <2>2. [ip |-> t.ip, path |-> t.path, enabled |-> t.ip \in ownership.enabled] \in TargetsOf(n)
    BY <2>1 DEF TargetsOf
  <2> QED
    BY <2>2
<1>4. ASSUME NEW u \in TargetsOf(n)
      PROVE  \E t \in targeting[n].targets : u.ip = t.ip /\ u.path = t.path
  <2>1. /\ u.ip \in OwnedIPs /\ u.path = ownership.selected[u.ip]
        /\ u.path # NoPath /\ NodeOf(u.path) = n
    BY DEF TargetsOf
  <2> QED
    BY <1>1, <2>1 DEF Matches
<1> QED
  BY <1>1, <1>3, <1>4

\* An Agent at its node's revision probes what the Center selected for it, with the
\* settings of each address but in the window TargetsFollow names.
THEOREM AgentsFollowSelection == OwnerSpec => []TargetsFollow
BY FollowsTargets, AlwaysOwner, PTL

-----------------------------------------------------------------------------
(* Deletion of a node                                                      *)

\* The row and the operation go together: access has ended before the worker starts.
RowAndOperation ==
    /\ node = "gone" <=> operation = "completed"
    /\ operation \in {"pending", "failed"} => node = "revoked"
    /\ worker = "history-deleted" => operation = "pending"

\* Between the two commits of the worker only an overtaking poll stores rows.
ClearedBetween == worker = "history-deleted" => nodeHistory = {} \/ overtook

DeletionInductive == DeletionTypeOK /\ RowAndOperation /\ ClearedBetween /\ DeletedNodeIsGone

LEMMA InitDeletion == DeletionInit => DeletionInductive
<1> SUFFICES ASSUME DeletionInit PROVE DeletionInductive
  OBVIOUS
<1>1. DeletionTypeOK
  <2>1. deletionStops \in 0 .. MaxDeletionStops
    BY DeletionAssumption DEF DeletionInit
  <2>2. polling \in [Polls -> {"none", "heartbeat", "answered", "failed", "revoked"}]
    BY DEF DeletionInit
  <2> QED
    BY <2>1, <2>2 DEF DeletionInit, DeletionTypeOK
<1> QED
  BY <1>1 DEF DeletionInit, DeletionInductive, RowAndOperation, ClearedBetween, DeletedNodeIsGone

LEMMA NextDeletion == DeletionInductive /\ [DeletionNext]_deletionVars => DeletionInductive'
<1> SUFFICES ASSUME DeletionInductive, [DeletionNext]_deletionVars PROVE DeletionInductive'
  OBVIOUS
<1> USE DeletionAssumption
        DEF DeletionInductive, DeletionTypeOK, RowAndOperation, ClearedBetween, DeletedNodeIsGone
<1>1. CASE \E p \in Polls : BeginPoll(p)
  <2>1. PICK p \in Polls : BeginPoll(p)
    BY <1>1
  <2>2. PollAnswer \in {"none", "heartbeat", "answered", "failed", "revoked"}
    BY DEF PollAnswer
  <2> QED
    BY <2>1, <2>2 DEF BeginPoll
<1>2. CASE \E p \in Polls : IngestAddresses(p)
  <2>1. PICK p \in Polls : IngestAddresses(p)
    BY <1>2
  <2>2. nodeHistory' \subseteq Tables /\ polling' \in [Polls -> {"none", "heartbeat", "answered", "failed", "revoked"}]
    BY <2>1 DEF IngestAddresses, Ingested
  <2>3. CASE node = "gone"
    BY <2>1, <2>2, <2>3 DEF IngestAddresses, Ingested
  <2>4. CASE node # "gone"
    BY <2>1, <2>2, <2>4 DEF IngestAddresses
  <2> QED
    BY <2>3, <2>4
<1>3. CASE RevokeNode
  BY <1>3 DEF RevokeNode
<1>4. CASE DeleteNode
  BY <1>4 DEF DeleteNode, Deleted
<1>5. CASE DeleteHistory
  BY <1>5 DEF DeleteHistory
<1>6. CASE DeleteRow
  BY <1>6 DEF DeleteRow, MayDeleteRow
<1>7. CASE FailDeletion
  BY <1>7 DEF FailDeletion
<1>8. CASE StopDeleting
  BY <1>8 DEF StopDeleting
<1>9. CASE UNCHANGED deletionVars
  BY <1>9 DEF deletionVars
<1> QED
  BY <1>1, <1>2, <1>3, <1>4, <1>5, <1>6, <1>7, <1>8, <1>9 DEF DeletionNext

\* What a node deleted over both databases leaves in history.db: nothing, or the rows
\* of a poll that was past its heartbeat when access ended.
THEOREM DeletedNodesAreGone == DeletionSpec => []DeletedNodeIsGone
BY InitDeletion, NextDeletion, PTL DEF DeletionSpec, DeletionInductive
=============================================================================
