------------------------- MODULE NotificationOutbox -------------------------
(***************************************************************************)
(* Notifications of the Center (src/internal/center/notifications): events  *)
(* stored with the history, the loop that turns them into deliveries by the *)
(* enabled rules, the workers that claim, send and settle a delivery, the   *)
(* administrator's senders and rules, and the retention and reset of the    *)
(* history that hold the same rows.                                         *)
(*                                                                          *)
(* processMu is held over several statements in two databases, so what its  *)
(* holder has read is part of the state.  A delivery is named by its event  *)
(* and its sender (UNIQUE(event_id, sender_id), and its id is derived from  *)
(* both).  A sender has one rule; Selected says which events it selects.    *)
(* Contents, times and the two kinds of fixed sender are left out.          *)
(***************************************************************************)
EXTENDS Naturals, FiniteSets

CONSTANTS
    Events,         \* durable events, and events of test deliveries
    Senders,        \* notification senders; an id is never used twice
    JavaScript,     \* the senders of the JavaScript worker
    Selected,       \* pairs <<event, sender>>: filterEventForRule
    MaxActive,      \* maximumActiveDeliveriesPerSender, small
    MaxAttempts,    \* maximumAttempts
    FixedWorkers,   \* fixedWorkers
    MaxCenterStops, \* bound on stops of the Center
    MaxRuleEdits    \* bound on changes of senders and rules

ASSUME OutboxAssumption ==
    /\ JavaScript \subseteq Senders /\ Selected \subseteq Events \X Senders
    /\ MaxActive \in Nat /\ MaxAttempts \in Nat \ {0} /\ FixedWorkers \in Nat \ {0}
    /\ MaxCenterStops \in Nat /\ MaxRuleEdits \in Nat

VARIABLES
    senders,      \* config.db: "new", "enabled", "disabled" or "deleted"
    rules,        \* config.db: the rule of a sender, "none", "off" or "on"
    events,       \* history.db: "none", "pending", "processed" or "cleared"
    deliveries,   \* history.db: the row of each event and sender
    processing,   \* the holder of processMu and what it has read, or Idle
    workers,      \* deliveries in the hands of a worker, and what became of them
    received,     \* what the destination has seen of the present row of a delivery
    centerRuns,   \* the Center is running
    outboxCounts  \* stops of the Center and changes of the configuration

outboxVars == <<senders, rules, events, deliveries, processing, workers, received, centerRuns, outboxCounts>>

Deliveries == Events \X Senders
Idle == [op |-> "idle", events |-> {}, senders |-> {}]
NoDelivery == [status |-> "none", attempts |-> 0]
Unseen == [sent |-> 0, accepted |-> FALSE]

ActiveDelivery(d) == deliveries[d].status \in {"pending", "running", "retrying"}
ActiveOf(s) == Cardinality({e \in Events : ActiveDelivery(<<e, s>>)})

OutboxInit ==
    /\ senders \in [Senders -> {"new", "enabled"}]
    /\ rules = [s \in Senders |-> IF senders[s] = "new" THEN "none" ELSE "on"]
    /\ events = [e \in Events |-> "none"]
    /\ deliveries = [d \in Deliveries |-> NoDelivery]
    /\ processing = Idle /\ workers = {}
    /\ received = [d \in Deliveries |-> Unseen]
    /\ centerRuns = TRUE
    /\ outboxCounts = [stops |-> 0, edits |-> 0]

-----------------------------------------------------------------------------
(* Events and the loop over them                                           *)

\* CreateEvent, in the transaction of an upload; an upload repeated after the retention
\* removed the event stores it again.
RecordEvent(e) ==
    /\ centerRuns /\ events[e] = "none"
    /\ events' = [events EXCEPT ![e] = "pending"]
    /\ UNCHANGED <<senders, rules, deliveries, processing, workers, received, centerRuns, outboxCounts>>

\* processPendingEvents: takes processMu, reads the pending events and the enabled rules.
ReadRules ==
    /\ centerRuns /\ processing = Idle
    /\ \E e \in Events : events[e] = "pending"
    /\ processing' = [op |-> "events",
                      events |-> {e \in Events : events[e] = "pending"},
                      senders |-> {s \in Senders : rules[s] = "on" /\ senders[s] = "enabled"}]
    /\ UNCHANGED <<senders, rules, events, deliveries, workers, received, centerRuns, outboxCounts>>

\* The row of a new delivery; a full queue makes it a failure at once.
FaultyNewDelivery(s) == [status |-> "pending", attempts |-> 0]   \* no limit

NewDelivery(s) ==
    [status |-> IF ActiveOf(s) >= MaxActive THEN "failed" ELSE "pending", attempts |-> 0]

\* processEvent, one transaction: a delivery for each matching sender, and the mark.  An
\* event that is gone ends the batch with an error.
ProcessEvent(e) ==
    /\ centerRuns /\ processing.op = "events" /\ e \in processing.events
    /\ IF events[e] = "pending"
       THEN /\ events' = [events EXCEPT ![e] = "processed"]
            /\ deliveries' = [d \in Deliveries |->
                   IF /\ d[1] = e /\ d[2] \in processing.senders /\ d \in Selected
                      /\ deliveries[d] = NoDelivery
                   THEN NewDelivery(d[2]) ELSE deliveries[d]]
       ELSE UNCHANGED <<events, deliveries>>
    /\ processing' =
           IF events[e] \notin {"pending", "processed"} \/ processing.events = {e} THEN Idle
           ELSE [processing EXCEPT !.events = @ \ {e}]
    /\ UNCHANGED <<senders, rules, workers, received, centerRuns, outboxCounts>>

-----------------------------------------------------------------------------
(* Workers                                                                 *)

FreeWorker(s) ==
    IF s \in JavaScript THEN \A w \in workers : w.delivery[2] \notin JavaScript
    ELSE Cardinality({w \in workers : w.delivery[2] \notin JavaScript}) < FixedWorkers

\* ClaimNotificationDelivery, once the delivery is due.
Claimed(r) == [status |-> "running", attempts |-> r.attempts + 1]

Claim(d) ==
    /\ centerRuns /\ FreeWorker(d[2])
    /\ deliveries[d].status \in {"pending", "retrying"} /\ deliveries[d].attempts < MaxAttempts
    /\ deliveries' = [deliveries EXCEPT ![d] = Claimed(@)]
    /\ workers' = workers \cup {[delivery |-> d, outcome |-> "claimed"]}
    /\ UNCHANGED <<senders, rules, events, processing, received, centerRuns, outboxCounts>>

\* dispatch: looks the sender up, then sends.  After a time-out the destination may have
\* accepted the message all the same.
Dispatch(d) ==
    LET claimed == [delivery |-> d, outcome |-> "claimed"] IN
    /\ centerRuns /\ claimed \in workers
    /\ \E outcome \in IF senders[d[2]] = "enabled" THEN {"sent", "retryable", "refused"} ELSE {"refused"},
          accepted \in BOOLEAN :
           /\ outcome = "sent" => accepted
           /\ outcome = "refused" => ~accepted
           /\ workers' = (workers \ {claimed}) \cup {[claimed EXCEPT !.outcome = outcome]}
           /\ received' = IF senders[d[2]] # "enabled" \/ deliveries[d].status # "running" THEN received
                          ELSE [received EXCEPT ![d] = [sent |-> @.sent + 1, accepted |-> @.accepted \/ accepted]]
    /\ UNCHANGED <<senders, rules, events, deliveries, processing, centerRuns, outboxCounts>>

\* The last statement of processOneDelivery: complete, retry or fail a row that is still
\* running; one that was cleared meanwhile is left alone.
Settled(r, outcome) ==
    [r EXCEPT !.status = CASE outcome = "sent" -> "succeeded"
                           [] outcome = "retryable" /\ r.attempts < MaxAttempts -> "retrying"
                           [] OTHER -> "failed"]

Settle(w) ==
    /\ centerRuns /\ w \in workers /\ w.outcome # "claimed"
    /\ deliveries' = IF deliveries[w.delivery].status = "running"
                     THEN [deliveries EXCEPT ![w.delivery] = Settled(@, w.outcome)] ELSE deliveries
    /\ workers' = workers \ {w}
    /\ UNCHANGED <<senders, rules, events, processing, received, centerRuns, outboxCounts>>

-----------------------------------------------------------------------------
(* The administrator                                                       *)

Edited == [outboxCounts EXCEPT !.edits = @ + 1]
MayEdit == centerRuns /\ outboxCounts.edits < MaxRuleEdits

\* CreateSender and UpdateSender, without processMu.
EditSender(s, value) ==
    /\ MayEdit /\ outboxCounts' = Edited
    /\ senders[s] # "deleted" /\ senders' = [senders EXCEPT ![s] = value]
    /\ UNCHANGED <<rules, events, deliveries, processing, workers, received, centerRuns>>

\* CreateRule, UpdateRule and DeleteRule, without processMu; a rule needs its sender.
EditRule(s, value) ==
    /\ MayEdit /\ outboxCounts' = Edited
    /\ value = "none" \/ senders[s] \in {"enabled", "disabled"}
    /\ rules' = [rules EXCEPT ![s] = value]
    /\ UNCHANGED <<senders, events, deliveries, processing, workers, received, centerRuns>>

\* CreateTestDelivery reads the sender under processMu ...
BeginTest(s) ==
    /\ MayEdit /\ outboxCounts' = Edited
    /\ processing = Idle /\ senders[s] \in {"enabled", "disabled"}
    /\ processing' = [op |-> "test", events |-> {}, senders |-> {s}]
    /\ UNCHANGED <<senders, rules, events, deliveries, workers, received, centerRuns>>

\* ... and stores an event of its own, processed, with its delivery.
StoreTest(e) ==
    /\ centerRuns /\ processing.op = "test" /\ events[e] = "none"
    /\ events' = [events EXCEPT ![e] = "processed"]
    /\ deliveries' = [d \in Deliveries |-> IF d[1] = e /\ d[2] \in processing.senders
                                           THEN NewDelivery(d[2]) ELSE deliveries[d]]
    /\ processing' = Idle
    /\ UNCHANGED <<senders, rules, workers, received, centerRuns, outboxCounts>>

\* DeleteSender counts the active deliveries in history.db, under processMu ...
MayDelete(s) ==
    /\ processing = Idle
    /\ senders[s] \in {"enabled", "disabled"} /\ ActiveOf(s) = 0

BeginDelete(s) ==
    /\ MayEdit /\ outboxCounts' = Edited
    /\ MayDelete(s)
    /\ processing' = [op |-> "delete", events |-> {}, senders |-> {s}]
    /\ UNCHANGED <<senders, rules, events, deliveries, workers, received, centerRuns>>

\* ... and deletes the sender from config.db, unless a rule uses it.
DeleteSender ==
    /\ centerRuns /\ processing.op = "delete"
    /\ senders' = [s \in Senders |-> IF s \in processing.senders /\ rules[s] = "none"
                                     THEN "deleted" ELSE senders[s]]
    /\ processing' = Idle
    /\ UNCHANGED <<rules, events, deliveries, workers, received, centerRuns, outboxCounts>>

\* The administrator's request is cancelled, or a statement of it fails.
AbandonRequest ==
    /\ centerRuns /\ processing.op \in {"test", "delete"} /\ processing' = Idle
    /\ UNCHANGED <<senders, rules, events, deliveries, workers, received, centerRuns, outboxCounts>>

-----------------------------------------------------------------------------
(* History and process                                                     *)

Without(gone) == [d \in Deliveries |-> IF d[1] \in gone THEN NoDelivery ELSE deliveries[d]]
Forget(gone) == [d \in Deliveries |-> IF d[1] \in gone THEN Unseen ELSE received[d]]

\* DeleteRetentionNotificationEvent.
FaultyPrunable(e) ==   \* what waits for a retry is not seen as work
    events[e] = "processed" /\ \A s \in Senders : deliveries[<<e, s>>].status \notin {"pending", "running"}

Prunable(e) == events[e] = "processed" /\ \A s \in Senders : ~ActiveDelivery(<<e, s>>)

PruneEvent(e) ==
    /\ centerRuns /\ Prunable(e)
    /\ events' = [events EXCEPT ![e] = "none"]
    /\ deliveries' = Without({e}) /\ received' = Forget({e})
    /\ UNCHANGED <<senders, rules, processing, workers, centerRuns, outboxCounts>>

\* ResetHistory (all events) and deleteNodeHistory (the address gaps of a node) remove
\* events with their deliveries, whatever a worker does with them.  Their sources
\* belong to an old generation or a deleted node and do not come back.
ClearEvents(gone) ==
    /\ MayEdit /\ outboxCounts' = Edited
    /\ events' = [e \in Events |-> IF e \in gone THEN "cleared" ELSE events[e]]
    /\ deliveries' = Without(gone) /\ received' = Forget(gone)
    /\ UNCHANGED <<senders, rules, processing, workers, centerRuns>>

StopNotifications ==
    /\ centerRuns /\ outboxCounts.stops < MaxCenterStops
    /\ centerRuns' = FALSE /\ processing' = Idle /\ workers' = {}
    /\ outboxCounts' = [outboxCounts EXCEPT !.stops = @ + 1]
    /\ UNCHANGED <<senders, rules, events, deliveries, received>>

\* RecoverRunningNotificationDeliveries, before any loop starts.
FaultyUnrecovered(r) == r   \* leaves what the stop interrupted

Recovered(r) ==
    IF r.status # "running" THEN r
    ELSE [r EXCEPT !.status = IF r.attempts >= MaxAttempts THEN "failed" ELSE "retrying"]

StartCenter ==
    /\ ~centerRuns /\ centerRuns' = TRUE
    /\ deliveries' = [d \in Deliveries |-> Recovered(deliveries[d])]
    /\ UNCHANGED <<senders, rules, events, processing, workers, received, outboxCounts>>

-----------------------------------------------------------------------------
OutboxNext ==
    \/ \E e \in Events : RecordEvent(e) \/ ProcessEvent(e) \/ StoreTest(e) \/ PruneEvent(e)
    \/ ReadRules \/ DeleteSender \/ AbandonRequest \/ StopNotifications \/ StartCenter
    \/ \E d \in Deliveries : Claim(d) \/ Dispatch(d)
    \/ \E w \in workers : Settle(w)
    \/ \E s \in Senders :
           \/ \E value \in {"enabled", "disabled"} : EditSender(s, value)
           \/ \E value \in {"none", "off", "on"} : EditRule(s, value)
           \/ BeginTest(s) \/ BeginDelete(s)
    \/ \E gone \in (SUBSET Events) \ {{}} : ClearEvents(gone)

OutboxSpec == OutboxInit /\ [][OutboxNext]_outboxVars

\* The loops poll twice a second; Go's mutex serves a waiter that has been passed over,
\* and the workers take the delivery that is due the longest.
OutboxFairness(on) ==
    /\ WF_outboxVars(on /\ StartCenter) /\ SF_outboxVars(on /\ ReadRules)
    /\ \A e \in Events : WF_outboxVars(on /\ ProcessEvent(e))
    /\ WF_outboxVars(on /\ (DeleteSender \/ AbandonRequest \/ \E e \in Events : StoreTest(e)))
    /\ \A d \in Deliveries : SF_outboxVars(on /\ Claim(d)) /\ WF_outboxVars(on /\ Dispatch(d))
    /\ \A d \in Deliveries :
           WF_outboxVars(on /\ \E w \in workers : w.delivery = d /\ Settle(w))

FairOutboxSpec == OutboxSpec /\ OutboxFairness(TRUE)

-----------------------------------------------------------------------------
(* Properties                                                              *)

\* Types of the notification state.
OutboxTypeOK ==
    /\ senders \in [Senders -> {"new", "enabled", "disabled", "deleted"}]
    /\ rules \in [Senders -> {"none", "off", "on"}]
    /\ events \in [Events -> {"none", "pending", "processed", "cleared"}]
    /\ deliveries \in [Deliveries ->
           [status : {"none", "pending", "running", "retrying", "succeeded", "failed"},
            attempts : 0 .. MaxAttempts]]
    /\ processing \in [op : {"idle", "events", "test", "delete"},
                       events : SUBSET Events, senders : SUBSET Senders]
    /\ workers \subseteq [delivery : Deliveries, outcome : {"claimed", "sent", "retryable", "refused"}]
    /\ received \in [Deliveries -> [sent : 0 .. MaxAttempts, accepted : BOOLEAN]]
    /\ centerRuns \in BOOLEAN
    /\ outboxCounts \in [stops : 0 .. MaxCenterStops, edits : 0 .. MaxRuleEdits]

\* DeleteSender keeps processMu over its two databases so that work under way never
\* loses its sender, whatever is queued between its count and its deletion.
ActiveHasSender == \A d \in Deliveries : ActiveDelivery(d) => senders[d[2]] \in {"enabled", "disabled"}

\* Through every crash between the claim, the message and its settlement: a destination
\* sees a delivery at most MaxAttempts times, and a success was accepted.
AttemptsBounded ==
    \A d \in Deliveries :
        /\ received[d].sent <= deliveries[d].attempts /\ deliveries[d].attempts <= MaxAttempts
        /\ deliveries[d].status = "succeeded" => received[d].accepted

\* At most MaxActive deliveries of a sender are under way, tests included.
QueueBounded == \A s \in Senders : ActiveOf(s) <= MaxActive

\* What the queue owes its sender and its destination.
DeliveriesSound == OutboxTypeOK /\ ActiveHasSender /\ AttemptsBounded /\ QueueBounded

\* A delivery under way leaves the table only with a reset or a deleted node, and one
\* that has ended does not come back, while retention and repeated uploads go on.
ActiveProtected ==
    [][\A d \in Deliveries :
          /\ ActiveDelivery(d) /\ ~ActiveDelivery(d)' => \/ deliveries'[d].status \in {"succeeded", "failed"}
                                         \/ events'[d[1]] = "cleared"
          /\ deliveries[d].status \in {"succeeded", "failed"} =>
                \/ deliveries'[d] = deliveries[d]
                \/ events'[d[1]] \in {"none", "cleared"}]_outboxVars

\* Every event is turned into deliveries and every delivery comes to an end, through
\* crashes of the Center at any point of both.
EventsSettle ==
    \A e \in Events :
        events[e] = "pending" ~>
            events[e] # "pending" /\ \A s \in Senders : ~ActiveDelivery(<<e, s>>)
=============================================================================
