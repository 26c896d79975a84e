-------------------------- MODULE MCLiveProtocols --------------------------
(* Instances for TLC of the protocols with liveness properties, each on    *)
(* its own: the protocol in focus moves, fairly, and the others stay where *)
(* they start.                                                             *)
EXTENDS HistoryReset, AgentLogQueue, NotificationOutbox, AgentUpdate

VARIABLE focus

\* Every rule selects every event.
EverySender == Events \X Senders

InFocus(name) == focus = name /\ UNCHANGED focus

MCInit ==
    /\ Init /\ LogInit /\ OutboxInit /\ UpdateInit
    /\ focus \in {"reset", "logs", "notifications", "updates"}
    /\ focus # "updates" => works
    /\ focus # "notifications" => \A s \in Senders : senders[s] = "new"

MCNext ==
    \/ /\ InFocus("reset") /\ Next
       /\ UNCHANGED <<logVars, outboxVars, agentUpdateVars>>
    \/ /\ InFocus("logs") /\ LogNext
       /\ UNCHANGED <<vars, outboxVars, agentUpdateVars>>
    \/ /\ InFocus("notifications") /\ OutboxNext
       /\ UNCHANGED <<vars, logVars, agentUpdateVars>>
    \/ /\ InFocus("updates") /\ UpdateNext
       /\ UNCHANGED <<vars, logVars, outboxVars>>

MCFairness ==
    \/ focus = "reset" /\ Fairness
    \/ focus = "logs" /\ LogFairness(TRUE)
    \/ focus = "notifications" /\ OutboxFairness(TRUE)
    \/ focus = "updates" /\ UpdateFairness(TRUE)

MCSpec ==
    /\ MCInit /\ [][MCNext]_<<focus, vars, logVars, outboxVars, agentUpdateVars>>
    /\ MCFairness
=============================================================================
