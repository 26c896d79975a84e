---------------------------- MODULE SyncSessions ----------------------------
(***************************************************************************)
(* Temporary sync sessions of one node: the lease in config.db              *)
(* (src/internal/center/nodes/service.go), the WebSocket handler            *)
(* (src/internal/center/http.go), the hub of open connections               *)
(* (src/internal/center/syncws/hub.go), the Agent's end                     *)
(* (src/internal/agent/sync.go) and the control loop it wakes               *)
(* (src/internal/agent/control.go).                                         *)
(*                                                                          *)
(* The lease is checked three times while a connection comes up, and every  *)
(* call into the hub comes after the commit it belongs to: the steps of     *)
(* handlers and callers interleave here as their goroutines do.  Pings and  *)
(* the times of leases are left out: a lease may end, and a connection      *)
(* break, at any time.  All wake-ups are alike, and a connection keeps      *)
(* whether one is unread, not how many.                                     *)
(***************************************************************************)
EXTENDS Naturals, FiniteSets

CONSTANTS
    Callers,         \* concurrent requests of administrators and Agents at the Center
    MaxSessions,     \* bound on leases granted
    MaxConnections,  \* bound on connections dialled
    MaxChanges       \* bound on changes the node must learn of

ASSUME SyncAssumption ==
    /\ IsFiniteSet(Callers)
    /\ MaxSessions \in Nat /\ MaxConnections \in Nat /\ MaxChanges \in Nat

VARIABLES
    lease,        \* config.db: the node's sync session, and what it must learn
    callers,      \* what each caller still does with the hub after its commit
    connections,  \* the Center's end of each connection
    hub,          \* the connection the hub has for the node, or None
    replaced,     \* connections whose Close another connection's Attach started
    syncAgent     \* the Agent's session, connection and polls

syncVars == <<lease, callers, connections, hub, replaced, syncAgent>>

None == 0
Session == 1 .. MaxSessions
Connection == 1 .. MaxConnections
SyncRevision == 0 .. MaxChanges
Call == [call : {"none", "disconnect", "wake"}, found : BOOLEAN, connection : Connection \cup {None}]
NoCall == [call |-> "none", found |-> FALSE, connection |-> None]
End == [stage : {"unused", "authorized", "valid", "attached", "waking", "running", "closed"},
        session : Session \cup {None}, wake : BOOLEAN, unread : BOOLEAN]
Unused == [stage |-> "unused", session |-> None, wake |-> FALSE, unread |-> FALSE]

SyncInit ==
    /\ lease = [session |-> None, issued |-> 0, expired |-> {}, revoked |-> FALSE, revision |-> 0]
    /\ callers = [c \in Callers |-> NoCall]
    /\ connections = [k \in Connection |-> Unused]
    /\ hub = None /\ replaced = {}
    /\ syncAgent = [session |-> None, connection |-> None, dialled |-> 0, wake |-> FALSE,
                    poll |-> "idle", answer |-> [revision |-> 0, session |-> None],
                    seen |-> 0, failed |-> FALSE]

\* AuthorizeSync: the credential is good, and the session asked for is leased.
Authorized(s) == ~lease.revoked /\ s = lease.session /\ s \notin lease.expired

-----------------------------------------------------------------------------
(* Requests: a commit, then a call into the hub                            *)

Committed(c, l, call) ==
    /\ callers[c] = NoCall
    /\ lease' = l
    /\ callers' = [callers EXCEPT ![c] = [NoCall EXCEPT !.call = call]]
    /\ UNCHANGED <<connections, hub, replaced, syncAgent>>

StartSyncSession(c) ==
    /\ ~lease.revoked /\ lease.issued < MaxSessions
    /\ Committed(c, [lease EXCEPT !.session = lease.issued + 1, !.issued = @ + 1], "disconnect")

StopSyncSession(c) == Committed(c, [lease EXCEPT !.session = None], "disconnect")

\* Revoke, Delete and a recovery of the node take its session.
Revoke(c) == Committed(c, [lease EXCEPT !.session = None, !.revoked = TRUE], "disconnect")

\* A change of configuration or a task: the handler wakes the node after its commit.
ChangeNode(c) ==
    /\ lease.revision < MaxChanges
    /\ Committed(c, [lease EXCEPT !.revision = @ + 1], "wake")

\* Hub.Disconnect and Hub.Wake look the connection up under the lock ...
Lookup(c) ==
    /\ callers[c].call # "none" /\ ~callers[c].found
    /\ callers' = [callers EXCEPT ![c] = IF hub = None THEN NoCall
                                         ELSE [@ EXCEPT !.found = TRUE, !.connection = hub]]
    /\ UNCHANGED <<lease, connections, hub, replaced, syncAgent>>

\* Close: takes the connection out of the hub if it is still the one there.  The Agent
\* may still read what was written.
Closed(k) ==
    /\ hub' = IF hub = k THEN None ELSE hub
    /\ connections' = [connections EXCEPT ![k] = [Unused EXCEPT !.stage = "closed", !.unread = connections[k].unread]]

\* ... and act on it without.  The wake channel has one place.
Disconnect(c) ==
    /\ callers[c].call = "disconnect" /\ callers[c].found
    /\ Closed(callers[c].connection)
    /\ callers' = [callers EXCEPT ![c] = NoCall]
    /\ UNCHANGED <<lease, replaced, syncAgent>>

IsOpen(k) == connections[k].stage # "closed"
Wake(c) ==
    /\ callers[c].call = "wake" /\ callers[c].found
    /\ connections' = [connections EXCEPT ![callers[c].connection].wake = @ \/ IsOpen(callers[c].connection)]
    /\ callers' = [callers EXCEPT ![c] = NoCall]
    /\ UNCHANGED <<lease, hub, replaced, syncAgent>>

Expire ==
    /\ lease.session \in Session \ lease.expired
    /\ lease' = [lease EXCEPT !.expired = @ \cup {lease.session}]
    /\ UNCHANGED <<callers, connections, hub, replaced, syncAgent>>

-----------------------------------------------------------------------------
(* The handler of a connection                                             *)

AtStage(k, stage) ==
    /\ connections' = [connections EXCEPT ![k].stage = stage]
    /\ UNCHANGED <<lease, callers, hub, replaced, syncAgent>>

ConnectionEnds(k) == Closed(k) /\ UNCHANGED <<lease, callers, replaced, syncAgent>>

\* connectAndRead at the Agent, the first AuthorizeSync and Accept.
Dial ==
    /\ syncAgent.session # None /\ syncAgent.connection = None
    /\ syncAgent.dialled < MaxConnections /\ Authorized(syncAgent.session)
    /\ LET k == syncAgent.dialled + 1 IN
        /\ connections' = [connections EXCEPT
                ![k] = [Unused EXCEPT !.stage = "authorized", !.session = syncAgent.session]]
        /\ syncAgent' = [syncAgent EXCEPT !.connection = k, !.dialled = k]
    /\ UNCHANGED <<lease, callers, hub, replaced>>

Revalidate(k) ==
    /\ connections[k].stage = "authorized"
    /\ IF Authorized(connections[k].session) THEN AtStage(k, "valid") ELSE ConnectionEnds(k)

\* Hub.Attach: a connection of another session keeps its place.
MayAttach(k) == hub = None \/ connections[hub].session = connections[k].session
Attach(k) ==
    /\ connections[k].stage = "valid"
    /\ IF MayAttach(k)
       THEN /\ hub' = k /\ replaced' = replaced \cup ({hub} \ {None})
            /\ connections' = [connections EXCEPT ![k].stage = "attached"]
            /\ UNCHANGED <<lease, callers, syncAgent>>
       ELSE ConnectionEnds(k)

CloseReplaced ==
    /\ \E k \in replaced : Closed(k) /\ replaced' = replaced \ {k}
    /\ UNCHANGED <<lease, callers, syncAgent>>

\* The third AuthorizeSync, after which the connection runs.
FaultyStillAuthorized(k) == TRUE
StillAuthorized(k) == Authorized(connections[k].session)
RevalidateAttached(k) ==
    /\ connections[k].stage = "attached"
    /\ IF StillAuthorized(k)
       THEN AtStage(k, "waking")
       ELSE ConnectionEnds(k)

\* Connection.Run: one wake-up first, then one for each time the channel is full.
FaultyFirstUnread == FALSE
FirstUnread == TRUE
FirstWake(k) ==
    /\ connections[k].stage = "waking"
    /\ connections' = [connections EXCEPT ![k].stage = "running", ![k].unread = FirstUnread]
    /\ UNCHANGED <<lease, callers, hub, replaced, syncAgent>>

WriteWake(k) ==
    /\ connections[k].stage = "running" /\ connections[k].wake
    /\ connections' = [connections EXCEPT ![k].wake = FALSE, ![k].unread = TRUE]
    /\ UNCHANGED <<lease, callers, hub, replaced, syncAgent>>

\* Run returns: the lease has ended, a ping had no answer, the Agent has left.
RunReturns(k) ==
    /\ connections[k].stage \in {"waking", "running"}
    /\ ConnectionEnds(k)

-----------------------------------------------------------------------------
(* The Agent                                                               *)

AgentSteps(a) == syncAgent' = a /\ UNCHANGED <<lease, callers, hub, replaced>>

\* readWakeMessages: into a channel with one place.
ReadWake ==
    /\ syncAgent.connection # None /\ connections[syncAgent.connection].unread
    /\ connections' = [connections EXCEPT ![syncAgent.connection].unread = FALSE]
    /\ AgentSteps([syncAgent EXCEPT !.wake = TRUE])

\* The connection is gone, or the Agent's own deadline has come.
LoseConnection ==
    /\ syncAgent.connection # None
    /\ \E s \in {syncAgent.session, None} :
        AgentSteps([syncAgent EXCEPT !.connection = None, !.session = s])
    /\ connections' = [connections EXCEPT ![syncAgent.connection].unread = FALSE]

\* Run: a poll after every interval, at once when woken.  Poll reads the session in its
\* transaction, the desired revision after it.  A poll may fail at any point, and fails
\* of a node that lost its access.
StartPoll ==
    /\ syncAgent.poll = "idle"
    /\ \E woken \in {syncAgent.wake, FALSE} :
        \/ /\ ~lease.revoked
           /\ AgentSteps([syncAgent EXCEPT !.poll = "sent", !.wake = @ /\ ~woken,
                  !.answer.session = IF Authorized(lease.session) THEN lease.session ELSE None])
        \/ AgentSteps([syncAgent EXCEPT !.wake = @ /\ ~woken, !.failed = TRUE])
    /\ UNCHANGED connections

AnswerPoll ==
    /\ syncAgent.poll = "sent"
    /\ AgentSteps([syncAgent EXCEPT !.poll = "answered", !.answer.revision = lease.revision])
    /\ UNCHANGED connections

NoAnswer == [revision |-> 0, session |-> None]

\* syncManager.Update: another session ends the connection of the one before.
ReceiveAnswer ==
    /\ syncAgent.poll = "answered"
    /\ AgentSteps([syncAgent EXCEPT
            !.poll = "idle", !.seen = syncAgent.answer.revision, !.failed = FALSE, !.answer = NoAnswer,
            !.session = syncAgent.answer.session,
            !.connection = IF syncAgent.answer.session = syncAgent.session THEN @ ELSE None])
    /\ UNCHANGED connections

PollFailed ==
    /\ syncAgent.poll # "idle"
    /\ AgentSteps([syncAgent EXCEPT !.poll = "idle", !.failed = TRUE, !.answer = NoAnswer])
    /\ UNCHANGED connections

SyncNext ==
    \/ \E c \in Callers :
        \/ StartSyncSession(c) \/ StopSyncSession(c) \/ Revoke(c) \/ ChangeNode(c)
        \/ Lookup(c) \/ Disconnect(c) \/ Wake(c)
    \/ Expire \/ Dial \/ CloseReplaced
    \/ \E k \in Connection :
        \/ Revalidate(k) \/ Attach(k) \/ RevalidateAttached(k)
        \/ FirstWake(k) \/ WriteWake(k) \/ RunReturns(k)
    \/ ReadWake \/ LoseConnection
    \/ StartPoll \/ AnswerPoll \/ ReceiveAnswer \/ PollFailed

SyncSpec == SyncInit /\ [][SyncNext]_syncVars

-----------------------------------------------------------------------------
(* Properties                                                              *)

\* Types of the session, its connections and the requests about them.
SyncTypeOK ==
    /\ lease \in [session : Session \cup {None}, issued : 0 .. MaxSessions,
                  expired : SUBSET Session, revoked : BOOLEAN, revision : SyncRevision]
    /\ callers \in [Callers -> Call]
    /\ connections \in [Connection -> End]
    /\ hub \in Connection \cup {None} /\ replaced \subseteq Connection
    /\ syncAgent \in [session : Session \cup {None}, connection : Connection \cup {None},
                      dialled : 0 .. MaxConnections, wake : BOOLEAN,
                      poll : {"idle", "sent", "answered"},
                      answer : [revision : SyncRevision, session : Session \cup {None}],
                      seen : SyncRevision, failed : BOOLEAN]

\* The end of a connection is under way.
Ending(k) ==
    \/ k \in replaced
    \/ \E c \in Callers : /\ callers[c].call = "disconnect"
                          /\ callers[c].connection \in {None, k}

\* A connection that runs is of the session leased to the node, or its end is under way:
\* a session stopped, replaced or lost with the node's access leaves no connection behind,
\* whichever way the request that ends it crosses the connection's coming up.
NoConnectionOutlivesLease ==
    \A k \in Connection :
        connections[k].stage \in {"waking", "running"} /\ connections[k].session # lease.session => Ending(k)

\* The Agent has still to hear, or to ask, what the Center wants of it.
OnItsWay(k) ==
    \/ \E c \in Callers : callers[c].call = "wake"
    \/ connections[k].stage = "waking" \/ connections[k].wake \/ connections[k].unread
    \/ syncAgent.wake \/ syncAgent.poll = "sent"
    \/ syncAgent.poll = "answered" /\ syncAgent.answer.revision = lease.revision

\* No wake-up is lost: while the Agent holds a running connection and its last poll did
\* not fail, a change it has not seen is on its way to it, though Wake may have found the
\* connection before, another one or none.  Only a connection that an older one of the
\* same session replaced, attaching late, waits for its Close, and the Agent for the first
\* wake-up of the next one.
WakeNotLost ==
    LET k == syncAgent.connection IN
    (/\ k # None /\ connections[k].stage \in {"waking", "running"}
     /\ k \notin replaced /\ ~syncAgent.failed /\ syncAgent.seen < lease.revision)
    => OnItsWay(k)
=============================================================================
