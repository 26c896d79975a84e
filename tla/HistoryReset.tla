---------------------------- MODULE HistoryReset ----------------------------
(***************************************************************************)
(* The history generation over the Center's two databases: how it is       *)
(* created and repaired when the Center starts (Open and                   *)
(* reconcileHistoryGeneration of src/internal/center/database/store.go),   *)
(* how ResetHistory (src/internal/center/nodes/probe.go) advances it, which *)
(* uploads it admits, and how an Agent learns it.                          *)
(*                                                                         *)
(* config.db and history.db have no common transaction: every action below *)
(* commits to one of them, and the process may stop between two actions.   *)
(* A generation is 32 random bytes; here they are numbered as drawn.       *)
(***************************************************************************)
EXTENDS Naturals

CONSTANT MaxGeneration  \* bound on generations drawn

ASSUME ResetAssumption == MaxGeneration \in Nat \ {0}

VARIABLES
    config,    \* system_state of config.db and the node's desired revision
    history,   \* history.db: whether the file exists, history_metadata, rows
    step,      \* where the Center's process is
    existed,   \* historyExisted of the Open under way
    resetting, \* step of a running ResetHistory: it holds historyMu
    agent,     \* what an Agent applied: a revision and a generation
    fetch,     \* the configuration the Center is assembling for it
    drawn      \* generations drawn so far

centerVars == <<config, history, step, existed, resetting, drawn>>
agentVars == <<agent, fetch>>
vars == <<centerVars, agentVars>>

Generation == 1 .. MaxGeneration
NoFile == [file |-> FALSE, meta |-> 0, probes |-> {}, addresses |-> {}]
NoFetch == [rev |-> 0, gen |-> 0]

\* A new installation; generation 0 is a row that does not exist, or NULL.
Init ==
    /\ config = [gen |-> 0, pending |-> 0, revision |-> 1]
    /\ history = NoFile
    /\ step = "down" /\ existed = FALSE /\ resetting = "no"
    /\ agent = [rev |-> 0, gen |-> 0] /\ fetch = NoFetch
    /\ drawn = 0

HistoryFree == step = "serving" /\ resetting = "no"

\* The promotion, in one transaction of config.db: the generation and the desired
\* revision of every node.
FaultyPromoted(c) == [c EXCEPT !.gen = c.pending, !.pending = 0]   \* no new revision
Promoted(c) == [gen |-> c.pending, pending |-> 0, revision |-> c.revision + 1]

-----------------------------------------------------------------------------
(* Open                                                                    *)

OpenDatabases ==
    /\ step \in {"down", "refused"}
    /\ existed' = history.file
    /\ history' = [history EXCEPT !.file = TRUE]
    /\ step' = "reconcile"
    /\ UNCHANGED <<config, resetting, drawn, agentVars>>

\* The first start: the generation goes to config.db, then to history.db.
CreateSystemState ==
    /\ step = "reconcile"
    /\ config.gen = 0 /\ history.meta = 0 /\ ~existed
    /\ drawn < MaxGeneration /\ drawn' = drawn + 1
    /\ config' = [config EXCEPT !.gen = drawn']
    /\ step' = "describe"
    /\ UNCHANGED <<history, existed, resetting, agentVars>>

\* history.db was removed while the Center was down: a reset to a new generation.
AnnounceGeneration ==
    /\ step = "reconcile"
    /\ config.gen # 0 /\ history.meta = 0 /\ config.pending = 0 /\ ~existed
    /\ drawn < MaxGeneration /\ drawn' = drawn + 1
    /\ config' = [config EXCEPT !.pending = drawn']
    /\ UNCHANGED <<history, step, existed, resetting, agentVars>>

CreateHistoryMetadata ==
    /\ \/ step = "describe"
       \/ step = "reconcile" /\ config.gen # 0 /\ history.meta = 0 /\ config.pending # 0
    /\ history' = [history EXCEPT !.meta = IF step = "describe" THEN config.gen
                                                                ELSE config.pending]
    /\ step' = IF step = "describe" THEN "serving" ELSE step
    /\ UNCHANGED <<config, existed, resetting, drawn, agentVars>>

\* history.db already has the pending generation.
PromoteAtOpen ==
    /\ step = "reconcile"
    /\ config.pending # 0 /\ history.meta = config.pending
    /\ config' = Promoted(config)
    /\ step' = "serving"
    /\ UNCHANGED <<history, existed, resetting, drawn, agentVars>>

Serve ==
    /\ step = "reconcile"
    /\ config.gen # 0 /\ config.pending = 0 /\ history.meta = config.gen
    /\ step' = "serving"
    /\ UNCHANGED <<config, history, existed, resetting, drawn, agentVars>>

\* Open knows how to go on from what it found.
Fits ==
    \/ history.meta = 0 /\ ~existed
    \/ history.meta = 0 /\ config.gen # 0 /\ config.pending # 0
    \/ history.meta # 0 /\ config.gen # 0
         /\ history.meta = IF config.pending # 0 THEN config.pending ELSE config.gen

\* Otherwise it returns an error and the process ends.
Refuse ==
    /\ step = "reconcile"
    /\ ~Fits
    /\ step' = "refused"
    /\ UNCHANGED <<config, history, existed, resetting, drawn, agentVars>>

\* The process is stopped or crashes.
StopCenter ==
    /\ step \notin {"down", "refused"}
    /\ step' = "down" /\ resetting' = "no" /\ fetch' = NoFetch
    /\ UNCHANGED <<config, history, existed, drawn, agent>>

\* The operator deletes the history directory of a stopped Center.
RemoveHistory ==
    /\ step \in {"down", "refused"} /\ history.file
    /\ drawn < MaxGeneration
    /\ history' = NoFile
    /\ step' = "down"
    /\ UNCHANGED <<config, existed, resetting, drawn, agentVars>>

-----------------------------------------------------------------------------
(* ResetHistory                                                            *)

\* A pending generation of an earlier attempt is resumed.
BeginReset ==
    /\ HistoryFree
    /\ IF config.pending # 0 THEN UNCHANGED <<config, drawn>>
       ELSE /\ drawn < MaxGeneration /\ drawn' = drawn + 1
            /\ config' = [config EXCEPT !.pending = drawn']
    /\ resetting' = "pending"
    /\ UNCHANGED <<history, step, existed, agentVars>>

\* One transaction of history.db: its rows and its generation.
FaultyCleared(h) == [h EXCEPT !.probes = {}, !.addresses = {}]
Cleared(h) == [h EXCEPT !.meta = config.pending, !.probes = {}, !.addresses = {}]

ClearObservedHistory ==
    /\ resetting = "pending"
    /\ history' = Cleared(history)
    /\ resetting' = "cleared"
    /\ UNCHANGED <<config, step, existed, drawn, agentVars>>

FinishReset ==
    /\ resetting = "cleared"
    /\ config' = Promoted(config)
    /\ resetting' = "no"
    /\ UNCHANGED <<history, step, existed, drawn, agentVars>>

\* A database error, or the administrator's request is cancelled.
AbortReset ==
    /\ resetting # "no"
    /\ resetting' = "no"
    /\ UNCHANGED <<config, history, step, existed, drawn, agentVars>>

-----------------------------------------------------------------------------
(* Uploads and configuration of an Agent                                   *)

\* UploadProbeArtifact takes artifacts of its generation unless a reset is pending.
FaultyProbesAdmitted == agent.gen = config.gen
ProbesAdmitted == agent.gen = config.gen /\ config.pending = 0

UploadProbe ==
    /\ HistoryFree /\ agent.gen # 0
    /\ ProbesAdmitted
    /\ history' = [history EXCEPT !.probes = @ \cup {agent.gen}]
    /\ UNCHANGED <<config, step, existed, resetting, drawn, agentVars>>

\* ingestAddressUpload does not look at the pending generation.
UploadAddress ==
    /\ HistoryFree /\ agent.gen # 0
    /\ agent.gen = config.gen
    /\ history' = [history EXCEPT !.addresses = @ \cup {agent.gen}]
    /\ UNCHANGED <<config, step, existed, resetting, drawn, agentVars>>

\* Configuration reads the node's revision first and the generation after it; a
\* reset may commit in between.
FaultyRead(part) ==
    IF part = "revision" THEN [rev |-> 0, gen |-> config.gen]
                         ELSE [fetch EXCEPT !.rev = config.revision]

Read(part) ==
    IF part = "revision" THEN [rev |-> config.revision, gen |-> 0]
                         ELSE [fetch EXCEPT !.gen = config.gen]

ReadRevision ==
    /\ step = "serving"
    /\ fetch = NoFetch /\ agent.rev # config.revision
    /\ fetch' = Read("revision")
    /\ UNCHANGED <<centerVars, agent>>

ReadGeneration ==
    /\ step = "serving"
    /\ fetch # NoFetch /\ 0 \in {fetch.rev, fetch.gen}
    /\ fetch' = Read("generation")
    /\ UNCHANGED <<centerVars, agent>>

\* The Agent applies a revision newer than its own.
ApplyConfiguration ==
    /\ 0 \notin {fetch.rev, fetch.gen}
    /\ agent' = IF fetch.rev > agent.rev THEN fetch ELSE agent
    /\ fetch' = NoFetch
    /\ UNCHANGED centerVars

\* The response is lost.
LoseConfiguration ==
    /\ fetch # NoFetch
    /\ fetch' = NoFetch
    /\ UNCHANGED <<centerVars, agent>>

-----------------------------------------------------------------------------

Open == OpenDatabases \/ CreateSystemState \/ AnnounceGeneration \/ CreateHistoryMetadata
        \/ PromoteAtOpen \/ Serve \/ Refuse
Reset == BeginReset \/ ClearObservedHistory \/ FinishReset \/ AbortReset
Upload == UploadProbe \/ UploadAddress
Configure == ReadRevision \/ ReadGeneration \/ ApplyConfiguration \/ LoseConfiguration

Next == Open \/ StopCenter \/ RemoveHistory \/ Reset \/ Upload \/ Configure

Spec == Init /\ [][Next]_vars

\* The Center is restarted (deploy/compose.yaml, restart: unless-stopped) and answers;
\* an Agent keeps polling, and one of its polls gets through.  Nobody has to reset.
Fairness ==
    /\ WF_vars(Open)
    /\ SF_vars(ReadRevision) /\ SF_vars(ReadGeneration) /\ SF_vars(ApplyConfiguration)

FairSpec == Spec /\ Fairness

-----------------------------------------------------------------------------
(* Properties                                                              *)

TypeOK ==
    /\ config \in [gen : Generation \cup {0}, pending : Generation \cup {0}, revision : Nat]
    /\ history \in [file : BOOLEAN, meta : Generation \cup {0},
                    probes : SUBSET Generation, addresses : SUBSET Generation]
    /\ step \in {"down", "reconcile", "describe", "serving", "refused"}
    /\ existed \in BOOLEAN
    /\ resetting \in {"no", "pending", "cleared"}
    /\ agent \in [rev : Nat, gen : Generation \cup {0}]
    /\ fetch \in [rev : Nat, gen : Generation \cup {0}]
    /\ drawn \in 0 .. MaxGeneration

\* The probe rows of history.db are of the generation its metadata names, through
\* every interrupted reset, restart and removal: an artifact of the old generation
\* never reaches a history that was already cleared.
ProbesOfGeneration == history.probes \subseteq {history.meta}

\* An Agent that runs the Center's current revision labels its data with the Center's
\* current generation: otherwise all it uploads would be discarded, and no poll would
\* ever correct it.
AgentFollows == agent.rev = config.revision => agent.gen = config.gen

\* history.db exists, but neither it nor config.db names a generation for it.
Created == history.file /\ history.meta = 0 /\ (config.pending = 0 \/ config.gen = 0)

\* A reset announced its generation and history.db still carries the old one.
Announced == config.pending # 0 /\ history.meta \notin {0, config.pending}

\* Of all that stops, failed resets and a removed history directory leave behind, the
\* Center refuses to open two states only (reconcileHistoryGeneration): a history.db
\* created without its generation, and a reset that was announced and not carried out.
CenterReopens == step = "refused" => Created \/ Announced

\* Once resets and restarts end, the Agent ends on the Center's generation.
AgentLearns == <>[](step = "serving") => <>[](agent.gen = config.gen)

-----------------------------------------------------------------------------
(* What the tests and the operator guide say and the code breaks           *)

\* OPERATOR_GUIDE.en.md:288-290: clearing removes address events.  Once the new
\* generation is promoted, none of an older one is left.
ResetLeavesNothing ==
    step = "serving" /\ config.pending = 0 => history.addresses \subseteq {config.gen}
=============================================================================
