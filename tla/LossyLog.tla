------------------------------ MODULE LossyLog ------------------------------
(***************************************************************************)
(* What the log path of an Agent promises for each log event, whatever the *)
(* queues, requests and crashes in between: the event is kept until the     *)
(* Center has it, or it is counted in a gap that is kept until the Center   *)
(* has that.  Only what was still in memory when the process ended can be   *)
(* forgotten.  AgentLogQueue implements this.                               *)
(***************************************************************************)
EXTENDS Naturals

CONSTANT MaxLogs  \* bound on log events emitted

LogEvent == 1 .. MaxLogs   \* numbered as emitted

VARIABLE fate  \* what became of each event

Fate == {"unborn", "volatile", "kept", "dropped", "delivered", "reported", "refused",
         "forgotten"}

\* An event and a gap that counts it may both be on their way, so the Center can
\* still store an event a gap has already reported.
Moves == {<<"unborn", "volatile">>, <<"volatile", "kept">>, <<"volatile", "dropped">>,
          <<"kept", "dropped">>, <<"kept", "delivered">>, <<"kept", "refused">>,
          <<"dropped", "reported">>, <<"dropped", "delivered">>, <<"dropped", "refused">>,
          <<"reported", "delivered">>, <<"reported", "refused">>}

LossyInit == fate = [e \in LogEvent |-> "unborn"]

\* Of what is kept, the oldest is dropped first.
OldestDropped ==
    \A e, f \in LogEvent :
        e < f /\ fate[e] = "kept" /\ fate'[e] = "kept" /\ fate[f] = "kept" => fate'[f] # "dropped"

Progress ==
    /\ fate' \in [LogEvent -> Fate]
    /\ \A e \in LogEvent : fate'[e] = fate[e] \/ <<fate[e], fate'[e]>> \in Moves
    /\ OldestDropped

\* The process ends: what it had in memory is gone, and nothing else.
Forget ==
    fate' = [e \in LogEvent |-> IF fate[e] = "volatile" THEN "forgotten" ELSE fate[e]]

LossyNext == Progress \/ Forget

LossySpec == LossyInit /\ [][LossyNext]_fate
=============================================================================
