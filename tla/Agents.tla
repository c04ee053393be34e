------------------------------- MODULE Agents -------------------------------
(***************************************************************************)
(* Agent runs: BackendRegistry.run, the two backends behind it             *)
(* (factory/backends/), and the observer that stores every run             *)
(* (factory/metrics/).  A call is one BackendRegistry.run of some caller;  *)
(* the agent it starts is a program of its own, which may take any time,   *)
(* or never end.                                                           *)
(***************************************************************************)
EXTENDS Naturals

CONSTANTS
    Calls,
    None,
    Providers   \* the providers factory.yaml may name

\* What a caller tells apart: a status of RunResult, or an exception.  ERROR and
\* STARTUP_FAILED are both "failed".
Statuses == {"finished", "failed", "timeout"}
Results == Statuses \cup {"raised"}

ASSUME AgentsAssumption ==
    /\ Providers \subseteq {"claude", "cursor"}
    /\ None \notin Results

Stages == {"idle", "running", "joining", "tracing", "storing", "over"}

VARIABLES
    provider,   \* provider[c]: the provider of the caller's role
    observed,   \* calls made through a registry with an observer
    stage,      \* stage[c]: where BackendRegistry.run is
    atWork,     \* atWork[c]: how many agents work for the caller, as long as it lives
    result,     \* result[c]: what the call came to, or None
    traced,     \* calls in progress whose transcript is on disk (or tracing is off)
    stored      \* calls in progress with a row in agent_runs

setup == <<provider, observed>>
agentVars == <<setup, stage, atWork, result, traced, stored>>

AgentsTypeOK ==
    /\ provider \in [Calls -> Providers]
    /\ observed \subseteq Calls
    /\ stage \in [Calls -> Stages]
    /\ atWork \in [Calls -> Nat]
    /\ result \in [Calls -> Results \cup {None}]
    /\ traced \subseteq Calls /\ stored \subseteq Calls

AgentsInit ==
    /\ provider \in [Calls -> Providers]
    /\ observed \in SUBSET Calls
    /\ stage = [c \in Calls |-> "idle"]
    /\ atWork = [c \in Calls |-> 0]
    /\ result = [c \in Calls |-> None]
    /\ traced = {} /\ stored = {}
-----------------------------------------------------------------------------
AgentStops(c) == atWork' = [atWork EXCEPT ![c] = @ - 1]

\* backend.run has returned or raised; what it returned goes to the observer.
BackendGives(c, r) ==
    /\ result' = [result EXCEPT ![c] = r]
    /\ stage' = [stage EXCEPT ![c] =
                    IF r \in Statuses /\ c \in observed THEN "tracing" ELSE "over"]

\* The backend is constructed at the first use, which raises BackendError if
\* its SDK or its key is missing.
Refuse(c) ==
    /\ stage[c] = "idle"
    /\ stage' = [stage EXCEPT ![c] = "over"]
    /\ result' = [result EXCEPT ![c] = "raised"]
    /\ UNCHANGED <<setup, atWork, traced, stored>>

Begin(c) ==
    /\ stage[c] = "idle"
    /\ stage' = [stage EXCEPT ![c] = "running"]
    /\ atWork' = [atWork EXCEPT ![c] = @ + 1]
    /\ UNCHANGED <<setup, result, traced, stored>>

\* The agent ends in time, well or not, or its SDK raises something that the
\* backend does not take for a failed start.
AgentEnds(c) ==
    /\ stage[c] = "running"
    /\ AgentStops(c)
    /\ \E r \in {"finished", "failed", "raised"} : BackendGives(c, r)
    /\ UNCHANGED <<setup, traced, stored>>

\* Wrong: the query is awaited without wait_for.
UntimedQuery(c) == FALSE

\* The timeout.  Claude: asyncio.wait_for cancels the query and raises.
CancelQuery(c) ==
    /\ stage[c] = "running" /\ provider[c] = "claude"
    /\ AgentStops(c)
    /\ BackendGives(c, "timeout")
    /\ UNCHANGED <<setup, traced, stored>>

\* Wrong: the pool is not waited for (shutdown(wait=False)).
AbandonThread(c) ==
    /\ stage[c] = "running" /\ provider[c] = "cursor"
    /\ BackendGives(c, "timeout")
    /\ UNCHANGED <<setup, atWork, traced, stored>>

\* Cursor: future.result gives up, and the return leaves the with statement of
\* the thread pool, ...
StopWaiting(c) ==
    /\ stage[c] = "running" /\ provider[c] = "cursor"
    /\ stage' = [stage EXCEPT ![c] = "joining"]
    /\ UNCHANGED <<setup, atWork, result, traced, stored>>

\* ... which joins the thread: it returns when the agent does.
AgentEndsLate(c) ==
    /\ stage[c] = "joining"
    /\ AgentStops(c)
    /\ BackendGives(c, "timeout")
    /\ UNCHANGED <<setup, traced, stored>>

\* Wrong: what goes wrong in the observer is logged and forgotten.
ObserverShrugs(c) ==
    /\ stage[c] \in {"tracing", "storing"}
    /\ stage' = [stage EXCEPT ![c] = "over"]
    /\ UNCHANGED <<setup, atWork, result, traced, stored>>

\* The observer: a transcript, then a row that names it.  An OSError or a
\* sqlite3.Error gets out of BackendRegistry.run, though the agent has ended.
ObserverRaises(c) ==
    /\ stage[c] \in {"tracing", "storing"}
    /\ stage' = [stage EXCEPT ![c] = "over"]
    /\ result' = [result EXCEPT ![c] = "raised"]
    /\ UNCHANGED <<setup, atWork, traced, stored>>

WriteTrace(c) ==
    /\ stage[c] = "tracing"
    /\ stage' = [stage EXCEPT ![c] = "storing"]
    /\ traced' = traced \cup {c}
    /\ UNCHANGED <<setup, atWork, result, stored>>

StoreRun(c) ==
    /\ stage[c] = "storing"
    /\ stage' = [stage EXCEPT ![c] = "over"]
    /\ stored' = stored \cup {c}
    /\ UNCHANGED <<setup, atWork, result, traced>>

\* The process of the caller dies, and nobody waits for the agent any more.
\* Whether it dies too is up to its SDK: the code does nothing about it, and
\* atWork no longer counts it.
CallerDies(c) ==
    /\ stage' = [stage EXCEPT ![c] = "idle"]
    /\ atWork' = [atWork EXCEPT ![c] = 0]
    /\ result' = [result EXCEPT ![c] = None]
    /\ traced' = traced \ {c} /\ stored' = stored \ {c}
    /\ UNCHANGED setup

\* The caller has used the result.
Forget(c) ==
    /\ stage' = [stage EXCEPT ![c] = "idle"]
    /\ result' = [result EXCEPT ![c] = None]
    /\ traced' = traced \ {c} /\ stored' = stored \ {c}
    /\ UNCHANGED <<setup, atWork>>

\* What the code does by itself, and what only the agent can do.
BackendStep(c) ==
    CancelQuery(c) \/ StopWaiting(c) \/ ObserverRaises(c) \/ WriteTrace(c) \/ StoreRun(c)
AgentStep(c) == AgentEnds(c) \/ AgentEndsLate(c)
-----------------------------------------------------------------------------
(* Properties. *)

\* An agent of a caller that lives works only while the caller waits for it, and
\* it is the only one: a run reported as a timeout has no agent left that goes on
\* editing the tree.  (For agents whose caller was killed see CallerDies.)
OneAgentAtATime ==
    \A c \in Calls : atWork[c] = IF stage[c] \in {"running", "joining"} THEN 1 ELSE 0

\* "Record every agent run to metrics and write a redacted trace"
\* (observe.py:18): an observed run whose result reaches the caller is in both,
\* and no row names a transcript that was not written.
ObservedRunsAreRecorded ==
    /\ \A c \in observed : stage[c] = "over" /\ result[c] \in Statuses => c \in stored
    /\ stored \subseteq traced

\* "Every external call has a timeout" (CONTRACT.md:53), which the Cursor
\* backend means to "enforce" (cursor_backend.py:40): an agent run ends, also
\* if the agent does not.
AgentRunsReturn == \A c \in Calls : stage[c] = "running" ~> stage[c] \in {"over", "idle"}
=============================================================================
