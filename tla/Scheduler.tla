------------------------------ MODULE Scheduler ------------------------------
(***************************************************************************)
(* The schedulers (factory/scheduler/runner.py) and what they run          *)
(* (RoutineExecutor, routines.py), on the agent runs of Agents.            *)
(*                                                                         *)
(* Routines share no state, so the module follows one.  It is executed by  *)
(* the job of a local scheduler (the daemon's, the dashboard's), by        *)
(* whoever asks for it now (dashboard button, `factory routine run`), and  *)
(* by the generated workflow, whose executions are on machines of their    *)
(* own with a store that is thrown away: only that they happen is kept.    *)
(***************************************************************************)
EXTENDS Agents

CONSTANTS
    Locals,     \* the processes that may hold a local scheduler
    Now,        \* the thread or process of a run-now
    MaxRounds   \* bound: agents that a pipeline calls one after the other

ASSUME SchedulerAssumption ==
    /\ Calls = Locals \cup {Now} /\ Now \notin Locals
    /\ MaxRounds \in Nat \ {0}

\* Action types, by what an agent has to do with their outcome: all of it
\* (agent), nothing (log_review), as the pipeline says (task), or there is none
\* (report, command, dependency_audit, stale_branches, and gate, which gives the
\* gates no diff to review, routines.py:135-136).
Kinds == {"agent", "review", "task", "tool"}

VARIABLES
    kind,       \* action type of the routine
    runner,     \* scheduler.runner in factory.yaml
    workflow,   \* routines.yml is in the repository
    up,         \* up[l]: l holds a running scheduler
    due,        \* due[l]: executions l's job owes
    doing,      \* doing[e]: how far an execution is
    rounds,     \* rounds[e]: agents called in it
    lastRow,    \* ok flag of the newest routine_runs row, or None
    \* history:
    fired,      \* executions begun for the last instant, up to 2
    mixed       \* a second place was set up beside one in use

schedulerVars == <<kind, runner, workflow, up, due, doing, rounds, lastRow, fired, mixed>>
vars == <<schedulerVars, agentVars>>
switch == <<runner, workflow, mixed>>
jobs == <<up, due, fired>>
execution == <<doing, rounds, lastRow>>

TypeOK ==
    /\ AgentsTypeOK
    /\ kind \in Kinds
    /\ runner \in {"local", "ci"} /\ workflow \in BOOLEAN
    /\ up \in [Locals -> BOOLEAN] /\ due \in [Locals -> 0..1]
    /\ doing \in [Calls -> {"idle", "dispatch", "calling", "ok", "failed"}]
    /\ rounds \in [Calls -> 0..MaxRounds]
    /\ lastRow \in {"ok", "failed", None}
    /\ fired \in 0..2 /\ mixed \in BOOLEAN

Init ==
    /\ kind \in Kinds
    /\ AgentsInit
    /\ observed = IF kind = "task" THEN Calls ELSE {}   \* only Pipeline attaches it
    /\ \A c, d \in Calls : provider[c] = provider[d]
    /\ runner \in {"local", "ci"} /\ workflow = FALSE
    /\ up = [l \in Locals |-> FALSE] /\ due = [l \in Locals |-> 0]
    /\ doing = [e \in Calls |-> "idle"] /\ rounds = [e \in Calls |-> 0]
    /\ lastRow = None
    /\ fired = 0 /\ mixed = FALSE
-----------------------------------------------------------------------------
(* The switch, and who looks at it. *)

\* factory.yaml is edited; nobody who runs already notices.
SetRunner(place) ==
    /\ runner # place
    /\ runner' = place
    /\ mixed' = (mixed \/ (\E l \in Locals : up[l]) \/ (place = "local" /\ workflow))
    /\ UNCHANGED <<kind, workflow, jobs, execution, agentVars>>

\* `factory routine generate-ci`, which does not ask for the switch.
GenerateWorkflow ==
    /\ ~workflow
    /\ workflow' = TRUE
    /\ mixed' = (mixed \/ runner = "local")
    /\ UNCHANGED <<kind, runner, jobs, execution, agentVars>>

\* The file is deleted by hand.
RemoveWorkflow ==
    /\ workflow
    /\ workflow' = FALSE
    /\ UNCHANGED <<kind, runner, mixed, jobs, execution, agentVars>>

\* build_scheduler and start; jobs are in memory.
Started(l) ==
    /\ ~up[l] /\ doing[l] = "idle"
    /\ up' = [up EXCEPT ![l] = TRUE]
    /\ mixed' = (mixed \/ \E k \in Locals \ {l} : up[k])
    /\ UNCHANGED <<kind, runner, workflow, due, fired, execution, agentVars>>

\* Wrong: the dashboard starts its scheduler whatever the switch says.
StartRegardless(l) == Started(l)

\* run_daemon and start_embedded.
StartScheduler(l) == runner = "local" /\ Started(l)

\* scheduler.shutdown(): no new jobs, those that run are waited for.
Shutdown(l) ==
    /\ up[l]
    /\ up' = [up EXCEPT ![l] = FALSE]
    /\ due' = [due EXCEPT ![l] = 0]
    /\ UNCHANGED <<kind, switch, fired, execution, agentVars>>

\* The process is killed, with its jobs, its threads and its agents.
Die(e) ==
    /\ doing[e] # "idle"
    /\ up' = [l \in Locals |-> up[l] /\ l # e]
    /\ due' = [l \in Locals |-> IF l = e THEN 0 ELSE due[l]]
    /\ doing' = [doing EXCEPT ![e] = "idle"]
    /\ rounds' = [rounds EXCEPT ![e] = 0]
    /\ CallerDies(e)
    /\ UNCHANGED <<kind, switch, fired, lastRow>>
-----------------------------------------------------------------------------
(* Jobs. *)

Saturated(n) == IF n < 2 THEN n + 1 ELSE n

\* Wrong: missed instants are kept (coalesce=False).
InstantQueued ==
    /\ due' = [l \in Locals |-> IF up[l] THEN Saturated(due[l]) ELSE 0]
    /\ fired' = IF workflow THEN 1 ELSE 0
    /\ UNCHANGED <<kind, switch, up, execution, agentVars>>

\* An instant of the routine's cron: local jobs are due (once, coalesce=True),
\* and GitHub starts the workflow's job.
Instant ==
    /\ due' = [l \in Locals |-> IF up[l] THEN 1 ELSE 0]
    /\ fired' = IF workflow THEN 1 ELSE 0
    /\ UNCHANGED <<kind, switch, up, execution, agentVars>>

StartExecution(e) ==
    /\ doing[e] = "idle"
    /\ doing' = [doing EXCEPT ![e] = "dispatch"]
    /\ UNCHANGED <<kind, switch, up, rounds, lastRow, agentVars>>

Fire(l) ==
    /\ due[l] > 0
    /\ due' = [due EXCEPT ![l] = @ - 1]
    /\ fired' = Saturated(fired)
    /\ StartExecution(l)

\* The job still runs (max_instances=1), or it is late by more than
\* misfire_grace_time: the instant is dropped.
Drop(l) ==
    /\ due[l] > 0
    /\ due' = [due EXCEPT ![l] = 0]
    /\ UNCHANGED <<kind, switch, up, fired, execution, agentVars>>

\* The dashboard's button or `factory routine run`, whatever else runs.
RunNow == StartExecution(Now) /\ UNCHANGED <<due, fired>>
-----------------------------------------------------------------------------
(* RoutineExecutor.run. *)

\* _dispatch has returned, or raised one of the three exceptions run catches.
Conclude(e, verdict) ==
    /\ doing' = [doing EXCEPT ![e] = verdict]
    /\ UNCHANGED <<kind, switch, jobs, rounds, lastRow>>

\* Any other exception: the execution ends without a row.
Escape(e) ==
    /\ doing' = [doing EXCEPT ![e] = "idle"]
    /\ rounds' = [rounds EXCEPT ![e] = 0]
    /\ UNCHANGED <<kind, switch, jobs, lastRow>>

\* Actions without an agent, and whatever ends one before its first agent: it
\* names no role, prompt or text, or an exception is raised, caught or not.
RunTool(e) ==
    /\ doing[e] = "dispatch" /\ rounds[e] = 0
    /\ \/ kind = "tool" /\ Conclude(e, "ok")
       \/ kind # "review" /\ Conclude(e, "failed")
       \/ Escape(e)
    /\ UNCHANGED agentVars

\* registry.run of the action, or of the pipeline's next step.
CallAgent(e) ==
    /\ doing[e] = "dispatch" /\ kind # "tool"
    /\ rounds[e] < IF kind = "task" THEN MaxRounds ELSE 1
    /\ Begin(e) \/ Refuse(e)
    /\ doing' = [doing EXCEPT ![e] = "calling"]
    /\ rounds' = [rounds EXCEPT ![e] = @ + 1]
    /\ UNCHANGED <<kind, switch, jobs, lastRow>>

Answered(e) == doing[e] = "calling" /\ stage[e] = "over"

\* The exception of an agent run gets out of the action, or one of what the
\* pipeline or LogReviewer does with the result.  (The pipeline may have a
\* handler for either, see PipelineGoesOn.)
AgentRaises(e) ==
    /\ Answered(e) /\ (result[e] = "raised" \/ kind \in {"task", "review"})
    /\ Escape(e)
    /\ Forget(e)

\* Wrong: _action_agent does not look at result.ok.
AgentBelieved(e) ==
    /\ Answered(e) /\ result[e] # "raised" /\ kind = "agent"
    /\ Conclude(e, "ok")
    /\ UNCHANGED agentVars

\* _action_agent: a run that is not ok is a ValueError.
AgentDecides(e) ==
    /\ Answered(e) /\ result[e] # "raised" /\ kind = "agent"
    /\ Conclude(e, IF result[e] = "finished" THEN "ok" ELSE "failed")
    /\ UNCHANGED agentVars

\* LogReviewer.run returns a sentence, also if its agent failed: ok in any case.
ReviewShrugs(e) ==
    /\ Answered(e) /\ result[e] # "raised" /\ kind = "review"
    /\ Conclude(e, "ok")
    /\ UNCHANGED agentVars

\* Pipeline.run goes on, returns an outcome, of which only the summary is used, or
\* raises one of the three exceptions run catches (GitHubError for one).
PipelineGoesOn(e) ==
    /\ Answered(e) /\ kind = "task"
    /\ Conclude(e, "dispatch") \/ Conclude(e, "ok") \/ Conclude(e, "failed")
    /\ Forget(e)

\* It does so without another agent.
PipelineReturns(e) ==
    /\ doing[e] = "dispatch" /\ kind = "task" /\ rounds[e] = MaxRounds
    /\ Conclude(e, "ok") \/ Conclude(e, "failed") \/ Escape(e)
    /\ UNCHANGED agentVars

\* _record; the store may raise, and run with it.
Record(e) ==
    /\ doing[e] \in {"ok", "failed"}
    /\ lastRow' \in {doing[e], lastRow}
    /\ doing' = [doing EXCEPT ![e] = "idle"]
    /\ rounds' = [rounds EXCEPT ![e] = 0]
    /\ UNCHANGED <<kind, switch, jobs>>
    /\ Forget(e)

Backend(e) == BackendStep(e) /\ UNCHANGED schedulerVars
Agent(e) == AgentStep(e) /\ UNCHANGED schedulerVars

ExecutorStep(e) ==
    \/ RunTool(e) \/ CallAgent(e) \/ AgentRaises(e) \/ AgentDecides(e) \/ ReviewShrugs(e)
    \/ PipelineGoesOn(e) \/ PipelineReturns(e) \/ Record(e)
    \/ Backend(e)

Operator ==
    \/ \E place \in {"local", "ci"} : SetRunner(place)
    \/ GenerateWorkflow \/ RemoveWorkflow
    \/ \E l \in Locals : StartScheduler(l) \/ Shutdown(l)
    \/ RunNow

Next ==
    \/ Operator
    \/ Instant
    \/ \E l \in Locals : Fire(l) \/ Drop(l)
    \/ \E e \in Calls : ExecutorStep(e) \/ Agent(e) \/ Die(e)

Spec == Init /\ [][Next]_vars

\* An execution goes on by itself; its agent need not.
FairSpec == Spec /\ \A e \in Calls : WF_vars(ExecutorStep(e))
-----------------------------------------------------------------------------
(* Properties. *)

\* "so a routine never double-fires" (.specs/plan.md:237, runner.py:5-7): one
\* execution for an instant, however late, unless an operator set up a second
\* place (two local schedulers, or the workflow and a local one).
OncePerInstant == ~mixed => fired <= 1

\* The history is worth reading: an agent routine's row says ok exactly if its
\* agent finished, whoever else records at the time.
RowTellsResult ==
    [][\A verdict \in {"ok", "failed"} :
          kind = "agent" /\ lastRow' = verdict /\ lastRow # verdict =>
              \E e \in Calls : /\ doing[e] = verdict /\ doing'[e] = "idle"
                               /\ (verdict = "ok") = (result[e] = "finished")]_vars

\* An execution ends, unless the agent it waits for is one of Cursor's.
ExecutionsEnd ==
    \A e \in Calls :
        doing[e] # "idle" /\ (provider[e] = "claude" \/ kind = "tool") ~> doing[e] = "idle"
=============================================================================
