------------------------------- MODULE Factory -------------------------------
(***************************************************************************)
(* Factory processes that share one repository: the SQLite task store      *)
(* (factory/state.py), the orchestrator that plans, codes and integrates a *)
(* task (factory/orchestrator.py), the worktrees on disk                   *)
(* (factory/integrator.py) and the start-up reconciliation, with processes *)
(* killed at any point and started again.                                  *)
(*                                                                         *)
(* A process is one call of Pipeline.run on a task it has just taken in    *)
(* (the CLI commands, or the task action of a routine).  Every action      *)
(* below is one statement of the store, one git worktree command or one    *)
(* agent call: the grain at which two processes, or a process and its      *)
(* coder threads, interleave.                                              *)
(*                                                                         *)
(* A worktree directory is named by what owns it: unit u's directory is    *)
(* .factory/worktrees/<u>, and task t names .factory/worktrees/            *)
(* integration-<t>.                                                        *)
(***************************************************************************)
EXTENDS Naturals, FiniteSets, FiniteSetsExt

CONSTANTS
    Procs,       \* slots for processes, each used again after an exit
    Tasks,       \* tasks that may be taken in
    Units,       \* fresh work unit ids
    NoTask,      \* no task
    Costs,       \* tokens one agent call may use
    MaxTokens,   \* budgets.max_tokens_per_task
    MaxAgents    \* budgets.max_concurrent_agents

ASSUME NamesAssumption ==
    /\ NoTask \notin Tasks
    /\ Tasks \cap Units = {}
ASSUME BudgetAssumption ==
    /\ Costs \subseteq Nat
    /\ MaxTokens \in Nat
    /\ MaxAgents \in Nat \ {0}

VARIABLES
    task,        \* task[t]: the status column, or "absent"
    unit,        \* unit[u]: the status column, or "absent"
    owner,       \* owner[u]: the task_id column
    registered,  \* units whose worktree_path column is not empty
    disk,        \* worktree directories that exist
    pc,          \* pc[p]: where process p is
    job,         \* job[p]: the task p runs
    sweep,       \* sweep[p]: p's loop variable: directories to prune, then
                 \* the unit whose worktree it is removing
    thread,      \* thread[u]: the coder thread of unit u
    usage,       \* tokens used by the planner (tasks) and the coders (units)
    tokens,      \* tokens[p]: BudgetTracker.tokens of p's run
    interrupted  \* history: tasks whose process died or ended by exception

storeVars == <<task, unit, owner, registered>>
vars == <<task, unit, owner, registered, disk, pc, job, sweep, thread,
          usage, tokens, interrupted>>

InFlight == {"pending", "planning", "coding", "integrating", "gating", "healing"}
Settled == {"pr_open", "merged", "blocked", "failed"}
TaskStatus == InFlight \cup Settled
UnitStatus == {"pending", "running", "coded", "integrated", "failed"}

Reconciling == {"requeue", "snapshot", "listing", "prune"}
PCs == Reconciling \cup {"idle", "planning", "plan", "planned", "coding",
                         "integrate", "merging", "integrated", "cleanup",
                         "gating", "opened"}

\* A coder thread: waiting in the pool, before and after it marked its unit
\* RUNNING and made its worktree, running the agent, finished.
Active == {"claimed", "made", "coding"}
Threads == Active \cup {"none", "queued", "returned", "raised"}

UnitsOf(t) == {u \in Units : owner[u] = t}
Sum(f, S) == MapThenSumSet(LAMBDA x : f[x], S)
Spent(t) == usage[t] + Sum(usage, UnitsOf(t))

TypeOK ==
    /\ task \in [Tasks -> TaskStatus \cup {"absent"}]
    /\ unit \in [Units -> UnitStatus \cup {"absent"}]
    /\ owner \in [Units -> Tasks \cup {NoTask}]
    /\ registered \subseteq Units
    /\ disk \subseteq Units \cup Tasks
    /\ pc \in [Procs -> PCs]
    /\ job \in [Procs -> Tasks \cup {NoTask}]
    /\ sweep \in [Procs -> SUBSET (Units \cup Tasks)]
    /\ thread \in [Units -> Threads]
    /\ usage \in [Tasks \cup Units -> Nat]
    /\ tokens \in [Procs -> Nat]
    /\ interrupted \subseteq Tasks

Init ==
    /\ task = [t \in Tasks |-> "absent"]
    /\ unit = [u \in Units |-> "absent"]
    /\ owner = [u \in Units |-> NoTask]
    /\ registered = {}
    /\ disk = {}
    /\ pc = [p \in Procs |-> "idle"]
    /\ job = [p \in Procs |-> NoTask]
    /\ sweep = [p \in Procs |-> {}]
    /\ thread = [u \in Units |-> "none"]
    /\ usage = [x \in Tasks \cup Units |-> 0]
    /\ tokens = [p \in Procs |-> 0]
    /\ interrupted = {}
-----------------------------------------------------------------------------
(* Helpers of the actions. *)

Goto(p, from, to) ==
    /\ pc[p] = from
    /\ pc' = [pc EXCEPT ![p] = to]

SetTask(t, s) == task' = [task EXCEPT ![t] = s]

SetUnit(u, s) == unit' = [unit EXCEPT ![u] = s]

\* A new task row.
CreateTask(t) ==
    /\ task[t] = "absent"
    /\ SetTask(t, "pending")

\* New work unit rows of task t.
CreateUnits(S, t) ==
    /\ unit' = [u \in Units |-> IF u \in S THEN "pending" ELSE unit[u]]
    /\ owner' = [u \in Units |-> IF u \in S THEN t ELSE owner[u]]

\* The process ends, normally or not: what it held in memory is gone.
Exit(p) ==
    /\ pc' = [pc EXCEPT ![p] = "idle"]
    /\ job' = [job EXCEPT ![p] = NoTask]
    /\ sweep' = [sweep EXCEPT ![p] = {}]
    /\ tokens' = [tokens EXCEPT ![p] = 0]
-----------------------------------------------------------------------------
(* Intake and start-up reconciliation. *)

\* intake_text / intake_issue: a row in PENDING, then Pipeline.run.
Intake(p) ==
    \E t \in Tasks :
        /\ Goto(p, "idle", "requeue")
        /\ CreateTask(t)
        /\ job' = [job EXCEPT ![p] = t]
        /\ UNCHANGED <<unit, owner, registered, disk, sweep, thread, usage,
                       tokens, interrupted>>

\* An issue labelled on GitHub: the webhook server makes the row, and that is
\* all it does.  No caller of Pipeline.run takes up a row it did not make.
Webhook(t) ==
    /\ CreateTask(t)
    /\ UNCHANGED <<unit, owner, registered, disk, pc, job, sweep, thread, usage,
                   tokens, interrupted>>

\* Wrong: everything that is not terminal is requeued, tasks included, though
\* BLOCKED and PR_OPEN are not terminal (TaskStatus.terminal).
RequeueTasksToo(p) ==
    /\ Goto(p, "requeue", "snapshot")
    /\ unit' = [u \in Units |-> IF unit[u] = "running" THEN "pending" ELSE unit[u]]
    /\ task' = [t \in Tasks |-> IF task[t] \in {"blocked", "pr_open"}
                                THEN "pending" ELSE task[t]]
    /\ UNCHANGED <<owner, registered, disk, job, sweep, thread, usage,
                   tokens, interrupted>>

\* StateStore.reconcile: every RUNNING unit, whichever process runs it.  The
\* list of resumable tasks it returns is dropped by Pipeline.run.
Requeue(p) ==
    /\ Goto(p, "requeue", "snapshot")
    /\ unit' = [u \in Units |-> IF unit[u] = "running" THEN "pending" ELSE unit[u]]
    /\ UNCHANGED <<task, owner, registered, disk, job, sweep, thread, usage,
                   tokens, interrupted>>

\* Wrong: every known unit is taken for registered.
SnapshotAllUnits(p) ==
    /\ Goto(p, "snapshot", "listing")
    /\ sweep' = [sweep EXCEPT ![p] = {u \in Units : unit[u] # "absent"}]
    /\ UNCHANGED <<storeVars, disk, job, thread, usage, tokens, interrupted>>

\* reconcile_worktrees reads the registered paths first ...
Snapshot(p) ==
    /\ Goto(p, "snapshot", "listing")
    /\ sweep' = [sweep EXCEPT ![p] = registered]
    /\ UNCHANGED <<storeVars, disk, job, thread, usage, tokens, interrupted>>

\* ... then lists the directory: what it is going to remove.
Listing(p) ==
    /\ Goto(p, "listing", "prune")
    /\ sweep' = [sweep EXCEPT ![p] = disk \ @]
    /\ UNCHANGED <<storeVars, disk, job, thread, usage, tokens, interrupted>>

Prune(p) ==
    /\ pc[p] = "prune"
    /\ \E d \in sweep[p] :
        /\ disk' = disk \ {d}
        /\ sweep' = [sweep EXCEPT ![p] = @ \ {d}]
    /\ UNCHANGED <<storeVars, pc, job, thread, usage, tokens, interrupted>>
-----------------------------------------------------------------------------
(* Orchestrator.plan. *)

BeginPlan(p) ==
    /\ sweep[p] = {}
    /\ Goto(p, "prune", "planning")
    /\ SetTask(job[p], "planning")
    /\ UNCHANGED <<unit, owner, registered, disk, job, sweep, thread, usage,
                   tokens, interrupted>>

\* The planner agent returns, with or without a usable plan.
PlannerAnswers(p) ==
    /\ Goto(p, "planning", "plan")
    /\ \E c \in Costs :
        /\ usage' = [usage EXCEPT ![job[p]] = c]
        /\ tokens' = [tokens EXCEPT ![p] = @ + c]
    /\ UNCHANGED <<storeVars, disk, job, sweep, thread, interrupted>>

\* BudgetExceeded, in plan or in code: checked before anything else.
OverBudget(p) ==
    /\ \/ pc[p] = "plan"
       \/ pc[p] = "coding" /\ \A u \in UnitsOf(job[p]) : thread[u] = "none"
    /\ tokens[p] > MaxTokens
    /\ SetTask(job[p], "blocked")
    /\ Exit(p)
    /\ UNCHANGED <<unit, owner, registered, disk, thread, usage, interrupted>>

\* OrchestrationError: the agent failed, or its plan does not validate.
PlanRejected(p) ==
    /\ pc[p] = "plan"
    /\ tokens[p] <= MaxTokens
    /\ SetTask(job[p], "failed")
    /\ Exit(p)
    /\ UNCHANGED <<unit, owner, registered, disk, thread, usage, interrupted>>

\* A list of at least one unit (Plan.work_units has min_length 1), each with
\* a fresh id.  A crash between two inserts leaves what a smaller plan would leave.
PlanAccepted(p) ==
    /\ Goto(p, "plan", "planned")
    /\ tokens[p] <= MaxTokens
    /\ \E S \in SUBSET {u \in Units : unit[u] = "absent"} :
        /\ S # {} /\ IsFiniteSet(S)
        /\ CreateUnits(S, job[p])
    /\ UNCHANGED <<task, registered, disk, job, sweep, thread, usage, tokens,
                   interrupted>>
-----------------------------------------------------------------------------
(* Orchestrator.code: a pool of coder threads, collected as they complete. *)

BeginCode(p) ==
    /\ Goto(p, "planned", "coding")
    /\ SetTask(job[p], "coding")
    /\ thread' = [u \in Units |-> IF owner[u] = job[p] THEN "queued" ELSE thread[u]]
    /\ UNCHANGED <<unit, owner, registered, disk, job, sweep, usage, tokens,
                   interrupted>>

\* _code_unit: a worker takes the unit and marks it RUNNING.
ClaimUnit(u) ==
    /\ thread[u] = "queued"
    /\ Cardinality({w \in UnitsOf(owner[u]) : thread[w] \in Active}) < MaxAgents
    /\ SetUnit(u, "running")
    /\ thread' = [thread EXCEPT ![u] = "claimed"]
    /\ UNCHANGED <<task, owner, registered, disk, pc, job, sweep, usage, tokens,
                   interrupted>>

\* create_worktree: git worktree add, after removing a stale directory.
MakeWorktree(u) ==
    /\ thread[u] = "claimed"
    /\ disk' = disk \cup {u}
    /\ thread' = [thread EXCEPT ![u] = "made"]
    /\ UNCHANGED <<storeVars, pc, job, sweep, usage, tokens, interrupted>>

\* Wrong: the worktree is registered under the task's id.
RegisterUnderTask(u) ==
    /\ thread[u] = "made"
    /\ registered' = registered \cup {owner[u]}
    /\ thread' = [thread EXCEPT ![u] = "coding"]
    /\ UNCHANGED <<task, unit, owner, disk, pc, job, sweep, usage, tokens,
                   interrupted>>

\* create_worktree, second half: only now does the store know the directory.
RegisterWorktree(u) ==
    /\ thread[u] = "made"
    /\ registered' = registered \cup {u}
    /\ thread' = [thread EXCEPT ![u] = "coding"]
    /\ UNCHANGED <<task, unit, owner, disk, pc, job, sweep, usage, tokens,
                   interrupted>>

\* An exception in the thread (GitError, BackendError): no status is written
\* until the pool's owner collects the future.
CoderRaises(u) ==
    /\ thread[u] \in Active
    /\ thread' = [thread EXCEPT ![u] = "raised"]
    /\ UNCHANGED <<storeVars, disk, pc, job, sweep, usage, tokens, interrupted>>

\* The agent returned a result that is not ok: FAILED, then OrchestrationError.
CoderFails(u) ==
    /\ thread[u] = "coding"
    /\ SetUnit(u, "failed")
    /\ thread' = [thread EXCEPT ![u] = "raised"]
    /\ \E c \in Costs : usage' = [usage EXCEPT ![u] = c]
    /\ UNCHANGED <<task, owner, registered, disk, pc, job, sweep, tokens,
                   interrupted>>

CoderSucceeds(u) ==
    /\ thread[u] = "coding"
    /\ SetUnit(u, "coded")
    /\ thread' = [thread EXCEPT ![u] = "returned"]
    /\ \E c \in Costs : usage' = [usage EXCEPT ![u] = c]
    /\ UNCHANGED <<task, owner, registered, disk, pc, job, sweep, tokens,
                   interrupted>>

\* Wrong: only results are collected, a raising future is never taken.
CollectResultsOnly(p, u) ==
    /\ pc[p] = "coding"
    /\ owner[u] = job[p]
    /\ thread[u] = "returned"
    /\ tokens' = [tokens EXCEPT ![p] = @ + usage[u]]
    /\ thread' = [thread EXCEPT ![u] = "none"]
    /\ UNCHANGED <<task, unit, owner, registered, disk, pc, job, sweep, usage,
                   interrupted>>

\* Wrong: a raising future is dropped without writing FAILED.
CollectWithoutFailing(p, u) ==
    /\ pc[p] = "coding"
    /\ owner[u] = job[p]
    /\ thread[u] \in {"returned", "raised"}
    /\ thread' = [thread EXCEPT ![u] = "none"]
    /\ UNCHANGED <<task, unit, owner, registered, disk, pc, job, sweep, usage,
                   tokens, interrupted>>

\* Wrong: the budget keeps the last agent's usage, not the sum.
CollectOverwritesTokens(p, u) ==
    /\ pc[p] = "coding"
    /\ owner[u] = job[p]
    /\ \/ /\ thread[u] = "returned"
          /\ tokens' = [tokens EXCEPT ![p] = usage[u]]
          /\ UNCHANGED unit
       \/ /\ thread[u] = "raised"
          /\ SetUnit(u, "failed")
          /\ UNCHANGED tokens
    /\ thread' = [thread EXCEPT ![u] = "none"]
    /\ UNCHANGED <<task, owner, registered, disk, pc, job, sweep, usage,
                   interrupted>>

\* The as_completed loop: a result is added to the budget; an exception marks
\* the unit FAILED and its usage is not counted.
Collect(p, u) ==
    /\ pc[p] = "coding"
    /\ owner[u] = job[p]
    /\ \/ /\ thread[u] = "returned"
          /\ tokens' = [tokens EXCEPT ![p] = @ + usage[u]]
          /\ UNCHANGED unit
       \/ /\ thread[u] = "raised"
          /\ SetUnit(u, "failed")
          /\ UNCHANGED tokens
    /\ thread' = [thread EXCEPT ![u] = "none"]
    /\ UNCHANGED <<task, owner, registered, disk, pc, job, sweep, usage,
                   interrupted>>

Collected(p) ==
    /\ pc[p] = "coding"
    /\ \A u \in UnitsOf(job[p]) : thread[u] = "none"
    /\ tokens[p] <= MaxTokens

\* Wrong: the error is raised past the handler that writes FAILED.
CodingFailedUnrecorded(p) ==
    /\ Collected(p)
    /\ \E u \in UnitsOf(job[p]) : unit[u] = "failed"
    /\ Exit(p)
    /\ UNCHANGED <<storeVars, disk, thread, usage, interrupted>>

\* OrchestrationError("coding failed"), raised after the budget was checked.
CodingFailed(p) ==
    /\ Collected(p)
    /\ \E u \in UnitsOf(job[p]) : unit[u] = "failed"
    /\ SetTask(job[p], "failed")
    /\ Exit(p)
    /\ UNCHANGED <<unit, owner, registered, disk, thread, usage, interrupted>>

\* Wrong: failures of single coders do not stop the task.
CodingDoneRegardless(p) ==
    /\ Collected(p)
    /\ pc' = [pc EXCEPT ![p] = "integrate"]
    /\ SetTask(job[p], "integrating")
    /\ UNCHANGED <<unit, owner, registered, disk, job, sweep, thread, usage,
                   tokens, interrupted>>

CodingDone(p) ==
    /\ Collected(p)
    /\ \A u \in UnitsOf(job[p]) : unit[u] # "failed"
    /\ pc' = [pc EXCEPT ![p] = "integrate"]
    /\ SetTask(job[p], "integrating")
    /\ UNCHANGED <<unit, owner, registered, disk, job, sweep, thread, usage,
                   tokens, interrupted>>
-----------------------------------------------------------------------------
(* Integrator.integrate; Integration.tla has the merges in detail. *)

AddIntegrationTree(p) ==
    /\ Goto(p, "integrate", "merging")
    /\ disk' = disk \cup {job[p]}
    /\ UNCHANGED <<storeVars, job, sweep, thread, usage, tokens, interrupted>>

\* A unit of the list is merged.  (One without a branch would be skipped,
\* integrator.py:133-134; a unit whose coder has returned has one.)
MergeUnit(p, u) ==
    /\ pc[p] = "merging"
    /\ job[p] \in disk
    /\ u \in UnitsOf(job[p])
    /\ unit[u] # "integrated"
    /\ SetUnit(u, "integrated")
    /\ UNCHANGED <<task, owner, registered, disk, pc, job, sweep, thread, usage,
                   tokens, interrupted>>

\* IntegrationError: a conflict survived the resolver; FAILED after the
\* finally block removed the integration worktree.
MergeConflict(p) ==
    /\ pc[p] = "merging"
    /\ job[p] \in disk
    /\ \E u \in UnitsOf(job[p]) : unit[u] # "integrated"
    /\ disk' = disk \ {job[p]}
    /\ SetTask(job[p], "failed")
    /\ Exit(p)
    /\ UNCHANGED <<unit, owner, registered, thread, usage, interrupted>>

\* GitError, BackendError or OSError (the worktree was removed under the
\* merge): run_task writes no status.
IntegrationRaises(p) ==
    /\ pc[p] = "merging"
    /\ disk' = disk \ {job[p]}
    /\ Exit(p)
    /\ interrupted' = interrupted \cup {job[p]}
    /\ UNCHANGED <<storeVars, thread, usage>>

RemoveIntegrationTree(p) ==
    /\ Goto(p, "merging", "integrated")
    /\ \A u \in UnitsOf(job[p]) : unit[u] = "integrated"
    /\ disk' = disk \ {job[p]}
    /\ UNCHANGED <<storeVars, job, sweep, thread, usage, tokens, interrupted>>

\* remove_worktree of each unit: the directory, then the column.
RemoveUnitTree(p, u) ==
    /\ Goto(p, "integrated", "cleanup")
    /\ u \in UnitsOf(job[p]) \cap registered
    /\ disk' = disk \ {u}
    /\ sweep' = [sweep EXCEPT ![p] = {u}]
    /\ UNCHANGED <<storeVars, job, thread, usage, tokens, interrupted>>

ForgetUnitTree(p) ==
    /\ Goto(p, "cleanup", "integrated")
    /\ registered' = registered \ sweep[p]
    /\ sweep' = [sweep EXCEPT ![p] = {}]
    /\ UNCHANGED <<task, unit, owner, disk, job, thread, usage, tokens,
                   interrupted>>
-----------------------------------------------------------------------------
(* Pipeline.gate_and_merge, as far as the task row shows it. *)

BeginGates(p) ==
    /\ Goto(p, "integrated", "gating")
    /\ UnitsOf(job[p]) \cap registered = {}
    /\ SetTask(job[p], "gating")
    /\ UNCHANGED <<unit, owner, registered, disk, job, sweep, thread, usage,
                   tokens, interrupted>>

BeginHealing(p) ==
    /\ pc[p] = "gating"
    /\ task[job[p]] = "gating"
    /\ SetTask(job[p], "healing")
    /\ UNCHANGED <<unit, owner, registered, disk, pc, job, sweep, thread, usage,
                   tokens, interrupted>>

\* The gates failed for good, or the branch is merged without a pull request.
FinishTask(p) ==
    /\ pc[p] = "gating"
    /\ \E s \in {"blocked", "merged"} : SetTask(job[p], s)
    /\ Exit(p)
    /\ UNCHANGED <<unit, owner, registered, disk, thread, usage, interrupted>>

\* The pull request is open, or the branch is held: the row says so before
\* the process is done with the task ...
OpenRequest(p) ==
    /\ Goto(p, "gating", "opened")
    /\ SetTask(job[p], "pr_open")
    /\ UNCHANGED <<unit, owner, registered, disk, job, sweep, thread, usage,
                   tokens, interrupted>>

\* ... leaves it to a human or to CI, ...
LeaveRequest(p) ==
    /\ pc[p] = "opened"
    /\ Exit(p)
    /\ UNCHANGED <<storeVars, disk, thread, usage, interrupted>>

\* ... or merges it.
MergeRequest(p) ==
    /\ pc[p] = "opened"
    /\ SetTask(job[p], "merged")
    /\ Exit(p)
    /\ UNCHANGED <<unit, owner, registered, disk, thread, usage, interrupted>>
-----------------------------------------------------------------------------
\* The process is killed, or ends by an exception no handler turns into a
\* status: its threads go with it, the store and the directories stay.
Crash(p) ==
    /\ pc[p] # "idle"
    /\ Exit(p)
    /\ thread' = [u \in Units |-> IF owner[u] = job[p] THEN "none" ELSE thread[u]]
    /\ interrupted' = interrupted \cup {job[p]}
    /\ UNCHANGED <<storeVars, disk, usage>>

CoderStep(u) ==
    \/ ClaimUnit(u) \/ MakeWorktree(u) \/ RegisterWorktree(u)
    \/ CoderRaises(u) \/ CoderFails(u) \/ CoderSucceeds(u)

ProcStep(p) ==
    \/ Requeue(p) \/ Snapshot(p) \/ Listing(p) \/ Prune(p)
    \/ BeginPlan(p) \/ PlannerAnswers(p) \/ OverBudget(p)
    \/ PlanRejected(p) \/ PlanAccepted(p)
    \/ BeginCode(p) \/ CodingFailed(p) \/ CodingDone(p)
    \/ AddIntegrationTree(p) \/ MergeConflict(p) \/ IntegrationRaises(p)
    \/ RemoveIntegrationTree(p)
    \/ ForgetUnitTree(p)
    \/ BeginGates(p) \/ BeginHealing(p) \/ FinishTask(p)
    \/ OpenRequest(p) \/ LeaveRequest(p) \/ MergeRequest(p)
    \/ \E u \in Units : Collect(p, u) \/ MergeUnit(p, u) \/ RemoveUnitTree(p, u)

Next ==
    \/ \E p \in Procs : Intake(p) \/ ProcStep(p) \/ Crash(p)
    \/ \E t \in Tasks : Webhook(t)
    \/ \E u \in Units : CoderStep(u)

\* A process can go on only when an agent does: the planner, the coder of one
\* of its units, the resolver of a merge, or an agent of the gating stage.  No
\* timeout cuts off an agent run of Cursor (cursor_backend.py:42-57, see Agents).
AwaitsAgent(p) ==
    \/ pc[p] \in {"planning", "gating"}
    \/ pc[p] = "coding" /\ \E u \in UnitsOf(job[p]) : thread[u] = "coding"
    \/ pc[p] = "merging" /\ \E u \in UnitsOf(job[p]) : unit[u] # "integrated"

\* Git commands and store statements have timeouts in the code, so a process
\* that is not killed goes on by itself, and so do its threads; agents need not.
Fairness ==
    /\ \A p \in Procs : WF_vars(ProcStep(p) /\ ~AwaitsAgent(p))
    /\ \A u \in Units : WF_vars(CoderStep(u) /\ thread[u] # "coding")

Spec == Init /\ [][Next]_vars
FairSpec == Spec /\ Fairness
-----------------------------------------------------------------------------
(* Properties. *)

\* Tasks some process is working on right now.
Live == {t \in Tasks : \E p \in Procs : job[p] = t}

\* A run that returns normally has settled its task: only a kill or an
\* exception no handler turns into a status leaves a task that was begun in
\* flight with no process behind it (run_task and gate_and_merge write a
\* final status on every other way out).  A PENDING row is not begun.
Begun == InFlight \ {"pending"}
OnlyInterruptedTasksStay ==
    \A t \in Tasks : task[t] \in Begun => t \in Live \cup interrupted

\* A task goes on to integration only if everything its planner and all its
\* coders used is within budgets.max_tokens_per_task: the as_completed loop
\* has counted every agent by the time the budget is checked.
IntegratesWithinBudget ==
    \A t \in Tasks :
        task[t] \in {"integrating", "gating", "healing", "pr_open", "merged"}
            => Spent(t) <= MaxTokens

\* With no other process around, a coder works on a unit the store shows as
\* RUNNING, in its own worktree, and a RUNNING unit has a coder once the
\* process has requeued what its predecessors left.
CodersMatchStore ==
    /\ \A u \in Units :
        /\ thread[u] = "coding" => u \in disk /\ unit[u] = "running"
        /\ thread[u] \in {"claimed", "made"} => unit[u] = "running"
    /\ \A p \in Procs : pc[p] \notin {"idle", "requeue"} =>
        \A u \in Units : unit[u] = "running" => thread[u] \in Active \cup {"raised"}

\* With no other process around, once start-up reconciliation is over every
\* worktree directory is either one the store knows or one this process is
\* about to register or to remove: what earlier processes left unregistered
\* when they died is gone (reconcile_worktrees).
NoOrphansAfterSweep ==
    \A p \in Procs : pc[p] \notin Reconciling \cup {"idle"} =>
        \A d \in disk :
            \/ d \in registered
            \/ d \in Units /\ owner[d] = job[p] /\ pc[p] = "coding"
            \/ d = job[p] /\ pc[p] = "merging"

\* The rows tell the life of a task as TaskLife.tla has it: written by the
\* task's own process only, forward only, and not at all once that process
\* has ended, whatever other processes start, requeue or leave behind.
Life == INSTANCE TaskLife WITH First <- "absent", row <- task, running <- Live
LifeSpec == Life!Spec

\* The code keeps the promise of Delivery.tla about planned, coded,
\* integrated and delivered work, with any number of processes, crashes and
\* reconciliations.
Promise == INSTANCE Delivery WITH
    plan <- [t \in Tasks |-> UnitsOf(t)],
    coded <- {u \in Units : unit[u] \in {"coded", "integrated"}},
    integrated <- {u \in Units : unit[u] = "integrated"},
    delivered <- {t \in Tasks : task[t] \in {"pr_open", "merged"}}
DeliverySpec == Promise!Spec

\* A process that is not killed returns from Pipeline.run, unless it waits for an
\* agent for ever: it waits for no thread that has ended, well or not, and for
\* no other process.
RunsReturn ==
    \A p \in Procs : pc[p] # "idle" ~> pc[p] = "idle" \/ []AwaitsAgent(p)

\* "Killing the orchestrator mid-run and restarting reconciles worktrees and
\* resumes or fails-forward (no orphans)" (CONTRACT.md:77-78): once a process
\* has finished its start-up reconciliation, no task that was interrupted is
\* in flight with no process behind it.
InterruptedTasksAreSettled ==
    \A p \in Procs : pc[p] \notin Reconciling \cup {"idle"} =>
        \A t \in interrupted : task[t] \in InFlight => t \in Live
=============================================================================
