# Verification of the software factory

TLA+ models of the `factory` package (`src/factory`), TLC configurations that
model-check them on small instances, and TLAPS proofs of their main properties
for every value of the constants. `CONTRACT.md`, the docstrings and the tests
were read beside the code; every definition follows the code, and
`PROJECT.json` ("map") names the lines each one stands for.

    tlc -workers 2 -config MCFactory_shared.cfg MCFactory    # one run
    tlapm FactoryProofs.tla                                  # one proof module

## 1. The system

The factory takes in a task (text or GitHub issue), lets a planner agent split
it into work units, lets coder agents work on the units in parallel, each in a
git worktree, merges the units into an integration branch, runs gates on it,
heals it once if they fail, and merges it, opens a pull request, or blocks.
Beside that, it reviews failed CI runs, runs routines on a schedule, serves a
dashboard, and deploys what a human has approved.

Everything persistent is shared and mostly unlocked: one SQLite file with short
transactions (`.factory/factory.db`), one JSON file (`.factory/deploy.json`),
one git repository with its worktrees, and GitHub. The actors are operating
system processes (CLI calls, the scheduler, the dashboard), their threads, and
agents, which may do anything to the tree they are started in.

### Inventory

| Component | State | Operations | Correct if |
|---|---|---|---|
| task store, `state.py` | rows `tasks`, `work_units`, `heal_ledger`, `routine_runs` | create, update, list, `reconcile` | a settled status is never rewritten; a RUNNING unit has a coder |
| intake, `intake/` | one new row | text and issue (then `Pipeline.run`), webhook (row only) | what is taken in is planned |
| orchestrator, `orchestrator.py` | task and unit status, the thread pool, the token budget | `startup_reconcile`, `plan`, `code`, `integrate`, `cleanup`, handlers of `run_task` | a run that returns has settled its task; nothing over budget goes on; every unit is coded before any is integrated |
| integrator, `integrator.py` | worktrees, integration branch, open merge | create, register, remove, prune worktrees; merge with resolver loop | no orphans after start-up; a live worktree stays; INTEGRATED means merged |
| pipeline, `pipeline.py` | status, branch, pull request, base branch | gates, heal, assess, finish remotely or locally | what is merged is what was gated and assessed; the row tells the truth |
| gates and sandbox, `gates/`, `sandbox/` | none | run tools, judge output | a missing tool is a SKIP, never a pass |
| merge policy, `gates/merge_policy.py` | none | `assess_risk`, `merge_decision` | high risk is never merged without a human |
| heal ledger, healers, `selfheal/` | attempts and backoff per signature | `allowed`, `record`, rerun, fix, escalate | caps and backoffs hold; no runaway loop |
| deploy gate, runner, `deploy/` | pending request, history | request, approve, reject, `take_approved`, hook | nothing runs unapproved; one deploy per approval |
| CI review, `selfheal/ci_review.py` | a directory per failure signature, branches, pull requests | rerun, `_fix`, escalate | a fix keeps its tree and branch; what is published is the scanned fix |
| scheduler, routines, `scheduler/` | jobs in memory, history rows | cron jobs, run-now, seven action types | one execution per instant; rows that tell the truth; running work untouched |
| GitHub client, `github_api.py` | none (remote) | PRs, labels, checks, issues | its answers are not older than the decision taken on them |
| backends, agents, `backends/`, `agents/` | registry cache | `run` → `RunResult` or exception, observer | a run ends; no agent outlives its run; what is returned is recorded |
| metrics, `metrics/` | transcripts, `agent_runs`, `routine_runs` | write, roll up | a row has its transcript |
| log review, dashboard pages, config, bootstrap, CLI, `infra/` | observation, start-up files | – | outside the models, see section 8 |

### How the parts interact

`Pipeline.run` calls `startup_reconcile`, `run_task` and `gate_and_merge` in
one thread. `code` starts coder threads, which write unit rows and register
worktrees on their own and return through futures. Processes know nothing of
each other: they meet in the store, in the worktree directory, in git and in
the JSON file. GitHub Actions move the checks of a pull request; humans act
through dashboard and CLI. The heal ledger is asked by the pipeline's gate
healer and by CI review, which works in the same worktree directory as everybody
else. A routine may be started by the daemon, by the dashboard's embedded
scheduler, by a run-now thread, by the CLI and by a generated workflow; it calls
an agent, a gate, `Pipeline.run` or a maintenance job. Every agent call goes
through `BackendRegistry.run`.

### Hard behaviours

* *Start-up reconciliation is global.* It requeues every RUNNING unit and prunes
  every unregistered directory, whichever process they belong to.
* *Check, then act, in separate transactions*: ledger, deploy file, worktree
  directory and its registration, the list of stale branches.
* *Shared names*: the directory of a CI fix is named by its signature alone, the
  branch by the attempt number of a ledger that other checkouts do not have.
* *Agents that do not end*, and timeouts that race them.
* *Several places that fire the same routine*.
* *Death anywhere*: killed processes leave rows, directories and open merges.
* *Agents may lie*: report success with unmerged files, abort the merge.
* *Late answers*: GitHub's checks appear after the pull request is opened.
* *Limits*: attempts, reruns, history, pool size, token budget.

`PROJECT.json` lists every such place as a hazard with its line, the properties
aimed at it, and, where none is, the reason.

## 2. Modules

| Module | Models | Used by |
|---|---|---|
| `Delivery` | abstract: plan, code, integrate, deliver | refined by `Factory`, and by `Integration` for its part |
| `TaskLife` | abstract: the row of a task, who writes it and what may follow what | refined by `Factory` and `MergePipeline` |
| `Factory` | several processes on one store and worktree directory | `MCFactory`, `FactoryProofs` |
| `Integration` | merges of one task with the resolver loop | `MCIntegration`, `IntegrationProofs` |
| `Gates` | tools, sandbox, check results, verdict (operators only) | `MergePipeline` |
| `MergePipeline` | `gate_and_merge` of several tasks on one checkout | `MCMergePipeline`, `MergePipelineProofs` |
| `SelfHeal` | ledger, CI review and gate healing, racing workers | `MCSelfHeal`, `SelfHealProofs` |
| `CIFix` | one CI failure fixed by several reviewers, swept directories, stale branches, fresh checkouts | `MCCIFix`, `CIFixProofs` |
| `DeployGate` | requests, approvals, runner on the unlocked file | `MCDeployGate`, `DeployGateProofs` |
| `Agents` | `BackendRegistry.run`, timeouts, observer | extended by `Scheduler` |
| `Scheduler` | one routine, its schedulers, executions and rows, on `Agents` | `MCScheduler`, `SchedulerProofs` |

`Factory` shows integration and gates as coarse steps (`MergeUnit`,
`FinishTask`); `Integration` and `MergePipeline` have these in detail. They
meet in the task row: from the end of integration to a final status is
`MergePipeline` from `start` to `done` or `raised`. Both levels implement one
abstract module: `TaskLife` is what the row of a task may do in `Factory` as a
whole and, beginning at `integrating`, in `MergePipeline`; `Delivery` is what the
units may do in `Factory`, and its steps are those `Integration` takes. `SelfHeal` has all of CI
review's decisions and leaves `_fix` to `CIFix`, which in turn leaves backoffs to
`SelfHeal`. `Scheduler` is composed with `Agents` by extension: an execution and
its agent run are one actor, and each agent step is a step of the composition.

Definitions whose comment begins with "Wrong:" are mutations of the definition
after them. No specification uses them; each shows, put in the place of the
right one, that some property can fail.

### Factory

A process slot `p` is one `Pipeline.run` at a time: `pc[p]` is where it is,
`job[p]` its task, `tokens[p]` its `BudgetTracker`. `task`, `unit`, `owner` and
`registered` are the columns of the store; `disk` is what
`.factory/worktrees` holds; `thread[u]` is the future and thread of unit `u`.
Each store statement, git worktree command and agent call is an action of its
own, so two processes, or a process and its coders, interleave between them.

| Code | Actions |
|---|---|
| `intake_text`, `intake_issue`; webhook handler | `Intake`; `Webhook` |
| `StateStore.reconcile`; `reconcile_worktrees` | `Requeue`; `Snapshot`, `Listing`, `Prune` |
| `Orchestrator.plan` | `BeginPlan`, `PlannerAnswers`, `PlanRejected`, `PlanAccepted` |
| `_code_unit`, `create_worktree` | `ClaimUnit`, `MakeWorktree`, `RegisterWorktree`, `CoderRaises`, `CoderFails`, `CoderSucceeds` |
| `Orchestrator.code` | `BeginCode`, `Collect`, `CodingFailed`, `CodingDone`; `OverBudget` |
| `integrate`, `cleanup` | `AddIntegrationTree`, `MergeUnit`, `MergeConflict`, `IntegrationRaises`, `RemoveIntegrationTree`, `RemoveUnitTree`, `ForgetUnitTree` |
| `gate_and_merge`, seen from the row | `BeginGates`, `BeginHealing`, `FinishTask` (blocked or merged without a pull request); `OpenRequest`, then `LeaveRequest` or `MergeRequest` |
| kill, or an exception no handler takes | `Crash` |

`Crash` takes the threads along and keeps store and directories. `interrupted`
is a history variable: tasks whose process ended that way.

### Integration

State of git as far as the code looks at it: `branch`, `mergeHead`,
`conflicted`; `_merge_unit`'s loop is `pc`, `current`, `attempt`. The resolver
may commit, stage, leave or abort, and report what it likes (`Runs`), and
`git merge` may fail for reasons other than a conflict. The history variable
`trusted` is true while git and the agent have kept to what the code takes for
granted; the properties that need this say so, and the run `integration_lost`
shows what happens without it.

### Gates and MergePipeline

`Gates` translates the checks: by exit status, by JSON on stdout, by a report
file or an agent's answer; `Exec` says what comes of a command in either
sandbox mode, `Judge` turns the runs of a check into pass, fail or skip,
`Passed` is `GateReport.passed`. `MergePipeline` enumerates every combination
of results that can come about (`Reports`) as a gate run, so the verdict is
computed, not chosen. A branch has version 1 as integrated and 2 with the
fixer's commit; `gated`, `risky` and `base` hold versions, so that "what is
merged is what was gated" can be stated. One task's steps follow the code
statement by statement; tasks share the base branch and the checkout
(`openMerge`).

### SelfHeal

`Admit` is `HealLedger.allowed`, `ReadAttempts` and `WriteAttempts` the two
transactions of `record`; workers are CI reviewers and gate healers. Of a
backoff only whether it is over is kept (`cooling`); it may end at any moment,
also before the row is written. A rerun refused goes on as a fix
(`RerunRefused`), a fix refused is escalated (`FixRefused`). `raced` remembers
the keys two workers asked about at the same time.

### CIFix

One failure signature. `dir` is the branch checked out in the directory that all
fixers of the signature share, `branches` and `commits` are local, `remote` and
`pr` are GitHub's.

| Code | Actions |
|---|---|
| `allowed`, `record` | `Ask` (with the read of the count), `Prepare` (its write, and the removal of an old directory) |
| `git worktree add -b` | `AddTree`, `AddFails` |
| fixer agent, `diff` | `FixerEnds`, `Diff` |
| security gate on workflow edits | `Scan` |
| push, `create_pr`, `add_labels` | `Publish`, cut short anywhere; `StepFails` |
| `finally` | `Leave` |
| start-up of another process | `SweepFinds`, `SweepRemoves` |
| `_action_stale_branches` | `StaleFound`, `StaleDeleted` |
| another machine, the self-heal workflow | `FreshCheckout` |

`disturbed` remembers the reviewers that met another one, or lost the directory
to a sweep; the properties about an attempt's tree, branch and publication are
about the others. `NoLeftovers` and `ReviewReturns` are about everybody. A fixer's
work is one commit, made at its end, on the branch of the directory it is called
in: of another attempt if the directory was exchanged under it. What comes of
checkouts that are gone is `Older`, not told apart. The stale-branch routine begins
only while no attempt is disturbed, and follows one branch of its list.

### Agents and Scheduler

`stage[c]` is where a call of `BackendRegistry.run` is, `atWork[c]` how many agents
work for it. Claude's timeout cancels the query (`CancelQuery`). Cursor's gives up
waiting (`StopWaiting`) and then leaves the `with` block of its thread pool, which
waits again (`AgentEndsLate`). The observer writes a transcript, then a row, and
may raise at either.

A routine is fired by `Instant`, `Fire` and `Drop` (the local scheduler), by
`RunNow` and by the workflow. `doing[e]` follows `RoutineExecutor.run`: `RunTool`
for actions without agent (a gate action too: its gates get no diff, so no review
runs) and for what ends one before its first agent, `CallAgent` and what becomes of the result by kind of
action (`AgentDecides`, `ReviewShrugs`, `PipelineGoesOn`), `Record` for the row,
`Escape` for the exceptions `run` does not take. `SetRunner`, `GenerateWorkflow`,
`StartScheduler` and `Shutdown` are the operator's; `mixed` remembers that a second
place was set up beside one in use.

### DeployGate

Load and decision are one action (`Request`, `Approve`, `Reject`,
`TakeApproved`), truncating the file and writing it two more; a write over
another one may leave a file that does not parse (`Torn`), which `_load` takes
for empty. `RunHook` is the runner after `take_approved`. `overlapped` says
that two calls were ever in progress at once.

## 3. Runs

| Run | Instance | Shows |
|---|---|---|
| `factory_serial` | 1 slot used repeatedly, 2 tasks, 3 units, 2 coders; 138 306 states, fairness | store, coders and directories agree after reconciliation; a run settles its task or was interrupted; a run not killed returns unless it waits for an agent for ever |
| `factory_shared` | 2 slots, 2 tasks, 3 units, costs below and above the budget, symmetry; 207 170 states | two processes that reconcile across each other still implement `Delivery` and `TaskLife` and keep the budget |
| `integration` | 3 units, 2 resolver attempts (the code's); 1 025 states, fairness | what INTEGRATED is worth, clean trees between merges, what a failure leaves, that its steps are those of `Delivery`, that the loop ends if its agents do |
| `merge` | 2 tasks, docker, a check by exit status with two profiles and one by JSON; 362 196 states, fairness | gated and assessed version is the merged one, high risk never merges, the row tells the truth and lives as in `TaskLife`, the pipeline ends if its agents do |
| `heal` | 2 workers, 1 CI and 1 gate signature, caps 1 and 2; 486 496 states | caps and backoffs hold for keys without a race, and even with races attempts are at some time no longer begun |
| `ci_fix` | 2 reviewers, 2 attempts, strict policy; 655 730 states, fairness | an attempt that met nobody keeps its tree and branch and publishes its own scanned fix; only the dead leave a directory; every review returns whose agents do |
| `scheduler` | 1 scheduler beside run-now and the workflow, both providers, 2 agents per pipeline; 339 275 states, fairness | one execution per instant; rows that tell the truth; no agent outlives a run whose caller lives; results are recorded; executions end, but for an agent of Cursor's |
| `deploy` | 2 actors, 3 requests, history of 2, symmetry; 173 631 states | nothing unapproved is deployed or recorded, one deploy per approval without overlap |

Runs that TLC is expected to refute, each with a finding (section 7):
`factory_restart`, `integration_lost`, `merge_silent`, `agent_timeout`.

### Bounds and why they are enough

All bounds are constants of the configurations; the only ones in guards are
fresh names (`Units`, `Tasks`, `Requests` run out), `MaxRounds`, and history
counters that saturate (`begun` at the cap plus one, `deployed` and `fired` at two).

* Two processes: every hazard is between one process and another one's
  reconciliation; a third would be another reconciler.
* One slot in `factory_serial`: the slot is used again after a crash, so every
  task meets what its predecessors left. Two tasks are a dead predecessor and a
  successor.
* Three units: a task with two concurrent coders and a third unit in the pool or
  in the other task. Both sides of `MaxAgents` occur (pool full and not).
* `Costs = {1, 4}` with a budget of 3: within it, over it by one agent. Three
  units cost at least 3 together with the planner's 1, so a sum exceeds it too.
* Integration: three units, so a unit follows and precedes a conflicting one;
  the code's own cap of two attempts.
* Heal: two workers race; caps of 1 and 2 have a last and a next-to-last attempt.
* Deploy: three requests on a history of two, so the history is cut.
* CI fix: two reviewers make every kind of disturbance (a third would be another
  disturber); two attempts are a first, and a last that meets what the first left
  in the directory and at GitHub. A race gives both the same number. `Strict` is
  TRUE in the run, because that policy has the longer path; the proofs cover both.
* Scheduler: one local scheduler, since a second one sets `mixed`, and then
  `OncePerInstant` promises nothing; two executions at once (job and run-now).
  `MaxRounds` bounds the agents that a pipeline calls one after the other, two
  being a first and a next.
* Merge: two tasks for the shared checkout; the two checks are the two ways a
  missing tool matters (by exit status, by JSON), two profiles make a check of
  several runs. The other checks are judged by the same operators; enabling all
  multiplies the results and adds no verdict.

Symmetry is used in runs without liveness only, over names that no definition
tells apart. Deadlock checking is off where the system really stops: tasks,
units and requests run out, a pipeline ends. `heal`, `ci_fix` and `scheduler`
check deadlock: workers, reviewers and instants do not run out.

### Fairness

Weak fairness on what a process, a coder thread, a reviewer, a pipeline or an
execution does by itself. The code justifies it: every subprocess and HTTP call
is given a timeout, SQLite has a busy timeout, and there is no lock held across
them; a process that is not killed goes on. Agent runs are the exception. Claude's
are cut off by `asyncio.wait_for`; Cursor's, the default, are not: the pool is left
by joining the thread (`cursor_backend.py:42-57`, run `agent_timeout`). So no module
assumes that an agent run ends:

| Module | Fair | Not fair | Liveness |
|---|---|---|---|
| `Factory` | `ProcStep(p)` unless `AwaitsAgent(p)`; `CoderStep(u)` unless the coder's agent runs | the planner, a coder, a resolver, what the gating stage calls | `RunsReturn`: the process gets idle, or is from some time on `AwaitsAgent` |
| `Integration` | `Step` | at `resolver` | `IntegrateReturns`: it ends, or stays at `resolver` |
| `MergePipeline` | `Step(t)` unless `AgentAtWork(t)` | reviewer, fixer, the agent of `llm_review` | `PipelineReturns`: it ends, or stays there |
| `CIFix` | `Work(r)` unless `AgentAtWork(r)` | fixer, the agent of the security gate | `ReviewReturns`: the reviewer gets idle, or stays there |
| `Scheduler` | `ExecutorStep(e)`, with the backend's timeout | `AgentStep` | `ExecutionsEnd`, for Claude or without an agent |
| `SelfHeal` | nothing | everything | `NoRunaway` |

What these properties say is then that a caller waits for nothing but an agent: not
for a thread that has ended or was never started, not for the lock, merge or
directory of another process, and not in a loop. Where several stages are one place
(`gating` in `Factory`), the detailed module has them apart. Crashes, failures, the
intake of tasks, humans, CI, backoffs, sweeps, instants and routines get no
fairness.

`NoRunaway` is about attempts that are begun for ever, so it needs no fairness, and
assumes nothing of races, agents or backoffs. A stale write may lower the count, but
the least of the count and of the copies about to be written never falls, every new
copy is above it, and workers are finitely many, so the number of writes below the
cap is finite.

## 4. What is proved

TLAPS checks, for any number of processes, tasks, units, actors, requests,
signatures and any caps:

| Module | Theorem | Statement |
|---|---|---|
| `FactoryProofs` | `TypeCorrect` | `Spec => []TypeOK` |
| | `RunsSettleTasks` | `Spec => []OnlyInterruptedTasksStay` |
| | `BudgetKept` | `Spec => []IntegratesWithinBudget` |
| | `FactoryDelivers` | `Spec => DeliverySpec` (refinement of `Delivery`) |
| | `FactoryLives` | `Spec => LifeSpec` (refinement of `TaskLife`) |
| | `RunsGoForward` | every step of a run leads to a later stage or shortens a finite list |
| `IntegrationProofs` | `IntegratesDelivery` | `Spec => IntegratesAsPromised` (steps of `Delivery`) |
| | `LoopShrinks` | every step leaves fewer units or fewer steps for the current one |
| | `TypeCorrect`, `TrustedMeansMerged`, `TrustedTreeIsClean`, `FailureIsClean` | the type and three safety invariants of the run |
| `FactoryAloneProofs` | `CodersAgree`, `OrphansGo` | one process at a time: `Spec => []CodersMatchStore`, `Spec => []NoOrphansAfterSweep` |
| `DeployGateProofs` | `TypeCorrect`, `ApprovalIsMandatory`, `HistoryIsTruthful` | type, and the two approval invariants with any overlap, crash and torn file |
| | `DeploysOnce`, `ConcludesOnce` | without overlap: one deploy per approval, one conclusion per request |
| `SelfHealProofs` | `TypeCorrect`, `CapHolds`, `BackoffHolds` | type, cap and backoff for keys without a race |
| | `LossBounded` | with races too: no count falls below the least of row and copies |
| `MergePipelineProofs` | `TypeCorrect`, `NoRiskIsMerged`, `MergedIsGated`, `StatusIsTrue` | type, and the three safety invariants of the run |
| | `PipelineLives` | `Spec => LifeSpec` (refinement of `TaskLife`) |
| | `ObjectionIsHeard` | one tool run of an enabled check that started and objects fails the gate, whatever the others say |
| | `PipelineForward` | stages in order, at most two gate runs and one healing |
| `CIFixProofs` | `TypeCorrect`, `TreeIsKept`, `BranchIsKept`, `DirectoryGoes`, `RequestIsTheFix`, `EditsAreScanned` | type, and the five safety invariants of the run |
| | `ReviewForward` | an attempt only goes forward, and begins under the cap only |
| `SchedulerProofs` | `TypeCorrect`, `NoAgentIsLeftBehind`, `EveryResultIsRecorded`, `NeverFiresTwice`, `RowsAreTrue` | type, the three safety invariants and the action property of the run |

Assumptions are the named `ASSUME`s of the modules: names are distinct, caps
and costs are naturals, there is a coder in the pool, the set of workers is
finite, the units of a plan are finitely many and at least one (`Plan.work_units`,
`orchestrator.py:38`), enabled checks are checks, `sandbox.mode: docker` was refused if there is
no daemon (`SandboxExecutor.__init__`), the providers are the two the registry
knows, and run-now is not a scheduler. The theorems of `FactoryAloneProofs` have
one more hypothesis, that no two processes are up at the same time (`Alone`); with
two, the properties do not hold, see section 6.

### The arguments

* *Factory.* `OnlyInterruptedTasksStay` is not inductive: that the task a
  process leaves is settled depends on where each `pc` may be with which status.
  `IInv` adds: a busy process has a job and an idle one has none, no task has
  two processes (`Intake` makes the row, and a row is made once), and the
  status that goes with each `pc`. `FactoryLives` follows, because every write
  of a status is by the process that has the task in flight, in the order of its
  `pc`, and `Requeue` writes units only. For the refinement `UInv` adds the life of a unit: it has
  an owner from its insertion on; a thread runs only for a unit of a process in
  `coding`; and when that process is past coding, none of its units is below
  `coded`. The delicate step is `Requeue`: it may put a RUNNING unit of a live
  coder back to `pending`, but the coder's last write comes later, and a unit
  that is coded is not touched. Every action then maps to one step of `Delivery`
  or to a stutter.
* *Factory, the budget.* What a process has counted must be what its planner and
  its coders have used, a sum over the units of the task. `MapThenSumSet` is a
  recursive function underneath; `SumCounts` gives it in closed form, as the number
  of pairs of a unit and a token of it, because the function that counts them
  satisfies the recursion (`CountUnfolds`) and two solutions cannot differ on a
  smallest set (`UnfoldsOnce`, from the well-foundedness of the finite subsets). So
  no induction theorem is needed. `CountInv` then says that the counter is the
  planner's usage and that of the coders collected so far; when the comparison is
  made all of them are.
* *Factory, why a run ends.* `RunsGoForward`: every `ProcStep` takes its process to
  a later stage (`Stage`), or shortens what the loop of its stage has still before
  it (`Left`: directories to prune, coders to collect, units to merge, worktrees to
  remove), and no other process, coder or intake moves it back. `Left` is finite,
  because a plan is a list and a directory listing is one.
* *Factory, alone.* Neither property is inductive: what a reconciliation finds
  depends on where its predecessor died. `AloneInv` says, per place of the process,
  which directories may exist beside the registered ones (the swept list before
  `Prune`, its own units while coding, the integration tree while merging), that a
  row shown as running has a thread once `Requeue` is over, and that a coder at
  work has its directory. Each of the three parts is preserved with the help of the
  other two and of `JobInv`, `ThreadInv` and `UnitInv` of `FactoryProofs`.
* *Integration.* `GitInv` holds however git and the agent behave: the branch
  holds integrated units and at most the current one, an open merge is the
  current unit's or was left by an integrated one, unmerged files imply an open
  merge. `TrustInv` adds that while trusted the current unit is either being
  merged or on the branch, and between units the tree is clean. For `Delivery` it
  is enough that `integrate` marks a unit that is coded, and concludes when none is.
  `LoopShrinks` counts units first, then the places and the attempts left for the
  current one; a failed attempt counts, whatever the resolver did.
* *DeployGate.* A request that is approved, in the file or in anybody's copy,
  was approved by a call, and every `executed` entry, in the file or in a copy,
  names such a request; truncation and lost updates only replace one content by
  another of this kind or by nothing. Hence a taker's subject is approved. For
  the two about single deploys, `SerialInv` holds until calls overlap: in the file
  no request occurs twice nor is both pending and done, whatever is done was
  requested, and what the only actor in a call carries extends the file by exactly
  its own step. A capped history is a suffix of the whole one (`CappedIsSuffix`),
  so cutting it brings nothing back.
* *SelfHeal.* For a key without a race at most one worker is between `Admit`
  and the write (`LedgerInv`), what it will write is the count plus one, and
  the count covers what was begun and what workers past the write are about to
  begin. `LossBounded` is about keys with races: once the row and all copies about
  to be written have reached `n`, they stay there, and the copy made by any further
  attempt is above `n`.
* *MergePipeline.* `TaskInv`, per task: at each `pc` the version gated, the
  verdict, the decision and the status that go with it; after `regate` the
  version gated is the version assessed, and nothing commits after that. The
  statuses it ties to each `pc` also give `TaskLife`. The verdict lemmas are about
  the operators of `Gates`: any checks, profiles and runs.
* *CIFix.* A reviewer nobody disturbed is alone (`CalmInv`), so ledger, directory,
  branch and commits are its own. That a pull request stays what it was is about
  the future: `RemoteInv` adds that the number of a published attempt is at most
  the count and below that of everyone who still has work to do, so nobody pushes
  to it again; after `FreshCheckout`, when counting starts anew, git refuses the
  push, since GitHub has commits that the new branch has not.
* *Scheduler.* `PlaceInv`: unless `mixed`, one place only is set up, and a job is
  owed only if nothing has been executed for the instant. `RecordInv` and
  `ExecutionInv` tie stage, result and the state of the execution together;
  `RowsAreTrue` follows from the latter step by step. The proofs about agent runs
  are made in terms of `Agents` alone (`BackendStepKeeps`, `AgentStepKeeps`,
  `CallKeeps`, `ForgetKeeps`, `DeathKeeps`) and used by the scheduler's actions.

### Only model-checked

* Liveness: `RunsReturn`, `IntegrateReturns`, `NoRunaway`, `PipelineReturns`,
  `ReviewReturns`, `ExecutionsEnd`. Liveness under fairness and `ENABLED` are beyond
  this prover. What a proof of them would rest on besides is proved where it is a
  safety property: the decreasing measures `RunsGoForward`, `LoopShrinks`,
  `PipelineForward`, `ReviewForward`, and `LossBounded` for `NoRunaway`. What is left
  to TLC is that a step is always possible until the end (`ENABLED`), and that
  fairness makes it happen.
* The refuted properties, naturally.

No module declares a recursive operator.

## 5. What the models leave out on purpose

Contents of diffs, prompts, contracts, JSON and logs; wording; dollars beside
tokens (counted and checked in the same places); the columns `branch`, `error`
and `contract`; the length of a backoff; HTTP; the arguments of `docker run`.
Results of tools and agents are what the code tells apart (`ok`, nothing,
garbage, clean, findings). Usage is what the backend reports: a run that timed
out reports none (`claude_backend.py:53`), and a coder that raised has none
counted, so budgets are on reported tokens.

`atWork` counts the agents of callers that live. Whether the program of an agent dies
with a killed caller is up to its SDK; nothing in the code sees to it, and what such
an agent still does to its tree is outside the models (`CallerDies`).

What the properties about a CI fix do not promise: `FixerKeepsItsTree`,
`FixKeepsItsBranch`, `PullRequestIsTheFix` and `WorkflowEditsAreScanned` are about
attempts that met no second reviewer and no sweep. A label that GitHub refuses
is only logged (`ci_review.py:190-194`), so `WorkflowEditsAreScanned` lets a pull
request with a workflow edit be without any label; what it excludes is one that
is unscanned under the strict policy, or labelled like the others.
`MergedPassedGates` takes a report without a failing check for passed, as the code
does: one whose checks were all skipped is among them.

## 6. Behaviour worth knowing that no run refutes

Healing and merging:

* A rerun that is only in its backoff is treated as exhausted and becomes a fix
  (`ci_review.py:95`); the comment there names the exhausted case only.
* Two tasks whose gates fail alike share a signature and thereby one cap. The
  signature of a CI failure is chosen by the analyzer agent, so one failure may
  get several, each with a cap of its own.
* Nothing remembers which failed run was reviewed. Each `factory heal` takes the
  last failed runs again: attempts are bounded by the ledger, but once a signature
  is at its cap every review opens another issue (`ci_review.py:199`). Log review
  does not look for an open issue with the same finding either.
* In CI every checkout is fresh and the ledger empty: neither cap nor backoff
  applies, each review is attempt 1 again, and its push is refused if an earlier
  one published (`FreshCheckout`, `PushAccepted`).
* The checks of a pull request are asked for right after it was opened, and an
  empty list counts as passed (`github_api.py:102`).
* A process that starts may sweep the directory gates run in; a check that starts
  then is skipped (`executor.py:84`), and a report of skips passes. The security
  gate of a CI fix is in the same position.
* The rule on security findings in the merge policy (`pipeline.py:152`) cannot
  apply: such a branch does not pass the gates.
* A task whose gates fail after healing is BLOCKED without a pull request;
  `CONTRACT.md:90` says of this case "leave PR open + `needs-human-review`". No
  property of the model asks for either.
* A conflicting local merge is left open in the user's checkout, and blocks all
  later local merges (`MergeClashes`).

Tasks and worktrees:

* A second process that starts between `git worktree add` and the registration
  prunes the directory of a live coder; `integrator.py:92` speaks of what "no live
  work unit owns". `CodersMatchStore` therefore holds for one process at a time.
* Rows made by the webhook are run by nobody (`Webhook`).
* Worktrees of failed or killed tasks stay registered and are never removed.
* `approve` approves what is pending when the click arrives, not what was shown.

Schedules and agents:

* The switch is read when a scheduler starts. After an edit the old place goes on;
  a daemon and a dashboard with `--with-scheduler` both fire; `generate-ci` does
  not look at the switch. `OncePerInstant` excepts exactly these (`mixed`).
* Jobs are in memory (`.specs/plan.md:237` has a SQLite jobstore): instants during
  which nobody was up are not made up for.
* Exceptions other than the three `run` takes end a routine without a row
  (`Escape`). A task routine's row is ok also if the pipeline was blocked.
  Executions in CI leave their rows in a checkout that is thrown away.
* Only the pipeline attaches an observer: agents of routines and of CI review
  leave neither transcript nor row. An observer that raises loses a finished run.
* `on_failure` of a routine (`config.py:174`) is never read, and its `timezone` has
  no effect in CI.

## 7. Findings

| Run | What the code does | What is said |
|---|---|---|
| `factory_restart` | `Pipeline.run` drops the resumable list (`pipeline.py:115`); an interrupted task stays in flight | `CONTRACT.md:77-78`: "resumes or fails-forward (no orphans)" |
| `integration_lost` | a merge that failed otherwise counts as completed; the unit is INTEGRATED, its commits are not on the branch | `integrator.py:157`: "already completed the merge" |
| `merge_silent` | a missing tool in the docker image prints nothing, which is no findings; in subprocess mode a skipped profile disappears in a check that passes | `security.py:42`: "let the sandbox report it missing -> SKIP"; `quality.py:3-5`: "a SKIP (with details), not a silent pass" |
| `agent_timeout` | the handler of Cursor's timeout returns from inside the thread pool's `with`, which joins the agent's thread (`cursor_backend.py:42-57`) | `cursor_backend.py:40-41`: "enforce the sandbox timeout"; `CONTRACT.md:53` |

## 8. Not modelled

* *Directories of gates, healer and local merge*: `Factory` tracks unit and
  integration worktrees, `CIFix` that of a CI fix. What a sweep does to running
  gates is in `Gates` (any check may be refused); the directories themselves are not
  state of `MergePipeline`.
* *Log review*: one agent run for its routine. The issues it opens, at most three
  per review, are not remembered anywhere.
* *Metrics*: what is written and when is in `Agents` and `Scheduler`; redaction,
  roll-ups and usage tables are formatting and sums, which nothing reads to decide.
* *Dashboard*: its handlers of the deploy gate and of run-now are actors; the
  pages render reads.
* *GitHub client*: an answer or an exception of each call, in its callers; the HTTP
  requests are left out.
* *Config, bootstrap, toolchain, JSON extraction, CLI parsing, SDK calls,
  Terraform*: sequential start-up or external code without protocol state.
  Configuration values are constants.
* *Cron arithmetic* and the text of the generated workflow: an instant is an event.

## 9. Plan

Done, in the order of importance: `Factory` with `Delivery`; `Integration`;
`DeployGate`; `SelfHeal`; `Gates` with `MergePipeline`; `CIFix`; `Agents` with
`Scheduler`; the proofs above.

Next, models:

1. The directories of gates and healer as state of `MergePipeline`, with the sweep
   as an actor, as in `CIFix`: a report that passes with nothing run would then be a
   behaviour with a cause instead of a refused check.
2. An abstract `Approval` for the deploy gate (requested, approved, deployed at
   most once), implemented without overlap, and an abstract bound on attempts for
   `SelfHeal`.
3. `CIFix` with `Strict = FALSE` as a run of its own; so far the proofs alone cover
   that policy.

Next, proofs: the refinements of 2; a decreasing measure for the executions of
`Scheduler`, with the agents that end by themselves as a hypothesis; what a directory
swept under a fixer can do at most (`CIFix` with disturbed reviewers).

The number of runs stays as it is where a question can join an existing
configuration.
