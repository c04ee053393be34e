-------------------------- MODULE SchedulerProofs --------------------------
(***************************************************************************)
(* The safety properties of Scheduler and of the agent runs below it, for  *)
(* any number of local schedulers and any length of a pipeline.            *)
(***************************************************************************)
EXTENDS Scheduler, TLAPS

\* Of an observed run: what is not in the store yet is on its way there, and a
\* run that ended without a row has raised.
RecordInv ==
    /\ \A c \in observed : stage[c] = "over" /\ result[c] \in Statuses => c \in stored
    /\ stored \subseteq traced
    /\ \A c \in Calls : stage[c] = "storing" => c \in traced

AgentsInv == AgentsTypeOK /\ OneAgentAtATime /\ RecordInv

\* What an execution knows of the agent it has called.
ExecutionInv ==
    \A e \in Calls :
        /\ doing[e] \in {"idle", "dispatch"} => stage[e] = "idle" /\ result[e] = None
        /\ doing[e] \in {"ok", "failed"} => stage[e] \in {"idle", "over"}
        /\ kind = "agent" /\ doing[e] = "ok" => result[e] = "finished"
        /\ kind = "agent" /\ doing[e] = "failed" => result[e] # "finished"

\* With one place only: the switch points to it, and either its job is owed for
\* the last instant or that has been executed.
PlaceInv ==
    /\ \A l \in Locals : due[l] # 0 => up[l]
    /\ ~mixed =>
        /\ \A k, l \in Locals : up[k] /\ up[l] => k = l
        /\ \A l \in Locals : up[l] => runner = "local"
        /\ runner = "local" => ~workflow
        /\ \A l \in Locals : due[l] # 0 => fired = 0
        /\ fired <= 1

\* The inductive invariant.
IInv == TypeOK /\ AgentsInv /\ ExecutionInv /\ PlaceInv

Places == {"idle", "dispatch", "calling", "ok", "failed"}

USE DEF Results, Statuses, Stages, Places

-----------------------------------------------------------------------------
(* Agent runs. *)

LEMMA AgentsStart == AgentsInit => AgentsInv
  BY DEF AgentsInit, AgentsInv, AgentsTypeOK, OneAgentAtATime, RecordInv

\* A call is given its result by the backend, which has no agent left.
LEMMA GivenIsRecorded ==
    ASSUME AgentsInv, NEW c \in Calls, NEW r \in Results,
           stage[c] \in {"running", "joining"}, AgentStops(c), BackendGives(c, r),
           UNCHANGED <<setup, traced, stored>>
    PROVE  AgentsInv'
<1> USE DEF AgentsInv, setup, AgentStops, BackendGives
<1>1. atWork[c] = 1
  BY DEF OneAgentAtATime
<1>2. AgentsTypeOK'
  BY <1>1 DEF AgentsTypeOK
<1>3. OneAgentAtATime'
  BY <1>1 DEF AgentsTypeOK, OneAgentAtATime
<1>4. RecordInv'
  BY DEF AgentsTypeOK, RecordInv
<1> QED
  BY <1>2, <1>3, <1>4

LEMMA BackendStepKeeps ==
    ASSUME AgentsInv, NEW c \in Calls, BackendStep(c)
    PROVE  AgentsInv'
<1>1. CASE CancelQuery(c)
  BY <1>1, GivenIsRecorded DEF CancelQuery
<1>2. CASE StopWaiting(c)
  BY <1>2 DEF StopWaiting, AgentsInv, AgentsTypeOK, OneAgentAtATime, RecordInv, setup
<1>3. CASE ObserverRaises(c)
  BY <1>3 DEF ObserverRaises, AgentsInv, AgentsTypeOK, OneAgentAtATime, RecordInv, setup
<1>4. CASE WriteTrace(c)
  BY <1>4 DEF WriteTrace, AgentsInv, AgentsTypeOK, OneAgentAtATime, RecordInv, setup
<1>5. CASE StoreRun(c)
  BY <1>5 DEF StoreRun, AgentsInv, AgentsTypeOK, OneAgentAtATime, RecordInv, setup
<1> QED
  BY <1>1, <1>2, <1>3, <1>4, <1>5 DEF BackendStep

LEMMA AgentStepKeeps ==
    ASSUME AgentsInv, NEW c \in Calls, AgentStep(c)
    PROVE  AgentsInv'
<1>1. CASE AgentEnds(c)
  BY <1>1, GivenIsRecorded DEF AgentEnds
<1>2. CASE AgentEndsLate(c)
  BY <1>2, GivenIsRecorded DEF AgentEndsLate
<1> QED
  BY <1>1, <1>2 DEF AgentStep

LEMMA CallKeeps ==
    ASSUME AgentsInv, NEW c \in Calls, Begin(c) \/ Refuse(c)
    PROVE  AgentsInv'
<1>1. CASE Begin(c)
  BY <1>1 DEF Begin, AgentsInv, AgentsTypeOK, OneAgentAtATime, RecordInv, setup
<1>2. CASE Refuse(c)
  BY <1>2 DEF Refuse, AgentsInv, AgentsTypeOK, OneAgentAtATime, RecordInv, setup
<1> QED
  BY <1>1, <1>2

LEMMA ForgetKeeps ==
    ASSUME AgentsInv, NEW c \in Calls, stage[c] \in {"idle", "over"}, Forget(c)
    PROVE  AgentsInv'
  BY DEF Forget, AgentsInv, AgentsTypeOK, OneAgentAtATime, RecordInv, setup

LEMMA DeathKeeps ==
    ASSUME AgentsInv, NEW c \in Calls, CallerDies(c)
    PROVE  AgentsInv'
  BY DEF CallerDies, AgentsInv, AgentsTypeOK, OneAgentAtATime, RecordInv, setup

LEMMA AgentsStutter ==
    ASSUME AgentsInv, UNCHANGED agentVars
    PROVE  AgentsInv'
  BY DEF agentVars, setup, AgentsInv, AgentsTypeOK, OneAgentAtATime, RecordInv

-----------------------------------------------------------------------------
(* The scheduler: initial states, and what does not change. *)

LEMMA InitIInv == Init => IInv
<1> SUFFICES ASSUME Init PROVE IInv
  OBVIOUS
<1> USE DEF Init
<1>1. AgentsInv
  BY AgentsStart
<1>2. TypeOK
  <2>1. /\ due \in [Locals -> 0..1] /\ rounds \in [Calls -> 0..MaxRounds]
        /\ fired \in 0..2
    BY SchedulerAssumption
  <2>2. /\ up \in [Locals -> BOOLEAN] /\ doing \in [Calls -> Places]
        /\ workflow \in BOOLEAN /\ mixed \in BOOLEAN
        /\ runner \in {"local", "ci"} /\ lastRow \in {"ok", "failed", None} /\ kind \in Kinds
    OBVIOUS
  <2> QED
    BY <1>1, <2>1, <2>2 DEF AgentsInv, TypeOK
<1>3. ExecutionInv
  <2> SUFFICES ASSUME NEW e \in Calls
               PROVE  doing[e] = "idle" /\ stage[e] = "idle" /\ result[e] = None
    BY DEF ExecutionInv
  <2> QED
    BY DEF AgentsInit
<1>4. PlaceInv
  BY DEF PlaceInv
<1> QED
  BY <1>1, <1>2, <1>3, <1>4 DEF IInv

LEMMA PlaceStutter ==
    ASSUME PlaceInv, UNCHANGED <<switch, jobs>>
    PROVE  PlaceInv'
  BY DEF PlaceInv, switch, jobs

LEMMA ExecutionStutter ==
    ASSUME ExecutionInv, UNCHANGED <<kind, doing, agentVars>>
    PROVE  ExecutionInv'
  BY DEF ExecutionInv, agentVars

\* Starting an execution, by the job or now.
LEMMA StartKeeps ==
    ASSUME IInv, NEW e \in Calls, StartExecution(e)
    PROVE  AgentsInv' /\ ExecutionInv' /\ doing' \in [Calls -> Places]
<1> USE DEF IInv, StartExecution
<1>1. AgentsInv'
  BY AgentsStutter
<1>2. doing' \in [Calls -> Places]
  BY DEF TypeOK
<1>3. ExecutionInv'
  BY DEF TypeOK, ExecutionInv, agentVars
<1> QED
  BY <1>1, <1>2, <1>3

-----------------------------------------------------------------------------
(* Operators and jobs. *)

LEMMA OperatorKeeps ==
    ASSUME IInv, Operator
    PROVE  IInv'
<1> USE DEF IInv
<1>1. ASSUME NEW place \in {"local", "ci"}, SetRunner(place) PROVE IInv'
  <2>1. AgentsInv' /\ ExecutionInv'
    BY <1>1, AgentsStutter, ExecutionStutter DEF SetRunner, execution
  <2>2. TypeOK'
    BY <1>1, <2>1 DEF SetRunner, TypeOK, jobs, execution, AgentsInv
  <2>3. PlaceInv'
    BY <1>1 DEF SetRunner, TypeOK, PlaceInv, jobs
  <2> QED
    BY <2>1, <2>2, <2>3
<1>2. CASE GenerateWorkflow
  <2>1. AgentsInv' /\ ExecutionInv'
    BY <1>2, AgentsStutter, ExecutionStutter DEF GenerateWorkflow, execution
  <2>2. TypeOK'
    BY <1>2, <2>1 DEF GenerateWorkflow, TypeOK, jobs, execution, AgentsInv
  <2>3. PlaceInv'
    BY <1>2 DEF GenerateWorkflow, TypeOK, PlaceInv, jobs
  <2> QED
    BY <2>1, <2>2, <2>3
<1>3. CASE RemoveWorkflow
  <2>1. AgentsInv' /\ ExecutionInv'
    BY <1>3, AgentsStutter, ExecutionStutter DEF RemoveWorkflow, execution
  <2>2. TypeOK'
    BY <1>3, <2>1 DEF RemoveWorkflow, TypeOK, jobs, execution, AgentsInv
  <2>3. PlaceInv'
    BY <1>3 DEF RemoveWorkflow, TypeOK, PlaceInv, jobs
  <2> QED
    BY <2>1, <2>2, <2>3
<1>4. ASSUME NEW l \in Locals, StartScheduler(l) PROVE IInv'
  <2>1. AgentsInv' /\ ExecutionInv'
    BY <1>4, AgentsStutter, ExecutionStutter DEF StartScheduler, Started, execution
  <2>2. TypeOK'
    BY <1>4, <2>1 DEF StartScheduler, Started, TypeOK, execution, AgentsInv
  <2>3. PlaceInv'
    BY <1>4 DEF StartScheduler, Started, TypeOK, PlaceInv
  <2> QED
    BY <2>1, <2>2, <2>3
<1>5. ASSUME NEW l \in Locals, Shutdown(l) PROVE IInv'
  <2>1. AgentsInv' /\ ExecutionInv'
    BY <1>5, AgentsStutter, ExecutionStutter DEF Shutdown, execution
  <2>2. TypeOK'
    BY <1>5, <2>1 DEF Shutdown, TypeOK, switch, execution, AgentsInv
  <2>3. PlaceInv'
    BY <1>5 DEF Shutdown, TypeOK, PlaceInv, switch
  <2> QED
    BY <2>1, <2>2, <2>3
<1>6. CASE RunNow
  <2>1. Now \in Calls
    BY SchedulerAssumption
  <2>2. AgentsInv' /\ ExecutionInv' /\ doing' \in [Calls -> Places]
    BY <1>6, <2>1, StartKeeps DEF RunNow
  <2>3. TypeOK'
    BY <1>6, <2>2 DEF RunNow, StartExecution, TypeOK, switch, AgentsInv
  <2>4. PlaceInv'
    BY <1>6, PlaceStutter DEF RunNow, StartExecution, jobs
  <2> QED
    BY <2>2, <2>3, <2>4
<1> QED
  BY <1>1, <1>2, <1>3, <1>4, <1>5, <1>6 DEF Operator

LEMMA JobsKeep ==
    ASSUME IInv, Instant \/ \E l \in Locals : Fire(l) \/ Drop(l)
    PROVE  IInv'
<1> USE DEF IInv
<1>1. CASE Instant
  <2>1. AgentsInv' /\ ExecutionInv'
    BY <1>1, AgentsStutter, ExecutionStutter DEF Instant, execution
  <2>2. TypeOK'
    BY <1>1, <2>1 DEF Instant, TypeOK, switch, execution, AgentsInv
  <2>3. PlaceInv'
    BY <1>1 DEF Instant, TypeOK, PlaceInv, switch
  <2> QED
    BY <2>1, <2>2, <2>3
<1>2. ASSUME NEW l \in Locals, Fire(l) PROVE IInv'
  <2>1. l \in Calls
    BY SchedulerAssumption
  <2>2. AgentsInv' /\ ExecutionInv' /\ doing' \in [Calls -> Places]
    BY <1>2, <2>1, StartKeeps DEF Fire
  <2>3. TypeOK'
    BY <1>2, <2>2 DEF Fire, StartExecution, Saturated, TypeOK, switch, AgentsInv
  <2>4. PlaceInv'
    BY <1>2 DEF Fire, StartExecution, Saturated, TypeOK, PlaceInv, switch
  <2> QED
    BY <2>2, <2>3, <2>4
<1>3. ASSUME NEW l \in Locals, Drop(l) PROVE IInv'
  <2>1. AgentsInv' /\ ExecutionInv'
    BY <1>3, AgentsStutter, ExecutionStutter DEF Drop, execution
  <2>2. TypeOK'
    BY <1>3, <2>1 DEF Drop, TypeOK, switch, execution, AgentsInv
  <2>3. PlaceInv'
    BY <1>3 DEF Drop, TypeOK, PlaceInv, switch
  <2> QED
    BY <2>1, <2>2, <2>3
<1> QED
  BY <1>1, <1>2, <1>3

-----------------------------------------------------------------------------
(* Executions. *)

\* A step of one execution touches neither the switch nor the jobs.
LEMMA ExecutionKeepsPlace ==
    ASSUME IInv, UNCHANGED <<kind, switch, jobs>>, AgentsInv', ExecutionInv',
           doing' \in [Calls -> Places], rounds' \in [Calls -> 0..MaxRounds],
           lastRow' \in {"ok", "failed", None}
    PROVE  IInv'
<1>1. TypeOK'
  BY DEF IInv, TypeOK, AgentsInv, switch, jobs
<1> QED
  BY <1>1, PlaceStutter DEF IInv

LEMMA ToolKeeps ==
    ASSUME IInv, NEW e \in Calls, RunTool(e)
    PROVE  IInv'
<1> USE DEF RunTool, Conclude, Escape
<1>1. AgentsInv'
  BY AgentsStutter DEF IInv
<1>2. doing' \in [Calls -> Places] /\ rounds' \in [Calls -> 0..MaxRounds]
  BY SchedulerAssumption DEF IInv, TypeOK
<1>3. ExecutionInv'
  BY AgentsAssumption DEF IInv, TypeOK, ExecutionInv, agentVars
<1>4. lastRow' \in {"ok", "failed", None}
  BY DEF IInv, TypeOK
<1> QED
  BY <1>1, <1>2, <1>3, <1>4, ExecutionKeepsPlace

LEMMA CallAgentKeeps ==
    ASSUME IInv, NEW e \in Calls, CallAgent(e)
    PROVE  IInv'
<1> USE DEF CallAgent
<1>1. AgentsInv'
  BY CallKeeps DEF IInv
<1>2. doing' \in [Calls -> Places] /\ rounds' \in [Calls -> 0..MaxRounds]
  BY SchedulerAssumption DEF IInv, TypeOK
<1>3. ExecutionInv'
  BY DEF Begin, Refuse, IInv, TypeOK, AgentsInv, AgentsTypeOK, ExecutionInv
<1>4. lastRow' \in {"ok", "failed", None}
  BY DEF IInv, TypeOK
<1> QED
  BY <1>1, <1>2, <1>3, <1>4, ExecutionKeepsPlace

LEMMA AnswerKeeps ==
    ASSUME IInv, NEW e \in Calls,
           AgentRaises(e) \/ AgentDecides(e) \/ ReviewShrugs(e) \/ PipelineGoesOn(e)
    PROVE  IInv'
<1> USE DEF AgentRaises, AgentDecides, ReviewShrugs, PipelineGoesOn, Answered, Conclude, Escape
<1>1. AgentsInv'
  BY AgentsStutter, ForgetKeeps DEF IInv
<1>2. doing' \in [Calls -> Places] /\ rounds' \in [Calls -> 0..MaxRounds]
  BY SchedulerAssumption DEF IInv, TypeOK
<1>3. ExecutionInv'
  BY DEF Forget, agentVars, IInv, TypeOK, AgentsInv, AgentsTypeOK, ExecutionInv
<1>4. lastRow' \in {"ok", "failed", None}
  BY DEF IInv, TypeOK
<1> QED
  BY <1>1, <1>2, <1>3, <1>4, ExecutionKeepsPlace

LEMMA ReturnKeeps ==
    ASSUME IInv, NEW e \in Calls, PipelineReturns(e)
    PROVE  IInv'
<1> USE DEF PipelineReturns, Conclude, Escape
<1>1. AgentsInv'
  BY AgentsStutter DEF IInv
<1>2. doing' \in [Calls -> Places] /\ rounds' \in [Calls -> 0..MaxRounds]
  BY SchedulerAssumption DEF IInv, TypeOK
<1>3. ExecutionInv'
  BY DEF agentVars, IInv, TypeOK, ExecutionInv
<1>4. lastRow' \in {"ok", "failed", None}
  BY DEF IInv, TypeOK
<1> QED
  BY <1>1, <1>2, <1>3, <1>4, ExecutionKeepsPlace

LEMMA RecordKeeps ==
    ASSUME IInv, NEW e \in Calls, Record(e)
    PROVE  IInv'
<1> USE DEF Record
<1>1. AgentsInv'
  BY ForgetKeeps DEF IInv, ExecutionInv
<1>2. doing' \in [Calls -> Places] /\ rounds' \in [Calls -> 0..MaxRounds]
  BY SchedulerAssumption DEF IInv, TypeOK
<1>3. ExecutionInv'
  BY DEF Forget, IInv, TypeOK, AgentsInv, AgentsTypeOK, ExecutionInv
<1>4. lastRow' \in {"ok", "failed", None}
  BY DEF IInv, TypeOK
<1> QED
  BY <1>1, <1>2, <1>3, <1>4, ExecutionKeepsPlace

\* What the backend or the agent does concerns an execution that waits for it.
LEMMA RunKeeps ==
    ASSUME IInv, NEW e \in Calls, Backend(e) \/ Agent(e)
    PROVE  IInv'
<1>1. UNCHANGED schedulerVars /\ (BackendStep(e) \/ AgentStep(e))
  BY DEF Backend, Agent
<1>2. AgentsInv'
  BY <1>1, BackendStepKeeps, AgentStepKeeps DEF IInv
<1>3. /\ stage[e] \notin {"idle", "over"}
      /\ \A c \in Calls \ {e} : stage'[c] = stage[c] /\ result'[c] = result[c]
  <2> USE DEF IInv, AgentsInv, AgentsTypeOK, BackendGives
  <2>1. CASE BackendStep(e)
    BY <2>1 DEF BackendStep, CancelQuery, StopWaiting, ObserverRaises, WriteTrace, StoreRun
  <2>2. CASE AgentStep(e)
    BY <2>2 DEF AgentStep, AgentEnds, AgentEndsLate
  <2> QED
    BY <1>1, <2>1, <2>2
<1>4. ExecutionInv'
  <2>1. doing[e] = "calling"
    BY <1>3 DEF IInv, TypeOK, ExecutionInv
  <2> QED
    BY <1>1, <1>3, <2>1 DEF schedulerVars, IInv, ExecutionInv
<1>5. /\ doing' \in [Calls -> Places] /\ rounds' \in [Calls -> 0..MaxRounds]
      /\ lastRow' \in {"ok", "failed", None}
      /\ UNCHANGED <<kind, switch, jobs>>
  BY <1>1 DEF schedulerVars, switch, jobs, IInv, TypeOK
<1> QED
  BY <1>2, <1>4, <1>5, ExecutionKeepsPlace

LEMMA DieKeeps ==
    ASSUME IInv, NEW e \in Calls, Die(e)
    PROVE  IInv'
<1> USE DEF Die, IInv
<1>1. AgentsInv'
  BY DeathKeeps
<1>2. ExecutionInv'
  BY DEF CallerDies, TypeOK, AgentsInv, AgentsTypeOK, ExecutionInv
<1>3. TypeOK'
  BY <1>1, SchedulerAssumption DEF TypeOK, AgentsInv, switch
<1>4. PlaceInv'
  BY DEF TypeOK, PlaceInv, switch
<1> QED
  BY <1>1, <1>2, <1>3, <1>4

LEMMA NextIInv == IInv /\ [Next]_vars => IInv'
<1> SUFFICES ASSUME IInv, [Next]_vars PROVE IInv'
  OBVIOUS
<1>1. CASE UNCHANGED vars
  <2>1. AgentsInv' /\ ExecutionInv' /\ PlaceInv'
    BY <1>1, AgentsStutter, ExecutionStutter, PlaceStutter
       DEF vars, schedulerVars, switch, jobs, IInv
  <2> QED
    BY <1>1, <2>1 DEF vars, schedulerVars, IInv, TypeOK, AgentsInv
<1>2. ASSUME NEW e \in Calls, ExecutorStep(e) \/ Agent(e) \/ Die(e) PROVE IInv'
  BY <1>2, ToolKeeps, CallAgentKeeps, AnswerKeeps, ReturnKeeps, RecordKeeps, RunKeeps, DieKeeps
     DEF ExecutorStep
<1> QED
  BY <1>1, <1>2, OperatorKeeps, JobsKeep DEF Next

-----------------------------------------------------------------------------
(* The theorems. *)

LEMMA Inductive == Spec => []IInv
  BY InitIInv, NextIInv, PTL DEF Spec

\* Every variable of the scheduler and of its agent runs keeps its type.
THEOREM TypeCorrect == Spec => []TypeOK
<1>1. IInv => TypeOK
  BY DEF IInv
<1> QED
  BY <1>1, Inductive, PTL

\* While an agent of a living caller works the caller waits for it, and never for
\* two: the backends leave no agent behind in a tree, not even after a timeout.
THEOREM NoAgentIsLeftBehind == Spec => []OneAgentAtATime
<1>1. IInv => OneAgentAtATime
  BY DEF IInv, AgentsInv
<1> QED
  BY <1>1, Inductive, PTL

\* A result that an observed call returns is stored, and every row has its transcript.
THEOREM EveryResultIsRecorded == Spec => []ObservedRunsAreRecorded
<1>1. IInv => ObservedRunsAreRecorded
  BY DEF IInv, AgentsInv, RecordInv, ObservedRunsAreRecorded
<1> QED
  BY <1>1, Inductive, PTL

\* No instant is executed twice unless two places were set up, for any number of
\* processes that may hold a scheduler.
THEOREM NeverFiresTwice == Spec => []OncePerInstant
<1>1. IInv => OncePerInstant
  BY DEF IInv, PlaceInv, OncePerInstant
<1> QED
  BY <1>1, Inductive, PTL

\* A row of an agent routine says what became of the agent of its own execution.
THEOREM RowsAreTrue == Spec => RowTellsResult
<1> DEFINE Told == \A verdict \in {"ok", "failed"} :
          kind = "agent" /\ lastRow' = verdict /\ lastRow # verdict =>
              \E e \in Calls : /\ doing[e] = verdict /\ doing'[e] = "idle"
                               /\ (verdict = "ok") = (result[e] = "finished")
<1>1. IInv /\ [Next]_vars => [Told]_vars
  <2> SUFFICES ASSUME IInv, Next,
                      NEW verdict \in {"ok", "failed"},
                      kind = "agent", lastRow' = verdict, lastRow # verdict
               PROVE  \E e \in Calls : /\ doing[e] = verdict /\ doing'[e] = "idle"
                                       /\ (verdict = "ok") = (result[e] = "finished")
    OBVIOUS
  <2>1. PICK e \in Calls : Record(e)
    <3>1. ~Operator /\ ~Instant /\ \A l \in Locals : ~Fire(l) /\ ~Drop(l)
      BY DEF Operator, SetRunner, GenerateWorkflow, RemoveWorkflow, StartScheduler, Started,
             Shutdown, RunNow, StartExecution, Instant, Fire, Drop, execution
    <3>2. \A e \in Calls : ~Agent(e) /\ ~Die(e) /\ ~Backend(e)
      BY DEF Agent, Die, Backend, schedulerVars
    <3>3. \A e \in Calls : /\ ~RunTool(e) /\ ~CallAgent(e) /\ ~AgentRaises(e) /\ ~AgentDecides(e)
                           /\ ~ReviewShrugs(e) /\ ~PipelineGoesOn(e) /\ ~PipelineReturns(e)
      BY DEF RunTool, CallAgent, AgentRaises, AgentDecides, ReviewShrugs, PipelineGoesOn,
             PipelineReturns, Conclude, Escape
    <3> QED
      BY <3>1, <3>2, <3>3 DEF Next, ExecutorStep
  <2>2. doing[e] = verdict /\ doing'[e] = "idle"
    BY <2>1 DEF Record, IInv, TypeOK
  <2>3. (verdict = "ok") = (result[e] = "finished")
    BY <2>2 DEF IInv, ExecutionInv
  <2> QED
    BY <2>2, <2>3
<1> QED
  BY <1>1, Inductive, PTL DEF Spec, RowTellsResult
=============================================================================
