---------------------------- MODULE FactoryProofs ----------------------------
(***************************************************************************)
(* Factory.tla for any number of processes, tasks, units and tokens.       *)
(*                                                                         *)
(* IInv is about processes and task rows: a process that is up has a task  *)
(* of its own, and the row says where it is.  UInv is about units: a coder *)
(* thread lives in a process that is coding, and the row of its unit keeps *)
(* up with it although other processes requeue it.  From both, every step  *)
(* is a step of Delivery.tla or leaves what that module shows unchanged.   *)
(* BInv is about tokens: a process has counted what its planner and the    *)
(* coders it has collected used.  The last part is why a run ends.         *)
(***************************************************************************)
EXTENDS Factory, FiniteSetTheorems, WellFoundedInduction, TLAPS

\* Where a process is in the life of its task.
Planning == {"planning", "plan", "planned"}
Integrating == {"integrate", "merging", "integrated", "cleanup"}

\* A process that is up has a task of its own.
JobInv ==
    /\ \A p \in Procs : pc[p] # "idle" <=> job[p] \in Tasks
    /\ \A p, q \in Procs : job[p] = job[q] /\ job[p] \in Tasks => p = q

\* The task row says where its process is.
RowInv ==
    \A p \in Procs :
        /\ pc[p] \in Reconciling => task[job[p]] = "pending"
        /\ pc[p] \in Planning => task[job[p]] = "planning"
        /\ pc[p] = "coding" => task[job[p]] = "coding"
        /\ pc[p] \in Integrating => task[job[p]] = "integrating"
        /\ pc[p] = "gating" => task[job[p]] \in {"gating", "healing"}
        /\ pc[p] = "opened" => task[job[p]] = "pr_open"

\* A task that was begun has a process, or had one that was interrupted.
Kept(t) == (\E p \in Procs : job[p] = t) \/ t \in interrupted
FlightInv == \A t \in Tasks : task[t] \in Begun => Kept(t)

\* Units belong to the plan of a task, which is made once.
PlanInv ==
    /\ \A u \in Units : owner[u] \in Tasks <=> unit[u] # "absent"
    /\ \A t \in Tasks : task[t] = "absent" => UnitsOf(t) = {}
    /\ \A p \in Procs :
        /\ pc[p] \in Reconciling \cup {"planning", "plan"} => UnitsOf(job[p]) = {}
        /\ pc[p] \in {"planned", "coding"} \cup Integrating \cup {"gating", "opened"} => UnitsOf(job[p]) # {}

\* Coder threads live in a process that is coding, and a unit's status keeps
\* up with its thread, whatever other processes requeue.
ThreadInv ==
    \A u \in Units :
        /\ thread[u] # "none" => \E p \in Procs : pc[p] = "coding" /\ job[p] = owner[u]
        /\ thread[u] \in {"queued"} \cup Active => unit[u] \in {"pending", "running"}
        /\ thread[u] = "raised" => unit[u] \in {"pending", "running", "failed"}
        /\ thread[u] = "returned" => unit[u] = "coded"

\* How far the units of a process have come.
UnitInv ==
    \A p \in Procs, u \in Units : owner[u] = job[p] =>
        /\ pc[p] = "planned" => unit[u] = "pending"
        /\ pc[p] = "coding" /\ thread[u] = "none" => unit[u] \in {"coded", "failed"}
        /\ pc[p] \in {"integrate", "merging"} => unit[u] \in {"coded", "integrated"}
        /\ pc[p] \in {"integrated", "cleanup", "gating", "opened"} => unit[u] = "integrated"

IInv == TypeOK /\ JobInv /\ RowInv /\ FlightInv
UInv == PlanInv /\ ThreadInv /\ UnitInv
-----------------------------------------------------------------------------
\* Every step keeps the types.
LEMMA TypeStep == TypeOK /\ JobInv /\ [Next]_vars => TypeOK'
<1>. SUFFICES ASSUME TypeOK, JobInv, [Next]_vars PROVE TypeOK'
  OBVIOUS
<1>. USE DEF TypeOK, JobInv, storeVars, TaskStatus, UnitStatus, InFlight, Settled,
             PCs, Reconciling, Threads, Active, Goto, SetTask, SetUnit,
         CreateTask, CreateUnits, Exit
<1>0. ASSUME NEW t \in Tasks, Webhook(t) PROVE TypeOK'
  BY <1>0 DEF Webhook
<1>1. ASSUME NEW p \in Procs, Intake(p) PROVE TypeOK'
  BY <1>1 DEF Intake
<1>2. ASSUME NEW p \in Procs, Requeue(p) PROVE TypeOK'
  BY <1>2 DEF Requeue
<1>3. ASSUME NEW p \in Procs, Snapshot(p) PROVE TypeOK'
  BY <1>3 DEF Snapshot
<1>4. ASSUME NEW p \in Procs, Listing(p) PROVE TypeOK'
  BY <1>4 DEF Listing
<1>5. ASSUME NEW p \in Procs, Prune(p) PROVE TypeOK'
  BY <1>5 DEF Prune
<1>6. ASSUME NEW p \in Procs, BeginPlan(p) PROVE TypeOK'
  BY <1>6 DEF BeginPlan
<1>7. ASSUME NEW p \in Procs, PlannerAnswers(p) PROVE TypeOK'
  BY <1>7, BudgetAssumption DEF PlannerAnswers
<1>8. ASSUME NEW p \in Procs, OverBudget(p) PROVE TypeOK'
  BY <1>8 DEF OverBudget
<1>9. ASSUME NEW p \in Procs, PlanRejected(p) PROVE TypeOK'
  BY <1>9 DEF PlanRejected
<1>10. ASSUME NEW p \in Procs, PlanAccepted(p) PROVE TypeOK'
  BY <1>10 DEF PlanAccepted
<1>11. ASSUME NEW p \in Procs, BeginCode(p) PROVE TypeOK'
  BY <1>11 DEF BeginCode
<1>12. ASSUME NEW p \in Procs, CodingFailed(p) PROVE TypeOK'
  BY <1>12 DEF CodingFailed, Collected
<1>13. ASSUME NEW p \in Procs, CodingDone(p) PROVE TypeOK'
  BY <1>13 DEF CodingDone, Collected
<1>14. ASSUME NEW p \in Procs, AddIntegrationTree(p) PROVE TypeOK'
  BY <1>14 DEF AddIntegrationTree
<1>15. ASSUME NEW p \in Procs, MergeConflict(p) PROVE TypeOK'
  BY <1>15 DEF MergeConflict
<1>16. ASSUME NEW p \in Procs, IntegrationRaises(p) PROVE TypeOK'
  BY <1>16 DEF IntegrationRaises
<1>17. ASSUME NEW p \in Procs, RemoveIntegrationTree(p) PROVE TypeOK'
  BY <1>17 DEF RemoveIntegrationTree
<1>18. ASSUME NEW p \in Procs, ForgetUnitTree(p) PROVE TypeOK'
  BY <1>18 DEF ForgetUnitTree
<1>19. ASSUME NEW p \in Procs, BeginGates(p) PROVE TypeOK'
  BY <1>19 DEF BeginGates
<1>20. ASSUME NEW p \in Procs, BeginHealing(p) PROVE TypeOK'
  BY <1>20 DEF BeginHealing
<1>21. ASSUME NEW p \in Procs, FinishTask(p) PROVE TypeOK'
  BY <1>21 DEF FinishTask
<1>21a. ASSUME NEW p \in Procs, OpenRequest(p) PROVE TypeOK'
  BY <1>21a DEF OpenRequest
<1>21b. ASSUME NEW p \in Procs, LeaveRequest(p) PROVE TypeOK'
  BY <1>21b DEF LeaveRequest
<1>21c. ASSUME NEW p \in Procs, MergeRequest(p) PROVE TypeOK'
  BY <1>21c DEF MergeRequest
<1>22. ASSUME NEW p \in Procs, Crash(p) PROVE TypeOK'
  BY <1>22 DEF Crash
<1>23. ASSUME NEW p \in Procs, NEW u \in Units, Collect(p, u) PROVE TypeOK'
  BY <1>23 DEF Collect
<1>24. ASSUME NEW p \in Procs, NEW u \in Units, MergeUnit(p, u) PROVE TypeOK'
  BY <1>24 DEF MergeUnit, UnitsOf
<1>25. ASSUME NEW p \in Procs, NEW u \in Units, RemoveUnitTree(p, u) PROVE TypeOK'
  BY <1>25 DEF RemoveUnitTree, UnitsOf
<1>26. ASSUME NEW u \in Units, ClaimUnit(u) PROVE TypeOK'
  BY <1>26 DEF ClaimUnit
<1>27. ASSUME NEW u \in Units, MakeWorktree(u) PROVE TypeOK'
  BY <1>27 DEF MakeWorktree
<1>28. ASSUME NEW u \in Units, RegisterWorktree(u) PROVE TypeOK'
  BY <1>28 DEF RegisterWorktree
<1>29. ASSUME NEW u \in Units, CoderRaises(u) PROVE TypeOK'
  BY <1>29 DEF CoderRaises
<1>30. ASSUME NEW u \in Units, CoderFails(u) PROVE TypeOK'
  BY <1>30, BudgetAssumption DEF CoderFails
<1>31. ASSUME NEW u \in Units, CoderSucceeds(u) PROVE TypeOK'
  BY <1>31, BudgetAssumption DEF CoderSucceeds
<1>32. CASE UNCHANGED vars
  BY <1>32 DEF vars
<1>. QED
  BY <1>0, <1>1, <1>2, <1>3, <1>4, <1>5, <1>6, <1>7, <1>8, <1>9, <1>10, <1>11, <1>12,
     <1>13, <1>14, <1>15, <1>16, <1>17, <1>18, <1>19, <1>20, <1>21, <1>21a, <1>21b, <1>21c,
     <1>22,
     <1>23, <1>24, <1>25, <1>26, <1>27, <1>28, <1>29, <1>30, <1>31, <1>32
  DEF Next, ProcStep, CoderStep

\* Every step keeps a process and the row of its task together.
LEMMA JobStep == TypeOK /\ JobInv /\ RowInv /\ [Next]_vars => JobInv' /\ RowInv'
<1>. SUFFICES ASSUME TypeOK, JobInv, RowInv, [Next]_vars PROVE JobInv' /\ RowInv'
  OBVIOUS
<1>. USE NamesAssumption DEF TypeOK, JobInv, RowInv, storeVars, Planning, Integrating,
             Reconciling, Goto, SetTask, SetUnit,
         CreateTask, CreateUnits, Exit
<1>0. ASSUME NEW t \in Tasks, Webhook(t) PROVE JobInv' /\ RowInv'
  <2>1. \A q \in Procs : job[q] # t
    BY <1>0 DEF Webhook, PCs
  <2>. QED  BY <1>0, <2>1 DEF Webhook
<1>1. ASSUME NEW p \in Procs, Intake(p) PROVE JobInv' /\ RowInv'
  <2>1. PICK t \in Tasks :
            task[t] = "absent" /\ SetTask(t, "pending") /\ job' = [job EXCEPT ![p] = t]
    BY <1>1 DEF Intake
  <2>2. pc[p] = "idle" /\ pc' = [pc EXCEPT ![p] = "requeue"]
    BY <1>1 DEF Intake
  <2>3. \A q \in Procs : pc[q] \in PCs
    OBVIOUS
  <2>4. \A q \in Procs : job[q] # t
    BY <2>1, <2>3 DEF PCs
  <2>5. JobInv'
    BY <2>1, <2>2, <2>4
  <2>6. RowInv'
    BY <2>1, <2>2, <2>4
  <2>. QED  BY <2>5, <2>6
<1>2. ASSUME NEW p \in Procs, Requeue(p) PROVE JobInv' /\ RowInv'
  BY <1>2 DEF Requeue
<1>3. ASSUME NEW p \in Procs, Snapshot(p) PROVE JobInv' /\ RowInv'
  BY <1>3 DEF Snapshot
<1>4. ASSUME NEW p \in Procs, Listing(p) PROVE JobInv' /\ RowInv'
  BY <1>4 DEF Listing
<1>5. ASSUME NEW p \in Procs, Prune(p) PROVE JobInv' /\ RowInv'
  BY <1>5 DEF Prune
<1>6. ASSUME NEW p \in Procs, BeginPlan(p) PROVE JobInv' /\ RowInv'
  BY <1>6 DEF BeginPlan
<1>7. ASSUME NEW p \in Procs, PlannerAnswers(p) PROVE JobInv' /\ RowInv'
  BY <1>7 DEF PlannerAnswers
<1>8. ASSUME NEW p \in Procs, OverBudget(p) PROVE JobInv' /\ RowInv'
  BY <1>8 DEF OverBudget
<1>9. ASSUME NEW p \in Procs, PlanRejected(p) PROVE JobInv' /\ RowInv'
  BY <1>9 DEF PlanRejected
<1>10. ASSUME NEW p \in Procs, PlanAccepted(p) PROVE JobInv' /\ RowInv'
  BY <1>10 DEF PlanAccepted
<1>11. ASSUME NEW p \in Procs, BeginCode(p) PROVE JobInv' /\ RowInv'
  BY <1>11 DEF BeginCode
<1>12. ASSUME NEW p \in Procs, CodingFailed(p) PROVE JobInv' /\ RowInv'
  BY <1>12 DEF CodingFailed, Collected
<1>13. ASSUME NEW p \in Procs, CodingDone(p) PROVE JobInv' /\ RowInv'
  BY <1>13 DEF CodingDone, Collected
<1>14. ASSUME NEW p \in Procs, AddIntegrationTree(p) PROVE JobInv' /\ RowInv'
  BY <1>14 DEF AddIntegrationTree
<1>15. ASSUME NEW p \in Procs, MergeConflict(p) PROVE JobInv' /\ RowInv'
  BY <1>15 DEF MergeConflict
<1>16. ASSUME NEW p \in Procs, IntegrationRaises(p) PROVE JobInv' /\ RowInv'
  BY <1>16 DEF IntegrationRaises
<1>17. ASSUME NEW p \in Procs, RemoveIntegrationTree(p) PROVE JobInv' /\ RowInv'
  BY <1>17 DEF RemoveIntegrationTree
<1>18. ASSUME NEW p \in Procs, ForgetUnitTree(p) PROVE JobInv' /\ RowInv'
  BY <1>18 DEF ForgetUnitTree
<1>19. ASSUME NEW p \in Procs, BeginGates(p) PROVE JobInv' /\ RowInv'
  BY <1>19 DEF BeginGates
<1>20. ASSUME NEW p \in Procs, BeginHealing(p) PROVE JobInv' /\ RowInv'
  BY <1>20 DEF BeginHealing
<1>21. ASSUME NEW p \in Procs, FinishTask(p) PROVE JobInv' /\ RowInv'
  BY <1>21 DEF FinishTask
<1>21a. ASSUME NEW p \in Procs, OpenRequest(p) PROVE JobInv' /\ RowInv'
  BY <1>21a DEF OpenRequest
<1>21b. ASSUME NEW p \in Procs, LeaveRequest(p) PROVE JobInv' /\ RowInv'
  BY <1>21b DEF LeaveRequest
<1>21c. ASSUME NEW p \in Procs, MergeRequest(p) PROVE JobInv' /\ RowInv'
  BY <1>21c DEF MergeRequest
<1>22. ASSUME NEW p \in Procs, Crash(p) PROVE JobInv' /\ RowInv'
  BY <1>22 DEF Crash
<1>23. ASSUME NEW p \in Procs, NEW u \in Units, Collect(p, u) PROVE JobInv' /\ RowInv'
  BY <1>23 DEF Collect
<1>24. ASSUME NEW p \in Procs, NEW u \in Units, MergeUnit(p, u) PROVE JobInv' /\ RowInv'
  BY <1>24 DEF MergeUnit
<1>25. ASSUME NEW p \in Procs, NEW u \in Units, RemoveUnitTree(p, u) PROVE JobInv' /\ RowInv'
  BY <1>25 DEF RemoveUnitTree
<1>26. ASSUME NEW u \in Units, CoderStep(u) PROVE JobInv' /\ RowInv'
  BY <1>26 DEF CoderStep, ClaimUnit, MakeWorktree, RegisterWorktree, CoderRaises,
     CoderFails, CoderSucceeds
<1>27. CASE UNCHANGED vars
  BY <1>27 DEF vars
<1>. QED
  BY <1>0, <1>1, <1>2, <1>3, <1>4, <1>5, <1>6, <1>7, <1>8, <1>9, <1>10, <1>11, <1>12,
     <1>13, <1>14, <1>15, <1>16, <1>17, <1>18, <1>19, <1>20, <1>21, <1>21a, <1>21b, <1>21c,
     <1>22,
     <1>23, <1>24, <1>25, <1>26, <1>27
  DEF Next, ProcStep

\* A process leaves its task settled, or is interrupted.
LEMMA FlightStep == IInv /\ [Next]_vars => FlightInv'
<1>. SUFFICES ASSUME IInv, [Next]_vars, NEW t \in Tasks, task'[t] \in Begun
              PROVE  Kept(t)'
  BY DEF FlightInv
<1>. TypeOK /\ JobInv /\ RowInv /\ FlightInv
  BY DEF IInv
<1>. USE DEF TypeOK, JobInv, RowInv, FlightInv, Kept, storeVars, Begun, InFlight, Goto, SetTask, SetUnit,
         CreateTask, CreateUnits, Exit
<1>0. ASSUME NEW w \in Tasks, Webhook(w) PROVE Kept(t)'
  BY <1>0 DEF Webhook
<1>1. ASSUME NEW p \in Procs, Intake(p) PROVE Kept(t)'
  BY <1>1 DEF Intake
<1>2. ASSUME NEW p \in Procs, OverBudget(p) PROVE Kept(t)'
  BY <1>2 DEF OverBudget
<1>3. ASSUME NEW p \in Procs, PlanRejected(p) PROVE Kept(t)'
  BY <1>3 DEF PlanRejected
<1>4. ASSUME NEW p \in Procs, CodingFailed(p) PROVE Kept(t)'
  BY <1>4 DEF CodingFailed, Collected
<1>5. ASSUME NEW p \in Procs, MergeConflict(p) PROVE Kept(t)'
  BY <1>5 DEF MergeConflict
<1>6. ASSUME NEW p \in Procs, IntegrationRaises(p) PROVE Kept(t)'
  BY <1>6 DEF IntegrationRaises
<1>7. ASSUME NEW p \in Procs, FinishTask(p) PROVE Kept(t)'
  BY <1>7 DEF FinishTask
<1>7a. ASSUME NEW p \in Procs, OpenRequest(p) PROVE Kept(t)'
  BY <1>7a DEF OpenRequest
<1>7b. ASSUME NEW p \in Procs, LeaveRequest(p) PROVE Kept(t)'
  BY <1>7b DEF LeaveRequest
<1>7c. ASSUME NEW p \in Procs, MergeRequest(p) PROVE Kept(t)'
  BY <1>7c DEF MergeRequest
<1>8. ASSUME NEW p \in Procs, Crash(p) PROVE Kept(t)'
  BY <1>8 DEF Crash
<1>9. ASSUME NEW p \in Procs, BeginPlan(p) PROVE Kept(t)'
  BY <1>9 DEF BeginPlan, Reconciling, Planning, Integrating
<1>10. ASSUME NEW p \in Procs, BeginCode(p) PROVE Kept(t)'
  BY <1>10 DEF BeginCode, Reconciling, Planning, Integrating
<1>11. ASSUME NEW p \in Procs, CodingDone(p) PROVE Kept(t)'
  BY <1>11 DEF CodingDone, Collected, Reconciling, Planning, Integrating
<1>12. ASSUME NEW p \in Procs, BeginGates(p) PROVE Kept(t)'
  BY <1>12 DEF BeginGates, Reconciling, Planning, Integrating
<1>13. ASSUME NEW p \in Procs, BeginHealing(p) PROVE Kept(t)'
  BY <1>13 DEF BeginHealing, Reconciling, Planning, Integrating
<1>14. CASE UNCHANGED <<task, job, interrupted>>
  BY <1>14
<1>15. ASSUME NEW p \in Procs,
             Requeue(p) \/ Snapshot(p) \/ Listing(p) \/ Prune(p) \/ PlannerAnswers(p) \/
             PlanAccepted(p) \/ AddIntegrationTree(p) \/
             RemoveIntegrationTree(p) \/ ForgetUnitTree(p)
      PROVE  UNCHANGED <<task, job, interrupted>>
  BY <1>15 DEF Requeue, Snapshot, Listing, Prune, PlannerAnswers, PlanAccepted,
     AddIntegrationTree, RemoveIntegrationTree, ForgetUnitTree
<1>16. ASSUME NEW p \in Procs, NEW u \in Units, Collect(p, u) \/ MergeUnit(p, u) \/ RemoveUnitTree(p, u)
      PROVE  UNCHANGED <<task, job, interrupted>>
  BY <1>16 DEF Collect, MergeUnit, RemoveUnitTree
<1>17. ASSUME NEW u \in Units, CoderStep(u) PROVE UNCHANGED <<task, job, interrupted>>
  BY <1>17 DEF CoderStep, ClaimUnit, MakeWorktree, RegisterWorktree, CoderRaises,
     CoderFails, CoderSucceeds
<1>18. CASE UNCHANGED vars
  BY <1>18 DEF vars
<1>. QED
  BY <1>0, <1>1, <1>2, <1>3, <1>4, <1>5, <1>6, <1>7, <1>7a, <1>7b, <1>7c, <1>8, <1>9, <1>10, <1>11, <1>12,
     <1>13, <1>14, <1>15, <1>16, <1>17, <1>18
  DEF Next, ProcStep

\* Every step keeps units with their task.
LEMMA PlanStep == IInv /\ UInv /\ [Next]_vars => PlanInv'
<1>. SUFFICES ASSUME IInv, UInv, [Next]_vars PROVE PlanInv'
  OBVIOUS
<1>. TypeOK /\ JobInv /\ RowInv /\ PlanInv /\ ThreadInv /\ UnitInv
  BY DEF IInv, UInv
<1>. USE NamesAssumption DEF TypeOK, JobInv, RowInv, PlanInv, ThreadInv, UnitInv, UnitsOf, storeVars,
         Planning, Integrating, Reconciling, Active, PCs, Goto, SetTask, SetUnit,
         CreateTask, CreateUnits, Exit
<1>0. ASSUME NEW t \in Tasks, Webhook(t) PROVE PlanInv'
  BY <1>0 DEF Webhook
<1>1. ASSUME NEW p \in Procs, Intake(p) PROVE PlanInv'
  BY <1>1 DEF Intake
<1>2. ASSUME NEW p \in Procs, Requeue(p) PROVE PlanInv'
  BY <1>2 DEF Requeue
<1>3. ASSUME NEW p \in Procs, Snapshot(p) PROVE PlanInv'
  BY <1>3 DEF Snapshot
<1>4. ASSUME NEW p \in Procs, Listing(p) PROVE PlanInv'
  BY <1>4 DEF Listing
<1>5. ASSUME NEW p \in Procs, Prune(p) PROVE PlanInv'
  BY <1>5 DEF Prune
<1>6. ASSUME NEW p \in Procs, BeginPlan(p) PROVE PlanInv'
  BY <1>6 DEF BeginPlan
<1>7. ASSUME NEW p \in Procs, PlannerAnswers(p) PROVE PlanInv'
  BY <1>7 DEF PlannerAnswers
<1>8. ASSUME NEW p \in Procs, OverBudget(p) PROVE PlanInv'
  BY <1>8 DEF OverBudget
<1>9. ASSUME NEW p \in Procs, PlanRejected(p) PROVE PlanInv'
  BY <1>9 DEF PlanRejected
<1>10. ASSUME NEW p \in Procs, PlanAccepted(p) PROVE PlanInv'
  BY <1>10 DEF PlanAccepted
<1>11. ASSUME NEW p \in Procs, BeginCode(p) PROVE PlanInv'
  BY <1>11 DEF BeginCode
<1>12. ASSUME NEW p \in Procs, CodingFailed(p) PROVE PlanInv'
  BY <1>12 DEF CodingFailed, Collected
<1>13. ASSUME NEW p \in Procs, CodingDone(p) PROVE PlanInv'
  BY <1>13 DEF CodingDone, Collected
<1>14. ASSUME NEW p \in Procs, AddIntegrationTree(p) PROVE PlanInv'
  BY <1>14 DEF AddIntegrationTree
<1>15. ASSUME NEW p \in Procs, MergeConflict(p) PROVE PlanInv'
  BY <1>15 DEF MergeConflict
<1>16. ASSUME NEW p \in Procs, IntegrationRaises(p) PROVE PlanInv'
  BY <1>16 DEF IntegrationRaises
<1>17. ASSUME NEW p \in Procs, RemoveIntegrationTree(p) PROVE PlanInv'
  BY <1>17 DEF RemoveIntegrationTree
<1>18. ASSUME NEW p \in Procs, ForgetUnitTree(p) PROVE PlanInv'
  BY <1>18 DEF ForgetUnitTree
<1>19. ASSUME NEW p \in Procs, BeginGates(p) PROVE PlanInv'
  BY <1>19 DEF BeginGates
<1>20. ASSUME NEW p \in Procs, BeginHealing(p) PROVE PlanInv'
  BY <1>20 DEF BeginHealing
<1>21. ASSUME NEW p \in Procs, FinishTask(p) PROVE PlanInv'
  BY <1>21 DEF FinishTask
<1>21a. ASSUME NEW p \in Procs, OpenRequest(p) PROVE PlanInv'
  BY <1>21a DEF OpenRequest
<1>21b. ASSUME NEW p \in Procs, LeaveRequest(p) PROVE PlanInv'
  BY <1>21b DEF LeaveRequest
<1>21c. ASSUME NEW p \in Procs, MergeRequest(p) PROVE PlanInv'
  BY <1>21c DEF MergeRequest
<1>22. ASSUME NEW p \in Procs, Crash(p) PROVE PlanInv'
  BY <1>22 DEF Crash
<1>23. ASSUME NEW p \in Procs, NEW u \in Units, Collect(p, u) PROVE PlanInv'
  BY <1>23 DEF Collect
<1>24. ASSUME NEW p \in Procs, NEW u \in Units, MergeUnit(p, u) PROVE PlanInv'
  BY <1>24 DEF MergeUnit
<1>25. ASSUME NEW p \in Procs, NEW u \in Units, RemoveUnitTree(p, u) PROVE PlanInv'
  BY <1>25 DEF RemoveUnitTree
<1>26. ASSUME NEW u \in Units, ClaimUnit(u) PROVE PlanInv'
  BY <1>26 DEF ClaimUnit
<1>27. ASSUME NEW u \in Units, MakeWorktree(u) PROVE PlanInv'
  BY <1>27 DEF MakeWorktree
<1>28. ASSUME NEW u \in Units, RegisterWorktree(u) PROVE PlanInv'
  BY <1>28 DEF RegisterWorktree
<1>29. ASSUME NEW u \in Units, CoderRaises(u) PROVE PlanInv'
  BY <1>29 DEF CoderRaises
<1>30. ASSUME NEW u \in Units, CoderFails(u) PROVE PlanInv'
  BY <1>30 DEF CoderFails
<1>31. ASSUME NEW u \in Units, CoderSucceeds(u) PROVE PlanInv'
  BY <1>31 DEF CoderSucceeds
<1>32. CASE UNCHANGED vars
  BY <1>32 DEF vars
<1>. QED
  BY <1>0, <1>1, <1>2, <1>3, <1>4, <1>5, <1>6, <1>7, <1>8, <1>9, <1>10, <1>11, <1>12,
     <1>13, <1>14, <1>15, <1>16, <1>17, <1>18, <1>19, <1>20, <1>21, <1>21a, <1>21b, <1>21c,
     <1>22,
     <1>23, <1>24, <1>25, <1>26, <1>27, <1>28, <1>29, <1>30, <1>31, <1>32
  DEF Next, ProcStep, CoderStep

\* Every step keeps unit rows in line with the coder threads.
LEMMA ThreadStep == IInv /\ UInv /\ [Next]_vars => ThreadInv'
<1>. SUFFICES ASSUME IInv, UInv, [Next]_vars PROVE ThreadInv'
  OBVIOUS
<1>. TypeOK /\ JobInv /\ RowInv /\ PlanInv /\ ThreadInv /\ UnitInv
  BY DEF IInv, UInv
<1>. USE NamesAssumption DEF TypeOK, JobInv, RowInv, PlanInv, ThreadInv, UnitInv, UnitsOf, storeVars,
         Planning, Integrating, Reconciling, Active, PCs, Goto, SetTask, SetUnit,
         CreateTask, CreateUnits, Exit
<1>0. ASSUME NEW t \in Tasks, Webhook(t) PROVE ThreadInv'
  BY <1>0 DEF Webhook
<1>1. ASSUME NEW p \in Procs, Intake(p) PROVE ThreadInv'
  BY <1>1 DEF Intake
<1>2. ASSUME NEW p \in Procs, Requeue(p) PROVE ThreadInv'
  BY <1>2 DEF Requeue
<1>3. ASSUME NEW p \in Procs, Snapshot(p) PROVE ThreadInv'
  BY <1>3 DEF Snapshot
<1>4. ASSUME NEW p \in Procs, Listing(p) PROVE ThreadInv'
  BY <1>4 DEF Listing
<1>5. ASSUME NEW p \in Procs, Prune(p) PROVE ThreadInv'
  BY <1>5 DEF Prune
<1>6. ASSUME NEW p \in Procs, BeginPlan(p) PROVE ThreadInv'
  BY <1>6 DEF BeginPlan
<1>7. ASSUME NEW p \in Procs, PlannerAnswers(p) PROVE ThreadInv'
  BY <1>7 DEF PlannerAnswers
<1>8. ASSUME NEW p \in Procs, OverBudget(p) PROVE ThreadInv'
  BY <1>8 DEF OverBudget
<1>9. ASSUME NEW p \in Procs, PlanRejected(p) PROVE ThreadInv'
  BY <1>9 DEF PlanRejected
<1>10. ASSUME NEW p \in Procs, PlanAccepted(p) PROVE ThreadInv'
  BY <1>10 DEF PlanAccepted
<1>11. ASSUME NEW p \in Procs, BeginCode(p) PROVE ThreadInv'
  BY <1>11 DEF BeginCode
<1>12. ASSUME NEW p \in Procs, CodingFailed(p) PROVE ThreadInv'
  BY <1>12 DEF CodingFailed, Collected
<1>13. ASSUME NEW p \in Procs, CodingDone(p) PROVE ThreadInv'
  BY <1>13 DEF CodingDone, Collected
<1>14. ASSUME NEW p \in Procs, AddIntegrationTree(p) PROVE ThreadInv'
  BY <1>14 DEF AddIntegrationTree
<1>15. ASSUME NEW p \in Procs, MergeConflict(p) PROVE ThreadInv'
  BY <1>15 DEF MergeConflict
<1>16. ASSUME NEW p \in Procs, IntegrationRaises(p) PROVE ThreadInv'
  BY <1>16 DEF IntegrationRaises
<1>17. ASSUME NEW p \in Procs, RemoveIntegrationTree(p) PROVE ThreadInv'
  BY <1>17 DEF RemoveIntegrationTree
<1>18. ASSUME NEW p \in Procs, ForgetUnitTree(p) PROVE ThreadInv'
  BY <1>18 DEF ForgetUnitTree
<1>19. ASSUME NEW p \in Procs, BeginGates(p) PROVE ThreadInv'
  BY <1>19 DEF BeginGates
<1>20. ASSUME NEW p \in Procs, BeginHealing(p) PROVE ThreadInv'
  BY <1>20 DEF BeginHealing
<1>21. ASSUME NEW p \in Procs, FinishTask(p) PROVE ThreadInv'
  BY <1>21 DEF FinishTask
<1>21a. ASSUME NEW p \in Procs, OpenRequest(p) PROVE ThreadInv'
  BY <1>21a DEF OpenRequest
<1>21b. ASSUME NEW p \in Procs, LeaveRequest(p) PROVE ThreadInv'
  BY <1>21b DEF LeaveRequest
<1>21c. ASSUME NEW p \in Procs, MergeRequest(p) PROVE ThreadInv'
  BY <1>21c DEF MergeRequest
<1>22. ASSUME NEW p \in Procs, Crash(p) PROVE ThreadInv'
  BY <1>22 DEF Crash
<1>23. ASSUME NEW p \in Procs, NEW u \in Units, Collect(p, u) PROVE ThreadInv'
  BY <1>23 DEF Collect
<1>24. ASSUME NEW p \in Procs, NEW u \in Units, MergeUnit(p, u) PROVE ThreadInv'
  BY <1>24 DEF MergeUnit
<1>25. ASSUME NEW p \in Procs, NEW u \in Units, RemoveUnitTree(p, u) PROVE ThreadInv'
  BY <1>25 DEF RemoveUnitTree
<1>26. ASSUME NEW u \in Units, ClaimUnit(u) PROVE ThreadInv'
  BY <1>26 DEF ClaimUnit
<1>27. ASSUME NEW u \in Units, MakeWorktree(u) PROVE ThreadInv'
  BY <1>27 DEF MakeWorktree
<1>28. ASSUME NEW u \in Units, RegisterWorktree(u) PROVE ThreadInv'
  BY <1>28 DEF RegisterWorktree
<1>29. ASSUME NEW u \in Units, CoderRaises(u) PROVE ThreadInv'
  BY <1>29 DEF CoderRaises
<1>30. ASSUME NEW u \in Units, CoderFails(u) PROVE ThreadInv'
  BY <1>30 DEF CoderFails
<1>31. ASSUME NEW u \in Units, CoderSucceeds(u) PROVE ThreadInv'
  BY <1>31 DEF CoderSucceeds
<1>32. CASE UNCHANGED vars
  BY <1>32 DEF vars
<1>. QED
  BY <1>0, <1>1, <1>2, <1>3, <1>4, <1>5, <1>6, <1>7, <1>8, <1>9, <1>10, <1>11, <1>12,
     <1>13, <1>14, <1>15, <1>16, <1>17, <1>18, <1>19, <1>20, <1>21, <1>21a, <1>21b, <1>21c,
     <1>22,
     <1>23, <1>24, <1>25, <1>26, <1>27, <1>28, <1>29, <1>30, <1>31, <1>32
  DEF Next, ProcStep, CoderStep

\* Every step keeps units as far as their process has come.
LEMMA UnitStep == IInv /\ UInv /\ [Next]_vars => UnitInv'
<1>. SUFFICES ASSUME IInv, UInv, [Next]_vars PROVE UnitInv'
  OBVIOUS
<1>. TypeOK /\ JobInv /\ RowInv /\ PlanInv /\ ThreadInv /\ UnitInv
  BY DEF IInv, UInv
<1>. USE NamesAssumption DEF TypeOK, JobInv, RowInv, PlanInv, ThreadInv, UnitInv, UnitsOf, storeVars,
         Planning, Integrating, Reconciling, Active, PCs, Goto, SetTask, SetUnit,
         CreateTask, CreateUnits, Exit
<1>0. ASSUME NEW t \in Tasks, Webhook(t) PROVE UnitInv'
  BY <1>0 DEF Webhook
<1>1. ASSUME NEW p \in Procs, Intake(p) PROVE UnitInv'
  BY <1>1 DEF Intake
<1>2. ASSUME NEW p \in Procs, Requeue(p) PROVE UnitInv'
  BY <1>2 DEF Requeue
<1>3. ASSUME NEW p \in Procs, Snapshot(p) PROVE UnitInv'
  BY <1>3 DEF Snapshot
<1>4. ASSUME NEW p \in Procs, Listing(p) PROVE UnitInv'
  BY <1>4 DEF Listing
<1>5. ASSUME NEW p \in Procs, Prune(p) PROVE UnitInv'
  BY <1>5 DEF Prune
<1>6. ASSUME NEW p \in Procs, BeginPlan(p) PROVE UnitInv'
  BY <1>6 DEF BeginPlan
<1>7. ASSUME NEW p \in Procs, PlannerAnswers(p) PROVE UnitInv'
  BY <1>7 DEF PlannerAnswers
<1>8. ASSUME NEW p \in Procs, OverBudget(p) PROVE UnitInv'
  BY <1>8 DEF OverBudget
<1>9. ASSUME NEW p \in Procs, PlanRejected(p) PROVE UnitInv'
  BY <1>9 DEF PlanRejected
<1>10. ASSUME NEW p \in Procs, PlanAccepted(p) PROVE UnitInv'
  BY <1>10 DEF PlanAccepted
<1>11. ASSUME NEW p \in Procs, BeginCode(p) PROVE UnitInv'
  BY <1>11 DEF BeginCode
<1>12. ASSUME NEW p \in Procs, CodingFailed(p) PROVE UnitInv'
  BY <1>12 DEF CodingFailed, Collected
<1>13. ASSUME NEW p \in Procs, CodingDone(p) PROVE UnitInv'
  BY <1>13 DEF CodingDone, Collected
<1>14. ASSUME NEW p \in Procs, AddIntegrationTree(p) PROVE UnitInv'
  BY <1>14 DEF AddIntegrationTree
<1>15. ASSUME NEW p \in Procs, MergeConflict(p) PROVE UnitInv'
  BY <1>15 DEF MergeConflict
<1>16. ASSUME NEW p \in Procs, IntegrationRaises(p) PROVE UnitInv'
  BY <1>16 DEF IntegrationRaises
<1>17. ASSUME NEW p \in Procs, RemoveIntegrationTree(p) PROVE UnitInv'
  BY <1>17 DEF RemoveIntegrationTree
<1>18. ASSUME NEW p \in Procs, ForgetUnitTree(p) PROVE UnitInv'
  BY <1>18 DEF ForgetUnitTree
<1>19. ASSUME NEW p \in Procs, BeginGates(p) PROVE UnitInv'
  BY <1>19 DEF BeginGates
<1>20. ASSUME NEW p \in Procs, BeginHealing(p) PROVE UnitInv'
  BY <1>20 DEF BeginHealing
<1>21. ASSUME NEW p \in Procs, FinishTask(p) PROVE UnitInv'
  BY <1>21 DEF FinishTask
<1>21a. ASSUME NEW p \in Procs, OpenRequest(p) PROVE UnitInv'
  BY <1>21a DEF OpenRequest
<1>21b. ASSUME NEW p \in Procs, LeaveRequest(p) PROVE UnitInv'
  BY <1>21b DEF LeaveRequest
<1>21c. ASSUME NEW p \in Procs, MergeRequest(p) PROVE UnitInv'
  BY <1>21c DEF MergeRequest
<1>22. ASSUME NEW p \in Procs, Crash(p) PROVE UnitInv'
  BY <1>22 DEF Crash
<1>23. ASSUME NEW p \in Procs, NEW u \in Units, Collect(p, u) PROVE UnitInv'
  BY <1>23 DEF Collect
<1>24. ASSUME NEW p \in Procs, NEW u \in Units, MergeUnit(p, u) PROVE UnitInv'
  BY <1>24 DEF MergeUnit
<1>25. ASSUME NEW p \in Procs, NEW u \in Units, RemoveUnitTree(p, u) PROVE UnitInv'
  BY <1>25 DEF RemoveUnitTree
<1>26. ASSUME NEW u \in Units, ClaimUnit(u) PROVE UnitInv'
  BY <1>26 DEF ClaimUnit
<1>27. ASSUME NEW u \in Units, MakeWorktree(u) PROVE UnitInv'
  BY <1>27 DEF MakeWorktree
<1>28. ASSUME NEW u \in Units, RegisterWorktree(u) PROVE UnitInv'
  BY <1>28 DEF RegisterWorktree
<1>29. ASSUME NEW u \in Units, CoderRaises(u) PROVE UnitInv'
  BY <1>29 DEF CoderRaises
<1>30. ASSUME NEW u \in Units, CoderFails(u) PROVE UnitInv'
  BY <1>30 DEF CoderFails
<1>31. ASSUME NEW u \in Units, CoderSucceeds(u) PROVE UnitInv'
  BY <1>31 DEF CoderSucceeds
<1>32. CASE UNCHANGED vars
  BY <1>32 DEF vars
<1>. QED
  BY <1>0, <1>1, <1>2, <1>3, <1>4, <1>5, <1>6, <1>7, <1>8, <1>9, <1>10, <1>11, <1>12,
     <1>13, <1>14, <1>15, <1>16, <1>17, <1>18, <1>19, <1>20, <1>21, <1>21a, <1>21b, <1>21c,
     <1>22,
     <1>23, <1>24, <1>25, <1>26, <1>27, <1>28, <1>29, <1>30, <1>31, <1>32
  DEF Next, ProcStep, CoderStep
-----------------------------------------------------------------------------
\* The refinement mapping of Promise, in names.
PlanMap == [t \in Tasks |-> UnitsOf(t)]
Coded == {u \in Units : unit[u] \in {"coded", "integrated"}}
Integrated == {u \in Units : unit[u] = "integrated"}
Delivered == {t \in Tasks : task[t] \in {"pr_open", "merged"}}
mapped == <<PlanMap, Coded, Integrated, Delivered>>

\* What changes none of these is a stutter of Delivery.tla.
LEMMA PromiseStutter == ASSUME UNCHANGED mapped PROVE UNCHANGED Promise!vars
BY DEF mapped, PlanMap, Coded, Integrated, Delivered, Promise!vars

\* A plan is made: Delivery's Plan.
LEMMA PromisePlan ==
    ASSUME NEW t \in Tasks, NEW S \in SUBSET Units,
           PlanMap[t] = {}, S # {}, \A o \in Tasks : PlanMap[o] \cap S = {},
           PlanMap' = [PlanMap EXCEPT ![t] = S],
           UNCHANGED <<Coded, Integrated, Delivered>>
    PROVE  Promise!Next
<1>1. Promise!Plan(t, S)
  BY DEF PlanMap, Coded, Integrated, Delivered, Promise!Plan
<1>. QED  BY <1>1 DEF Promise!Next

\* A unit is coded: Delivery's Code.
LEMMA PromiseCode ==
    ASSUME NEW t \in Tasks, NEW u \in Units, u \in PlanMap[t],
           Coded' = Coded \cup {u},
           UNCHANGED <<PlanMap, Integrated, Delivered>>
    PROVE  Promise!Next
<1>1. Promise!Code(t, u)
  BY DEF PlanMap, Coded, Integrated, Delivered, Promise!Code
<1>. QED  BY <1>1 DEF Promise!Next

\* A unit is integrated: Delivery's Integrate.
LEMMA PromiseIntegrate ==
    ASSUME NEW t \in Tasks, NEW u \in Units, u \in PlanMap[t], PlanMap[t] \subseteq Coded,
           Integrated' = Integrated \cup {u},
           UNCHANGED <<PlanMap, Coded, Delivered>>
    PROVE  Promise!Next
<1>1. Promise!Integrate(t, u)
  BY DEF PlanMap, Coded, Integrated, Delivered, Promise!Integrate
<1>. QED  BY <1>1 DEF Promise!Next

\* A task is delivered: Delivery's Deliver.
LEMMA PromiseDeliver ==
    ASSUME NEW t \in Tasks, PlanMap[t] # {}, PlanMap[t] \subseteq Integrated,
           Delivered' = Delivered \cup {t},
           UNCHANGED <<PlanMap, Coded, Integrated>>
    PROVE  Promise!Next
<1>1. Promise!Deliver(t)
  BY DEF PlanMap, Coded, Integrated, Delivered, Promise!Deliver
<1>. QED  BY <1>1 DEF Promise!Next

\* Every step of the factory is a step of the promise, or changes nothing of it.
LEMMA RefinementStep == IInv /\ UInv /\ [Next]_vars => [Promise!Next]_(Promise!vars)
<1>. SUFFICES ASSUME IInv, UInv, [Next]_vars
              PROVE  UNCHANGED mapped \/ Promise!Next
  BY PromiseStutter
<1>. TypeOK /\ JobInv /\ RowInv /\ PlanInv /\ ThreadInv /\ UnitInv
  BY DEF IInv, UInv
<1>1. ASSUME NEW p \in Procs, PlanAccepted(p) PROVE Promise!Next
  <2>1. PICK S \in SUBSET {u \in Units : unit[u] = "absent"} :
          /\ S # {}
          /\ unit' = [u \in Units |-> IF u \in S THEN "pending" ELSE unit[u]]
          /\ owner' = [u \in Units |-> IF u \in S THEN job[p] ELSE owner[u]]
    BY <1>1 DEF PlanAccepted, CreateUnits
  <2>2. job[p] \in Tasks /\ UnitsOf(job[p]) = {} /\ UNCHANGED task
    BY <1>1 DEF PlanAccepted, Goto, JobInv, PlanInv
  <2>3. \A o \in Tasks : UnitsOf(o) \cap S = {}
    BY <2>1 DEF PlanInv, UnitsOf
  <2>4. \A t \in Tasks : UnitsOf(t)' = IF t = job[p] THEN S ELSE UnitsOf(t)
    BY <2>1, <2>2, <2>3 DEF UnitsOf, PlanInv
  <2>5. PlanMap' = [PlanMap EXCEPT ![job[p]] = S]
    BY <2>4 DEF PlanMap
  <2>6. UNCHANGED <<Coded, Integrated, Delivered>>
    BY <2>1, <2>2 DEF Coded, Integrated, Delivered, TypeOK
  <2>. QED  BY <2>1, <2>2, <2>3, <2>5, <2>6, PromisePlan DEF PlanMap
<1>2. ASSUME NEW u \in Units, CoderSucceeds(u) PROVE Promise!Next
  <2>1. owner[u] \in Tasks /\ UNCHANGED <<owner, task>> /\ unit[u] # "integrated"
    BY <1>2 DEF CoderSucceeds, ThreadInv, PlanInv, Active
  <2>2. unit' = [unit EXCEPT ![u] = "coded"]
    BY <1>2 DEF CoderSucceeds, SetUnit
  <2>3. u \in PlanMap[owner[u]]
    BY <2>1 DEF PlanMap, UnitsOf
  <2>4. Coded' = Coded \cup {u} /\ UNCHANGED Integrated
    BY <2>1, <2>2 DEF Coded, Integrated, TypeOK
  <2>5. UNCHANGED <<PlanMap, Delivered>>
    BY <2>1 DEF PlanMap, UnitsOf, Delivered
  <2>. QED  BY <2>1, <2>3, <2>4, <2>5, PromiseCode
<1>3. ASSUME NEW p \in Procs, NEW u \in Units, MergeUnit(p, u) PROVE Promise!Next
  <2>1. job[p] \in Tasks /\ u \in UnitsOf(job[p]) /\ UNCHANGED <<owner, task>>
    BY <1>3 DEF MergeUnit, JobInv
  <2>2. unit' = [unit EXCEPT ![u] = "integrated"] /\ pc[p] = "merging"
    BY <1>3 DEF MergeUnit, SetUnit
  <2>3. UnitsOf(job[p]) \subseteq Coded
    BY <2>2 DEF UnitsOf, UnitInv, Coded
  <2>4. Integrated' = Integrated \cup {u} /\ UNCHANGED Coded
    BY <2>1, <2>2, <2>3 DEF Coded, Integrated, TypeOK
  <2>5. UNCHANGED <<PlanMap, Delivered>>
    BY <2>1 DEF PlanMap, UnitsOf, Delivered
  <2>. QED  BY <2>1, <2>3, <2>4, <2>5, PromiseIntegrate DEF PlanMap
<1>4. ASSUME NEW p \in Procs, FinishTask(p) \/ OpenRequest(p)
      PROVE  UNCHANGED mapped \/ Promise!Next
  <2>1. /\ job[p] \in Tasks /\ pc[p] = "gating" /\ UNCHANGED <<owner, unit>>
        /\ task[job[p]] \notin {"pr_open", "merged"}
    BY <1>4 DEF FinishTask, OpenRequest, Goto, JobInv, RowInv
  <2>2. PICK st \in {"blocked", "pr_open", "merged"} : task' = [task EXCEPT ![job[p]] = st]
    BY <1>4 DEF FinishTask, OpenRequest, SetTask
  <2>3. UNCHANGED <<PlanMap, Coded, Integrated>>
    BY <2>1 DEF PlanMap, UnitsOf, Coded, Integrated
  <2>4. CASE st = "blocked"
    <3>1. UNCHANGED Delivered
      BY <2>1, <2>2, <2>4 DEF Delivered, TypeOK
    <3>. QED  BY <2>3, <3>1 DEF mapped
  <2>5. CASE st \in {"pr_open", "merged"}
    <3>1. Delivered' = Delivered \cup {job[p]}
      BY <2>1, <2>2, <2>5 DEF Delivered, TypeOK
    <3>2. UnitsOf(job[p]) # {} /\ UnitsOf(job[p]) \subseteq Integrated
      BY <2>1 DEF PlanInv, UnitInv, UnitsOf, Integrated
    <3>. QED  BY <2>1, <2>3, <3>1, <3>2, PromiseDeliver DEF PlanMap
  <2>. QED  BY <2>2, <2>4, <2>5
\* The other actions change no plan, ...
<1>5. ASSUME UNCHANGED owner,
             \A u \in Units : unit'[u] # unit[u] =>
                 {unit[u], unit'[u]} \cap {"coded", "integrated"} = {},
             \A t \in Tasks : task[t] \in {"pr_open", "merged"} <=> task'[t] \in {"pr_open", "merged"}
      PROVE  UNCHANGED mapped
  BY <1>5 DEF mapped, PlanMap, UnitsOf, Coded, Integrated, Delivered
<1>. USE DEF TypeOK, JobInv, RowInv, storeVars, Planning, Integrating, Reconciling,
             Goto, SetTask, SetUnit,
         CreateTask, CreateUnits, Exit
\* ... not even the store, ...
<1>6. ASSUME NEW p \in Procs,
             Snapshot(p) \/ Listing(p) \/ Prune(p) \/ PlannerAnswers(p) \/
             AddIntegrationTree(p) \/ IntegrationRaises(p) \/
             RemoveIntegrationTree(p) \/ ForgetUnitTree(p) \/ LeaveRequest(p) \/ Crash(p)
      PROVE  UNCHANGED mapped
  BY <1>5, <1>6 DEF Snapshot, Listing, Prune, PlannerAnswers, AddIntegrationTree,
     IntegrationRaises, RemoveIntegrationTree, ForgetUnitTree, LeaveRequest, Crash
<1>7. ASSUME NEW p \in Procs, NEW u \in Units, RemoveUnitTree(p, u) PROVE UNCHANGED mapped
  BY <1>5, <1>7 DEF RemoveUnitTree
<1>8. ASSUME NEW u \in Units, MakeWorktree(u) \/ RegisterWorktree(u) \/ CoderRaises(u)
      PROVE  UNCHANGED mapped
  BY <1>5, <1>8 DEF MakeWorktree, RegisterWorktree, CoderRaises
\* ... or only the row of a task that is delivered neither before nor after,
\* or both, ...
<1>9. ASSUME NEW p \in Procs, Intake(p) PROVE UNCHANGED mapped
  BY <1>5, <1>9 DEF Intake
<1>23. ASSUME NEW t \in Tasks, Webhook(t) PROVE UNCHANGED mapped
  BY <1>5, <1>23 DEF Webhook
<1>10. ASSUME NEW p \in Procs, OverBudget(p) PROVE UNCHANGED mapped
  BY <1>5, <1>10 DEF OverBudget
<1>11. ASSUME NEW p \in Procs, PlanRejected(p) PROVE UNCHANGED mapped
  BY <1>5, <1>11 DEF PlanRejected
<1>12. ASSUME NEW p \in Procs, BeginPlan(p) PROVE UNCHANGED mapped
  BY <1>5, <1>12 DEF BeginPlan
<1>13. ASSUME NEW p \in Procs, BeginCode(p) PROVE UNCHANGED mapped
  BY <1>5, <1>13 DEF BeginCode
<1>14. ASSUME NEW p \in Procs, CodingFailed(p) PROVE UNCHANGED mapped
  BY <1>5, <1>14 DEF CodingFailed, Collected
<1>15. ASSUME NEW p \in Procs, CodingDone(p) PROVE UNCHANGED mapped
  BY <1>5, <1>15 DEF CodingDone, Collected
<1>16. ASSUME NEW p \in Procs, MergeConflict(p) PROVE UNCHANGED mapped
  BY <1>5, <1>16 DEF MergeConflict
<1>17. ASSUME NEW p \in Procs, BeginGates(p) PROVE UNCHANGED mapped
  BY <1>5, <1>17 DEF BeginGates
<1>18. ASSUME NEW p \in Procs, BeginHealing(p) PROVE UNCHANGED mapped
  BY <1>5, <1>18 DEF BeginHealing
<1>24. ASSUME NEW p \in Procs, MergeRequest(p) PROVE UNCHANGED mapped
  BY <1>5, <1>24 DEF MergeRequest
\* ... or the row of a unit that is not coded.
<1>19. ASSUME NEW p \in Procs, Requeue(p) PROVE UNCHANGED mapped
  BY <1>5, <1>19 DEF Requeue
<1>20. ASSUME NEW p \in Procs, NEW u \in Units, Collect(p, u) PROVE UNCHANGED mapped
  BY <1>5, <1>20 DEF Collect, ThreadInv
<1>21. ASSUME NEW u \in Units, ClaimUnit(u) \/ CoderFails(u) PROVE UNCHANGED mapped
  BY <1>5, <1>21 DEF ClaimUnit, CoderFails, ThreadInv
<1>22. CASE UNCHANGED vars
  BY <1>5, <1>22 DEF vars
<1>. QED
  BY <1>1, <1>2, <1>3, <1>4, <1>6, <1>7, <1>8, <1>9, <1>10, <1>11, <1>12, <1>13,
     <1>14, <1>15, <1>16, <1>17, <1>18, <1>19, <1>20, <1>21, <1>22, <1>23, <1>24
  DEF Next, ProcStep, CoderStep
-----------------------------------------------------------------------------
(* Sums over finite sets.  What MapThenSumSet recurses on is a function,   *)
(* which is found here in closed form: the number of tokens, each counted  *)
(* as a pair of the unit that used it and a number.                        *)

Pick(S) == CHOOSE x \in S : TRUE
Bars(f, S) == UNION {{x} \X (1 .. f[x]) : x \in S}
Unfolds(F, f, S) ==
    F = [s \in SUBSET S |-> IF s = {} THEN 0 ELSE f[Pick(s)] + F[s \ {Pick(s)}]]

\* The tokens of one unit.
LEMMA Bar ==
    ASSUME NEW e, NEW n \in Nat
    PROVE  IsFiniteSet({e} \X (1 .. n)) /\ Cardinality({e} \X (1 .. n)) = n
<1>1. IsFiniteSet(1 .. n) /\ Cardinality(1 .. n) = n
  BY FS_Interval
<1>2. IsFiniteSet({e}) /\ Cardinality({e}) = 1
  BY FS_Singleton
<1>3. /\ IsFiniteSet({e} \X (1 .. n))
      /\ Cardinality({e} \X (1 .. n)) = Cardinality({e}) * Cardinality(1 .. n)
  BY <1>1, <1>2, FS_Product, Zenon
<1>. QED  BY <1>1, <1>2, <1>3

\* The tokens of finitely many units are finitely many.
LEMMA BarsFinite ==
    ASSUME NEW S, IsFiniteSet(S), NEW f, \A x \in S : f[x] \in Nat
    PROVE  IsFiniteSet(Bars(f, S)) /\ Cardinality(Bars(f, S)) \in Nat
<1>1. IsFiniteSet({{x} \X (1 .. f[x]) : x \in S})
  <2>. DEFINE B == [x \in S |-> {x} \X (1 .. f[x])]
              T == {{x} \X (1 .. f[x]) : x \in S}
  <2>1. B \in Surjection(S, T)
    BY DEF Surjection
  <2>. QED  BY <2>1, FS_Surjection
<1>2. ASSUME NEW x \in S PROVE IsFiniteSet({x} \X (1 .. f[x]))
  BY Bar
<1>3. IsFiniteSet(Bars(f, S))
  BY <1>1, <1>2, FS_UNION DEF Bars
<1>. QED  BY <1>3, FS_CardinalityType

\* One unit more.
LEMMA BarsAdd ==
    ASSUME NEW S, NEW f, NEW e, e \notin S, f[e] \in Nat, IsFiniteSet(Bars(f, S))
    PROVE  Cardinality(Bars(f, S \cup {e})) = Cardinality(Bars(f, S)) + f[e]
<1>. DEFINE B == {e} \X (1 .. f[e])
<1>1. Bars(f, S \cup {e}) = Bars(f, S) \cup B
  BY DEF Bars
<1>2. Bars(f, S) \cap B = {}
  BY DEF Bars
<1>3. IsFiniteSet(B) /\ Cardinality(B) = f[e]
  BY Bar
<1>4. Cardinality(Bars(f, S)) \in Nat
  BY FS_CardinalityType
<1>. HIDE DEF B
<1>5. Cardinality(Bars(f, S) \cup B) =
        Cardinality(Bars(f, S)) + Cardinality(B) - Cardinality(Bars(f, S) \cap B)
  BY <1>3, FS_Union
<1>6. Cardinality(Bars(f, S) \cap B) = 0
  BY <1>2, FS_EmptySet
<1>7. Cardinality(Bars(f, S \cup {e})) = Cardinality(Bars(f, S)) + f[e] - 0
  BY <1>1, <1>3, <1>5, <1>6, Zenon
<1>. QED  BY <1>4, <1>7

\* Counting the tokens satisfies the equation that defines the sum ...
LEMMA CountUnfolds ==
    ASSUME NEW S, IsFiniteSet(S), NEW f, \A x \in S : f[x] \in Nat
    PROVE  Unfolds([s \in SUBSET S |-> Cardinality(Bars(f, s))], f, S)
<1>. DEFINE G == [s \in SUBSET S |-> Cardinality(Bars(f, s))]
<1>1. ASSUME NEW s \in SUBSET S
      PROVE  G[s] = IF s = {} THEN 0 ELSE f[Pick(s)] + G[s \ {Pick(s)}]
  <2>1. CASE s = {}
    <3>1. Bars(f, s) = {}
      BY <2>1 DEF Bars
    <3>. QED  BY <2>1, <3>1, FS_EmptySet
  <2>2. CASE s # {}
    <3>1. Pick(s) \in s
      BY <2>2 DEF Pick
    <3>. DEFINE r == s \ {Pick(s)}
    <3>2. r \cup {Pick(s)} = s /\ Pick(s) \notin r /\ r \in SUBSET S
      BY <3>1
    <3>3. IsFiniteSet(Bars(f, r)) /\ Cardinality(Bars(f, r)) \in Nat
      BY <3>2, FS_Subset, BarsFinite
    <3>4. Cardinality(Bars(f, r \cup {Pick(s)})) = Cardinality(Bars(f, r)) + f[Pick(s)]
      <4>. HIDE DEF r
      <4>. QED  BY <3>1, <3>2, <3>3, BarsAdd
    <3>. QED  BY <2>2, <3>1, <3>2, <3>3, <3>4
  <2>. QED  BY <2>1, <2>2
<1>. QED  BY <1>1 DEF Unfolds

\* ... and nothing else does: a smallest set where two solutions differ
\* would not be empty, and without its first element they would agree.
LEMMA UnfoldsOnce ==
    ASSUME NEW S, IsFiniteSet(S), NEW f, NEW F, NEW G, Unfolds(F, f, S), Unfolds(G, f, S)
    PROVE  F[S] = G[S]
<1>. DEFINE Differ == {s \in SUBSET S : F[s] # G[s]}
<1>1. SUFFICES ASSUME Differ # {} PROVE FALSE
  OBVIOUS
<1>2. PICK s \in Differ : \A r \in Differ : <<r, s>> \notin StrictSubsetOrdering(S)
  <2>1. IsWellFoundedOn(StrictSubsetOrdering(S), FiniteSubsetsOf(S))
    BY FS_StrictSubsetOrderingWellFounded
  <2>2. Differ \subseteq FiniteSubsetsOf(S)
    BY FS_FiniteSubsetsOfFinite
  <2>. QED  BY <1>1, <2>1, <2>2, WFMin
<1>3. s # {}
  BY DEF Unfolds
<1>4. Pick(s) \in s
  BY <1>3 DEF Pick
<1>5. s \ {Pick(s)} \in SUBSET S /\ <<s \ {Pick(s)}, s>> \in StrictSubsetOrdering(S)
  BY <1>4 DEF StrictSubsetOrdering
<1>6. F[s \ {Pick(s)}] = G[s \ {Pick(s)}]
  BY <1>2, <1>5
<1>. QED  BY <1>3, <1>6 DEF Unfolds

\* The sum in closed form.
LEMMA SumCounts ==
    ASSUME NEW S, IsFiniteSet(S), NEW f, \A x \in S : f[x] \in Nat
    PROVE  Sum(f, S) = Cardinality(Bars(f, S))
<1>. DEFINE G == [s \in SUBSET S |-> Cardinality(Bars(f, s))]
            C == CHOOSE F : Unfolds(F, f, S)
<1>1. Sum(f, S) = C[S]
  BY DEF Sum, MapThenSumSet, MapThenFoldSet, Unfolds, Pick
<1>2. Unfolds(G, f, S)
  BY CountUnfolds
<1>3. Unfolds(C, f, S)
  <2>. HIDE DEF G
  <2>. QED  BY <1>2
<1>4. C[S] = G[S]
  <2>. HIDE DEF G, C
  <2>. QED  BY <1>2, <1>3, UnfoldsOnce
<1>. QED  BY <1>1, <1>4

\* Nothing sums up to nothing.
LEMMA SumEmpty == \A f : Sum(f, {}) = 0
<1>. TAKE f
<1>1. Bars(f, {}) = {}
  BY DEF Bars
<1>. QED  BY <1>1, SumCounts, FS_EmptySet

\* A sum of naturals is one.
LEMMA SumNat ==
    ASSUME NEW S, IsFiniteSet(S), NEW f, \A x \in S : f[x] \in Nat
    PROVE  Sum(f, S) \in Nat
BY SumCounts, BarsFinite

\* One more summand.
LEMMA SumAdd ==
    ASSUME NEW S, IsFiniteSet(S), NEW f, \A x \in S : f[x] \in Nat,
           NEW e, e \notin S, f[e] \in Nat
    PROVE  Sum(f, S \cup {e}) = Sum(f, S) + f[e]
<1>1. IsFiniteSet(S \cup {e})
  BY FS_AddElement
<1>2. Sum(f, S) = Cardinality(Bars(f, S)) /\ IsFiniteSet(Bars(f, S))
  BY SumCounts, BarsFinite
<1>3. Sum(f, S \cup {e}) = Cardinality(Bars(f, S \cup {e}))
  BY <1>1, SumCounts
<1>4. Cardinality(Bars(f, S \cup {e})) = Cardinality(Bars(f, S)) + f[e]
  BY <1>2, BarsAdd
<1>. QED  BY <1>2, <1>3, <1>4, Zenon

\* A sum depends on its summands only.
LEMMA SumSame ==
    ASSUME NEW S, IsFiniteSet(S), NEW f, NEW g, \A x \in S : f[x] \in Nat /\ g[x] = f[x]
    PROVE  Sum(g, S) = Sum(f, S)
<1>1. Bars(g, S) = Bars(f, S)
  BY DEF Bars
<1>. QED  BY <1>1, SumCounts
-----------------------------------------------------------------------------
(* The token budget.  CountInv says what BudgetTracker has counted.        *)

\* Units whose result the as_completed loop has added up.
Counted(p) == {u \in UnitsOf(job[p]) : thread[u] = "none" /\ unit[u] = "coded"}

Counts(p) ==
    /\ pc[p] \in {"idle", "planning"} \cup Reconciling => tokens[p] = 0
    /\ pc[p] \in {"plan", "planned"} => tokens[p] = usage[job[p]]
    /\ pc[p] = "coding" => tokens[p] = usage[job[p]] + Sum(usage, Counted(p))

CountInv == \A p \in Procs : Counts(p)

\* A plan is a list, so it is finite.
FinitePlans == \A t \in Tasks : IsFiniteSet(UnitsOf(t))

BInv == FinitePlans /\ CountInv /\ IntegratesWithinBudget

\* Only the planner and the coders use tokens ...
LEMMA UsageKept ==
    /\ \A p \in Procs :
         (Intake(p) \/ ProcStep(p) \/ Crash(p)) /\ ~PlannerAnswers(p) => UNCHANGED usage
    /\ \A t \in Tasks : Webhook(t) => UNCHANGED usage
BY DEF Intake, ProcStep, Crash, Webhook, Requeue, Snapshot, Listing, Prune, BeginPlan,
   OverBudget, PlanRejected, PlanAccepted, BeginCode, CodingFailed, CodingDone,
   AddIntegrationTree, MergeConflict, IntegrationRaises, RemoveIntegrationTree,
   ForgetUnitTree, BeginGates, BeginHealing, FinishTask, OpenRequest, LeaveRequest,
   MergeRequest, Collect, MergeUnit, RemoveUnitTree

\* ... and only a plan gives units to a task.
LEMMA OwnerKept ==
    /\ \A p \in Procs :
         (Intake(p) \/ ProcStep(p) \/ Crash(p)) /\ ~PlanAccepted(p) => UNCHANGED owner
    /\ \A t \in Tasks : Webhook(t) => UNCHANGED owner
    /\ \A u \in Units : CoderStep(u) => UNCHANGED owner
BY DEF Intake, ProcStep, Crash, Webhook, Requeue, Snapshot, Listing, Prune, BeginPlan,
   PlannerAnswers, OverBudget, PlanRejected, BeginCode, CodingFailed, CodingDone,
   AddIntegrationTree, MergeConflict, IntegrationRaises, RemoveIntegrationTree,
   ForgetUnitTree, BeginGates, BeginHealing, FinishTask, OpenRequest, LeaveRequest,
   MergeRequest, Collect, MergeUnit, RemoveUnitTree, CoderStep, ClaimUnit, MakeWorktree,
   RegisterWorktree, CoderRaises, CoderFails, CoderSucceeds, storeVars

\* Plans stay finite.
LEMMA FiniteStep == JobInv /\ FinitePlans /\ [Next]_vars => FinitePlans'
<1>. SUFFICES ASSUME JobInv, FinitePlans, [Next]_vars, NEW t \in Tasks
              PROVE  IsFiniteSet(UnitsOf(t)')
  BY DEF FinitePlans
<1>1. CASE UNCHANGED owner
  BY <1>1 DEF FinitePlans, UnitsOf
<1>2. ASSUME NEW p \in Procs, PlanAccepted(p) PROVE IsFiniteSet(UnitsOf(t)')
  <2>1. PICK S \in SUBSET Units :
            IsFiniteSet(S) /\ owner' = [u \in Units |-> IF u \in S THEN job[p] ELSE owner[u]]
    BY <1>2 DEF PlanAccepted, CreateUnits
  <2>2. IsFiniteSet(UnitsOf(t) \cup S)
    BY <2>1, FS_Union DEF FinitePlans
  <2>3. UnitsOf(t)' \in SUBSET (UnitsOf(t) \cup S)
    BY <2>1 DEF UnitsOf
  <2>. QED  BY <2>2, <2>3, FS_Subset
<1>3. CASE UNCHANGED vars
  BY <1>1, <1>3 DEF vars
<1>. QED  BY <1>1, <1>2, <1>3, OwnerKept DEF Next

\* What counted before counts the same, if the process does nothing and no
\* other step touches what it counted.
LEMMA CountKept ==
    ASSUME TypeOK, JobInv, FinitePlans, NEW q \in Procs, Counts(q),
           pc'[q] = pc[q], job'[q] = job[q], tokens'[q] = tokens[q],
           pc[q] \in {"plan", "planned", "coding"} => usage'[job[q]] = usage[job[q]],
           pc[q] = "coding" =>
               Counted(q)' = Counted(q) /\ \A u \in Counted(q) : usage'[u] = usage[u]
    PROVE  Counts(q)'
<1>1. CASE pc[q] = "coding"
  <2>1. job[q] \in Tasks
    BY <1>1 DEF JobInv
  <2>2. IsFiniteSet(Counted(q)) /\ Counted(q) \subseteq Units
    BY <2>1, FS_Subset DEF Counted, FinitePlans, UnitsOf
  <2>3. \A u \in Counted(q) : usage[u] \in Nat /\ usage'[u] = usage[u]
    BY <1>1, <2>2 DEF TypeOK
  <2>4. Sum(usage', Counted(q)) = Sum(usage, Counted(q))
    BY <2>2, <2>3, SumSame
  <2>. QED  BY <1>1, <2>4 DEF Counts, Reconciling
<1>2. CASE pc[q] # "coding"
  BY <1>2 DEF Counts, Reconciling
<1>. QED  BY <1>1, <1>2

\* The steps of one process do not touch what another has counted.
LEMMA OthersCount ==
    ASSUME IInv, UInv, BInv, NEW p \in Procs, NEW q \in Procs \ {p},
           Intake(p) \/ ProcStep(p) \/ Crash(p)
    PROVE  Counts(q)'
<1>. TypeOK /\ JobInv /\ FinitePlans /\ Counts(q) /\ PlanInv
  BY DEF IInv, UInv, BInv, CountInv
<1>. USE DEF Goto, SetTask, SetUnit, CreateTask, CreateUnits, Exit, storeVars
<1>1. pc'[q] = pc[q] /\ job'[q] = job[q] /\ tokens'[q] = tokens[q]
  BY DEF TypeOK, Intake, ProcStep, Crash, Requeue, Snapshot, Listing, Prune, BeginPlan, PlannerAnswers,
     OverBudget, PlanRejected, PlanAccepted, BeginCode, CodingFailed, CodingDone, Collected,
     AddIntegrationTree, MergeConflict, IntegrationRaises, RemoveIntegrationTree,
     ForgetUnitTree, BeginGates, BeginHealing, FinishTask, OpenRequest, LeaveRequest,
     MergeRequest, Collect, MergeUnit, RemoveUnitTree
<1>2. ASSUME job[q] \in Tasks
      PROVE  /\ usage'[job[q]] = usage[job[q]]
             /\ \A u \in Units : usage'[u] = usage[u]
  <2>1. job[p] # job[q]
    BY <1>2 DEF JobInv
  <2>2. CASE PlannerAnswers(p)
    <3>1. PICK c \in Costs : usage' = [usage EXCEPT ![job[p]] = c]
      BY <2>2 DEF PlannerAnswers
    <3>2. job[p] \in Tasks
      BY <2>2 DEF PlannerAnswers, JobInv
    <3>. QED  BY <1>2, <2>1, <3>1, <3>2, NamesAssumption DEF TypeOK
  <2>3. CASE ~PlannerAnswers(p)
    BY <2>3, UsageKept
  <2>. QED  BY <2>2, <2>3
<1>3. ASSUME job[q] \in Tasks, job[p] \in Tasks, NEW u \in Units
      PROVE  /\ owner'[u] = job[q] <=> owner[u] = job[q]
             /\ owner[u] = job[q] => thread'[u] = thread[u] /\ (unit'[u] = "coded" <=> unit[u] = "coded")
  <2>1. job[p] # job[q]
    BY <1>3 DEF JobInv
  <2>2. CASE PlanAccepted(p)
    BY <1>3, <2>1, <2>2, NamesAssumption DEF TypeOK, PlanInv, PlanAccepted
  <2>3. CASE Requeue(p)
    BY <1>3, <2>3 DEF TypeOK, Requeue
  <2>4. CASE Crash(p) \/ BeginCode(p)
    BY <1>3, <2>1, <2>4 DEF TypeOK, Crash, BeginCode
  <2>5. CASE \E w \in Units : Collect(p, w) \/ MergeUnit(p, w)
    BY <1>3, <2>1, <2>5 DEF TypeOK, Collect, MergeUnit, UnitsOf
  <2>6. CASE /\ ~(PlanAccepted(p) \/ Requeue(p) \/ Crash(p) \/ BeginCode(p))
             /\ ~\E w \in Units : Collect(p, w) \/ MergeUnit(p, w)
    BY <2>6 DEF Intake, ProcStep, Snapshot, Listing, Prune, BeginPlan, PlannerAnswers,
     OverBudget, PlanRejected, CodingFailed, CodingDone,
     AddIntegrationTree, MergeConflict, IntegrationRaises, RemoveIntegrationTree,
     ForgetUnitTree, BeginGates, BeginHealing, FinishTask, OpenRequest, LeaveRequest,
     MergeRequest, RemoveUnitTree
  <2>. QED  BY <2>2, <2>3, <2>4, <2>5, <2>6
<1>4. pc[q] \in {"plan", "planned", "coding"} => job[q] \in Tasks
  BY DEF JobInv
<1>5. CASE Intake(p)
  <2>1. UNCHANGED <<usage, unit, owner, thread>>
    BY <1>5 DEF Intake
  <2>2. Counted(q)' = Counted(q)
    BY <1>1, <2>1 DEF Counted, UnitsOf
  <2>. QED  BY <1>1, <2>1, <2>2, CountKept
<1>6. CASE ProcStep(p) \/ Crash(p)
  <2>1. pc[p] # "idle"
    BY <1>6 DEF ProcStep, Crash, Requeue, Snapshot, Listing, Prune, BeginPlan, PlannerAnswers,
     OverBudget, PlanRejected, PlanAccepted, BeginCode, CodingFailed, CodingDone, Collected,
     AddIntegrationTree, MergeConflict, IntegrationRaises, RemoveIntegrationTree,
     ForgetUnitTree, BeginGates, BeginHealing, FinishTask, OpenRequest, LeaveRequest,
     MergeRequest, Collect, MergeUnit, RemoveUnitTree
  <2>2. job[p] \in Tasks
    BY <2>1 DEF JobInv
  <2>3. pc[q] = "coding" => Counted(q)' = Counted(q)
    BY <1>1, <1>3, <1>4, <2>2 DEF Counted, UnitsOf
  <2>4. pc[q] = "coding" => \A u \in Counted(q) : usage'[u] = usage[u]
    BY <1>2, <1>4 DEF Counted, UnitsOf
  <2>. QED  BY <1>1, <1>2, <1>4, <2>3, <2>4, CountKept
<1>. QED  BY <1>5, <1>6

\* What a process has counted keeps up with its own steps.
LEMMA OwnCount ==
    ASSUME IInv, UInv, BInv, NEW p \in Procs, Intake(p) \/ ProcStep(p) \/ Crash(p)
    PROVE  Counts(p)'
<1>. TypeOK /\ JobInv /\ PlanInv /\ ThreadInv /\ UnitInv /\ FinitePlans /\ Counts(p)
  BY DEF IInv, UInv, BInv, CountInv
<1>. USE DEF Goto, SetTask, SetUnit, CreateTask, CreateUnits, Exit, storeVars
<1>1. CASE pc'[p] = "idle" /\ tokens'[p] = 0
  BY <1>1 DEF Counts, Reconciling
<1>2. CASE OverBudget(p) \/ PlanRejected(p) \/ CodingFailed(p) \/ MergeConflict(p)
             \/ IntegrationRaises(p) \/ FinishTask(p) \/ LeaveRequest(p) \/ MergeRequest(p)
             \/ Crash(p)
  BY <1>1, <1>2 DEF TypeOK, OverBudget, PlanRejected, CodingFailed, MergeConflict,
     IntegrationRaises, FinishTask, LeaveRequest, MergeRequest, Crash
<1>3. CASE Intake(p) \/ Requeue(p) \/ Snapshot(p) \/ Listing(p) \/ Prune(p) \/ BeginPlan(p)
  BY <1>3 DEF TypeOK, Counts, Reconciling, Intake, Requeue, Snapshot, Listing, Prune, BeginPlan
<1>4. CASE PlannerAnswers(p)
  <2>1. PICK c \in Costs : usage' = [usage EXCEPT ![job[p]] = c]
                           /\ tokens' = [tokens EXCEPT ![p] = @ + c]
    BY <1>4 DEF PlannerAnswers
  <2>2. pc'[p] = "plan" /\ tokens[p] = 0 /\ job[p] \in Tasks /\ job'[p] = job[p]
    BY <1>4 DEF PlannerAnswers, TypeOK, Counts, JobInv
  <2>3. tokens'[p] = c /\ usage'[job'[p]] = c
    BY <2>1, <2>2, BudgetAssumption DEF TypeOK
  <2>. QED  BY <2>2, <2>3 DEF Counts, Reconciling
<1>5. CASE PlanAccepted(p)
  BY <1>5 DEF TypeOK, Counts, Reconciling, PlanAccepted
<1>6. CASE BeginCode(p)
  <2>1. /\ pc'[p] = "coding" /\ UNCHANGED <<job, usage, owner, tokens>>
        /\ tokens[p] = usage[job[p]] /\ job[p] \in Tasks
    BY <1>6 DEF BeginCode, TypeOK, Counts, JobInv
  <2>2. Counted(p)' = {}
    BY <1>6 DEF BeginCode, Counted, UnitsOf
  <2>3. Sum(usage', Counted(p)') = 0
    BY <2>2, SumEmpty
  <2>4. tokens'[p] = usage'[job'[p]] + 0
    BY <2>1 DEF TypeOK
  <2>. QED  BY <2>1, <2>3, <2>4 DEF Counts, Reconciling
<1>7. ASSUME NEW u \in Units, Collect(p, u) PROVE Counts(p)'
  <2>1. /\ pc[p] = "coding" /\ job[p] \in Tasks /\ owner[u] = job[p]
        /\ UNCHANGED <<pc, job, owner, usage>>
    BY <1>7 DEF Collect, JobInv
  <2>2. /\ IsFiniteSet(Counted(p)) /\ Counted(p) \subseteq Units
        /\ tokens[p] = usage[job[p]] + Sum(usage, Counted(p))
    BY <2>1, FS_Subset DEF Counted, FinitePlans, UnitsOf, Counts
  <2>3. CASE thread[u] = "returned"
    <3>1. unit[u] = "coded" /\ UNCHANGED unit /\ tokens' = [tokens EXCEPT ![p] = @ + usage[u]]
          /\ thread' = [thread EXCEPT ![u] = "none"]
      BY <1>7, <2>3 DEF Collect, ThreadInv
    <3>2. u \notin Counted(p) /\ Counted(p)' = Counted(p) \cup {u}
      BY <2>1, <2>3, <3>1 DEF Counted, UnitsOf, TypeOK
    <3>3. \A x \in Counted(p) \cup {u} : usage[x] \in Nat
      BY <2>2 DEF TypeOK
    <3>4. Sum(usage, Counted(p) \cup {u}) = Sum(usage, Counted(p)) + usage[u]
      BY <2>2, <3>2, <3>3, SumAdd
    <3>5. Sum(usage, Counted(p)) \in Nat
      BY <2>2, <3>3, SumNat
    <3>6. usage[u] \in Nat /\ usage[job[p]] \in Nat /\ tokens'[p] = tokens[p] + usage[u]
      BY <2>1, <3>1 DEF TypeOK
    <3>7. tokens'[p] = usage[job[p]] + Sum(usage, Counted(p) \cup {u})
      BY <2>2, <3>4, <3>5, <3>6
    <3>8. tokens'[p] = usage'[job'[p]] + Sum(usage', Counted(p)')
      BY <2>1, <3>2, <3>7
    <3>. QED  BY <2>1, <3>8 DEF Counts, Reconciling
  <2>4. CASE thread[u] = "raised"
    <3>1. tokens' = tokens /\ thread' = [thread EXCEPT ![u] = "none"]
          /\ unit' = [unit EXCEPT ![u] = "failed"] /\ unit[u] # "coded"
      BY <1>7, <2>4 DEF Collect, ThreadInv
    <3>2. Counted(p)' = Counted(p)
      BY <2>1, <3>1 DEF Counted, UnitsOf, TypeOK
    <3>. QED  BY <2>1, <3>1, <3>2, CountKept
  <2>. QED  BY <1>7, <2>3, <2>4 DEF Collect
<1>8. CASE pc'[p] \in Integrating \cup {"gating", "opened"}
  BY <1>8 DEF Counts, Reconciling, Integrating
<1>9. CASE CodingDone(p) \/ AddIntegrationTree(p) \/ RemoveIntegrationTree(p)
             \/ ForgetUnitTree(p) \/ BeginGates(p) \/ BeginHealing(p) \/ OpenRequest(p)
             \/ \E u \in Units : MergeUnit(p, u) \/ RemoveUnitTree(p, u)
  BY <1>8, <1>9 DEF TypeOK, Integrating, CodingDone, Collected, AddIntegrationTree, RemoveIntegrationTree,
     ForgetUnitTree, BeginGates, BeginHealing, OpenRequest, MergeUnit, RemoveUnitTree
<1>. QED  BY <1>2, <1>3, <1>4, <1>5, <1>6, <1>7, <1>9 DEF ProcStep

\* Coders do not touch what is counted: theirs is counted when they are done.
LEMMA CodersCount ==
    ASSUME IInv, UInv, BInv, NEW u \in Units, CoderStep(u), NEW q \in Procs
    PROVE  Counts(q)'
<1>. TypeOK /\ JobInv /\ FinitePlans /\ Counts(q)
  BY DEF IInv, UInv, BInv, CountInv
<1>. USE DEF CoderStep, ClaimUnit, MakeWorktree, RegisterWorktree, CoderRaises, CoderFails,
             CoderSucceeds, SetUnit, storeVars, Active
<1>1. UNCHANGED <<pc, job, tokens, owner>>
  OBVIOUS
<1>2. thread[u] # "none" /\ thread'[u] # "none"
  BY DEF TypeOK
<1>3. \A w \in Units \ {u} : thread'[w] = thread[w] /\ unit'[w] = unit[w]
  BY DEF TypeOK
<1>4. \A w \in (Tasks \cup Units) \ {u} : usage'[w] = usage[w]
  BY DEF TypeOK
<1>5. Counted(q)' = Counted(q)
  BY <1>1, <1>2, <1>3 DEF Counted, UnitsOf
<1>6. \A w \in Counted(q) : usage'[w] = usage[w]
  BY <1>2, <1>4 DEF Counted, UnitsOf
<1>7. pc[q] \in {"plan", "planned", "coding"} => usage'[job[q]] = usage[job[q]]
  BY <1>4, NamesAssumption DEF JobInv
<1>. QED  BY <1>1, <1>5, <1>6, <1>7, CountKept

\* BudgetTracker counts the planner and every coder that succeeded.
LEMMA CountStep == IInv /\ UInv /\ BInv /\ [Next]_vars => CountInv'
<1>. SUFFICES ASSUME IInv, UInv, BInv, [Next]_vars, NEW q \in Procs PROVE Counts(q)'
  BY DEF CountInv
<1>1. ASSUME NEW p \in Procs, Intake(p) \/ ProcStep(p) \/ Crash(p) PROVE Counts(q)'
  BY <1>1, OthersCount, OwnCount
<1>2. ASSUME NEW u \in Units, CoderStep(u) PROVE Counts(q)'
  BY <1>2, CodersCount
<1>3. ASSUME UNCHANGED <<pc, job, tokens, usage, owner, unit, thread>> PROVE Counts(q)'
  <2>1. Counted(q)' = Counted(q)
    BY <1>3 DEF Counted, UnitsOf
  <2>. QED  BY <1>3, <2>1 DEF Counts, CountInv, BInv
<1>4. ASSUME NEW t \in Tasks, Webhook(t) PROVE Counts(q)'
  BY <1>3, <1>4 DEF Webhook
<1>5. CASE UNCHANGED vars
  BY <1>3, <1>5 DEF vars
<1>. QED  BY <1>1, <1>2, <1>4, <1>5 DEF Next

Downstream == {"integrating", "gating", "healing", "pr_open", "merged"}

\* A row gets downstream only from coding, with everything counted.
LEMMA WithinStep == IInv /\ UInv /\ BInv /\ [Next]_vars => IntegratesWithinBudget'
<1>. SUFFICES ASSUME IInv, UInv, BInv, [Next]_vars, NEW t \in Tasks, task'[t] \in Downstream
              PROVE  (Spent(t) <= MaxTokens)'
  BY DEF IntegratesWithinBudget, Downstream
<1>. TypeOK /\ JobInv /\ RowInv /\ PlanInv /\ ThreadInv /\ UnitInv /\ FinitePlans /\ CountInv
  BY DEF IInv, UInv, BInv
<1>. USE DEF Goto, SetTask, SetUnit, CreateTask, CreateUnits, Exit, storeVars
<1>1. CASE task[t] \notin Downstream
  <2>1. PICK p \in Procs : CodingDone(p) /\ job[p] = t
    <3>1. ASSUME NEW p \in Procs, ProcStep(p), ~(CodingDone(p) /\ job[p] = t)
          PROVE  task'[t] = task[t] \/ task'[t] \notin Downstream
      BY <1>1, <3>1 DEF ProcStep, Downstream, TypeOK, JobInv, RowInv, Requeue, Snapshot, Listing,
       Prune, BeginPlan, PlannerAnswers, OverBudget, PlanRejected, PlanAccepted, BeginCode,
       CodingFailed, CodingDone, Collected, AddIntegrationTree, MergeConflict,
       IntegrationRaises, RemoveIntegrationTree, ForgetUnitTree, BeginGates, BeginHealing,
       FinishTask, OpenRequest, LeaveRequest, MergeRequest, Collect, MergeUnit,
       RemoveUnitTree, Integrating
    <3>2. ASSUME NEW p \in Procs, Intake(p) \/ Crash(p)
          PROVE  task'[t] = task[t] \/ task'[t] \notin Downstream
      BY <3>2 DEF TypeOK, Intake, Crash, Downstream
    <3>3. ASSUME NEW u \in Units, CoderStep(u) PROVE task' = task
      BY <3>3 DEF CoderStep, ClaimUnit, MakeWorktree, RegisterWorktree, CoderRaises, CoderFails,
       CoderSucceeds
    <3>4. ASSUME NEW w \in Tasks, Webhook(w)
          PROVE  task'[t] = task[t] \/ task'[t] \notin Downstream
      BY <3>4 DEF TypeOK, Webhook, Downstream
    <3>5. CASE UNCHANGED vars
      BY <1>1, <3>5 DEF vars
    <3>. QED  BY <1>1, <3>1, <3>2, <3>3, <3>4, <3>5 DEF Next
  <2>2. /\ pc[p] = "coding" /\ tokens[p] <= MaxTokens /\ UNCHANGED <<usage, owner>>
        /\ \A u \in UnitsOf(t) : thread[u] = "none" /\ unit[u] # "failed"
    BY <2>1 DEF CodingDone, Collected
  <2>3. Counted(p) = UnitsOf(t)
    BY <2>1, <2>2 DEF Counted, UnitsOf, UnitInv
  <2>4. usage[t] + Sum(usage, UnitsOf(t)) <= MaxTokens
    BY <2>1, <2>2, <2>3 DEF CountInv, Counts
  <2>5. UnitsOf(t)' = UnitsOf(t)
    BY <2>2 DEF UnitsOf
  <2>. QED  BY <2>2, <2>4, <2>5 DEF Spent
<1>2. CASE task[t] \in Downstream
  <2>1. Spent(t) <= MaxTokens
    BY <1>2 DEF BInv, IntegratesWithinBudget, Downstream
  <2>2. \A p \in Procs : job[p] = t => pc[p] \notin Reconciling \cup Planning \cup {"coding"}
    BY <1>2 DEF RowInv, Downstream, Planning
  <2>3. usage'[t] = usage[t]
    <3>1. ASSUME NEW p \in Procs, PlannerAnswers(p) PROVE usage'[t] = usage[t]
      BY <2>2, <3>1, NamesAssumption DEF PlannerAnswers, TypeOK, JobInv, Planning
    <3>2. ASSUME NEW u \in Units, CoderStep(u) PROVE usage'[t] = usage[t]
      BY <3>2, NamesAssumption DEF CoderStep, ClaimUnit, MakeWorktree, RegisterWorktree,
       CoderRaises, CoderFails, CoderSucceeds, TypeOK
    <3>. QED  BY <3>1, <3>2, UsageKept DEF Next, vars
  <2>4. \A u \in UnitsOf(t) : usage'[u] = usage[u]
    <3>1. ASSUME NEW p \in Procs, PlannerAnswers(p) PROVE \A u \in UnitsOf(t) : usage'[u] = usage[u]
      BY <3>1, NamesAssumption DEF PlannerAnswers, TypeOK, JobInv, UnitsOf
    <3>2. ASSUME NEW u \in Units, CoderStep(u) PROVE \A w \in UnitsOf(t) : usage'[w] = usage[w]
      <4>1. thread[u] # "none"
        BY <3>2 DEF CoderStep, ClaimUnit, MakeWorktree, RegisterWorktree, CoderRaises, CoderFails,
         CoderSucceeds, Active
      <4>2. u \notin UnitsOf(t)
        BY <2>2, <4>1 DEF ThreadInv, UnitsOf
      <4>. QED  BY <3>2, <4>2 DEF CoderStep, ClaimUnit, MakeWorktree, RegisterWorktree,
         CoderRaises, CoderFails, CoderSucceeds, TypeOK, UnitsOf
    <3>. QED  BY <3>1, <3>2, UsageKept DEF Next, vars
  <2>5. UnitsOf(t)' = UnitsOf(t)
    <3>1. ASSUME NEW p \in Procs, PlanAccepted(p) PROVE UnitsOf(t)' = UnitsOf(t)
      BY <2>2, <3>1 DEF PlanAccepted, PlanInv, JobInv, UnitsOf, Planning, TypeOK
    <3>2. UNCHANGED owner => UnitsOf(t)' = UnitsOf(t)
      BY DEF UnitsOf
    <3>. QED  BY <3>1, <3>2, OwnerKept DEF Next, vars
  <2>6. Sum(usage', UnitsOf(t)) = Sum(usage, UnitsOf(t))
    <3>1. IsFiniteSet(UnitsOf(t)) /\ \A u \in UnitsOf(t) : usage[u] \in Nat /\ usage'[u] = usage[u]
      BY <2>4 DEF FinitePlans, TypeOK, UnitsOf
    <3>. QED  BY <3>1, SumSame
  <2>. QED  BY <2>1, <2>3, <2>5, <2>6 DEF Spent
<1>. QED  BY <1>1, <1>2
-----------------------------------------------------------------------------
(* The life of a task row: Factory implements TaskLife.tla.                *)

\* A process that ends takes its task, and no other, out of those running.
LEMMA EndsLive ==
    ASSUME JobInv, TypeOK, NEW p \in Procs, job[p] \in Tasks, job' = [job EXCEPT ![p] = NoTask]
    PROVE  Live' = Live \ {job[p]}
BY NamesAssumption DEF JobInv, TypeOK, Live

\* TaskLife's Advance: the process of a task writes its next status, and ends
\* or goes on.
LEMMA LifeAdvance ==
    ASSUME IInv, NEW p \in Procs, pc[p] # "idle", NEW s, SetTask(job[p], s),
           task[job[p]] \in DOMAIN Life!Onward, s \in Life!Onward[task[job[p]]],
           job' = job \/ job' = [job EXCEPT ![p] = NoTask]
    PROVE  Life!Next
<1>1. job[p] \in Tasks /\ JobInv /\ TypeOK
  BY DEF IInv, JobInv
<1>2. job[p] \in Live
  BY <1>1 DEF Live
<1>3. Live' \in {Live, Live \ {job[p]}}
  <2>1. job' = job => Live' = Live
    BY DEF Live
  <2>. QED  BY <1>1, <2>1, EndsLive
<1>4. Life!Advance(job[p])
  BY <1>2, <1>3 DEF Life!Advance, SetTask
<1>. QED  BY <1>1, <1>4 DEF Life!Next

\* TaskLife's Leave: a process ends and leaves the row as it is.
LEMMA LifeLeave ==
    ASSUME IInv, NEW p \in Procs, pc[p] # "idle", job' = [job EXCEPT ![p] = NoTask],
           UNCHANGED task
    PROVE  Life!Next
<1>1. job[p] \in Tasks /\ JobInv /\ TypeOK
  BY DEF IInv, JobInv
<1>2. Life!Leave(job[p])
  BY <1>1, EndsLive DEF Life!Leave, Live
<1>. QED  BY <1>1, <1>2 DEF Life!Next

\* Every step of the factory is a step in the life of one task, or none.
LEMMA LifeStep == IInv /\ [Next]_vars => [Life!Next]_(Life!vars)
<1>. SUFFICES ASSUME IInv, [Next]_vars PROVE UNCHANGED <<task, Live>> \/ Life!Next
  BY DEF Life!vars
<1>. TypeOK /\ JobInv /\ RowInv
  BY DEF IInv
<1>. USE DEF Goto, Exit, storeVars, Planning, Integrating, Reconciling
<1>1. ASSUME UNCHANGED <<task, job>> PROVE UNCHANGED <<task, Live>>
  BY <1>1 DEF Live
<1>2. ASSUME NEW p \in Procs, Intake(p) PROVE Life!Next
  <2>1. PICK t \in Tasks : CreateTask(t) /\ job' = [job EXCEPT ![p] = t] /\ pc[p] = "idle"
    BY <1>2 DEF Intake
  <2>2. Live' = Live \cup {t}
    BY <2>1 DEF Live, TypeOK, JobInv
  <2>3. Life!Create(t)
    BY <2>1, <2>2 DEF Life!Create, CreateTask, SetTask
  <2>. QED  BY <2>3 DEF Life!Next
<1>3. ASSUME NEW t \in Tasks, Webhook(t) PROVE Life!Next
  <2>1. Life!Create(t)
    BY <1>3 DEF Webhook, Life!Create, CreateTask, SetTask, Live
  <2>. QED  BY <2>1 DEF Life!Next
<1>4. ASSUME NEW p \in Procs, Crash(p) \/ IntegrationRaises(p) \/ LeaveRequest(p) PROVE Life!Next
  BY <1>4, LifeLeave DEF Crash, IntegrationRaises, LeaveRequest
<1>5. ASSUME NEW p \in Procs, BeginPlan(p) PROVE Life!Next
  BY <1>5, LifeAdvance DEF BeginPlan, RowInv, Life!Onward
<1>6. ASSUME NEW p \in Procs, OverBudget(p) PROVE Life!Next
  <2>1. task[job[p]] \in {"planning", "coding"}
    BY <1>6 DEF OverBudget, RowInv
  <2>2. task[job[p]] \in DOMAIN Life!Onward /\ "blocked" \in Life!Onward[task[job[p]]]
    BY <2>1 DEF Life!Onward
  <2>. QED  BY <1>6, <2>2, LifeAdvance DEF OverBudget
<1>7. ASSUME NEW p \in Procs, PlanRejected(p) PROVE Life!Next
  <2>1. task[job[p]] \in {"planning"}
    BY <1>7 DEF PlanRejected, RowInv
  <2>2. task[job[p]] \in DOMAIN Life!Onward /\ "failed" \in Life!Onward[task[job[p]]]
    BY <2>1 DEF Life!Onward
  <2>. QED  BY <1>7, <2>2, LifeAdvance DEF PlanRejected
<1>8. ASSUME NEW p \in Procs, BeginCode(p) PROVE Life!Next
  BY <1>8, LifeAdvance DEF BeginCode, RowInv, Life!Onward
<1>9. ASSUME NEW p \in Procs, CodingFailed(p) PROVE Life!Next
  <2>1. task[job[p]] \in {"coding"}
    BY <1>9 DEF CodingFailed, Collected, RowInv
  <2>2. task[job[p]] \in DOMAIN Life!Onward /\ "failed" \in Life!Onward[task[job[p]]]
    BY <2>1 DEF Life!Onward
  <2>. QED  BY <1>9, <2>2, LifeAdvance DEF CodingFailed, Collected
<1>10. ASSUME NEW p \in Procs, CodingDone(p) PROVE Life!Next
  BY <1>10, LifeAdvance DEF CodingDone, Collected, RowInv, Life!Onward
<1>11. ASSUME NEW p \in Procs, MergeConflict(p) PROVE Life!Next
  <2>1. task[job[p]] \in {"integrating"}
    BY <1>11 DEF MergeConflict, RowInv
  <2>2. task[job[p]] \in DOMAIN Life!Onward /\ "failed" \in Life!Onward[task[job[p]]]
    BY <2>1 DEF Life!Onward
  <2>. QED  BY <1>11, <2>2, LifeAdvance DEF MergeConflict
<1>12. ASSUME NEW p \in Procs, BeginGates(p) PROVE Life!Next
  BY <1>12, LifeAdvance DEF BeginGates, RowInv, Life!Onward
<1>13. ASSUME NEW p \in Procs, BeginHealing(p) PROVE Life!Next
  BY <1>13, LifeAdvance DEF BeginHealing, RowInv, Life!Onward
<1>14. ASSUME NEW p \in Procs, FinishTask(p) PROVE Life!Next
  <2>1. PICK s \in {"blocked", "merged"} : SetTask(job[p], s)
    BY <1>14 DEF FinishTask
  <2>2. task[job[p]] \in {"gating", "healing"}
    BY <1>14 DEF FinishTask, RowInv
  <2>3. task[job[p]] \in DOMAIN Life!Onward /\ s \in Life!Onward[task[job[p]]]
    BY <2>2 DEF Life!Onward
  <2>. QED  BY <1>14, <2>1, <2>3, LifeAdvance DEF FinishTask
<1>15. ASSUME NEW p \in Procs, OpenRequest(p) PROVE Life!Next
  BY <1>15, LifeAdvance DEF OpenRequest, RowInv, Life!Onward
<1>16. ASSUME NEW p \in Procs, MergeRequest(p) PROVE Life!Next
  <2>1. task[job[p]] \in {"pr_open"}
    BY <1>16 DEF MergeRequest, RowInv
  <2>2. task[job[p]] \in DOMAIN Life!Onward /\ "merged" \in Life!Onward[task[job[p]]]
    BY <2>1 DEF Life!Onward
  <2>. QED  BY <1>16, <2>2, LifeAdvance DEF MergeRequest
<1>17. ASSUME NEW p \in Procs,
              Requeue(p) \/ Snapshot(p) \/ Listing(p) \/ Prune(p) \/ PlannerAnswers(p)
              \/ PlanAccepted(p) \/ AddIntegrationTree(p) \/ RemoveIntegrationTree(p)
              \/ ForgetUnitTree(p)
              \/ \E u \in Units : Collect(p, u) \/ MergeUnit(p, u) \/ RemoveUnitTree(p, u)
       PROVE  UNCHANGED <<task, Live>>
  BY <1>1, <1>17 DEF Requeue, Snapshot, Listing, Prune, PlannerAnswers, PlanAccepted,
     AddIntegrationTree, RemoveIntegrationTree, ForgetUnitTree, Collect, MergeUnit, RemoveUnitTree
<1>18. ASSUME NEW u \in Units, CoderStep(u) PROVE UNCHANGED <<task, Live>>
  BY <1>1, <1>18 DEF CoderStep, ClaimUnit, MakeWorktree, RegisterWorktree, CoderRaises,
     CoderFails, CoderSucceeds
<1>19. CASE UNCHANGED vars
  BY <1>1, <1>19 DEF vars
<1>. QED
  BY <1>2, <1>3, <1>4, <1>5, <1>6, <1>7, <1>8, <1>9, <1>10, <1>11, <1>12, <1>13, <1>14,
     <1>15, <1>16, <1>17, <1>18, <1>19
  DEF Next, ProcStep
-----------------------------------------------------------------------------
\* An empty store satisfies the invariants and the initial promise.
LEMMA Initially == Init => IInv /\ UInv /\ BInv /\ Promise!Init
<1>. SUFFICES ASSUME Init PROVE IInv /\ UInv /\ BInv /\ Promise!Init
  OBVIOUS
<1>1. TypeOK
  <2>1. /\ task \in [Tasks -> TaskStatus \cup {"absent"}]
        /\ unit \in [Units -> UnitStatus \cup {"absent"}]
        /\ owner \in [Units -> Tasks \cup {NoTask}]
        /\ thread \in [Units -> Threads]
    BY DEF Init, Threads
  <2>2. /\ pc \in [Procs -> PCs] /\ job \in [Procs -> Tasks \cup {NoTask}]
        /\ sweep \in [Procs -> SUBSET (Units \cup Tasks)]
    BY DEF Init, PCs
  <2>3. /\ usage \in [Tasks \cup Units -> Nat] /\ tokens \in [Procs -> Nat]
        /\ registered \subseteq Units /\ disk \subseteq Units \cup Tasks
        /\ interrupted \subseteq Tasks
    BY DEF Init
  <2>. QED  BY <2>1, <2>2, <2>3 DEF TypeOK
<1>2. JobInv /\ RowInv /\ FlightInv
  BY NamesAssumption
  DEF Init, JobInv, RowInv, FlightInv, Kept, Planning, Integrating, Reconciling, Begun, InFlight
<1>3. \A t \in Tasks : UnitsOf(t) = {}
  BY NamesAssumption DEF Init, UnitsOf
<1>4. PlanInv
  BY <1>3, NamesAssumption DEF Init, PlanInv, Integrating, Reconciling
<1>5. ThreadInv /\ UnitInv
  BY DEF Init, ThreadInv, UnitInv, Active
<1>6. Promise!Init
  BY <1>3 DEF Init, Promise!Init
<1>7. BInv
  BY <1>3, FS_EmptySet
  DEF Init, BInv, FinitePlans, CountInv, Counts, Reconciling, IntegratesWithinBudget
<1>. QED  BY <1>1, <1>2, <1>4, <1>5, <1>6, <1>7 DEF IInv, UInv

\* The inductive invariants hold.
LEMMA Invariance == Spec => [](IInv /\ UInv /\ BInv)
<1>1. IInv /\ UInv /\ BInv /\ [Next]_vars => (IInv /\ UInv /\ BInv)'
  <2>. SUFFICES ASSUME IInv, UInv, BInv, [Next]_vars PROVE IInv' /\ UInv' /\ BInv'
    OBVIOUS
  <2>1. IInv'
    BY TypeStep, JobStep, FlightStep DEF IInv
  <2>2. UInv'
    BY PlanStep, ThreadStep, UnitStep DEF UInv
  <2>3. BInv'
    BY FiniteStep, CountStep, WithinStep DEF BInv, IInv
  <2>. QED  BY <2>1, <2>2, <2>3
<1>. QED  BY Initially, <1>1, PTL DEF Spec

\* The store, the worktrees and the processes are well typed: a worktree is
\* registered for a unit, and a process works on a task that exists.
THEOREM TypeCorrect == Spec => []TypeOK
<1>1. IInv => TypeOK
  BY DEF IInv
<1>. QED  BY Invariance, <1>1, PTL

\* run_task and gate_and_merge settle the task on every way out that is not
\* an unhandled exception or a kill.
THEOREM RunsSettleTasks == Spec => []OnlyInterruptedTasksStay
<1>1. IInv => OnlyInterruptedTasksStay
  BY DEF IInv, FlightInv, Kept, OnlyInterruptedTasksStay, Live
<1>. QED  BY Invariance, <1>1, PTL

\* No task goes on to integration, and from there to a pull request or to the
\* base branch, after its agents used more than the budget, however many
\* coders it has and whatever runs beside them.
THEOREM BudgetKept == Spec => []IntegratesWithinBudget
<1>1. BInv => IntegratesWithinBudget
  BY DEF BInv
<1>. QED  BY Invariance, <1>1, PTL

\* The factory implements TaskLife.tla: with any number of processes and
\* crashes, a row is written by the one process of its task only, and it
\* only ever goes forward.
THEOREM FactoryLives == Spec => LifeSpec
<1>1. Init => Life!Init
  BY NamesAssumption DEF Init, Life!Init, Live
<1>. QED  BY <1>1, Invariance, LifeStep, PTL DEF Spec, LifeSpec, Life!Spec

\* The factory implements Delivery.tla: it integrates only units of a task
\* that is coded completely, delivers only tasks integrated completely, and
\* loses nothing of it in a crash or a reconciliation.
THEOREM FactoryDelivers == Spec => DeliverySpec
BY Initially, Invariance, RefinementStep, PTL DEF Spec, DeliverySpec, Promise!Spec
-----------------------------------------------------------------------------
(* The end of a run. *)

\* A process that removes the worktree of a unit is about to forget that unit.
SweepInv ==
    \A p \in Procs : pc[p] = "cleanup" =>
        sweep[p] # {} /\ sweep[p] \subseteq UnitsOf(job[p]) \cap registered

\* There are finitely many directories, so a listing of them is finite.
DiskInv ==
    /\ IsFiniteSet(disk)
    /\ \A p \in Procs : pc[p] = "prune" => IsFiniteSet(sweep[p])

\* The stages of Pipeline.run, counted down, ...
Stage(p) ==
    CASE pc[p] = "requeue" -> 14
      [] pc[p] = "snapshot" -> 13
      [] pc[p] = "listing" -> 12
      [] pc[p] = "prune" -> 11
      [] pc[p] = "planning" -> 10
      [] pc[p] = "plan" -> 9
      [] pc[p] = "planned" -> 8
      [] pc[p] = "coding" -> 7
      [] pc[p] = "integrate" -> 6
      [] pc[p] = "merging" -> 5
      [] pc[p] \in {"integrated", "cleanup"} -> 4
      [] pc[p] = "gating" -> IF task[job[p]] = "gating" THEN 3 ELSE 2
      [] pc[p] = "opened" -> 1
      [] OTHER -> 0

\* ... and what the loop of a stage has still before it: directories to prune,
\* coders to collect, units to merge, worktrees to remove.
Left(p) ==
    CASE pc[p] = "prune" -> sweep[p]
      [] pc[p] = "coding" -> {u \in UnitsOf(job[p]) : thread[u] # "none"}
      [] pc[p] = "merging" -> {u \in UnitsOf(job[p]) : unit[u] # "integrated"}
      [] pc[p] \in {"integrated", "cleanup"} -> UnitsOf(job[p]) \cap registered
      [] OTHER -> {}

Ahead(p) ==
    \/ Stage(p)' < Stage(p)
    \/ Stage(p)' = Stage(p) /\ Left(p)' \subseteq Left(p) /\ Left(p)' # Left(p)
    \/ pc[p] = "integrated" /\ pc'[p] = "cleanup" /\ Left(p)' = Left(p)

Still(p) == UNCHANGED <<pc[p], Stage(p), Left(p)>>

RunForward ==
    \A p \in Procs :
        /\ pc[p] # "idle" => Ahead(p) \/ Still(p)
        /\ ProcStep(p) => Ahead(p)

\* What a run has before it is finite.
LEMMA LeftFinite ==
    IInv /\ BInv /\ DiskInv => \A p \in Procs : Stage(p) \in Nat /\ IsFiniteSet(Left(p))
<1>. SUFFICES ASSUME IInv, BInv, DiskInv, NEW p \in Procs
              PROVE  Stage(p) \in Nat /\ IsFiniteSet(Left(p))
  OBVIOUS
<1>1. Stage(p) \in Nat
  BY DEF Stage
<1>2. CASE pc[p] = "prune"
  BY <1>1, <1>2 DEF Left, DiskInv
<1>3. CASE pc[p] # "prune" /\ pc[p] # "idle"
  <2>1. IsFiniteSet(UnitsOf(job[p]))
    BY <1>3 DEF IInv, JobInv, BInv, FinitePlans
  <2>2. Left(p) \subseteq UnitsOf(job[p])
    BY <1>3 DEF Left
  <2>. QED  BY <1>1, <2>1, <2>2, FS_Subset
<1>4. CASE pc[p] = "idle"
  BY <1>1, <1>4, FS_EmptySet DEF Left
<1>. QED  BY <1>1, <1>2, <1>3, <1>4

\* A step that leaves alone what a process looks at leaves the process where it is.
LEMMA StillHere ==
    ASSUME NEW p \in Procs, UNCHANGED <<pc[p], job[p], sweep[p]>>,
           UnitsOf(job[p])' = UnitsOf(job[p]),
           pc[p] = "gating" => UNCHANGED task[job[p]],
           \A u \in UnitsOf(job[p]) :
               /\ pc[p] = "coding" => (thread'[u] = "none" <=> thread[u] = "none")
               /\ pc[p] = "merging" => (unit'[u] = "integrated" <=> unit[u] = "integrated")
               /\ pc[p] \in {"integrated", "cleanup"} => (u \in registered' <=> u \in registered)
    PROVE  Still(p)
<1>1. Stage(p)' = Stage(p)
  <2>1. CASE pc[p] = "gating"
    BY <2>1 DEF Stage
  <2>2. CASE pc[p] # "gating"
    BY <2>2 DEF Stage
  <2>. QED  BY <2>1, <2>2
<1>2. Left(p)' = Left(p)
  <2>1. CASE pc[p] = "coding"
    <3>1. /\ Left(p) = {u \in UnitsOf(job[p]) : thread[u] # "none"}
          /\ Left(p)' = {u \in UnitsOf(job[p])' : thread'[u] # "none"}
      BY <2>1 DEF Left
    <3>. QED  BY <2>1, <3>1
  <2>2. CASE pc[p] = "merging"
    <3>1. /\ Left(p) = {u \in UnitsOf(job[p]) : unit[u] # "integrated"}
          /\ Left(p)' = {u \in UnitsOf(job[p])' : unit'[u] # "integrated"}
      BY <2>2 DEF Left
    <3>. QED  BY <2>2, <3>1
  <2>3. CASE pc[p] \in {"integrated", "cleanup"}
    <3>1. /\ Left(p) = UnitsOf(job[p]) \cap registered
          /\ Left(p)' = UnitsOf(job[p])' \cap registered'
      BY <2>3 DEF Left
    <3>. QED  BY <2>3, <3>1
  <2>4. CASE pc[p] \notin {"coding", "merging", "integrated", "cleanup"}
    BY <2>4 DEF Left
  <2>. QED  BY <2>1, <2>2, <2>3, <2>4
<1>. QED  BY <1>1, <1>2 DEF Still

\* A step of a run, or its end by a kill, takes it ahead.
LEMMA OwnAhead ==
    ASSUME TypeOK, JobInv, RowInv, SweepInv, NEW p \in Procs, ProcStep(p) \/ Crash(p)
    PROVE  Ahead(p)
<1>. USE DEF TypeOK
<1>1. CASE \/ Requeue(p) \/ Snapshot(p) \/ Listing(p) \/ BeginPlan(p) \/ PlannerAnswers(p)
           \/ PlanAccepted(p) \/ BeginCode(p) \/ CodingDone(p) \/ AddIntegrationTree(p)
           \/ RemoveIntegrationTree(p)
  BY <1>1 DEF Requeue, Snapshot, Listing, BeginPlan, PlannerAnswers, PlanAccepted, BeginCode,
     CodingDone, Collected, AddIntegrationTree, RemoveIntegrationTree, Goto, Stage, Ahead
<1>2. CASE \/ OverBudget(p) \/ PlanRejected(p) \/ CodingFailed(p) \/ MergeConflict(p)
           \/ IntegrationRaises(p) \/ FinishTask(p) \/ LeaveRequest(p) \/ MergeRequest(p)
           \/ Crash(p)
  <2>1. pc[p] \in PCs \ {"idle"} /\ pc'[p] = "idle"
    BY <1>2 DEF OverBudget, PlanRejected, CodingFailed, Collected, MergeConflict,
       IntegrationRaises, FinishTask, LeaveRequest, MergeRequest, Crash, Exit, PCs, Reconciling
  <2>2. Stage(p)' = 0 /\ Stage(p) > 0
    BY <2>1 DEF Stage, PCs, Reconciling
  <2>. QED  BY <2>2 DEF Ahead
<1>3. CASE BeginGates(p)
  BY <1>3 DEF BeginGates, Goto, Stage, Ahead
<1>4. CASE BeginHealing(p)
  <2>1. job[p] \in Tasks /\ pc[p] = "gating" /\ task[job[p]] = "gating"
    BY <1>4 DEF BeginHealing, JobInv
  <2>2. pc'[p] = "gating" /\ job'[p] = job[p] /\ task'[job[p]] = "healing"
    BY <1>4, <2>1 DEF BeginHealing, SetTask
  <2>. QED  BY <2>1, <2>2 DEF Stage, Ahead
<1>5. CASE OpenRequest(p)
  BY <1>5 DEF OpenRequest, Goto, Stage, Ahead
<1>6. CASE Prune(p)
  <2>1. PICK d \in sweep[p] : sweep' = [sweep EXCEPT ![p] = sweep[p] \ {d}]
    BY <1>6 DEF Prune
  <2>2. pc[p] = "prune" /\ pc'[p] = "prune" /\ sweep'[p] = sweep[p] \ {d}
    BY <1>6, <2>1 DEF Prune
  <2>3. Left(p) = sweep[p] /\ Left(p)' = sweep[p] \ {d} /\ Stage(p)' = Stage(p)
    BY <2>2 DEF Left, Stage
  <2>. QED  BY <2>3 DEF Ahead
<1>7. ASSUME NEW u \in Units, Collect(p, u) PROVE Ahead(p)
  <2>1. /\ pc[p] = "coding" /\ pc' = pc /\ job' = job /\ owner' = owner /\ owner[u] = job[p]
        /\ thread[u] # "none" /\ thread' = [thread EXCEPT ![u] = "none"]
    BY <1>7 DEF Collect
  <2>2. /\ Left(p) = {w \in UnitsOf(job[p]) : thread[w] # "none"}
        /\ Left(p)' = {w \in UnitsOf(job[p]) : thread'[w] # "none"}
        /\ Stage(p)' = Stage(p)
    BY <2>1 DEF Left, Stage, UnitsOf
  <2>3. u \in Left(p) /\ Left(p)' = Left(p) \ {u}
    BY <2>1, <2>2 DEF UnitsOf
  <2>. QED  BY <2>2, <2>3 DEF Ahead
<1>8. ASSUME NEW u \in Units, MergeUnit(p, u) PROVE Ahead(p)
  <2>1. /\ pc[p] = "merging" /\ pc' = pc /\ job' = job /\ owner' = owner
        /\ u \in UnitsOf(job[p]) /\ unit[u] # "integrated"
        /\ unit' = [unit EXCEPT ![u] = "integrated"]
    BY <1>8 DEF MergeUnit, SetUnit
  <2>2. /\ Left(p) = {w \in UnitsOf(job[p]) : unit[w] # "integrated"}
        /\ Left(p)' = {w \in UnitsOf(job[p]) : unit'[w] # "integrated"}
        /\ Stage(p)' = Stage(p)
    BY <2>1 DEF Left, Stage, UnitsOf
  <2>3. u \in Left(p) /\ Left(p)' = Left(p) \ {u}
    BY <2>1, <2>2 DEF UnitsOf
  <2>. QED  BY <2>2, <2>3 DEF Ahead
<1>9. ASSUME NEW u \in Units, RemoveUnitTree(p, u) PROVE Ahead(p)
  <2>1. /\ pc[p] = "integrated" /\ pc'[p] = "cleanup"
        /\ UNCHANGED <<job, owner, registered>>
    BY <1>9 DEF RemoveUnitTree, Goto, storeVars
  <2>2. Left(p)' = Left(p)
    BY <2>1 DEF Left, UnitsOf
  <2>. QED  BY <2>1, <2>2 DEF Ahead
<1>10. CASE ForgetUnitTree(p)
  <2>1. /\ pc[p] = "cleanup" /\ pc'[p] = "integrated" /\ UNCHANGED <<job, owner>>
        /\ registered' = registered \ sweep[p]
    BY <1>10 DEF ForgetUnitTree, Goto
  <2>2. sweep[p] # {} /\ sweep[p] \subseteq Left(p) /\ Left(p)' = Left(p) \ sweep[p]
    BY <2>1 DEF SweepInv, Left, UnitsOf
  <2>3. Stage(p)' = Stage(p)
    BY <2>1 DEF Stage
  <2>. QED  BY <2>2, <2>3 DEF Ahead
<1>. QED
  BY <1>1, <1>2, <1>3, <1>4, <1>5, <1>6, <1>7, <1>8, <1>9, <1>10 DEF ProcStep
\* Two processes that are up share no unit.
LEMMA NoSharedUnit ==
    ASSUME JobInv, NEW p \in Procs, NEW q \in Procs, q # p, pc[p] # "idle"
    PROVE  job[q] # job[p] /\ UnitsOf(job[p]) \cap UnitsOf(job[q]) = {}
<1>1. job[q] # job[p]
  BY DEF JobInv
<1>. QED  BY <1>1 DEF UnitsOf

\* A unit created anew belongs to no process yet.
LEMMA PlanTakesNone ==
    ASSUME TypeOK, JobInv, PlanInv, NEW p \in Procs, NEW q \in Procs, q # p, pc[p] # "idle",
           PlanAccepted(q)
    PROVE  UnitsOf(job[p])' = UnitsOf(job[p])
<1>1. PICK S \in SUBSET {u \in Units : unit[u] = "absent"} : CreateUnits(S, job[q])
  BY DEF PlanAccepted
<1>2. job[p] \in Tasks /\ job[q] # job[p] /\ job' = job
  BY NoSharedUnit DEF JobInv, PlanAccepted
<1>3. \A u \in Units : owner'[u] = job[p] <=> owner[u] = job[p]
  BY <1>1, <1>2 DEF CreateUnits, PlanInv
<1>. QED  BY <1>2, <1>3 DEF UnitsOf

\* No step of another process, of the webhook server or of a coder changes what a
\* run has before it.
LEMMA OthersStill ==
    ASSUME TypeOK, JobInv, RowInv, PlanInv, ThreadInv, SweepInv, NEW p \in Procs, pc[p] # "idle",
           \/ \E q \in Procs \ {p} : Intake(q) \/ ProcStep(q) \/ Crash(q)
           \/ \E t \in Tasks : Webhook(t)
           \/ \E u \in Units : CoderStep(u)
    PROVE  Still(p)
<1>. USE DEF TypeOK
<1>1. job[p] \in Tasks
  BY DEF JobInv
<1>2. pc[p] = "gating" => task[job[p]] # "absent"
  BY DEF RowInv
<1>3. ASSUME NEW t \in Tasks, Webhook(t) PROVE Still(p)
  BY <1>1, <1>2, <1>3, StillHere DEF Webhook, CreateTask, SetTask, UnitsOf
<1>4. ASSUME NEW u \in Units, CoderStep(u) PROVE Still(p)
  <2>1. UNCHANGED <<task, owner, pc, job, sweep>>
    BY <1>4 DEF CoderStep, ClaimUnit, MakeWorktree, RegisterWorktree, CoderRaises, CoderFails,
       CoderSucceeds, storeVars
  <2>2. \A w \in Units : thread'[w] = "none" <=> thread[w] = "none"
    BY <1>4 DEF CoderStep, ClaimUnit, MakeWorktree, RegisterWorktree, CoderRaises, CoderFails,
       CoderSucceeds, Active
  <2>3. thread[u] \in {"queued"} \cup Active
    BY <1>4 DEF CoderStep, ClaimUnit, MakeWorktree, RegisterWorktree, CoderRaises, CoderFails,
       CoderSucceeds, Active
  <2>4. unit[u] # "integrated" /\ \E q \in Procs : pc[q] = "coding" /\ job[q] = owner[u]
    BY <2>3 DEF ThreadInv, Active
  <2>5. \A w \in Units : unit'[w] = "integrated" <=> unit[w] = "integrated"
    BY <1>4, <2>4 DEF CoderStep, ClaimUnit, MakeWorktree, RegisterWorktree, CoderRaises,
       CoderFails, CoderSucceeds, SetUnit, storeVars
  <2>6. \A w \in Units \ {u} : w \in registered' <=> w \in registered
    BY <1>4 DEF CoderStep, ClaimUnit, MakeWorktree, RegisterWorktree, CoderRaises, CoderFails,
       CoderSucceeds, storeVars
  <2>7. pc[p] # "coding" => u \notin UnitsOf(job[p])
    BY <1>1, <2>4 DEF JobInv, UnitsOf
  <2>8. UnitsOf(job[p])' = UnitsOf(job[p]) /\ UnitsOf(job[p]) \subseteq Units
    BY <2>1 DEF UnitsOf
  <2>. QED  BY <2>1, <2>2, <2>5, <2>6, <2>7, <2>8, StillHere
<1>5. ASSUME NEW q \in Procs \ {p}, Intake(q) \/ ProcStep(q) \/ Crash(q) PROVE Still(p)
  <2>1. job[q] # job[p] /\ UnitsOf(job[p]) \cap UnitsOf(job[q]) = {}
    BY NoSharedUnit
  <2>2. UNCHANGED <<pc[p], job[p], sweep[p]>>
    BY <1>5 DEF Intake, ProcStep, Crash, Exit, Goto, Requeue, Snapshot, Listing, Prune, BeginPlan,
       PlannerAnswers, OverBudget, PlanRejected, PlanAccepted, BeginCode, CodingFailed,
       CodingDone, AddIntegrationTree, MergeConflict, IntegrationRaises, RemoveIntegrationTree,
       ForgetUnitTree, BeginGates, BeginHealing, FinishTask, OpenRequest, LeaveRequest,
       MergeRequest, Collect, MergeUnit, RemoveUnitTree
  <2>3. UnitsOf(job[p])' = UnitsOf(job[p])
    <3>1. CASE PlanAccepted(q)
      BY <3>1, PlanTakesNone
    <3>2. CASE ~PlanAccepted(q)
      BY <1>5, <2>2, <3>2, OwnerKept DEF UnitsOf
    <3>. QED  BY <3>1, <3>2
  <2>4. pc[p] = "gating" => UNCHANGED task[job[p]]
    <3>1. CASE Intake(q)
      BY <1>1, <1>2, <3>1 DEF Intake, CreateTask, SetTask
    <3>2. CASE ProcStep(q) \/ Crash(q)
      <4>1. UNCHANGED task \/ \E s \in TaskStatus : SetTask(job[q], s)
        BY <3>2 DEF ProcStep, Crash, Requeue, Snapshot, Listing, Prune, BeginPlan,
           PlannerAnswers, OverBudget, PlanRejected, PlanAccepted, BeginCode, CodingFailed,
           CodingDone, AddIntegrationTree, MergeConflict, IntegrationRaises,
           RemoveIntegrationTree, ForgetUnitTree, BeginGates, BeginHealing, FinishTask,
           OpenRequest, LeaveRequest, MergeRequest, Collect, MergeUnit, RemoveUnitTree, storeVars,
           TaskStatus, InFlight, Settled
      <4>. QED  BY <1>1, <2>1, <2>2, <4>1 DEF SetTask
    <3>. QED  BY <1>5, <3>1, <3>2
  <2>5. \A u \in UnitsOf(job[p]) : thread'[u] = thread[u]
    <3>1. \A u \in UnitsOf(job[p]) : u \in Units /\ owner[u] = job[p]
      BY DEF UnitsOf
    <3>. QED
      BY <1>5, <2>1, <3>1
      DEF Intake, ProcStep, Crash, Requeue, Snapshot, Listing, Prune, BeginPlan,
         PlannerAnswers, OverBudget, PlanRejected, PlanAccepted, BeginCode, CodingFailed,
         CodingDone, AddIntegrationTree, MergeConflict, IntegrationRaises,
         RemoveIntegrationTree, ForgetUnitTree, BeginGates, BeginHealing, FinishTask,
         OpenRequest, LeaveRequest, MergeRequest, Collect, MergeUnit, RemoveUnitTree
  <2>6. \A u \in UnitsOf(job[p]) : unit'[u] = "integrated" <=> unit[u] = "integrated"
    <3>1. \A u \in UnitsOf(job[p]) :
            u \in Units /\ owner[u] = job[p] /\ u \notin UnitsOf(job[q]) /\ unit[u] # "absent"
      BY <1>1, <2>1 DEF UnitsOf, PlanInv
    <3>2. CASE PlanAccepted(q)
      BY <3>1, <3>2 DEF PlanAccepted, CreateUnits
    <3>3. CASE ~PlanAccepted(q)
      BY <1>5, <2>1, <3>1, <3>3
      DEF Intake, ProcStep, Crash, SetUnit, Requeue, Snapshot, Listing, Prune, BeginPlan,
         PlannerAnswers, OverBudget, PlanRejected, BeginCode, CodingFailed,
         CodingDone, AddIntegrationTree, MergeConflict, IntegrationRaises,
         RemoveIntegrationTree, ForgetUnitTree, BeginGates, BeginHealing, FinishTask,
         OpenRequest, LeaveRequest, MergeRequest, Collect, MergeUnit, RemoveUnitTree, storeVars
    <3>. QED  BY <3>2, <3>3
  <2>7. \A u \in UnitsOf(job[p]) : u \in registered' <=> u \in registered
    <3>1. CASE ForgetUnitTree(q)
      BY <2>1, <3>1 DEF ForgetUnitTree, Goto, SweepInv
    <3>2. CASE ~ForgetUnitTree(q)
      BY <1>5, <3>2
      DEF Intake, ProcStep, Crash, Requeue, Snapshot, Listing, Prune, BeginPlan,
         PlannerAnswers, OverBudget, PlanRejected, PlanAccepted, BeginCode, CodingFailed,
         CodingDone, AddIntegrationTree, MergeConflict, IntegrationRaises,
         RemoveIntegrationTree, BeginGates, BeginHealing, FinishTask,
         OpenRequest, LeaveRequest, MergeRequest, Collect, MergeUnit, RemoveUnitTree, storeVars
    <3>. QED  BY <3>1, <3>2
  <2>. QED  BY <2>2, <2>3, <2>4, <2>5, <2>6, <2>7, StillHere
<1>. QED  BY <1>3, <1>4, <1>5

\* A loop variable is about the process's own units ...
LEMMA SweepStep ==
    TypeOK /\ JobInv /\ PlanInv /\ ThreadInv /\ SweepInv /\ [Next]_vars => SweepInv'
<1>. SUFFICES ASSUME TypeOK, JobInv, PlanInv, ThreadInv, SweepInv, [Next]_vars,
                     NEW p \in Procs, pc'[p] = "cleanup"
              PROVE  sweep'[p] # {} /\ sweep'[p] \subseteq UnitsOf(job[p])' \cap registered'
  BY DEF SweepInv
<1>. USE DEF TypeOK
<1>1. CASE \E u \in Units : RemoveUnitTree(p, u)
  BY <1>1 DEF RemoveUnitTree, Goto, UnitsOf, storeVars
<1>2. ASSUME pc[p] = "cleanup", UNCHANGED <<pc[p], job[p], sweep[p]>>,
             UnitsOf(job[p]) \subseteq UnitsOf(job[p])',
             UnitsOf(job[p]) \cap registered \subseteq registered'
      PROVE  sweep'[p] # {} /\ sweep'[p] \subseteq UnitsOf(job[p])' \cap registered'
  BY <1>2 DEF SweepInv
<1>3. CASE ProcStep(p) \/ Intake(p) \/ Crash(p)
  BY <1>1, <1>3 DEF ProcStep, Intake, Crash, Exit, Goto, Requeue, Snapshot, Listing, Prune,
     BeginPlan, PlannerAnswers, OverBudget, PlanRejected, PlanAccepted, BeginCode, CodingFailed,
     CodingDone, Collected, AddIntegrationTree, MergeConflict, IntegrationRaises,
     RemoveIntegrationTree, ForgetUnitTree, BeginGates, BeginHealing, FinishTask, OpenRequest,
     LeaveRequest, MergeRequest, Collect, MergeUnit
<1>4. CASE UNCHANGED <<pc, job, sweep, owner>> /\ registered \subseteq registered'
  BY <1>2, <1>4 DEF UnitsOf
<1>5. ASSUME NEW q \in Procs \ {p}, ProcStep(q) \/ Intake(q) \/ Crash(q)
      PROVE  sweep'[p] # {} /\ sweep'[p] \subseteq UnitsOf(job[p])' \cap registered'
  <2>1. UNCHANGED <<pc[p], job[p], sweep[p]>>
    BY <1>5 DEF Intake, ProcStep, Crash, Exit, Goto, Requeue, Snapshot, Listing, Prune, BeginPlan,
       PlannerAnswers, OverBudget, PlanRejected, PlanAccepted, BeginCode, CodingFailed,
       CodingDone, AddIntegrationTree, MergeConflict, IntegrationRaises, RemoveIntegrationTree,
       ForgetUnitTree, BeginGates, BeginHealing, FinishTask, OpenRequest, LeaveRequest,
       MergeRequest, Collect, MergeUnit, RemoveUnitTree
  <2>2. pc[p] = "cleanup" /\ job[q] # job[p] /\ UnitsOf(job[p]) \cap UnitsOf(job[q]) = {}
    BY <2>1, NoSharedUnit
  <2>3. UnitsOf(job[p])' = UnitsOf(job[p])
    <3>1. CASE PlanAccepted(q)
      BY <2>2, <3>1, PlanTakesNone
    <3>2. CASE ~PlanAccepted(q)
      BY <1>5, <2>1, <3>2, OwnerKept DEF UnitsOf
    <3>. QED  BY <3>1, <3>2
  <2>4. UnitsOf(job[p]) \cap registered \subseteq registered'
    <3>1. CASE ForgetUnitTree(q)
      BY <2>2, <3>1 DEF ForgetUnitTree, Goto, SweepInv
    <3>2. CASE ~ForgetUnitTree(q)
      BY <1>5, <3>2
      DEF Intake, ProcStep, Crash, Requeue, Snapshot, Listing, Prune, BeginPlan,
         PlannerAnswers, OverBudget, PlanRejected, PlanAccepted, BeginCode, CodingFailed,
         CodingDone, AddIntegrationTree, MergeConflict, IntegrationRaises,
         RemoveIntegrationTree, BeginGates, BeginHealing, FinishTask,
         OpenRequest, LeaveRequest, MergeRequest, Collect, MergeUnit, RemoveUnitTree, storeVars
    <3>. QED  BY <3>1, <3>2
  <2>. QED  BY <1>2, <2>1, <2>2, <2>3, <2>4
<1>6. ASSUME NEW t \in Tasks, Webhook(t) PROVE UNCHANGED <<pc, job, sweep, owner, registered>>
  BY <1>6 DEF Webhook
<1>7. ASSUME NEW u \in Units, CoderStep(u)
      PROVE  UNCHANGED <<pc, job, sweep, owner>> /\ registered \subseteq registered'
  BY <1>7 DEF CoderStep, ClaimUnit, MakeWorktree, RegisterWorktree, CoderRaises, CoderFails,
     CoderSucceeds, storeVars
<1>8. CASE UNCHANGED vars
  BY <1>4, <1>8 DEF vars
<1>. QED  BY <1>3, <1>4, <1>5, <1>6, <1>7, <1>8 DEF Next

\* ... and over directories that are there, of which there are finitely many.
LEMMA DiskStep == TypeOK /\ JobInv /\ DiskInv /\ [Next]_vars => DiskInv'
<1>. SUFFICES ASSUME TypeOK, JobInv, DiskInv, [Next]_vars PROVE DiskInv'
  OBVIOUS
<1>. USE DEF TypeOK
<1>. DEFINE Few == disk' \subseteq disk \/ \E d \in Units \cup Tasks : disk' = disk \cup {d}
            Listed(p) == \/ pc'[p] # "prune"
                         \/ sweep'[p] \subseteq disk
                         \/ pc[p] = "prune" /\ sweep'[p] \subseteq sweep[p]
<1>1. ASSUME NEW p \in Procs, AddIntegrationTree(p) PROVE Few /\ \A q \in Procs : Listed(q)
  <2>1. disk' = disk \cup {job[p]} /\ UNCHANGED sweep
    BY <1>1 DEF AddIntegrationTree
  <2>2. job[p] \in Tasks
    BY <1>1 DEF AddIntegrationTree, Goto, JobInv
  <2>. QED  BY <1>1, <2>1, <2>2 DEF AddIntegrationTree, Goto
<1>2. ASSUME NEW p \in Procs, Listing(p) PROVE Few /\ \A q \in Procs : Listed(q)
  BY <1>2 DEF Listing, Goto
<1>3. ASSUME NEW p \in Procs,
             Intake(p) \/ Crash(p) \/ (ProcStep(p) /\ ~AddIntegrationTree(p) /\ ~Listing(p))
      PROVE  Few /\ \A q \in Procs : Listed(q)
  <2>1. disk' \subseteq disk
    BY <1>3 DEF Intake, ProcStep, Crash, Requeue, Snapshot, Prune,
       BeginPlan, PlannerAnswers, OverBudget, PlanRejected, PlanAccepted, BeginCode, CodingFailed,
       CodingDone, MergeConflict, IntegrationRaises, RemoveIntegrationTree,
       ForgetUnitTree, BeginGates, BeginHealing, FinishTask, OpenRequest, LeaveRequest,
       MergeRequest, Collect, MergeUnit, RemoveUnitTree
  <2>2. \A q \in Procs \ {p} : UNCHANGED <<pc[q], sweep[q]>>
    BY <1>3 DEF Intake, ProcStep, Crash, Exit, Goto, Requeue, Snapshot, Prune,
       BeginPlan, PlannerAnswers, OverBudget, PlanRejected, PlanAccepted, BeginCode, CodingFailed,
       CodingDone, MergeConflict, IntegrationRaises, RemoveIntegrationTree,
       ForgetUnitTree, BeginGates, BeginHealing, FinishTask, OpenRequest, LeaveRequest,
       MergeRequest, Collect, MergeUnit, RemoveUnitTree
  <2>3. CASE Prune(p)
    BY <2>3 DEF Prune
  <2>4. CASE ~Prune(p)
    <3>1. pc'[p] # "prune"
      BY <1>3, <2>4 DEF Intake, ProcStep, Crash, Exit, Goto, Requeue, Snapshot,
         BeginPlan, PlannerAnswers, OverBudget, PlanRejected, PlanAccepted, BeginCode,
         CodingFailed, CodingDone, Collected, MergeConflict, IntegrationRaises,
         RemoveIntegrationTree, ForgetUnitTree, BeginGates, BeginHealing, FinishTask,
         OpenRequest, LeaveRequest, MergeRequest, Collect, MergeUnit, RemoveUnitTree
    <3>. QED  BY <2>1, <2>2, <3>1
  <2>. QED  BY <2>1, <2>2, <2>3, <2>4
<1>4. ASSUME NEW u \in Units, CoderStep(u) PROVE Few /\ \A q \in Procs : Listed(q)
  <2>1. disk' = disk \/ disk' = disk \cup {u}
    BY <1>4 DEF CoderStep, ClaimUnit, MakeWorktree, RegisterWorktree, CoderRaises, CoderFails,
       CoderSucceeds
  <2>2. UNCHANGED <<pc, sweep>>
    BY <1>4 DEF CoderStep, ClaimUnit, MakeWorktree, RegisterWorktree, CoderRaises, CoderFails,
       CoderSucceeds
  <2>. QED  BY <2>1, <2>2
<1>5. ASSUME NEW t \in Tasks, Webhook(t) PROVE Few /\ \A q \in Procs : Listed(q)
  BY <1>5 DEF Webhook
<1>6. ASSUME UNCHANGED vars PROVE Few /\ \A q \in Procs : Listed(q)
  BY <1>6 DEF vars
<1>7. Few /\ \A q \in Procs : Listed(q)
  BY <1>1, <1>2, <1>3, <1>4, <1>5, <1>6 DEF Next
<1>8. IsFiniteSet(disk')
  BY <1>7, FS_Subset, FS_AddElement DEF DiskInv
<1>9. \A p \in Procs : pc'[p] = "prune" => IsFiniteSet(sweep'[p])
  BY <1>7, FS_Subset DEF DiskInv
<1>. QED  BY <1>8, <1>9 DEF DiskInv

\* Why Pipeline.run returns if its process is not killed (no stage is repeated, and
\* reconcile_worktrees, the as_completed loop, integrate and the removal of
\* worktrees run over finite lists): every step of a run leads ahead, to a
\* later stage or to less of the list of its loop, and no other process,
\* coder or webhook ever puts it back.
THEOREM RunsGoForward ==
    Spec => /\ [][RunForward]_vars
            /\ [](\A p \in Procs : Stage(p) \in Nat /\ IsFiniteSet(Left(p)))
<1>. DEFINE Inv == IInv /\ UInv /\ BInv
            EInv == SweepInv /\ DiskInv
<1>1. Init => EInv
  BY FS_EmptySet DEF Init, SweepInv, DiskInv
<1>2. Inv /\ EInv /\ [Next]_vars => EInv'
  BY SweepStep, DiskStep DEF IInv, UInv
<1>3. Inv /\ EInv /\ [Next]_vars => [RunForward]_vars
  <2>. SUFFICES ASSUME Inv, EInv, Next, NEW p \in Procs
                PROVE  /\ pc[p] # "idle" => Ahead(p) \/ Still(p)
                       /\ ProcStep(p) => Ahead(p)
    BY DEF RunForward
  <2>1. ProcStep(p) \/ Crash(p) => Ahead(p)
    BY OwnAhead DEF IInv
  <2>2. pc[p] # "idle" => ~Intake(p)
    BY DEF Intake, Goto
  <2>. QED  BY <2>1, <2>2, OthersStill DEF Next, IInv, UInv
<1>4. Inv /\ EInv => \A p \in Procs : Stage(p) \in Nat /\ IsFiniteSet(Left(p))
  BY LeftFinite
<1>5. Spec => [](Inv /\ EInv)
  BY <1>1, <1>2, Invariance, PTL DEF Spec
<1>. QED  BY <1>3, <1>4, <1>5, PTL DEF Spec
=============================================================================
