-------------------------- MODULE FactoryAloneProofs --------------------------
(***************************************************************************)
(* Factory.tla as long as no two processes are up at the same time: any    *)
(* number of them one after the other, each killed at any point.  What a   *)
(* coder relies on, and what a start finds to clean up.                    *)
(*                                                                         *)
(* The threads of a process are gone when the next one reconciles          *)
(* (ThreadInv of FactoryProofs), so the directories and rows that it finds *)
(* are nobody's, and until it codes itself nothing is added to them.       *)
(***************************************************************************)
EXTENDS FactoryProofs

Alone == \A p, q \in Procs : p = q

\* A coder at work is shown as such, and has its directory.
CoderInv ==
    \A u \in Units :
        /\ thread[u] \in {"made", "coding"} => u \in disk
        /\ thread[u] \in Active => unit[u] = "running"

\* What is shown as being at work is so, once the leftovers are requeued.
StoreInv ==
    \A p \in Procs : pc[p] \notin {"idle", "requeue"} =>
        \A u \in Units : unit[u] = "running" => thread[u] \in Active \cup {"raised"}

\* What is on disk is in the store, or is about to be removed or registered.
TreeInv ==
    \A p \in Procs :
        /\ pc[p] = "listing" => sweep[p] = registered
        /\ pc[p] = "prune" => disk \subseteq registered \cup sweep[p]
        /\ pc[p] = "cleanup" => sweep[p] \cap disk = {}
        /\ pc[p] = "coding" => \A u \in UnitsOf(job[p]) :
              \/ thread[u] \in {"coding", "returned"}
              \/ thread[u] = "none" /\ unit[u] = "coded"
              => u \in registered
        /\ pc[p] \in Planning \cup {"integrate", "integrated", "cleanup", "gating", "opened"} =>
              disk \subseteq registered
        /\ pc[p] = "coding" => disk \subseteq registered \cup UnitsOf(job[p])
        /\ pc[p] = "merging" => disk \subseteq registered \cup {job[p]}

AloneInv == CoderInv /\ StoreInv /\ TreeInv

Common == TypeOK /\ JobInv /\ ThreadInv /\ UnitInv
-----------------------------------------------------------------------------
\* No step takes row or directory from a coder.
LEMMA CoderStepKeeps ==
    ASSUME Alone, Common, AloneInv, [Next]_vars
    PROVE  CoderInv'
<1>. USE NamesAssumption DEF Alone, Common, AloneInv, TypeOK, JobInv, ThreadInv, UnitInv, UnitsOf,
         CoderInv, StoreInv, TreeInv, storeVars, Planning, Reconciling, Active, Goto, SetTask,
         SetUnit, CreateTask, CreateUnits, Exit
<1>0. ASSUME NEW t \in Tasks, Webhook(t) PROVE CoderInv'
  BY <1>0 DEF Webhook
<1>1. ASSUME NEW p \in Procs, Intake(p) PROVE CoderInv'
  BY <1>1 DEF Intake
<1>2. ASSUME NEW p \in Procs, Requeue(p) PROVE CoderInv'
  BY <1>2 DEF Requeue
<1>3. ASSUME NEW p \in Procs, Snapshot(p) PROVE CoderInv'
  BY <1>3 DEF Snapshot
<1>4. ASSUME NEW p \in Procs, Listing(p) PROVE CoderInv'
  BY <1>4 DEF Listing
<1>5. ASSUME NEW p \in Procs, Prune(p) PROVE CoderInv'
  BY <1>5 DEF Prune
<1>6. ASSUME NEW p \in Procs, BeginPlan(p) PROVE CoderInv'
  BY <1>6 DEF BeginPlan
<1>7. ASSUME NEW p \in Procs, PlannerAnswers(p) PROVE CoderInv'
  BY <1>7 DEF PlannerAnswers
<1>8. ASSUME NEW p \in Procs, OverBudget(p) PROVE CoderInv'
  BY <1>8 DEF OverBudget
<1>9. ASSUME NEW p \in Procs, PlanRejected(p) PROVE CoderInv'
  BY <1>9 DEF PlanRejected
<1>10. ASSUME NEW p \in Procs, PlanAccepted(p) PROVE CoderInv'
  BY <1>10 DEF PlanAccepted
<1>11. ASSUME NEW p \in Procs, BeginCode(p) PROVE CoderInv'
  BY <1>11 DEF BeginCode
<1>12. ASSUME NEW p \in Procs, CodingFailed(p) PROVE CoderInv'
  BY <1>12 DEF CodingFailed, Collected
<1>13. ASSUME NEW p \in Procs, CodingDone(p) PROVE CoderInv'
  BY <1>13 DEF CodingDone, Collected
<1>14. ASSUME NEW p \in Procs, AddIntegrationTree(p) PROVE CoderInv'
  BY <1>14 DEF AddIntegrationTree
<1>15. ASSUME NEW p \in Procs, MergeConflict(p) PROVE CoderInv'
  BY <1>15 DEF MergeConflict
<1>16. ASSUME NEW p \in Procs, IntegrationRaises(p) PROVE CoderInv'
  BY <1>16 DEF IntegrationRaises
<1>17. ASSUME NEW p \in Procs, RemoveIntegrationTree(p) PROVE CoderInv'
  BY <1>17 DEF RemoveIntegrationTree
<1>18. ASSUME NEW p \in Procs, ForgetUnitTree(p) PROVE CoderInv'
  BY <1>18 DEF ForgetUnitTree
<1>19. ASSUME NEW p \in Procs, BeginGates(p) PROVE CoderInv'
  BY <1>19 DEF BeginGates
<1>20. ASSUME NEW p \in Procs, BeginHealing(p) PROVE CoderInv'
  BY <1>20 DEF BeginHealing
<1>21. ASSUME NEW p \in Procs, FinishTask(p) PROVE CoderInv'
  BY <1>21 DEF FinishTask
<1>21a. ASSUME NEW p \in Procs, OpenRequest(p) PROVE CoderInv'
  BY <1>21a DEF OpenRequest
<1>21b. ASSUME NEW p \in Procs, LeaveRequest(p) PROVE CoderInv'
  BY <1>21b DEF LeaveRequest
<1>21c. ASSUME NEW p \in Procs, MergeRequest(p) PROVE CoderInv'
  BY <1>21c DEF MergeRequest
<1>22. ASSUME NEW p \in Procs, Crash(p) PROVE CoderInv'
  BY <1>22 DEF Crash
<1>23. ASSUME NEW p \in Procs, NEW u \in Units, Collect(p, u) PROVE CoderInv'
  BY <1>23 DEF Collect
<1>24. ASSUME NEW p \in Procs, NEW u \in Units, MergeUnit(p, u) PROVE CoderInv'
  BY <1>24 DEF MergeUnit
<1>25. ASSUME NEW p \in Procs, NEW u \in Units, RemoveUnitTree(p, u) PROVE CoderInv'
  BY <1>25 DEF RemoveUnitTree
<1>26. ASSUME NEW u \in Units, ClaimUnit(u) PROVE CoderInv'
  BY <1>26 DEF ClaimUnit
<1>27. ASSUME NEW u \in Units, MakeWorktree(u) PROVE CoderInv'
  BY <1>27 DEF MakeWorktree
<1>28. ASSUME NEW u \in Units, RegisterWorktree(u) PROVE CoderInv'
  BY <1>28 DEF RegisterWorktree
<1>29. ASSUME NEW u \in Units, CoderRaises(u) PROVE CoderInv'
  BY <1>29 DEF CoderRaises
<1>30. ASSUME NEW u \in Units, CoderFails(u) PROVE CoderInv'
  BY <1>30 DEF CoderFails
<1>31. ASSUME NEW u \in Units, CoderSucceeds(u) PROVE CoderInv'
  BY <1>31 DEF CoderSucceeds
<1>32. CASE UNCHANGED vars
  BY <1>32 DEF vars
<1>. QED
  BY <1>0, <1>1, <1>2, <1>3, <1>4, <1>5, <1>6, <1>7, <1>8, <1>9, <1>10, <1>11,
     <1>12, <1>13, <1>14, <1>15, <1>16, <1>17, <1>18, <1>19, <1>20, <1>21, <1>21a, <1>21b, <1>21c,
     <1>22,
     <1>23, <1>24, <1>25, <1>26, <1>27, <1>28, <1>29, <1>30, <1>31, <1>32
  DEF Next, ProcStep, CoderStep

\* No step leaves a RUNNING row without its coder.
LEMMA StoreStep ==
    ASSUME Alone, Common, AloneInv, [Next]_vars
    PROVE  StoreInv'
<1>. USE NamesAssumption DEF Alone, Common, AloneInv, TypeOK, JobInv, ThreadInv, UnitInv, UnitsOf,
         CoderInv, StoreInv, TreeInv, storeVars, Planning, Reconciling, Active, Goto, SetTask,
         SetUnit, CreateTask, CreateUnits, Exit
<1>0. ASSUME NEW t \in Tasks, Webhook(t) PROVE StoreInv'
  BY <1>0 DEF Webhook
<1>1. ASSUME NEW p \in Procs, Intake(p) PROVE StoreInv'
  BY <1>1 DEF Intake
<1>2. ASSUME NEW p \in Procs, Requeue(p) PROVE StoreInv'
  BY <1>2 DEF Requeue
<1>3. ASSUME NEW p \in Procs, Snapshot(p) PROVE StoreInv'
  BY <1>3 DEF Snapshot
<1>4. ASSUME NEW p \in Procs, Listing(p) PROVE StoreInv'
  BY <1>4 DEF Listing
<1>5. ASSUME NEW p \in Procs, Prune(p) PROVE StoreInv'
  BY <1>5 DEF Prune
<1>6. ASSUME NEW p \in Procs, BeginPlan(p) PROVE StoreInv'
  BY <1>6 DEF BeginPlan
<1>7. ASSUME NEW p \in Procs, PlannerAnswers(p) PROVE StoreInv'
  BY <1>7 DEF PlannerAnswers
<1>8. ASSUME NEW p \in Procs, OverBudget(p) PROVE StoreInv'
  BY <1>8 DEF OverBudget
<1>9. ASSUME NEW p \in Procs, PlanRejected(p) PROVE StoreInv'
  BY <1>9 DEF PlanRejected
<1>10. ASSUME NEW p \in Procs, PlanAccepted(p) PROVE StoreInv'
  BY <1>10 DEF PlanAccepted
<1>11. ASSUME NEW p \in Procs, BeginCode(p) PROVE StoreInv'
  BY <1>11 DEF BeginCode
<1>12. ASSUME NEW p \in Procs, CodingFailed(p) PROVE StoreInv'
  BY <1>12 DEF CodingFailed, Collected
<1>13. ASSUME NEW p \in Procs, CodingDone(p) PROVE StoreInv'
  BY <1>13 DEF CodingDone, Collected
<1>14. ASSUME NEW p \in Procs, AddIntegrationTree(p) PROVE StoreInv'
  BY <1>14 DEF AddIntegrationTree
<1>15. ASSUME NEW p \in Procs, MergeConflict(p) PROVE StoreInv'
  BY <1>15 DEF MergeConflict
<1>16. ASSUME NEW p \in Procs, IntegrationRaises(p) PROVE StoreInv'
  BY <1>16 DEF IntegrationRaises
<1>17. ASSUME NEW p \in Procs, RemoveIntegrationTree(p) PROVE StoreInv'
  BY <1>17 DEF RemoveIntegrationTree
<1>18. ASSUME NEW p \in Procs, ForgetUnitTree(p) PROVE StoreInv'
  BY <1>18 DEF ForgetUnitTree
<1>19. ASSUME NEW p \in Procs, BeginGates(p) PROVE StoreInv'
  BY <1>19 DEF BeginGates
<1>20. ASSUME NEW p \in Procs, BeginHealing(p) PROVE StoreInv'
  BY <1>20 DEF BeginHealing
<1>21. ASSUME NEW p \in Procs, FinishTask(p) PROVE StoreInv'
  BY <1>21 DEF FinishTask
<1>21a. ASSUME NEW p \in Procs, OpenRequest(p) PROVE StoreInv'
  BY <1>21a DEF OpenRequest
<1>21b. ASSUME NEW p \in Procs, LeaveRequest(p) PROVE StoreInv'
  BY <1>21b DEF LeaveRequest
<1>21c. ASSUME NEW p \in Procs, MergeRequest(p) PROVE StoreInv'
  BY <1>21c DEF MergeRequest
<1>22. ASSUME NEW p \in Procs, Crash(p) PROVE StoreInv'
  BY <1>22 DEF Crash
<1>23. ASSUME NEW p \in Procs, NEW u \in Units, Collect(p, u) PROVE StoreInv'
  BY <1>23 DEF Collect
<1>24. ASSUME NEW p \in Procs, NEW u \in Units, MergeUnit(p, u) PROVE StoreInv'
  BY <1>24 DEF MergeUnit
<1>25. ASSUME NEW p \in Procs, NEW u \in Units, RemoveUnitTree(p, u) PROVE StoreInv'
  BY <1>25 DEF RemoveUnitTree
<1>26. ASSUME NEW u \in Units, ClaimUnit(u) PROVE StoreInv'
  BY <1>26 DEF ClaimUnit
<1>27. ASSUME NEW u \in Units, MakeWorktree(u) PROVE StoreInv'
  BY <1>27 DEF MakeWorktree
<1>28. ASSUME NEW u \in Units, RegisterWorktree(u) PROVE StoreInv'
  BY <1>28 DEF RegisterWorktree
<1>29. ASSUME NEW u \in Units, CoderRaises(u) PROVE StoreInv'
  BY <1>29 DEF CoderRaises
<1>30. ASSUME NEW u \in Units, CoderFails(u) PROVE StoreInv'
  BY <1>30 DEF CoderFails
<1>31. ASSUME NEW u \in Units, CoderSucceeds(u) PROVE StoreInv'
  BY <1>31 DEF CoderSucceeds
<1>32. CASE UNCHANGED vars
  BY <1>32 DEF vars
<1>. QED
  BY <1>0, <1>1, <1>2, <1>3, <1>4, <1>5, <1>6, <1>7, <1>8, <1>9, <1>10, <1>11,
     <1>12, <1>13, <1>14, <1>15, <1>16, <1>17, <1>18, <1>19, <1>20, <1>21, <1>21a, <1>21b, <1>21c,
     <1>22,
     <1>23, <1>24, <1>25, <1>26, <1>27, <1>28, <1>29, <1>30, <1>31, <1>32
  DEF Next, ProcStep, CoderStep

\* No step leaves a directory that nobody answers for.
LEMMA TreeStep ==
    ASSUME Alone, Common, AloneInv, [Next]_vars
    PROVE  TreeInv'
<1>. USE NamesAssumption DEF Alone, Common, AloneInv, TypeOK, JobInv, ThreadInv, UnitInv, UnitsOf,
         CoderInv, StoreInv, TreeInv, storeVars, Planning, Reconciling, Active, Goto, SetTask,
         SetUnit, CreateTask, CreateUnits, Exit
<1>0. ASSUME NEW t \in Tasks, Webhook(t) PROVE TreeInv'
  BY <1>0 DEF Webhook
<1>1. ASSUME NEW p \in Procs, Intake(p) PROVE TreeInv'
  BY <1>1 DEF Intake
<1>2. ASSUME NEW p \in Procs, Requeue(p) PROVE TreeInv'
  BY <1>2 DEF Requeue
<1>3. ASSUME NEW p \in Procs, Snapshot(p) PROVE TreeInv'
  BY <1>3 DEF Snapshot
<1>4. ASSUME NEW p \in Procs, Listing(p) PROVE TreeInv'
  BY <1>4 DEF Listing
<1>5. ASSUME NEW p \in Procs, Prune(p) PROVE TreeInv'
  BY <1>5 DEF Prune
<1>6. ASSUME NEW p \in Procs, BeginPlan(p) PROVE TreeInv'
  BY <1>6 DEF BeginPlan
<1>7. ASSUME NEW p \in Procs, PlannerAnswers(p) PROVE TreeInv'
  BY <1>7 DEF PlannerAnswers
<1>8. ASSUME NEW p \in Procs, OverBudget(p) PROVE TreeInv'
  BY <1>8 DEF OverBudget
<1>9. ASSUME NEW p \in Procs, PlanRejected(p) PROVE TreeInv'
  BY <1>9 DEF PlanRejected
<1>10. ASSUME NEW p \in Procs, PlanAccepted(p) PROVE TreeInv'
  BY <1>10 DEF PlanAccepted
<1>11. ASSUME NEW p \in Procs, BeginCode(p) PROVE TreeInv'
  BY <1>11 DEF BeginCode
<1>12. ASSUME NEW p \in Procs, CodingFailed(p) PROVE TreeInv'
  BY <1>12 DEF CodingFailed, Collected
<1>13. ASSUME NEW p \in Procs, CodingDone(p) PROVE TreeInv'
  BY <1>13 DEF CodingDone, Collected
<1>14. ASSUME NEW p \in Procs, AddIntegrationTree(p) PROVE TreeInv'
  BY <1>14 DEF AddIntegrationTree
<1>15. ASSUME NEW p \in Procs, MergeConflict(p) PROVE TreeInv'
  BY <1>15 DEF MergeConflict
<1>16. ASSUME NEW p \in Procs, IntegrationRaises(p) PROVE TreeInv'
  BY <1>16 DEF IntegrationRaises
<1>17. ASSUME NEW p \in Procs, RemoveIntegrationTree(p) PROVE TreeInv'
  BY <1>17 DEF RemoveIntegrationTree
<1>18. ASSUME NEW p \in Procs, ForgetUnitTree(p) PROVE TreeInv'
  BY <1>18 DEF ForgetUnitTree
<1>19. ASSUME NEW p \in Procs, BeginGates(p) PROVE TreeInv'
  BY <1>19 DEF BeginGates
<1>20. ASSUME NEW p \in Procs, BeginHealing(p) PROVE TreeInv'
  BY <1>20 DEF BeginHealing
<1>21. ASSUME NEW p \in Procs, FinishTask(p) PROVE TreeInv'
  BY <1>21 DEF FinishTask
<1>21a. ASSUME NEW p \in Procs, OpenRequest(p) PROVE TreeInv'
  BY <1>21a DEF OpenRequest
<1>21b. ASSUME NEW p \in Procs, LeaveRequest(p) PROVE TreeInv'
  BY <1>21b DEF LeaveRequest
<1>21c. ASSUME NEW p \in Procs, MergeRequest(p) PROVE TreeInv'
  BY <1>21c DEF MergeRequest
<1>22. ASSUME NEW p \in Procs, Crash(p) PROVE TreeInv'
  BY <1>22 DEF Crash
<1>23. ASSUME NEW p \in Procs, NEW u \in Units, Collect(p, u) PROVE TreeInv'
  BY <1>23 DEF Collect
<1>24. ASSUME NEW p \in Procs, NEW u \in Units, MergeUnit(p, u) PROVE TreeInv'
  BY <1>24 DEF MergeUnit
<1>25. ASSUME NEW p \in Procs, NEW u \in Units, RemoveUnitTree(p, u) PROVE TreeInv'
  BY <1>25 DEF RemoveUnitTree
<1>26. ASSUME NEW u \in Units, ClaimUnit(u) PROVE TreeInv'
  BY <1>26 DEF ClaimUnit
<1>27. ASSUME NEW u \in Units, MakeWorktree(u) PROVE TreeInv'
  BY <1>27 DEF MakeWorktree
<1>28. ASSUME NEW u \in Units, RegisterWorktree(u) PROVE TreeInv'
  BY <1>28 DEF RegisterWorktree
<1>29. ASSUME NEW u \in Units, CoderRaises(u) PROVE TreeInv'
  BY <1>29 DEF CoderRaises
<1>30. ASSUME NEW u \in Units, CoderFails(u) PROVE TreeInv'
  BY <1>30 DEF CoderFails
<1>31. ASSUME NEW u \in Units, CoderSucceeds(u) PROVE TreeInv'
  BY <1>31 DEF CoderSucceeds
<1>32. CASE UNCHANGED vars
  BY <1>32 DEF vars
<1>. QED
  BY <1>0, <1>1, <1>2, <1>3, <1>4, <1>5, <1>6, <1>7, <1>8, <1>9, <1>10, <1>11,
     <1>12, <1>13, <1>14, <1>15, <1>16, <1>17, <1>18, <1>19, <1>20, <1>21, <1>21a, <1>21b, <1>21c,
     <1>22,
     <1>23, <1>24, <1>25, <1>26, <1>27, <1>28, <1>29, <1>30, <1>31, <1>32
  DEF Next, ProcStep, CoderStep

-----------------------------------------------------------------------------
LEMMA AloneInvariance ==
    ASSUME Alone
    PROVE  Spec => []AloneInv
<1>1. Init => AloneInv
  BY DEF Init, AloneInv, CoderInv, StoreInv, TreeInv, Active, Planning
<1>2. IInv /\ UInv /\ AloneInv /\ [Next]_vars => AloneInv'
  BY CoderStepKeeps, StoreStep, TreeStep DEF IInv, UInv, Common, AloneInv
<1>. QED  BY <1>1, <1>2, Invariance, PTL DEF Spec

\* With one process at a time, the store, the directories and the coders agree:
\* a coder has its worktree and its row says so, and after reconciliation no row
\* says so of a coder that is gone.
THEOREM CodersAgree ==
    ASSUME Alone
    PROVE  Spec => []CodersMatchStore
<1>1. AloneInv => CodersMatchStore
  BY DEF AloneInv, CoderInv, StoreInv, CodersMatchStore, Active
<1>. QED  BY <1>1, AloneInvariance, PTL

\* With one process at a time, start-up reconciliation leaves no orphan behind,
\* wherever the processes before were killed.
THEOREM OrphansGo ==
    ASSUME Alone
    PROVE  Spec => []NoOrphansAfterSweep
<1>1. TypeOK /\ AloneInv => NoOrphansAfterSweep
  BY DEF TypeOK, AloneInv, TreeInv, NoOrphansAfterSweep, UnitsOf, PCs, Reconciling, Planning
<1>. QED  BY <1>1, AloneInvariance, TypeCorrect, PTL
===============================================================================
