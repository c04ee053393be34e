------------------------- MODULE MergePipelineProofs -------------------------
(***************************************************************************)
(* MergePipeline.tla for any number of tasks and any set of checks: what   *)
(* is merged has passed its gates and is no high-risk diff, and the task   *)
(* row tells what has happened.                                            *)
(***************************************************************************)
EXTENDS MergePipeline, TLAPS

Gating == {"start", "gate", "failed", "regate", "refused"}
Finishing == {"push", "opened", "marked", "merge", "merged"}

\* A task is decided about only on the version that passed the gates.
DecidedInv(t) ==
    /\ pc[t] \in Gating \cup {"assess"} => decision[t] = None
    /\ pc[t] \in Finishing \cup {"assess"} => gated[t] = head[t] /\ t \in sound
    /\ decision[t] = "auto_merge" =>
        gated[t] = head[t] /\ t \in sound /\ head[t] \notin risky[t]

\* It is merged only after that decision, and is marked as such at the end.
MergeInv(t) ==
    /\ base[t] # 0 => decision[t] = "auto_merge" /\ base[t] = head[t]
    /\ base[t] # 0 => pc[t] \in {"merged", "done", "raised"}
    /\ pc[t] = "merged" => base[t] # 0 /\ pr[t] # "open"
    /\ pc[t] = "done" /\ base[t] # 0 => status[t] = "merged"
    /\ status[t] = "merged" => base[t] # 0

\* It has no pull request before it is decided about, or if it is blocked, and
\* a pull request to be held is labelled at the end.
RequestInv(t) ==
    /\ pc[t] \in Gating \cup {"assess", "push", "merge"} => pr[t] = "none"
    /\ status[t] = "blocked" => pc[t] = "done" /\ base[t] = 0 /\ pr[t] = "none"
    /\ pc[t] = "done" /\ pr[t] = "open" /\ decision[t] = "needs_human" => t \in labelled

\* Where the row is when the pipeline is at a place.
RowInv(t) ==
    /\ pc[t] = "start" => status[t] = "integrating"
    /\ pc[t] = "gate" => status[t] = "gating"
    /\ pc[t] \in {"failed", "regate", "refused", "assess", "push", "opened", "merge"} =>
        status[t] \in {"gating", "healing"}
    /\ pc[t] = "marked" => status[t] = "pr_open"
    /\ pc[t] = "merged" => status[t] \in {"gating", "healing", "pr_open"}

TaskInv(t) == DecidedInv(t) /\ MergeInv(t) /\ RequestInv(t) /\ RowInv(t)

IInv == TypeOK /\ \A t \in Tasks : TaskInv(t)
-----------------------------------------------------------------------------
\* What a step of one task leaves alone for the others.
SameTask(t) ==
    /\ status'[t] = status[t] /\ pc'[t] = pc[t] /\ head'[t] = head[t]
    /\ risky'[t] = risky[t] /\ gated'[t] = gated[t] /\ decision'[t] = decision[t]
    /\ pr'[t] = pr[t] /\ base'[t] = base[t]
    /\ (t \in labelled' <=> t \in labelled) /\ (t \in sound' <=> t \in sound)

LEMMA OtherTasks ==
    ASSUME NEW t, TaskInv(t), SameTask(t)
    PROVE  TaskInv(t)'
BY DEF TaskInv, DecidedInv, MergeInv, RequestInv, RowInv, SameTask

\* Every step keeps the types.
LEMMA TypeStep == TypeOK /\ [Next]_vars => TypeOK'
<1>. SUFFICES ASSUME TypeOK, [Next]_vars PROVE TypeOK'
  OBVIOUS
<1>1. ASSUME NEW t \in Tasks,
             \/ StartGating(t) \/ DoNotHeal(t) \/ BeginHealing(t) \/ Block(t)
             \/ MarkOpen(t) \/ LeaveRequest(t) \/ HoldLocally(t) \/ RecordMerge(t) \/ Fail(t)
      PROVE  TypeOK'
  <2>1. /\ status' \in [Tasks -> Statuses]
        /\ pc' \in [Tasks -> PCs]
    BY <1>1 DEF TypeOK, PCs, Statuses, Goto, SetStatus, StartGating, DoNotHeal, BeginHealing, Block,
       MarkOpen, LeaveRequest, HoldLocally, RecordMerge, Fail
  <2>2. UNCHANGED <<setting, branch, github, gates, merges, decision>>
    BY <1>1 DEF StartGating, DoNotHeal, BeginHealing, Block,
       MarkOpen, LeaveRequest, HoldLocally, RecordMerge, Fail
  <2>. QED  BY <2>1, <2>2 DEF TypeOK, setting, branch, github, gates, merges
<1>2. ASSUME NEW t \in Tasks, RunGates(t) \/ Regate(t) PROVE TypeOK'
  <2>1. pc' \in [Tasks -> PCs]
    BY <1>2 DEF TypeOK, PCs, Goto, RunGates, Regate
  <2>2. gated' \in [Tasks -> 0..2] /\ sound' \subseteq Tasks /\ silent' \subseteq Tasks
    BY <1>2 DEF TypeOK, RunGates, Regate, Gate, Versions
  <2>3. UNCHANGED <<setting, status, branch, github, merges, decision>>
    BY <1>2 DEF RunGates, Regate
  <2>. QED  BY <2>1, <2>2, <2>3 DEF TypeOK, setting, branch, github, merges
<1>3. ASSUME NEW t \in Tasks, Healed(t) \/ NotHealed(t) PROVE TypeOK'
  <2>1. pc' \in [Tasks -> PCs]
    BY <1>3 DEF TypeOK, PCs, Goto, Healed, NotHealed
  <2>2. head' \in [Tasks -> Versions] /\ risky' \in [Tasks -> SUBSET Versions]
    <3>1. ASSUME FixerCommits(t)
          PROVE  head' \in [Tasks -> Versions] /\ risky' \in [Tasks -> SUBSET Versions]
      <4>1. head' \in [Tasks -> Versions]
        BY <3>1 DEF TypeOK, FixerCommits, Versions
      <4>2. PICK high \in SUBSET {2} : risky' = [risky EXCEPT ![t] = risky[t] \cup high]
        BY <3>1, Zenon DEF FixerCommits
      <4>3. risky[t] \cup high \in SUBSET Versions
        <5>1. risky[t] \subseteq Versions
          BY DEF TypeOK
        <5>2. 2 \in Versions
          BY DEF Versions
        <5>. QED  BY <5>1, <5>2
      <4>. QED  BY <4>1, <4>2, <4>3 DEF TypeOK
    <3>. QED  BY <1>3, <3>1 DEF Healed, NotHealed, branch, TypeOK
  <2>3. UNCHANGED <<setting, status, github, gates, merges, decision>>
    BY <1>3 DEF Healed, NotHealed
  <2>. QED  BY <2>1, <2>2, <2>3 DEF TypeOK, setting, github, gates, merges
<1>4. ASSUME NEW t \in Tasks, Assess(t) PROVE TypeOK'
  <2>1. pc' \in [Tasks -> PCs]
    BY <1>4 DEF TypeOK, PCs, Goto, Assess, Finisher
  <2>2. decision' \in [Tasks -> Decisions \cup {None}]
    BY <1>4 DEF TypeOK, Assess, Finisher, Decision, Decisions
  <2>3. UNCHANGED <<setting, status, branch, github, gates, merges>>
    BY <1>4 DEF Assess, Finisher
  <2>. QED  BY <2>1, <2>2, <2>3 DEF TypeOK, setting, branch, github, gates, merges
<1>5. ASSUME NEW t \in Tasks, OpenRequest(t) \/ HoldRequest(t) \/ MergeRequest(t) PROVE TypeOK'
  <2>1. pc' \in [Tasks -> PCs] /\ pr' \in [Tasks -> {"none", "open", "merged"}]
    BY <1>5 DEF TypeOK, PCs, Goto, OpenRequest, HoldRequest, MergeRequest
  <2>2. base' \in [Tasks -> 0..2] /\ labelled' \subseteq Tasks
    BY <1>5 DEF TypeOK, OpenRequest, HoldRequest, MergeRequest, Versions, merges
  <2>3. UNCHANGED <<setting, status, branch, ci, openMerge, gates, decision>>
    BY <1>5 DEF OpenRequest, HoldRequest, MergeRequest, merges
  <2>. QED  BY <2>1, <2>2, <2>3 DEF TypeOK, setting, branch, gates
<1>6. ASSUME NEW t \in Tasks, MergeLocally(t) \/ MergeClashes(t) PROVE TypeOK'
  <2>1. pc' \in [Tasks -> PCs]
    BY <1>6 DEF TypeOK, PCs, Goto, MergeLocally, MergeClashes
  <2>2. base' \in [Tasks -> 0..2] /\ openMerge' \in Tasks \cup {None}
    BY <1>6 DEF TypeOK, MergeLocally, MergeClashes, Versions
  <2>3. UNCHANGED <<setting, status, branch, github, gates, decision>>
    BY <1>6 DEF MergeLocally, MergeClashes
  <2>. QED  BY <2>1, <2>2, <2>3 DEF TypeOK, setting, branch, github, gates
<1>7. ASSUME NEW t \in Tasks, CIProceeds(t) PROVE TypeOK'
  <2>1. ci' \in [Tasks -> {"none", "running", "green", "red"}]
    BY <1>7 DEF TypeOK, CIProceeds
  <2>2. UNCHANGED <<setting, status, pc, branch, pr, labelled, gates, merges, decision>>
    BY <1>7 DEF CIProceeds
  <2>. QED  BY <2>1, <2>2 DEF TypeOK, setting, branch, gates, merges
<1>8. CASE UNCHANGED vars
  BY <1>8 DEF vars, TypeOK
<1>. QED  BY <1>1, <1>2, <1>3, <1>4, <1>5, <1>6, <1>7, <1>8 DEF Next, Step

\* A gate run: the task goes on to be assessed only if no check has failed.
LEMMA GatedTask ==
    ASSUME TypeOK, NEW o \in Tasks, TaskInv(o), NEW t \in Tasks, NEW run,
           NEW from \in {"gate", "regate"}, NEW to \in {"failed", "refused"},
           Gate(t, run), Goto(t, from, IF run.passed THEN "assess" ELSE to),
           UNCHANGED <<setting, status, branch, github, merges, decision>>
    PROVE  TaskInv(o)'
<1>. USE DEF TypeOK, Goto, branch, github, merges, Gate
<1>1. CASE o # t
  <2>1. SameTask(o)
    BY <1>1 DEF SameTask
  <2>. QED  BY <2>1, OtherTasks
<1>2. CASE o = t
  <2>1. /\ gated'[t] = head'[t] /\ pc'[t] = IF run.passed THEN "assess" ELSE to
        /\ run.passed => t \in sound'
    BY <1>2
  <2>2. pc[t] \in Gating
    BY DEF Gating
  <2>. QED  BY <1>2, <2>1, <2>2, PipelineAssumption
            DEF Decisions, TaskInv, DecidedInv, MergeInv, RequestInv, RowInv, Gating, Finishing
<1>. QED  BY <1>1, <1>2

\* A healing run: nothing is decided about the task yet.
LEMMA HealedTask ==
    ASSUME TypeOK, NEW o \in Tasks, TaskInv(o), NEW t \in Tasks, NEW to \in {"regate", "refused"},
           FixerCommits(t), Goto(t, "failed", to),
           UNCHANGED <<setting, status, github, gates, merges, decision>>
    PROVE  TaskInv(o)'
<1>. USE DEF TypeOK, Goto, github, gates, merges
<1>1. CASE o # t
  <2>1. head'[o] = head[o] /\ risky'[o] = risky[o]
    <3>1. PICK high \in SUBSET {2} : risky' = [risky EXCEPT ![t] = risky[t] \cup high]
      BY Zenon DEF FixerCommits
    <3>. QED  BY <1>1, <3>1 DEF FixerCommits
  <2>2. SameTask(o)
    BY <1>1, <2>1 DEF SameTask
  <2>. QED  BY <2>2, OtherTasks
<1>2. CASE o = t
  BY <1>2, PipelineAssumption DEF Decisions, TaskInv, DecidedInv, MergeInv, RequestInv, RowInv, Gating, Finishing
<1>. QED  BY <1>1, <1>2

\* Every step keeps the invariant of every task.
LEMMA TaskStep == IInv /\ [Next]_vars => \A t \in Tasks : TaskInv(t)'
<1>. SUFFICES ASSUME IInv, [Next]_vars, NEW o \in Tasks PROVE TaskInv(o)'
  OBVIOUS
<1>. TypeOK /\ TaskInv(o)
  BY DEF IInv
<1>. USE DEF TypeOK, Goto, SetStatus, setting, branch, github, gates, merges,
             TaskInv, DecidedInv, MergeInv, RequestInv, RowInv, Gating, Finishing
<1>1. ASSUME NEW t \in Tasks, StartGating(t) \/ DoNotHeal(t) \/ BeginHealing(t)
      PROVE  TaskInv(o)'
  BY <1>1 DEF StartGating, DoNotHeal, BeginHealing
<1>2. ASSUME NEW t \in Tasks, RunGates(t) PROVE TaskInv(o)'
  <2>1. PICK run \in GateRuns :
            Gate(t, run) /\ Goto(t, "gate", IF run.passed THEN "assess" ELSE "failed")
    BY <1>2 DEF RunGates
  <2>2. UNCHANGED <<setting, status, branch, github, merges, decision>>
    BY <1>2 DEF RunGates
  <2>. QED  BY <2>1, <2>2, GatedTask
<1>3. ASSUME NEW t \in Tasks, Regate(t) PROVE TaskInv(o)'
  <2>1. PICK run \in GateRuns :
            Gate(t, run) /\ Goto(t, "regate", IF run.passed THEN "assess" ELSE "refused")
    BY <1>3 DEF Regate
  <2>2. UNCHANGED <<setting, status, branch, github, merges, decision>>
    BY <1>3 DEF Regate
  <2>. QED  BY <2>1, <2>2, GatedTask
<1>4. ASSUME NEW t \in Tasks, Healed(t) PROVE TaskInv(o)'
  BY <1>4, HealedTask DEF Healed
<1>5. ASSUME NEW t \in Tasks, NotHealed(t) PROVE TaskInv(o)'
  <2>1. CASE FixerCommits(t)
    BY <1>5, <2>1, HealedTask DEF NotHealed
  <2>2. CASE UNCHANGED branch
    BY <1>5, <2>2 DEF NotHealed
  <2>. QED  BY <1>5, <2>1, <2>2 DEF NotHealed
<1>6. ASSUME NEW t \in Tasks, Block(t) PROVE TaskInv(o)'
  BY <1>6 DEF Block
<1>7. ASSUME NEW t \in Tasks, Assess(t) PROVE TaskInv(o)'
  BY <1>7 DEF Assess, Finisher, Decision
<1>8. ASSUME NEW t \in Tasks, OpenRequest(t) \/ MarkOpen(t) PROVE TaskInv(o)'
  BY <1>8 DEF OpenRequest, MarkOpen
<1>9. ASSUME NEW t \in Tasks, HoldRequest(t) \/ LeaveRequest(t) \/ HoldLocally(t)
      PROVE  TaskInv(o)'
  BY <1>9 DEF HoldRequest, LeaveRequest, HoldLocally
<1>10. ASSUME NEW t \in Tasks, MergeRequest(t) PROVE TaskInv(o)'
  BY <1>10 DEF MergeRequest, Versions
<1>11. ASSUME NEW t \in Tasks, MergeLocally(t) PROVE TaskInv(o)'
  BY <1>11 DEF MergeLocally, Versions
<1>12. ASSUME NEW t \in Tasks, MergeClashes(t) PROVE TaskInv(o)'
  BY <1>12 DEF MergeClashes
<1>13. ASSUME NEW t \in Tasks, RecordMerge(t) PROVE TaskInv(o)'
  BY <1>13 DEF RecordMerge
<1>14. ASSUME NEW t \in Tasks, Fail(t) \/ CIProceeds(t) PROVE TaskInv(o)'
  BY <1>14 DEF Fail, CIProceeds
<1>15. CASE UNCHANGED vars
  BY <1>15 DEF vars
<1>. QED
  BY <1>1, <1>2, <1>3, <1>4, <1>5, <1>6, <1>7, <1>8, <1>9, <1>10, <1>11, <1>12,
     <1>13, <1>14, <1>15 DEF Next, Step
-----------------------------------------------------------------------------
(* The life of a task row: MergePipeline implements TaskLife.tla.          *)

\* The pipeline of a task goes on or ends.
LEMMA RunsOn ==
    ASSUME TypeOK, NEW t \in Tasks, t \in Running, NEW to, pc' = [pc EXCEPT ![t] = to]
    PROVE  Running' = IF to \in {"done", "raised"} THEN Running \ {t} ELSE Running
BY DEF TypeOK, Running

\* TaskLife's Advance: the pipeline writes the next status.
LEMMA LifeAdvance ==
    ASSUME TypeOK, NEW t \in Tasks, t \in Running,
           NEW s, SetStatus(t, s), status[t] \in DOMAIN Life!Onward, s \in Life!Onward[status[t]],
           NEW to, pc' = [pc EXCEPT ![t] = to]
    PROVE  Life!Next
<1>1. Life!Advance(t)
  BY RunsOn DEF Life!Advance, SetStatus
<1>. QED  BY <1>1 DEF Life!Next

\* TaskLife's Leave: the pipeline ends without a word.
LEMMA LifeLeave ==
    ASSUME TypeOK, NEW t \in Tasks, t \in Running, NEW to \in {"done", "raised"},
           pc' = [pc EXCEPT ![t] = to], UNCHANGED status
    PROVE  Life!Next
<1>1. Life!Leave(t)
  BY RunsOn DEF Life!Leave
<1>. QED  BY <1>1 DEF Life!Next

\* Every step is a step in the life of a task, or none.
LEMMA LifeStep == IInv /\ [Next]_vars => [Life!Next]_(Life!vars)
<1>. SUFFICES ASSUME IInv, [Next]_vars PROVE UNCHANGED <<status, Running>> \/ Life!Next
  BY DEF Life!vars
<1>. TypeOK /\ \A t \in Tasks : TaskInv(t)
  BY DEF IInv
<1>. USE DEF Goto, TaskInv, RowInv
<1>1. ASSUME NEW t \in Tasks, pc[t] \notin {"done", "raised"} PROVE t \in Running
  BY <1>1 DEF Running
<1>2. ASSUME NEW t \in Tasks,
             RunGates(t) \/ DoNotHeal(t) \/ Healed(t) \/ NotHealed(t) \/ Regate(t)
             \/ Assess(t) \/ OpenRequest(t) \/ MergeRequest(t) \/ MergeLocally(t)
      PROVE  UNCHANGED <<status, Running>>
  <2>1. t \in Running /\ UNCHANGED status
    BY <1>1, <1>2 DEF RunGates, DoNotHeal, Healed, NotHealed, Regate, Assess, OpenRequest,
       MergeRequest, MergeLocally
  <2>2. PICK to : pc' = [pc EXCEPT ![t] = to] /\ to \notin {"done", "raised"}
    BY <1>2 DEF RunGates, DoNotHeal, Healed, NotHealed, Regate, Assess, Finisher, OpenRequest,
       MergeRequest, MergeLocally
  <2>. QED  BY <2>1, <2>2, RunsOn
<1>3. ASSUME NEW t \in Tasks, HoldRequest(t) \/ LeaveRequest(t) \/ MergeClashes(t) \/ Fail(t)
      PROVE  Life!Next
  <2>1. t \in Running /\ UNCHANGED status
    BY <1>1, <1>3 DEF HoldRequest, LeaveRequest, MergeClashes, Fail
  <2>. QED  BY <1>3, <2>1, LifeLeave DEF HoldRequest, LeaveRequest, MergeClashes, Fail
<1>4. ASSUME NEW t \in Tasks, StartGating(t) PROVE Life!Next
  <2>1. t \in Running /\ status[t] = "integrating"
    BY <1>1, <1>4 DEF StartGating
  <2>2. status[t] \in DOMAIN Life!Onward /\ "gating" \in Life!Onward[status[t]]
    BY <2>1 DEF Life!Onward
  <2>. QED  BY <1>4, <2>1, <2>2, LifeAdvance DEF StartGating
<1>5. ASSUME NEW t \in Tasks, BeginHealing(t) PROVE Life!Next
  <2>1. t \in Running /\ status[t] = "gating" /\ pc' = [pc EXCEPT ![t] = pc[t]]
    BY <1>1, <1>5 DEF BeginHealing, TypeOK
  <2>2. status[t] \in DOMAIN Life!Onward /\ "healing" \in Life!Onward[status[t]]
    BY <2>1 DEF Life!Onward
  <2>. QED  BY <1>5, <2>1, <2>2, LifeAdvance DEF BeginHealing
<1>6. ASSUME NEW t \in Tasks, NEW s \in {"blocked", "pr_open"}, SetStatus(t, s),
             Block(t) \/ MarkOpen(t) \/ HoldLocally(t)
      PROVE  Life!Next
  <2>1. t \in Running /\ status[t] \in {"gating", "healing"}
    BY <1>1, <1>6 DEF Block, MarkOpen, HoldLocally
  <2>2. status[t] \in DOMAIN Life!Onward /\ s \in Life!Onward[status[t]]
    BY <2>1 DEF Life!Onward
  <2>. QED  BY <1>6, <2>1, <2>2, LifeAdvance DEF Block, MarkOpen, HoldLocally
<1>7. ASSUME NEW t \in Tasks, RecordMerge(t) PROVE Life!Next
  <2>1. t \in Running /\ status[t] \in {"gating", "healing", "pr_open"}
    BY <1>1, <1>7 DEF RecordMerge
  <2>2. status[t] \in DOMAIN Life!Onward /\ "merged" \in Life!Onward[status[t]]
    BY <2>1 DEF Life!Onward
  <2>. QED  BY <1>7, <2>1, <2>2, LifeAdvance DEF RecordMerge
<1>8. ASSUME NEW t \in Tasks, CIProceeds(t) PROVE UNCHANGED <<status, Running>>
  BY <1>8 DEF CIProceeds, Running
<1>9. CASE UNCHANGED vars
  BY <1>9 DEF vars, Running
<1>. QED
  BY <1>2, <1>3, <1>4, <1>5, <1>6, <1>7, <1>8, <1>9
  DEF Next, Step, Block, MarkOpen, HoldLocally
-----------------------------------------------------------------------------
\* A task starts undecided and unmerged.
LEMMA Initially == Init => IInv
<1>. SUFFICES ASSUME Init PROVE IInv
  OBVIOUS
<1>1. /\ remote \in BOOLEAN /\ onBase \in BOOLEAN
      /\ openMerge \in Tasks \cup {None}
      /\ labelled \subseteq Tasks /\ sound \subseteq Tasks
      /\ silent \subseteq Tasks
  <2>1. onBase \in BOOLEAN
    BY Zenon DEF Init
  <2>2. remote \in BOOLEAN
    BY Zenon DEF Init
  <2>. QED  BY <2>1, <2>2 DEF Init
<1>2. /\ status \in [Tasks -> Statuses]
      /\ pc \in [Tasks -> PCs] /\ head \in [Tasks -> Versions]
      /\ decision \in [Tasks -> Decisions \cup {None}]
  BY DEF Init, PCs, Statuses, Versions
<1>3. /\ gated \in [Tasks -> 0..2] /\ base \in [Tasks -> 0..2]
      /\ pr \in [Tasks -> {"none", "open", "merged"}]
      /\ ci \in [Tasks -> {"none", "running", "green", "red"}]
  BY DEF Init
<1>4. risky \in [Tasks -> SUBSET Versions]
  BY DEF Init, Versions
<1>5. ASSUME NEW t \in Tasks PROVE TaskInv(t)
  BY PipelineAssumption
  DEF Init, Decisions, TaskInv, DecidedInv, MergeInv, RequestInv, RowInv, Gating, Finishing
<1>. QED  BY <1>1, <1>2, <1>3, <1>4, <1>5 DEF IInv, TypeOK

\* The inductive invariant holds.
LEMMA Invariance == Spec => []IInv
<1>1. IInv /\ [Next]_vars => IInv'
  BY TypeStep, TaskStep DEF IInv
<1>. QED  BY Initially, <1>1, PTL DEF Spec

\* The state of the pipeline is well typed.
THEOREM TypeCorrect == Spec => []TypeOK
BY Invariance, PTL DEF IInv

\* "High-risk merges never auto-merge" (CONTRACT.md:49): _finish_remote and
\* _finish_local merge no version whose diff assess_risk calls high-risk.
THEOREM NoRiskIsMerged == Spec => []HighRiskNotMerged
<1>1. IInv => HighRiskNotMerged
  BY DEF IInv, TypeOK, TaskInv, DecidedInv, MergeInv, HighRiskNotMerged
<1>. QED  BY Invariance, <1>1, PTL

\* gate_and_merge merges the version its last gate run has passed, healed or not.
THEOREM MergedIsGated == Spec => []MergedPassedGates
<1>1. IInv => MergedPassedGates
  BY DEF IInv, TypeOK, TaskInv, DecidedInv, MergeInv, MergedPassedGates
<1>. QED  BY Invariance, <1>1, PTL

\* The task row gate_and_merge writes is true of the base branch and of GitHub.
THEOREM StatusIsTrue == Spec => []StatusTellsTruth
<1>1. IInv => StatusTellsTruth
  BY DEF IInv, TypeOK, TaskInv, MergeInv, RequestInv, RowInv, StatusTellsTruth
<1>. QED  BY Invariance, <1>1, PTL

\* gate_and_merge implements TaskLife.tla: from GATING on it takes the row of
\* its task forward only, and leaves it alone once it has returned or raised.
THEOREM PipelineLives == Spec => LifeSpec
<1>1. Init => Life!Init
  BY DEF Init, Life!Init, Running
<1>. QED  BY <1>1, Invariance, LifeStep, PTL DEF Spec, LifeSpec, Life!Spec
-----------------------------------------------------------------------------
\* How many steps the pipeline of a task may still take: every stage has its
\* place, and the second gate run one after healing.
StepsLeft(t) ==
    CASE pc[t] = "start" -> 10
      [] pc[t] = "gate" -> 9
      [] pc[t] = "failed" -> IF status[t] = "healing" THEN 7 ELSE 8
      [] pc[t] = "regate" -> 6
      [] pc[t] = "assess" -> 5
      [] pc[t] \in {"push", "merge"} -> 4
      [] pc[t] = "opened" -> 3
      [] pc[t] = "marked" -> 2
      [] pc[t] \in {"merged", "refused"} -> 1
      [] OTHER -> 0

\* A task that is moved has fewer steps left.
Forward == \A t \in Tasks : UNCHANGED <<pc[t], status[t]>> \/ StepsLeft(t)' < StepsLeft(t)

\* Every step of a task moves it, and forward.
LEMMA ForwardStep ==
    ASSUME IInv, NEW t \in Tasks, Step(t) \/ Fail(t)
    PROVE  StepsLeft(t)' < StepsLeft(t) /\ Forward
<1>1. /\ status \in [Tasks -> Statuses] /\ pc \in [Tasks -> PCs] /\ RowInv(t)
      /\ pc[t] \in PCs
  BY DEF IInv, TypeOK, TaskInv
<1>2. StepsLeft(t)' < StepsLeft(t)
  <2>1. CASE \/ StartGating(t) \/ RunGates(t) \/ DoNotHeal(t) \/ Healed(t) \/ NotHealed(t)
             \/ Regate(t) \/ Block(t)
    BY <1>1, <2>1 DEF StartGating, RunGates, DoNotHeal, Healed, NotHealed, Regate, Block,
       Goto, StepsLeft
  <2>2. CASE BeginHealing(t)
    BY <1>1, <2>2 DEF BeginHealing, SetStatus, StepsLeft
  <2>3. CASE \/ Assess(t) \/ OpenRequest(t) \/ MarkOpen(t) \/ HoldRequest(t) \/ LeaveRequest(t)
             \/ MergeRequest(t) \/ HoldLocally(t) \/ MergeLocally(t) \/ MergeClashes(t)
             \/ RecordMerge(t)
    BY <1>1, <2>3 DEF Assess, Finisher, OpenRequest, MarkOpen, HoldRequest, LeaveRequest,
       MergeRequest, HoldLocally, MergeLocally, MergeClashes, RecordMerge, Goto, StepsLeft
  <2>4. CASE Fail(t)
    BY <1>1, <2>4 DEF Fail, StepsLeft, PCs
  <2>. QED  BY <2>1, <2>2, <2>3, <2>4 DEF Step
<1>3. \A s \in Tasks \ {t} : UNCHANGED <<pc[s], status[s]>>
  BY <1>1 DEF Step, Fail, Goto, SetStatus, StartGating, RunGates, DoNotHeal, BeginHealing,
     Healed, NotHealed, Regate, Block, Assess, OpenRequest, MarkOpen, HoldRequest,
     LeaveRequest, MergeRequest, HoldLocally, MergeLocally, MergeClashes, RecordMerge
<1>. QED  BY <1>2, <1>3 DEF Forward

\* Why gate_and_merge ends: it goes through its stages in their order, gates a
\* branch twice at most and has it healed once at most, whatever gates,
\* fixer, reviewer and GitHub answer.
THEOREM PipelineForward == Spec => [][Forward]_vars
<1>1. IInv /\ [Next]_vars => [Forward]_vars
  <2>. SUFFICES ASSUME IInv, Next PROVE Forward
    BY DEF vars
  <2>1. PICK t \in Tasks : Step(t) \/ Fail(t) \/ CIProceeds(t)
    BY DEF Next
  <2>2. CASE CIProceeds(t)
    BY <2>2 DEF CIProceeds, Forward
  <2>. QED  BY <2>1, <2>2, ForwardStep
<1>. QED  BY Invariance, <1>1, PTL DEF Spec
-----------------------------------------------------------------------------
(* The verdict of a gate run, whatever tool runs its checks consist of. *)

Verdict(runs) == Passed([c \in Enabled |-> Judge(c, runs[c])])

\* A check fails if and only if one of its tool runs does.
LEMMA JudgeFails ==
    ASSUME NEW c, NEW runs
    PROVE  /\ Judge(c, runs) \in {"pass", "fail", "skip"}
           /\ Judge(c, runs) = "fail" <=> \E r \in DOMAIN runs : JudgeRun(c, runs[r]) = "fail"
BY DEF Judge, PassIf

\* GateReport.passed says that no tool run of an enabled check failed: no run
\* that passes, or is skipped, makes up for one that fails.
LEMMA PassedIsNoFailure ==
    ASSUME NEW runs
    PROVE  Verdict(runs) <=> \A c \in Enabled : \A r \in DOMAIN runs[c] :
                                 JudgeRun(c, runs[c][r]) # "fail"
<1>1. Verdict(runs) <=> \A c \in Enabled : Judge(c, runs[c]) \in {"pass", "skip"}
  BY DEF Verdict, Passed
<1>2. \A c \in Enabled : Judge(c, runs[c]) \in {"pass", "skip"} <=> Judge(c, runs[c]) # "fail"
  BY JudgeFails
<1>. QED  BY <1>1, <1>2, JudgeFails

\* The gates do not pass what a tool objects to: a command of a check that is
\* decided by its exit status and fails, or a report of findings that can be read
\* (from an agent or coverage, only if its run ended well).
THEOREM ObjectionIsHeard ==
    ASSUME NEW runs, NEW c \in Enabled, NEW r \in DOMAIN runs[c], runs[c][r].started,
           \/ c \in ExitChecks /\ ~runs[c][r].ok
           \/ c \in JsonChecks \cup {"gitleaks"} /\ runs[c][r].says = "findings"
           \/ c \in {"coverage", "llm_review"} /\ runs[c][r].ok /\ runs[c][r].says = "findings"
    PROVE  ~Verdict(runs)
<1>1. JudgeRun(c, runs[c][r]) = "fail"
  BY DEF JudgeRun, JudgeExit, JudgeJson, JudgeGitleaks, JudgeAnswer, Usable, PassIf,
         ExitChecks, JsonChecks
<1>. QED  BY <1>1, PassedIsNoFailure
=============================================================================
