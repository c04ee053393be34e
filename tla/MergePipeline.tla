--------------------------- MODULE MergePipeline ---------------------------
(***************************************************************************)
(* Pipeline.gate_and_merge (factory/pipeline.py): the integration branch   *)
(* of a task goes through gates, healing, review and risk assessment, and  *)
(* ends up merged, held for a human, or blocked.                           *)
(*                                                                         *)
(* Tasks are run by processes of their own; they share the main checkout,  *)
(* the base branch and the GitHub repository.  A branch has a version, 1   *)
(* as integrated and 2 with what the fixer committed on it.                *)
(***************************************************************************)
EXTENDS Naturals, Gates

CONSTANTS
    Tasks,
    None,
    Enabled,        \* the checks factory.yaml enables
    Detected,       \* language profiles of the project
    Configured,     \* sandbox.mode
    DockerAnswers   \* the docker daemon is up

Decisions == {"auto_merge", "needs_human"}

ASSUME PipelineAssumption ==
    /\ None \notin Tasks \cup Decisions
    /\ Enabled \subseteq Checks
    /\ Configured = "docker" => DockerAnswers

Versions == 1..2

VARIABLES
    remote,     \* GitHub is configured
    onBase,     \* the main checkout has the base branch checked out
    status,     \* status[t]: the task row
    pc,
    head,       \* head[t]: version of t's integration branch
    risky,      \* risky[t]: versions with a high-risk diff
    gated,      \* gated[t]: version of the last gate run
    decision,   \* decision[t]: merge_decision, or None
    pr,         \* pr[t]: t's pull request
    labelled,   \* pull requests with the needs-human label
    ci,         \* ci[t]: the checks GitHub shows on t's pull request
    base,       \* base[t]: version of t merged into the base branch, or 0
    openMerge,  \* task whose conflicting merge is open in the main checkout
    \* history:
    sound,      \* tasks whose last gate run had no failing check
    silent      \* tasks with a check that passed without one of its tools

vars == <<remote, onBase, status, pc, head, risky, gated, decision, pr, labelled,
          ci, base, openMerge, sound, silent>>
setting == <<remote, onBase>>
branch == <<head, risky>>
github == <<pr, labelled, ci>>
gates == <<gated, sound, silent>>
merges == <<base, openMerge>>

PCs == {"start", "gate", "failed", "regate", "refused", "assess", "push", "opened", "marked",
        "merge", "merged", "done", "raised"}
Statuses == {"integrating", "gating", "healing", "blocked", "pr_open", "merged"}

TypeOK ==
    /\ remote \in BOOLEAN /\ onBase \in BOOLEAN
    /\ status \in [Tasks -> Statuses]
    /\ pc \in [Tasks -> PCs]
    /\ head \in [Tasks -> Versions]
    /\ risky \in [Tasks -> SUBSET Versions]
    /\ gated \in [Tasks -> 0..2]
    /\ decision \in [Tasks -> Decisions \cup {None}]
    /\ pr \in [Tasks -> {"none", "open", "merged"}]
    /\ labelled \subseteq Tasks
    /\ ci \in [Tasks -> {"none", "running", "green", "red"}]
    /\ base \in [Tasks -> 0..2]
    /\ openMerge \in Tasks \cup {None}
    /\ sound \subseteq Tasks /\ silent \subseteq Tasks

Init ==
    /\ remote \in BOOLEAN
    /\ onBase \in {TRUE, remote}   \* immaterial if remote
    /\ status = [t \in Tasks |-> "integrating"]   \* as run_task leaves it
    /\ pc = [t \in Tasks |-> "start"]
    /\ head = [t \in Tasks |-> 1]
    /\ risky \in [Tasks -> SUBSET {1}]
    /\ gated = [t \in Tasks |-> 0]
    /\ decision = [t \in Tasks |-> None]
    /\ pr = [t \in Tasks |-> "none"]
    /\ labelled = {}
    /\ ci = [t \in Tasks |-> "none"]
    /\ base = [t \in Tasks |-> 0]
    /\ openMerge = None
    /\ sound = {} /\ silent = {}
-----------------------------------------------------------------------------
Goto(t, from, to) == pc[t] = from /\ pc' = [pc EXCEPT ![t] = to]
SetStatus(t, s) == status' = [status EXCEPT ![t] = s]

\* gate_and_merge begins.
StartGating(t) ==
    /\ Goto(t, "start", "gate")
    /\ SetStatus(t, "gating")
    /\ UNCHANGED <<setting, branch, github, gates, merges, decision>>

\* The ways a check can end, and a gate run: whether no check failed, and
\* whether one is reported as passed though a tool of it is not installed.
Mode == SandboxMode(Configured, DockerAnswers)
CheckEnds(c) ==
    LET needs == Needs(c, Detected)
        runs(tool) == {f \in [needs -> {NotStarted} \cup Ended] :
                           \A n \in needs : f[n] \in Runs(Mode, tool[n])}
    IN  UNION {{[result |-> Judge(c, run), complete |-> \A n \in needs : tool[n] # "missing"] :
                    run \in runs(tool)} : tool \in [needs -> Tools]}
Reports == {f \in [Enabled -> UNION {CheckEnds(c) : c \in Enabled}] :
                \A c \in Enabled : f[c] \in CheckEnds(c)}
GateRuns ==
    {[passed |-> Passed([c \in Enabled |-> report[c].result]),
      silent |-> \E c \in Enabled : report[c].result = "pass" /\ ~report[c].complete] :
        report \in Reports}

\* _run_gates in a fresh worktree of the branch.
Gate(t, run) ==
    /\ gated' = [gated EXCEPT ![t] = head[t]]
    /\ sound' = IF run.passed THEN sound \cup {t} ELSE sound \ {t}
    /\ silent' = IF run.silent THEN silent \cup {t} ELSE silent \ {t}

RunGates(t) ==
    /\ \E run \in GateRuns :
        /\ Gate(t, run)
        /\ Goto(t, "gate", IF run.passed THEN "assess" ELSE "failed")
    /\ UNCHANGED <<setting, status, branch, github, merges, decision>>

\* No healer, or healing is disabled.
DoNotHeal(t) ==
    /\ Goto(t, "failed", "refused")
    /\ UNCHANGED <<setting, status, branch, github, gates, merges, decision>>

BeginHealing(t) ==
    /\ pc[t] = "failed" /\ status[t] = "gating"
    /\ SetStatus(t, "healing")
    /\ UNCHANGED <<setting, pc, branch, github, gates, merges, decision>>

\* The fixer commits a version, of high risk or not.
FixerCommits(t) ==
    /\ head' = [head EXCEPT ![t] = 2]
    /\ \E high \in SUBSET {2} : risky' = [risky EXCEPT ![t] = @ \cup high]

\* Wrong: what the fixer committed is not gated again.
HealedIsGood(t) ==
    /\ status[t] = "healing"
    /\ Goto(t, "failed", "assess")
    /\ FixerCommits(t)
    /\ UNCHANGED <<setting, status, github, gates, merges, decision>>

\* Wrong: healing is repeated as long as the gates fail.
HealedGatesAgain(t) ==
    /\ status[t] = "healing"
    /\ Goto(t, "failed", "gate")
    /\ FixerCommits(t)
    /\ UNCHANGED <<setting, status, github, gates, merges, decision>>

\* The fixer has committed and its run is ok.
Healed(t) ==
    /\ status[t] = "healing"
    /\ Goto(t, "failed", "regate")
    /\ FixerCommits(t)
    /\ UNCHANGED <<setting, status, github, gates, merges, decision>>

\* Healing is suppressed, or the run fails; it may have committed before.
NotHealed(t) ==
    /\ status[t] = "healing"
    /\ Goto(t, "failed", "refused")
    /\ FixerCommits(t) \/ UNCHANGED branch
    /\ UNCHANGED <<setting, status, github, gates, merges, decision>>

Regate(t) ==
    /\ \E run \in GateRuns :
        /\ Gate(t, run)
        /\ Goto(t, "regate", IF run.passed THEN "assess" ELSE "refused")
    /\ UNCHANGED <<setting, status, branch, github, merges, decision>>

\* "gates failed after self-heal".
Block(t) ==
    /\ Goto(t, "refused", "done")
    /\ SetStatus(t, "blocked")
    /\ UNCHANGED <<setting, branch, github, gates, merges, decision>>

\* assess_risk and merge_decision: the risk rules on the diff, and the
\* reviewer agent, whose failure counts as high risk.  (The rule on security
\* findings never applies: a branch with one does not get here.)
Decision(diffIsRisky, reviewerRisk, autoMerge) ==
    IF diffIsRisky \/ reviewerRisk = "high" \/ ~autoMerge
      THEN "needs_human" ELSE "auto_merge"

\* _github_available.
Finisher == IF remote THEN "push" ELSE "merge"

\* Wrong: the diff taken before healing is assessed.
AssessFirstVersion(t) ==
    /\ Goto(t, "assess", Finisher)
    /\ \E risk \in {"low", "high"}, autoMerge \in BOOLEAN :
        decision' = [decision EXCEPT ![t] = Decision(1 \in risky[t], risk, autoMerge)]
    /\ UNCHANGED <<setting, status, branch, github, gates, merges>>

Assess(t) ==
    /\ Goto(t, "assess", Finisher)
    /\ \E risk \in {"low", "high"}, autoMerge \in BOOLEAN :
        decision' = [decision EXCEPT ![t] = Decision(head[t] \in risky[t], risk, autoMerge)]
    /\ UNCHANGED <<setting, status, branch, github, gates, merges>>

\* _finish_remote: push and create_pr, ...
OpenRequest(t) ==
    /\ Goto(t, "push", "opened")
    /\ pr' = [pr EXCEPT ![t] = "open"]
    /\ UNCHANGED <<setting, status, branch, labelled, ci, gates, merges, decision>>

\* ... then the status.
MarkOpen(t) ==
    /\ Goto(t, "opened", "marked")
    /\ SetStatus(t, "pr_open")
    /\ UNCHANGED <<setting, branch, github, gates, merges, decision>>

\* Wrong: the label is forgotten.
HoldUnlabelled(t) ==
    /\ decision[t] = "needs_human"
    /\ Goto(t, "marked", "done")
    /\ UNCHANGED <<setting, status, branch, github, gates, merges, decision>>

\* Held for human review: the label.
HoldRequest(t) ==
    /\ decision[t] = "needs_human"
    /\ Goto(t, "marked", "done")
    /\ labelled' = labelled \cup {t}
    /\ UNCHANGED <<setting, status, branch, pr, ci, gates, merges, decision>>

\* pr_checks_passed: no check that is not green, and there may be none.
ChecksPassed(t) == ci[t] \in {"none", "green"}

\* CI is not green: the pull request is left as it is.
LeaveRequest(t) ==
    /\ decision[t] = "auto_merge" /\ ~ChecksPassed(t)
    /\ Goto(t, "marked", "done")
    /\ UNCHANGED <<setting, status, branch, github, gates, merges, decision>>

\* Or it is merged.
MergeRequest(t) ==
    /\ decision[t] = "auto_merge" /\ ChecksPassed(t)
    /\ Goto(t, "marked", "merged")
    /\ pr' = [pr EXCEPT ![t] = "merged"]
    /\ base' = [base EXCEPT ![t] = head[t]]
    /\ UNCHANGED <<setting, status, branch, labelled, ci, openMerge, gates, decision>>

\* _finish_local, held.
HoldLocally(t) ==
    /\ decision[t] = "needs_human"
    /\ Goto(t, "merge", "done")
    /\ SetStatus(t, "pr_open")
    /\ UNCHANGED <<setting, branch, github, gates, merges, decision>>

\* _finish_local: git merge succeeds, in the main checkout unless a merge is
\* open there, or in a temporary worktree of the base branch ...
MergeLocally(t) ==
    /\ decision[t] = "auto_merge"
    /\ onBase => openMerge = None
    /\ Goto(t, "merge", "merged")
    /\ base' = [base EXCEPT ![t] = head[t]]
    /\ UNCHANGED <<setting, status, branch, github, openMerge, gates, decision>>

\* ... or conflicts (git refuses if a merge is open), and the GitError gets
\* out of run; in the main checkout the merge stays open.
MergeClashes(t) ==
    /\ decision[t] = "auto_merge"
    /\ Goto(t, "merge", "raised")
    /\ openMerge' = IF onBase /\ openMerge = None THEN t ELSE openMerge
    /\ UNCHANGED <<setting, status, branch, github, base, gates, decision>>

RecordMerge(t) ==
    /\ Goto(t, "merged", "done")
    /\ SetStatus(t, "merged")
    /\ UNCHANGED <<setting, branch, github, gates, merges, decision>>

\* Wrong: an exception is turned into a status, whatever was there.
FailBlocks(t) ==
    /\ pc[t] \notin {"done", "raised"}
    /\ pc' = [pc EXCEPT ![t] = "raised"]
    /\ SetStatus(t, "blocked")
    /\ UNCHANGED <<setting, branch, github, gates, merges, decision>>

\* A git, GitHub or agent call raises, or the process is killed: whatever the
\* status was, it stays.
Fail(t) ==
    /\ pc[t] \notin {"done", "raised"}
    /\ pc' = [pc EXCEPT ![t] = "raised"]
    /\ UNCHANGED <<setting, status, branch, github, gates, merges, decision>>

\* Actions report checks on a pull request, some time after it was opened.
CIProceeds(t) ==
    /\ pr[t] = "open"
    /\ \/ ci[t] = "none" /\ ci' = [ci EXCEPT ![t] = "running"]
       \/ ci[t] = "running" /\ \E c \in {"green", "red"} : ci' = [ci EXCEPT ![t] = c]
    /\ UNCHANGED <<setting, status, pc, branch, pr, labelled, gates, merges, decision>>

Step(t) ==
    \/ StartGating(t) \/ RunGates(t) \/ DoNotHeal(t) \/ BeginHealing(t)
    \/ Healed(t) \/ NotHealed(t) \/ Regate(t) \/ Block(t) \/ Assess(t)
    \/ OpenRequest(t) \/ MarkOpen(t) \/ HoldRequest(t) \/ LeaveRequest(t)
    \/ MergeRequest(t) \/ HoldLocally(t) \/ MergeLocally(t) \/ MergeClashes(t) \/ RecordMerge(t)

Next == \E t \in Tasks : Step(t) \/ Fail(t) \/ CIProceeds(t)

Spec == Init /\ [][Next]_vars

\* The pipeline waits for an agent: the reviewer, the fixer, or that of a check.
AgentAtWork(t) ==
    \/ pc[t] = "assess"
    \/ pc[t] = "failed" /\ status[t] = "healing"
    \/ pc[t] \in {"gate", "regate"} /\ "llm_review" \in Enabled

\* git, GitHub and the tools of the gates run under timeouts, so the pipeline
\* goes on by itself.  No timeout cuts off an agent of Cursor
\* (cursor_backend.py:42-57), so agents need not return.
FairSpec == Spec /\ \A t \in Tasks : WF_vars(Step(t) /\ ~AgentAtWork(t))
-----------------------------------------------------------------------------
(* Properties. *)

\* "High-risk merges never auto-merge" (CONTRACT.md:49): what is merged is not
\* a high-risk diff, also when the fixer has changed the branch meanwhile.
HighRiskNotMerged == \A t \in Tasks : base[t] > 0 => base[t] \notin risky[t]

\* The version merged is the one whose gates ran last, and none failed.
MergedPassedGates ==
    \A t \in Tasks : base[t] > 0 => gated[t] = base[t] /\ t \in sound

\* The task row tells what happened: a MERGED task is in the base branch, a
\* BLOCKED one is not, and a finished pipeline leaves neither a merge unrecorded
\* nor a pull request held for review without its label.
StatusTellsTruth ==
    \A t \in Tasks :
        /\ status[t] = "merged" => base[t] > 0
        /\ status[t] = "blocked" => base[t] = 0
        /\ pc[t] = "done" /\ base[t] > 0 => status[t] = "merged"
        /\ pc[t] = "done" /\ pr[t] = "open" /\ decision[t] = "needs_human" => t \in labelled

\* The row goes on in the life that TaskLife.tla gives it, from where run_task
\* leaves it: no status twice, nothing after the pipeline has ended, and what
\* is open or merged is not taken back by any way out.
Running == {t \in Tasks : pc[t] \notin {"done", "raised"}}
Life == INSTANCE TaskLife WITH First <- "integrating", row <- status, running <- Running
LifeSpec == Life!Spec

\* gate_and_merge returns or raises, as long as its agents return: healing is not
\* repeated for ever, and no pipeline waits for the merge of another one, for CI
\* or for a human.
PipelineReturns ==
    \A t \in Tasks : <>(pc[t] \in {"done", "raised"}) \/ <>[]AgentAtWork(t)

\* "let the sandbox report it missing -> SKIP" (security.py:42, of the sast
\* check; quality.py:3-5 says the same of its gate: "a SKIP (with details), not a
\* silent pass"): no check passes without its tools.
NoSilentPass == silent = {}
=============================================================================
