------------------------------- MODULE CIFix -------------------------------
(***************************************************************************)
(* How CI review turns a failure into a pull request: CIReviewer._fix      *)
(* (factory/selfheal/ci_review.py), for one failure signature.             *)
(*                                                                         *)
(* Every attempt has a branch of its own, named after the signature and    *)
(* the attempt number of the heal ledger, but the worktree directory is    *)
(* named after the signature alone: it is shared by all who fix it.  Two   *)
(* others come by: the start-up reconciliation of a factory process, which *)
(* removes worktrees the store does not know (these are never in it), and  *)
(* the stale_branches routine.  A review on another machine, or in a fresh *)
(* checkout as in the self-heal workflow, finds only what is on GitHub.    *)
(*                                                                         *)
(* The ledger itself is left to SelfHeal: here a backoff may pass at any   *)
(* time, and the race that is kept is the one that gives two attempts the  *)
(* same number (asking and reading the count is one step).                 *)
(***************************************************************************)
EXTENDS Naturals

CONSTANTS
    Reviewers,  \* processes that run `factory heal`
    MaxFixes,   \* selfheal.max_fix_attempts
    Strict      \* selfheal.workflow_edit_policy is "strict"

ASSUME FixAssumption ==
    MaxFixes \in Nat /\ Strict \in BOOLEAN

Attempts == 1 .. MaxFixes

\* What a fixer commits: the attempt it does so in, and whether it touches
\* .github/workflows.  What GitHub has from checkouts that are gone is of no
\* attempt, and not told apart.
Commits == [of : Attempts, workflow : BOOLEAN]
Older == [of |-> 0, workflow |-> FALSE]
WorkflowEdits(cs) == {c \in cs : c.workflow}

VARIABLES
    count,      \* attempts in the ledger
    pc, attempt, touches,   \* a reviewer's place in _fix, its number, workflow_edit
    dir,        \* the branch checked out in the shared directory, 0: it is absent
    branches, commits,      \* local branches, and what is on them
    remote,     \* what is on the branches at GitHub, {}: not pushed
    pr,         \* pr[n]: the pull request of branch n
    sweeping,   \* a reconciliation has the directory on its list
    listed,     \* a branch that stale_branches is about to delete, or 0
    \* history:
    died,       \* somebody died since the directory was last absent
    disturbed,  \* reviewers that met another one, or lost the directory to a sweep
    vetted      \* reviewers whose fix the security gate has looked at

checkout == <<dir, branches, commits>>
github == <<remote, pr>>
others == <<sweeping, listed>>
review == <<pc, attempt, touches>>
history == <<died, disturbed, vetted>>
vars == <<count, review, checkout, github, others, history>>

\* A pull request: its label, "todo" if it has none of the two yet; and, as
\* history, whether its reviewer was undisturbed and its commits were vetted.
Labels == {"none", "todo", "plain", "human"}
NoPR == [label |-> "none", calm |-> TRUE, vetted |-> FALSE]
Open(n) == pr[n].label # "none"
HasTree == {"fixing", "diff", "scan", "publish", "leave"}

TypeOK ==
    /\ count \in {0} \cup Attempts
    /\ pc \in [Reviewers -> {"idle", "record", "add"} \cup HasTree]
    /\ attempt \in [Reviewers -> {0} \cup Attempts]
    /\ touches \in [Reviewers -> BOOLEAN]
    /\ dir \in {0} \cup Attempts
    /\ branches \subseteq Attempts /\ listed \in {0} \cup Attempts
    /\ commits \in [Attempts -> SUBSET Commits] /\ remote \in [Attempts -> SUBSET (Commits \cup {Older})]
    /\ pr \in [Attempts -> [label : Labels, calm : BOOLEAN, vetted : BOOLEAN]]
    /\ sweeping \in BOOLEAN /\ died \in BOOLEAN
    /\ disturbed \subseteq Reviewers /\ vetted \subseteq Reviewers

Init ==
    /\ count = 0
    /\ pc = [r \in Reviewers |-> "idle"] /\ attempt = [r \in Reviewers |-> 0]
    /\ touches = [r \in Reviewers |-> FALSE]
    /\ dir = 0 /\ branches = {} /\ commits = [n \in Attempts |-> {}]
    /\ remote = [n \in Attempts |-> {}] /\ pr = [n \in Attempts |-> NoPR]
    /\ sweeping = FALSE /\ listed = 0
    /\ died = FALSE /\ disturbed = {} /\ vetted = {}
-----------------------------------------------------------------------------
At(r, place) == pc[r] = place
Goto(r, place) == pc' = [pc EXCEPT ![r] = place]
GotoOneOf(r, places) == \E place \in places : Goto(r, place)
Busy == {r \in Reviewers : pc[r] # "idle"}

\* _remove_worktree: it goes, whoever's it is.
RemoveDirectory == dir' = 0 /\ died' = FALSE

\* Out of _fix, by a return or an exception.
Return(r) ==
    /\ Goto(r, "idle")
    /\ attempt' = [attempt EXCEPT ![r] = 0]
    /\ touches' = [touches EXCEPT ![r] = FALSE]
    /\ vetted' = vetted \ {r}

\* Another reviewer in between is what "disturbed" is about.
Meet(r) == disturbed' = IF Busy = {} THEN {} ELSE disturbed \cup Busy \cup {r}

\* Wrong: the cap is not looked at.
AskRegardless(r) ==
    /\ At(r, "idle")
    /\ attempt' = [attempt EXCEPT ![r] = count + 1]
    /\ Goto(r, "record")
    /\ Meet(r)
    /\ UNCHANGED <<count, touches, checkout, github, others, died, vetted>>

\* ledger.allowed (if it says no, an issue is opened), and the read of
\* ledger.record ...
Ask(r) ==
    /\ At(r, "idle") /\ count < MaxFixes
    /\ attempt' = [attempt EXCEPT ![r] = count + 1]
    /\ Goto(r, "record")
    /\ Meet(r)
    /\ UNCHANGED <<count, touches, checkout, github, others, died, vetted>>

\* ... whose write is a transaction of its own.  What is left of an earlier
\* attempt, or in use in another one, is removed.
Prepare(r) ==
    /\ At(r, "record")
    /\ count' = attempt[r]
    /\ IF dir # 0 THEN RemoveDirectory ELSE UNCHANGED <<dir, died>>
    /\ Goto(r, "add")
    /\ UNCHANGED <<attempt, touches, branches, commits, github, others, disturbed, vetted>>

\* Wrong: no base is given, so the branch starts where the repository is, on an
\* earlier fix for instance.
AddTreeAtHead(r) ==
    /\ At(r, "add") /\ dir = 0 /\ attempt[r] \notin branches
    /\ dir' = attempt[r]
    /\ branches' = branches \cup {attempt[r]}
    /\ \E n \in Attempts : commits' = [commits EXCEPT ![attempt[r]] = commits[n]]
    /\ Goto(r, "fixing")
    /\ UNCHANGED <<count, attempt, touches, github, others, history>>

\* git worktree add -b <fix_branch> <fix_path> <base>.
AddTree(r) ==
    /\ At(r, "add") /\ dir = 0 /\ attempt[r] \notin branches
    /\ dir' = attempt[r]
    /\ branches' = branches \cup {attempt[r]}
    /\ Goto(r, "fixing")
    /\ UNCHANGED <<count, attempt, touches, commits, github, others, history>>

\* Wrong: when git refuses, try again.
AddTreeLater(r) ==
    /\ At(r, "add")
    /\ UNCHANGED vars

\* It fails, for one because branch or directory exist: there is nothing to
\* clean up yet.
AddFails(r) ==
    /\ At(r, "add")
    /\ Return(r)
    /\ UNCHANGED <<count, checkout, github, others, died, disturbed>>

\* The fixer's work, if it commits any, is on the branch of the directory it is
\* called in, if that exists by then.  (Its commits count as one, made at its end.)
FixerCommits(r) ==
    \/ UNCHANGED commits
    \/ /\ dir # 0
       /\ \E c \in Commits :
            c.of = attempt[r] /\ commits' = [commits EXCEPT ![dir] = @ \cup {c}]

\* It ends with result.ok, or not, or in a BackendError.
FixerEnds(r) ==
    /\ At(r, "fixing")
    /\ FixerCommits(r)
    /\ GotoOneOf(r, {"diff", "leave"})
    /\ UNCHANGED <<count, attempt, touches, dir, branches, github, others, history>>

\* The diff of base and branch decides; git fails if there is no such branch.
Diff(r) ==
    /\ At(r, "diff") /\ attempt[r] \in branches
    /\ LET edits == commits[attempt[r]]
           workflow == WorkflowEdits(edits) # {}
       IN  /\ touches' = [touches EXCEPT ![r] = workflow]
           /\ Goto(r, IF edits = {} THEN "leave" ELSE IF workflow /\ Strict THEN "scan" ELSE "publish")
    /\ UNCHANGED <<count, attempt, checkout, github, others, history>>

\* Wrong: workflow edits are published without the gate.
PublishUnscanned(r) ==
    /\ At(r, "scan")
    /\ Goto(r, "publish")
    /\ UNCHANGED <<count, attempt, touches, checkout, github, others, history>>

\* The security gate, in the directory: it looks at the fix if that is what is
\* there; it passes, or it does not.
Scan(r) ==
    /\ At(r, "scan") /\ attempt[r] \in branches
    /\ vetted' = IF dir = attempt[r] THEN vetted \cup {r} ELSE vetted
    /\ GotoOneOf(r, {"publish", "leave"})
    /\ UNCHANGED <<count, attempt, touches, checkout, github, others, died, disturbed>>

\* git push is refused if GitHub has commits of the branch that are not here.
PushAccepted(n) == n \in branches /\ remote[n] \subseteq commits[n]

\* create_pr: GitHub wants commits, and has one pull request for a branch.
\* add_labels: a GitHubError is only logged.
OpenRequest(r) ==
    LET n == attempt[r] IN
    /\ ~Open(n) /\ remote'[n] # {}
    /\ \E label \in {"todo", IF touches[r] THEN "human" ELSE "plain"} :
          pr' = [pr EXCEPT ![n] =
              [label |-> label, calm |-> r \notin disturbed, vetted |-> r \in vetted]]

\* Wrong: push --force.
ForcePublish(r) ==
    /\ At(r, "publish")
    /\ remote' = [remote EXCEPT ![attempt[r]] = commits[attempt[r]]]
    /\ UNCHANGED pr \/ OpenRequest(r)
    /\ Goto(r, "leave")
    /\ UNCHANGED <<count, attempt, touches, checkout, others, history>>

\* Push, pull request and labels, which nobody here sees in between; after each
\* of them it may be over, by an exception or a lost answer.
Publish(r) ==
    /\ At(r, "publish") /\ PushAccepted(attempt[r])
    /\ remote' = [remote EXCEPT ![attempt[r]] = commits[attempt[r]]]
    /\ UNCHANGED pr \/ OpenRequest(r)
    /\ Goto(r, "leave")
    /\ UNCHANGED <<count, attempt, touches, checkout, others, history>>

\* A git or GitHub call raises, or the gate does.
StepFails(r) ==
    /\ pc[r] \in {"diff", "scan", "publish"}
    /\ Goto(r, "leave")
    /\ UNCHANGED <<count, attempt, touches, checkout, github, others, history>>

\* Wrong: the worktree is removed on the way of success only.
LeaveTree(r) ==
    /\ At(r, "leave")
    /\ IF remote[attempt[r]] # {} THEN RemoveDirectory ELSE UNCHANGED <<dir, died>>
    /\ Return(r)
    /\ UNCHANGED <<count, branches, commits, github, others, disturbed>>

\* finally: _remove_worktree.
Leave(r) ==
    /\ At(r, "leave")
    /\ RemoveDirectory
    /\ Return(r)
    /\ UNCHANGED <<count, branches, commits, github, others, disturbed>>

Die(r) ==
    /\ r \in Busy
    /\ Return(r)
    /\ died' = (dir # 0)
    /\ UNCHANGED <<count, checkout, github, others, disturbed>>
-----------------------------------------------------------------------------
(* The others. *)

\* reconcile_worktrees finds the directory, which is never registered, ...
SweepFinds ==
    /\ dir # 0 /\ ~sweeping
    /\ sweeping' = TRUE
    /\ UNCHANGED <<count, review, checkout, github, listed, history>>

\* ... and removes what is there when its turn comes.
SweepRemoves ==
    /\ sweeping
    /\ sweeping' = FALSE
    /\ RemoveDirectory
    /\ disturbed' = disturbed \cup Busy
    /\ UNCHANGED <<count, review, branches, commits, github, listed, vetted>>

\* stale_branches lists the branches without commits of their own (the model
\* follows one of them, and has this routine begin when no attempt is disturbed:
\* its properties are about those), ...
StaleFound(n) ==
    /\ listed = 0 /\ disturbed = {}
    /\ n \in branches /\ commits[n] = {}
    /\ listed' = n
    /\ UNCHANGED <<count, review, checkout, github, sweeping, history>>

DeleteBranch(n) ==
    /\ branches' = branches \ {n}
    /\ commits' = [commits EXCEPT ![n] = {}]

\* Wrong: git update-ref -d does not care for worktrees.
StaleDeletedAnyway(n) ==
    /\ listed = n
    /\ listed' = 0
    /\ DeleteBranch(n)
    /\ UNCHANGED <<count, review, dir, github, sweeping, history>>

\* Wrong: the worktree of the branch is removed first, so that git complies.
StaleDeletedWithTree(n) ==
    /\ listed = n
    /\ listed' = 0
    /\ DeleteBranch(n)
    /\ dir' = IF dir = n THEN 0 ELSE dir
    /\ UNCHANGED <<count, review, github, sweeping, history>>

\* ... and deletes one after the other: whatever is on them by then, but not what
\* is checked out.
StaleDeleted(n) ==
    /\ listed = n
    /\ listed' = 0
    /\ IF dir = n THEN UNCHANGED <<branches, commits>> ELSE DeleteBranch(n)
    /\ UNCHANGED <<count, review, dir, github, sweeping, history>>

\* The next review is one of another machine or of a fresh checkout.
FreshCheckout ==
    /\ Busy = {}
    /\ count' = 0 /\ dir' = 0 /\ branches' = {} /\ commits' = [n \in Attempts |-> {}]
    /\ remote' = [n \in Attempts |-> IF remote[n] = {} THEN {} ELSE {Older}]
    /\ pr' = [n \in Attempts |-> IF Open(n) THEN [NoPR EXCEPT !.label = "plain"] ELSE NoPR]
    /\ sweeping' = FALSE /\ listed' = 0
    /\ died' = FALSE /\ disturbed' = {}
    /\ UNCHANGED <<review, vetted>>

Work(r) ==
    \/ Prepare(r) \/ AddTree(r) \/ AddFails(r) \/ FixerEnds(r)
    \/ Diff(r) \/ Scan(r) \/ Publish(r) \/ StepFails(r) \/ Leave(r)

Next ==
    \/ \E r \in Reviewers : Ask(r) \/ Work(r) \/ Die(r)
    \/ SweepFinds \/ SweepRemoves
    \/ \E n \in Attempts : StaleFound(n) \/ StaleDeleted(n)
    \/ FreshCheckout

Spec == Init /\ [][Next]_vars

\* The review waits for the fixer, or for the agent of the security gate.
AgentAtWork(r) == pc[r] \in {"fixing", "scan"}

\* Git and GitHub calls have timeouts, so a review goes on by itself.  No timeout
\* cuts off an agent of Cursor (cursor_backend.py:42-57), so agents need not return.
FairSpec == Spec /\ \A r \in Reviewers : WF_vars(Work(r) /\ ~AgentAtWork(r))
-----------------------------------------------------------------------------
(* Properties. *)

\* "Fix the root cause in this checkout" (ci_review.py:153): as long as the
\* attempt lasts the directory holds its branch, unless another reviewer or a
\* sweep came by.
FixerKeepsItsTree ==
    \A r \in Reviewers \ disturbed :
        pc[r] \in HasTree => dir = attempt[r]

\* A pull request holds the commits of the attempt that opened it, all of them
\* made in one checkout, and no others.
PullRequestIsTheFix ==
    \A n \in Attempts : Open(n) /\ pr[n].calm =>
        /\ remote[n] # {}
        /\ remote[n] = {Older} \/ \A c \in remote[n] : c.of = n

\* "workflow edits get the security gate + needs-human-review label"
\* (ci_review.py:8-9): no commit reaches a pull request unscanned under the
\* strict policy, and none with a workflow edit is labelled like the others.
WorkflowEditsAreScanned ==
    \A n \in Attempts : Open(n) /\ pr[n].calm /\ WorkflowEdits(remote[n]) # {} =>
        /\ Strict => pr[n].vetted
        /\ pr[n].label # "plain"

\* A directory is left behind only by a reviewer that died, also when several
\* worked in it.
NoLeftovers == dir # 0 => died \/ \E r \in Busy : pc[r] \in HasTree

\* stale_branches decides on a list that grows old ("deleted merged factory
\* branches", routines.py:195), but deletes no branch of an attempt that is going
\* on, and no fix that is yet to be published.
FixKeepsItsBranch ==
    \A r \in Reviewers \ disturbed :
        /\ pc[r] \in HasTree => attempt[r] \in branches
        /\ pc[r] \in {"scan", "publish"} => commits[attempt[r]] # {}

\* A review comes to an end, whatever fails and whoever interferes, unless it
\* waits for an agent that never returns.
ReviewReturns ==
    \A r \in Reviewers : pc[r] # "idle" ~> pc[r] = "idle" \/ []AgentAtWork(r)
=============================================================================
