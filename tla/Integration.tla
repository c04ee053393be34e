----------------------------- MODULE Integration -----------------------------
(***************************************************************************)
(* Integrator.integrate (factory/integrator.py): the units of one task are *)
(* merged one after the other into the task's integration branch, in a     *)
(* worktree of its own, with a resolver agent for conflicts.               *)
(*                                                                         *)
(* The state of git that the code looks at is modelled, and no more: which *)
(* units' commits the branch holds (branch), whether unmerged files are    *)
(* left (conflicted), and whether a merge is still open (mergeHead).  git  *)
(* and the agent may do anything the code does not rule out; the history   *)
(* variable trusted tells the behaviours in which they have kept to what   *)
(* the code takes for granted.                                             *)
(***************************************************************************)
EXTENDS Naturals, FiniteSets

CONSTANTS
    Units,          \* the coded units of the task
    None,           \* no unit
    MaxAttempts     \* MAX_CONFLICT_ATTEMPTS

ASSUME IntegrationAssumption ==
    /\ None \notin Units
    /\ Units # {} /\ IsFiniteSet(Units)     \* Plan.work_units: 1 to 8 of them
    /\ MaxAttempts \in Nat

VARIABLES
    status,      \* status[u]: the unit row, "coded" or "integrated"
    branch,      \* units whose merge commit is on the integration branch
    mergeHead,   \* the unit whose merge is open (MERGE_HEAD), or None
    conflicted,  \* unmerged files are left (git diff --diff-filter=U)
    current,     \* the unit _merge_unit works on, or None
    attempt,     \* resolver attempts made for current
    pc,
    trusted      \* history: git and the agent have behaved as expected

vars == <<status, branch, mergeHead, conflicted, current, attempt, pc, trusted>>
git == <<branch, mergeHead, conflicted>>

PCs == {"loop", "check", "resolver", "resolved", "done", "failed", "raised"}

TypeOK ==
    /\ status \in [Units -> {"coded", "integrated"}]
    /\ branch \subseteq Units
    /\ mergeHead \in Units \cup {None}
    /\ conflicted \in BOOLEAN
    /\ current \in Units \cup {None}
    /\ attempt \in 0..MaxAttempts
    /\ pc \in PCs
    /\ trusted \in BOOLEAN

Init ==
    /\ status = [u \in Units |-> "coded"]
    /\ branch = {}
    /\ mergeHead = None
    /\ conflicted = FALSE
    /\ current = None
    /\ attempt = 0
    /\ pc = "loop"
    /\ trusted = TRUE
-----------------------------------------------------------------------------
\* git merge of unit u.  With a merge still open git refuses, and says so
\* with the same error code as for a conflict; it may also refuse for other
\* reasons, which the code does not expect.
GitMerge(u, result) ==
    /\ mergeHead # None => result = "refused"
    /\ branch' = IF result = "merged" THEN branch \cup {u} ELSE branch
    /\ mergeHead' = IF result = "conflict" THEN u ELSE mergeHead
    /\ conflicted' = (conflicted \/ result = "conflict")
    /\ trusted' = (trusted /\ (result = "refused" => mergeHead # None))

\* _merge_unit returned: integrate marks the unit INTEGRATED.
MarkIntegrated(u) ==
    /\ status' = [status EXCEPT ![u] = "integrated"]
    /\ current' = None
    /\ attempt' = 0
    /\ pc' = "loop"

\* The first merge of a unit succeeds ...  (A unit without a branch would be
\* skipped, integrator.py:133-134; units that were coded have one.)
MergeCleanly(u) ==
    /\ pc = "loop"
    /\ status[u] = "coded"
    /\ GitMerge(u, "merged")
    /\ MarkIntegrated(u)

\* ... or fails, for whatever reason, and the resolver loop is entered.
MergeFails(u) ==
    /\ pc = "loop"
    /\ status[u] = "coded"
    /\ GitMerge(u, "conflict") \/ GitMerge(u, "refused")
    /\ current' = u
    /\ pc' = "check"
    /\ UNCHANGED <<status, attempt>>

\* Top of the resolver loop: no unmerged file means "already completed".
NothingConflicted ==
    /\ pc = "check"
    /\ attempt < MaxAttempts
    /\ ~conflicted
    /\ MarkIntegrated(current)
    /\ UNCHANGED <<git, trusted>>

\* Wrong: one attempt too many.
CallResolverOnceMore ==
    /\ pc = "check"
    /\ attempt <= MaxAttempts
    /\ conflicted
    /\ pc' = "resolver"
    /\ UNCHANGED <<status, git, current, attempt, trusted>>

CallResolver ==
    /\ pc = "check"
    /\ attempt < MaxAttempts
    /\ conflicted
    /\ pc' = "resolver"
    /\ UNCHANGED <<status, git, current, attempt, trusted>>

\* A run of the conflict_resolver agent: its result and what it leaves
\* behind - the merge committed, all files staged, the conflict as it was, or
\* the merge given up.
Runs == [ok : BOOLEAN, did : {"commit", "stage", "leave", "abort"}]

\* Runs that keep to the prompt: the merge is not given up, and staged files
\* are either committed or reported as success.
HonestRun(run) == run.did # "abort" /\ (run.did = "stage" => run.ok)

ResolverActs(run) ==
    /\ branch' = IF run.did = "commit" THEN branch \cup {mergeHead} ELSE branch
    /\ mergeHead' = IF run.did \in {"commit", "abort"} THEN None ELSE mergeHead
    /\ conflicted' = (run.did = "leave")
    /\ trusted' = (trusted /\ HonestRun(run))

\* Wrong: the agent's word is taken for it, unmerged files or not.
ResolverBelieved ==
    /\ pc = "resolver"
    /\ \E run \in Runs :
        /\ ResolverActs(run)
        /\ IF run.ok
             THEN pc' = "resolved" /\ UNCHANGED attempt
             ELSE pc' = "check" /\ attempt' = attempt + 1
    /\ UNCHANGED <<status, current>>

\* Wrong: a run that is not ok is tried again without being counted.
ResolverFailureNotCounted ==
    /\ pc = "resolver"
    /\ \E run \in Runs :
        /\ ResolverActs(run)
        /\ IF run.ok /\ ~conflicted'
             THEN pc' = "resolved" /\ UNCHANGED attempt
             ELSE pc' = "check" /\ attempt' = IF run.ok THEN attempt + 1 ELSE attempt
    /\ UNCHANGED <<status, current>>

\* The result is accepted if it is ok and no unmerged file is left;
\* otherwise the attempt counts and the loop goes on.
ResolverReturns ==
    /\ pc = "resolver"
    /\ \E run \in Runs :
        /\ ResolverActs(run)
        /\ IF run.ok /\ ~conflicted'
             THEN pc' = "resolved" /\ UNCHANGED attempt
             ELSE pc' = "check" /\ attempt' = attempt + 1
    /\ UNCHANGED <<status, current>>

\* Wrong: a staged merge is left open for the next unit.
ConcludeWithoutCommit ==
    /\ pc = "resolved"
    /\ MarkIntegrated(current)
    /\ UNCHANGED <<git, trusted>>

\* An open merge is committed; if there is none, or git commit fails, the
\* GitError is taken to mean "merge already committed".
Conclude ==
    /\ pc = "resolved"
    /\ \/ /\ mergeHead # None
          /\ branch' = branch \cup {mergeHead}
          /\ mergeHead' = None
          /\ UNCHANGED trusted
       \/ /\ UNCHANGED <<branch, mergeHead>>
          /\ trusted' = (trusted /\ mergeHead = None)
    /\ MarkIntegrated(current)
    /\ UNCHANGED conflicted

\* Wrong: IntegrationError without git merge --abort.
GiveUpWithoutAbort ==
    /\ pc = "check"
    /\ attempt = MaxAttempts
    /\ pc' = "failed"
    /\ UNCHANGED <<status, git, current, attempt, trusted>>

\* Attempts exhausted: git merge --abort and IntegrationError; with no merge
\* open the abort itself is a GitError.
GiveUp ==
    /\ pc = "check"
    /\ attempt = MaxAttempts
    /\ IF mergeHead # None
         THEN mergeHead' = None /\ conflicted' = FALSE /\ pc' = "failed"
         ELSE pc' = "raised" /\ UNCHANGED <<mergeHead, conflicted>>
    /\ UNCHANGED <<status, branch, current, attempt, trusted>>

\* Wrong: the list ends at a unit that gave trouble.
FinishEarly ==
    /\ pc = "loop"
    /\ \E u \in Units : status[u] = "integrated"
    /\ pc' = "done"
    /\ UNCHANGED <<status, git, current, attempt, trusted>>

\* Every unit of the list has been handled: the branch is returned.
Finish ==
    /\ pc = "loop"
    /\ \A u \in Units : status[u] = "integrated"
    /\ pc' = "done"
    /\ UNCHANGED <<status, git, current, attempt, trusted>>

\* A git command other than the first merge fails, a timeout, or a
\* BackendError from the agent: nothing catches it here.
Raise ==
    /\ pc \in {"loop", "check", "resolver", "resolved"}
    /\ pc' = "raised"
    /\ UNCHANGED <<status, git, current, attempt, trusted>>

Step ==
    \/ \E u \in Units : MergeCleanly(u) \/ MergeFails(u)
    \/ NothingConflicted \/ CallResolver \/ ResolverReturns \/ Conclude
    \/ GiveUp \/ Finish
Next == Step \/ Raise

Spec == Init /\ [][Next]_vars

\* git runs under timeouts, so the loop goes on by itself.  The resolver need not
\* return: no timeout cuts off an agent of Cursor (cursor_backend.py:42-57).
FairSpec == Spec /\ WF_vars(Step /\ pc # "resolver")
-----------------------------------------------------------------------------
(* Properties. *)

\* A unit the store shows as INTEGRATED is on the integration branch.
IntegratedIsMerged == \A u \in Units : status[u] = "integrated" => u \in branch

\* As long as git and the agent keep to what the code takes for granted,
\* INTEGRATED means merged, whichever way the resolver loop is left.
TrustedIntegration == trusted => IntegratedIsMerged

\* And between two units no merge is open and no file unmerged, so the next
\* merge starts from a clean tree.
TrustedCleanTree ==
    trusted /\ pc \in {"loop", "done"} => mergeHead = None /\ ~conflicted

\* IntegrationError leaves a branch without the unit it was raised for: only
\* units marked INTEGRATED are on it and the aborted merge is closed.
FailureLeavesNoHalfMerge ==
    pc = "failed" =>
        /\ \A u \in branch : status[u] = "integrated"
        /\ mergeHead = None /\ ~conflicted

\* integrate keeps the promise of Delivery.tla for its task, whose units are all
\* coded, from the merge of the first unit to the branch it returns: a unit
\* is integrated for good, and nothing is delivered with a unit missing.
Work == INSTANCE Delivery WITH
            Tasks <- {"task"},
            plan <- [t \in {"task"} |-> Units],
            coded <- Units,
            integrated <- {u \in Units : status[u] = "integrated"},
            delivered <- IF pc = "done" THEN {"task"} ELSE {}
IntegratesAsPromised == [][Work!Next]_(Work!vars)

\* The resolver loop ends: whatever resolvers do and leave behind, integrate
\* returns or raises, as long as each of them returns.
IntegrateReturns ==
    <>(pc \in {"done", "failed", "raised"}) \/ <>[](pc = "resolver")
=============================================================================
