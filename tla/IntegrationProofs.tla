------------------------- MODULE IntegrationProofs -------------------------
(***************************************************************************)
(* What Integration.tla guarantees for any number of units and resolver    *)
(* attempts.                                                               *)
(***************************************************************************)
EXTENDS Integration, FiniteSetTheorems, TLAPS

\* Inside the resolver loop there is a unit to merge.
InLoop == pc \in {"check", "resolver", "resolved"}

\* Of every run, however git and the agent behave: the branch holds integrated
\* units and at most the current one, once no merge is open; an open merge is
\* the current unit's or one left by an integrated unit.
GitInv ==
    /\ InLoop => current \in Units /\ status[current] = "coded"
    /\ pc = "loop" => current = None /\ attempt = 0
    /\ pc = "resolver" => conflicted /\ attempt < MaxAttempts
    /\ pc = "resolved" => ~conflicted
    /\ conflicted => mergeHead # None
    /\ \A u \in branch : status[u] = "integrated" \/ (u = current /\ mergeHead = None)
    /\ mergeHead # None => mergeHead = current \/ status[mergeHead] = "integrated"
    /\ FailureLeavesNoHalfMerge

\* Of the runs in which git and the agent keep to what is expected of them:
\* the current unit is being merged or is on the branch.
TrustInv ==
    trusted =>
        /\ IntegratedIsMerged
        /\ pc \in {"loop", "done"} => mergeHead = None /\ ~conflicted
        /\ InLoop => mergeHead = current \/ (mergeHead = None /\ current \in branch)
        /\ pc = "check" /\ ~conflicted => mergeHead = None

IInv == TypeOK /\ GitInv /\ TrustInv

\* The resolver loop keeps the invariant.
LEMMA Invariance == Spec => []IInv
<1>. USE IntegrationAssumption
<1>1. Init => IInv
  <2>. SUFFICES ASSUME Init PROVE IInv
    OBVIOUS
  <2>1. /\ status \in [Units -> {"coded", "integrated"}]
        /\ \A u \in Units : status[u] = "coded"
    BY DEF Init
  <2>2. TypeOK
    <3>1. conflicted \in BOOLEAN /\ trusted \in BOOLEAN
      BY DEF Init
    <3>2. /\ branch \subseteq Units /\ attempt \in 0..MaxAttempts /\ pc \in PCs
          /\ mergeHead \in Units \cup {None} /\ current \in Units \cup {None}
      BY DEF Init, PCs
    <3>. QED  BY <2>1, <3>1, <3>2 DEF TypeOK
  <2>3. GitInv
    BY DEF Init, GitInv, InLoop, FailureLeavesNoHalfMerge
  <2>4. TrustInv
    BY <2>1 DEF Init, TrustInv, InLoop, IntegratedIsMerged
  <2>. QED  BY <2>2, <2>3, <2>4 DEF IInv
<1>2. IInv /\ [Next]_vars => IInv'
  <2>. SUFFICES ASSUME IInv, [Next]_vars PROVE IInv'
    OBVIOUS
  <2>. USE DEF IInv, TypeOK, GitInv, TrustInv, InLoop, FailureLeavesNoHalfMerge,
               IntegratedIsMerged, PCs
  <2>1. ASSUME NEW u \in Units, MergeCleanly(u) PROVE IInv'
    BY <2>1 DEF MergeCleanly, GitMerge, MarkIntegrated
  <2>2. ASSUME NEW u \in Units, MergeFails(u) PROVE IInv'
    <3>1. CASE GitMerge(u, "conflict")
      BY <2>2, <3>1 DEF MergeFails, GitMerge
    <3>2. CASE GitMerge(u, "refused")
      BY <2>2, <3>2 DEF MergeFails, GitMerge
    <3>. QED  BY <2>2, <3>1, <3>2 DEF MergeFails
  <2>3. CASE NothingConflicted
    BY <2>3 DEF NothingConflicted, MarkIntegrated, git
  <2>4. CASE CallResolver
    BY <2>4 DEF CallResolver, git
  <2>5. CASE ResolverReturns
    <3>1. PICK run \in Runs :
            /\ ResolverActs(run)
            /\ IF run.ok /\ ~conflicted'
                 THEN pc' = "resolved" /\ UNCHANGED attempt
                 ELSE pc' = "check" /\ attempt' = attempt + 1
      BY <2>5 DEF ResolverReturns
    <3>2. pc = "resolver" /\ UNCHANGED <<status, current>>
      BY <2>5 DEF ResolverReturns
    <3>3. run.ok \in BOOLEAN /\ run.did \in {"commit", "stage", "leave", "abort"}
      BY DEF Runs
    <3>4. attempt + 1 \in 0..MaxAttempts
      BY <3>2
    <3>. QED  BY <3>1, <3>2, <3>3, <3>4 DEF ResolverActs, HonestRun
  <2>6. CASE Conclude
    BY <2>6 DEF Conclude, MarkIntegrated
  <2>7. CASE GiveUp
    BY <2>7 DEF GiveUp
  <2>8. CASE Finish
    BY <2>8 DEF Finish, git
  <2>9. CASE Raise
    BY <2>9 DEF Raise, git
  <2>10. CASE UNCHANGED vars
    BY <2>10 DEF vars
  <2>. QED
    BY <2>1, <2>2, <2>3, <2>4, <2>5, <2>6, <2>7, <2>8, <2>9, <2>10 DEF Next, Step
<1>. QED  BY <1>1, <1>2, PTL DEF Spec

\* The attempts are bounded and every variable keeps its type.
THEOREM TypeCorrect == Spec => []TypeOK
<1>1. IInv => TypeOK
  BY DEF IInv
<1>. QED  BY <1>1, Invariance, PTL

\* INTEGRATED means merged as long as git and the agent are as expected, by
\* whichever of the three ways _merge_unit returns.
THEOREM TrustedMeansMerged == Spec => []TrustedIntegration
<1>1. IInv => TrustedIntegration
  BY DEF IInv, TrustInv, TrustedIntegration
<1>. QED  BY <1>1, Invariance, PTL

\* The next merge starts from a clean tree.
THEOREM TrustedTreeIsClean == Spec => []TrustedCleanTree
<1>1. IInv => TrustedCleanTree
  BY DEF IInv, TrustInv, TrustedCleanTree
<1>. QED  BY <1>1, Invariance, PTL

\* IntegrationError leaves no half merge, however the agent behaves.
THEOREM FailureIsClean == Spec => []FailureLeavesNoHalfMerge
<1>1. IInv => FailureLeavesNoHalfMerge
  BY DEF IInv, GitInv
<1>. QED  BY <1>1, Invariance, PTL
-----------------------------------------------------------------------------
\* Every step of the loop keeps the promise: it integrates the current unit, or
\* delivers when no unit is left, or changes nothing of what was promised.
LEMMA WorkStep == IInv /\ [Next]_vars => [Work!Next]_(Work!vars)
<1>. SUFFICES ASSUME IInv, [Next]_vars PROVE [Work!Next]_(Work!vars)
  OBVIOUS
<1>. DEFINE Merged == {u \in Units : status[u] = "integrated"}
            Over == IF pc = "done" THEN {"task"} ELSE {}
            Plan == [t \in {"task"} |-> Units]
<1>1. status \in [Units -> {"coded", "integrated"}] /\ (InLoop => current \in Units)
  BY DEF IInv, TypeOK, GitInv
<1>2. Plan["task"] = Units
  OBVIOUS
<1>3. ASSUME NEW u \in Units, MarkIntegrated(u), pc # "done" PROVE Work!Next
  <2>1. Merged' = Merged \cup {u} /\ Over' = Over
    BY <1>1, <1>3 DEF MarkIntegrated
  <2>2. Work!Integrate("task", u)
    BY <1>2, <2>1 DEF Work!Integrate
  <2>. QED  BY <2>2 DEF Work!Next
<1>4. ASSUME UNCHANGED status, pc # "done", pc' # "done" PROVE UNCHANGED Work!vars
  BY <1>4 DEF Work!vars
<1>5. CASE Finish
  <2>1. Merged = Units /\ Merged' = Merged /\ Over' = Over \cup {"task"}
    BY <1>1, <1>5 DEF Finish
  <2>2. Work!Deliver("task")
    BY <1>2, <2>1, IntegrationAssumption DEF Work!Deliver
  <2>. QED  BY <2>2 DEF Work!Next
<1>6. ASSUME NEW u \in Units, MergeCleanly(u) PROVE Work!Next
  BY <1>3, <1>6 DEF MergeCleanly
<1>7. CASE NothingConflicted \/ Conclude
  BY <1>1, <1>3, <1>7 DEF NothingConflicted, Conclude, InLoop
<1>8. CASE \/ \E u \in Units : MergeFails(u)
           \/ CallResolver \/ ResolverReturns \/ GiveUp \/ Raise
  BY <1>4, <1>8 DEF MergeFails, CallResolver, ResolverReturns, GiveUp, Raise
<1>9. CASE UNCHANGED vars
  BY <1>9 DEF vars, Work!vars
<1>. QED  BY <1>5, <1>6, <1>7, <1>8, <1>9 DEF Next, Step

\* integrate implements Delivery.tla from the coded units on, however git and
\* the resolver agent behave.
THEOREM IntegratesDelivery == Spec => IntegratesAsPromised
BY Invariance, WorkStep, PTL DEF Spec, IntegratesAsPromised
-----------------------------------------------------------------------------
\* What is left to do: the units not yet integrated, and the steps that may be
\* taken before the next one of them is, or integrate ends.
Todo == {u \in Units : status[u] = "coded"}
StepsLeft ==
    CASE pc = "loop" -> 2 * MaxAttempts + 4
      [] pc = "check" -> 2 * (MaxAttempts - attempt) + 3
      [] pc = "resolver" -> 2 * (MaxAttempts - attempt) + 2
      [] pc = "resolved" -> 2
      [] OTHER -> 0

Shrinks ==
    \/ Todo' \subseteq Todo /\ Todo' # Todo
    \/ Todo' = Todo /\ StepsLeft' < StepsLeft

\* There are finitely many units, and steps are counted down from a number.
LEMMA LeftType == IInv => IsFiniteSet(Todo) /\ StepsLeft \in Nat
<1>. SUFFICES ASSUME IInv PROVE IsFiniteSet(Todo) /\ StepsLeft \in Nat
  OBVIOUS
<1>1. IsFiniteSet(Todo)
  BY IntegrationAssumption, FS_Subset DEF Todo
<1>2. attempt \in 0..MaxAttempts /\ MaxAttempts \in Nat
  BY IntegrationAssumption DEF IInv, TypeOK
<1>3. StepsLeft \in Nat
  BY <1>2 DEF StepsLeft
<1>. QED  BY <1>1, <1>3

\* Every step of the loop, one that raises too, leaves less to do.
LEMMA ShrinksStep == IInv /\ Next => Shrinks
<1>. SUFFICES ASSUME IInv, Next PROVE Shrinks
  OBVIOUS
<1>1. /\ attempt \in 0..MaxAttempts /\ MaxAttempts \in Nat
      /\ status \in [Units -> {"coded", "integrated"}]
      /\ InLoop => current \in Units /\ status[current] = "coded"
      /\ pc = "loop" => attempt = 0
      /\ pc = "resolver" => attempt < MaxAttempts
  BY IntegrationAssumption DEF IInv, TypeOK, GitInv
<1>2. ASSUME NEW u \in Units, status[u] = "coded", MarkIntegrated(u) PROVE Shrinks
  <2>1. Todo' = Todo \ {u} /\ u \in Todo
    BY <1>1, <1>2 DEF MarkIntegrated, Todo
  <2>. QED  BY <2>1 DEF Shrinks
<1>3. ASSUME UNCHANGED status, StepsLeft' < StepsLeft PROVE Shrinks
  BY <1>3 DEF Shrinks, Todo
<1>4. ASSUME NEW u \in Units, MergeCleanly(u) PROVE Shrinks
  BY <1>2, <1>4 DEF MergeCleanly
<1>5. ASSUME NEW u \in Units, MergeFails(u) PROVE Shrinks
  BY <1>1, <1>3, <1>5 DEF MergeFails, StepsLeft
<1>6. CASE NothingConflicted \/ Conclude
  BY <1>1, <1>2, <1>6 DEF NothingConflicted, Conclude, InLoop
<1>7. CASE CallResolver
  BY <1>1, <1>3, <1>7 DEF CallResolver, StepsLeft
<1>8. CASE ResolverReturns
  <2>1. /\ pc = "resolver" /\ UNCHANGED status
        /\ \/ pc' = "resolved" /\ UNCHANGED attempt
           \/ pc' = "check" /\ attempt' = attempt + 1
    BY <1>8 DEF ResolverReturns
  <2>2. StepsLeft = 2 * (MaxAttempts - attempt) + 2
    BY <2>1 DEF StepsLeft
  <2>3. StepsLeft' \in {2, 2 * (MaxAttempts - (attempt + 1)) + 3}
    BY <2>1 DEF StepsLeft
  <2>. QED  BY <1>1, <1>3, <2>1, <2>2, <2>3
<1>9. CASE GiveUp \/ Finish
  <2>1. pc \in {"check", "loop"} /\ pc' \in {"failed", "raised", "done"} /\ UNCHANGED status
    BY <1>9 DEF GiveUp, Finish
  <2>. QED  BY <1>1, <1>3, <2>1 DEF StepsLeft
<1>10. CASE Raise
  BY <1>1, <1>3, <1>10 DEF Raise, StepsLeft
<1>. QED  BY <1>4, <1>5, <1>6, <1>7, <1>8, <1>9, <1>10 DEF Next, Step

\* Why integrate returns or raises (MAX_CONFLICT_ATTEMPTS, and no way back from a
\* unit that is integrated): every step it takes leaves fewer units, or as
\* many and a smaller number of steps, whatever git and the agents do.
THEOREM LoopShrinks == Spec => [][Shrinks]_vars /\ [](IsFiniteSet(Todo) /\ StepsLeft \in Nat)
<1>1. IInv /\ [Next]_vars => [Shrinks]_vars
  BY ShrinksStep
<1>. QED  BY Invariance, LeftType, <1>1, PTL DEF Spec
=============================================================================
