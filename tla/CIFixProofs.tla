---------------------------- MODULE CIFixProofs ----------------------------
(***************************************************************************)
(* The safety properties of CIFix, for any number of reviewers, any cap    *)
(* and either policy on workflow edits.                                    *)
(***************************************************************************)
EXTENDS CIFix, TLAPS

Calm == Busy \ disturbed

\* Who is busy has a number; what is checked out is a branch, and only branches
\* have commits.
PlaceInv ==
    /\ \A r \in Busy : attempt[r] \in Attempts
    /\ dir # 0 => dir \in branches
    /\ \A n \in Attempts \ branches : commits[n] = {}

\* A reviewer that met nobody is alone.  The ledger follows it, the directory is
\* its own, and so are the commits of its branch.
Alone(r) ==
    /\ \A q \in Busy : q = r
    /\ IF pc[r] = "record" THEN attempt[r] = count + 1 ELSE attempt[r] = count
    /\ pc[r] \in HasTree =>
        /\ dir = attempt[r] /\ attempt[r] \in branches
        /\ \A c \in commits[attempt[r]] : c.of = attempt[r]
    /\ pc[r] \in {"scan", "publish"} =>
        /\ commits[attempt[r]] # {}
        /\ touches[r] <=> WorkflowEdits(commits[attempt[r]]) # {}
    /\ pc[r] = "publish" /\ Strict /\ touches[r] => r \in vetted

CalmInv == \A r \in Calm : Alone(r)

\* A pull request that was opened undisturbed is as it should be, and stays so:
\* its number is used up.
Sound(n) ==
    /\ \A c \in remote[n] : c.of = n
    /\ WorkflowEdits(remote[n]) # {} => (Strict => pr[n].vetted) /\ pr[n].label # "plain"
    /\ n <= count
    /\ \A q \in Busy : attempt[q] > n \/ (attempt[q] = n /\ pc[q] = "leave")

RemoteInv ==
    \A n \in Attempts : Open(n) =>
        /\ remote[n] # {}
        /\ pr[n].calm /\ remote[n] # {Older} => Sound(n)

\* The inductive invariant.
IInv == TypeOK /\ NoLeftovers /\ PlaceInv /\ CalmInv /\ RemoteInv

USE DEF At, Goto, GotoOneOf, Busy, Calm, HasTree, Open

-----------------------------------------------------------------------------
(* Numbers and commits. *)

LEMMA Numbers ==
    /\ Attempts \subseteq Nat /\ 0 \notin Attempts
    /\ \A n \in Nat : n < MaxFixes => n + 1 \in Attempts
  BY FixAssumption DEF Attempts

\* What came from a checkout that is gone is no commit of this one, and counts as
\* free of workflow edits.
LEMMA OlderIsGone ==
    /\ Older \notin Commits
    /\ WorkflowEdits({Older}) = {}
<1>1. \A c \in Commits : c.of \in Attempts
  BY DEF Commits
<1>2. Older.of = 0 /\ Older.workflow = FALSE
  BY DEF Older
<1> QED
  BY <1>1, <1>2, Numbers DEF WorkflowEdits

LEMMA InitIInv == Init => IInv
<1> SUFFICES ASSUME Init PROVE IInv
  OBVIOUS
<1> USE DEF Init
<1>1. TypeOK
  <2>1. pr \in [Attempts -> [label : Labels, calm : BOOLEAN, vetted : BOOLEAN]]
    BY DEF NoPR, Labels
  <2> QED
    BY <2>1 DEF TypeOK
<1>2. NoLeftovers /\ PlaceInv /\ CalmInv
  BY DEF NoLeftovers, PlaceInv, CalmInv
<1>3. RemoteInv
  BY DEF RemoteInv, NoPR
<1> QED
  BY <1>1, <1>2, <1>3 DEF IInv

-----------------------------------------------------------------------------
(* The steps of a reviewer. *)

LEMMA AskKeeps ==
    ASSUME IInv, NEW r \in Reviewers, Ask(r)
    PROVE  IInv'
<1> USE Numbers DEF IInv, Ask, Meet, checkout, github, others
<1>1. TypeOK'
  BY DEF TypeOK
<1>2. NoLeftovers'
  BY DEF TypeOK, NoLeftovers
<1>3. PlaceInv'
  BY DEF TypeOK, PlaceInv
<1>4. CalmInv'
  BY DEF TypeOK, PlaceInv, CalmInv, Alone
<1>5. RemoteInv'
  <2>1. count \in Nat /\ attempt'[r] = count + 1 /\ pc'[r] = "record"
    BY DEF TypeOK
  <2>2. \A q \in Reviewers \ {r} : attempt'[q] = attempt[q] /\ pc'[q] = pc[q]
    BY DEF TypeOK
  <2>3. ASSUME NEW n \in Attempts, Sound(n) PROVE Sound(n)'
    <3>1. \A q \in Busy' : attempt'[q] > n \/ (attempt'[q] = n /\ pc'[q] = "leave")
      <4> SUFFICES ASSUME NEW q \in Busy'
                   PROVE  attempt'[q] > n \/ (attempt'[q] = n /\ pc'[q] = "leave")
        OBVIOUS
      <4>1. CASE q = r
        <5>1. n <= count /\ n \in Nat
          BY <2>3 DEF Sound
        <5>2. count + 1 > n
          BY <2>1, <5>1
        <5>3. attempt'[r] > n
          BY <2>1, <5>2
        <5> QED
          BY <4>1, <5>3
      <4>2. CASE q # r
        BY <2>2, <2>3, <4>2 DEF Sound
      <4> QED
        BY <4>1, <4>2
    <3> QED
      BY <2>3, <3>1 DEF Sound, WorkflowEdits
  <2> QED
    BY <2>3 DEF RemoteInv
<1> QED
  BY <1>1, <1>2, <1>3, <1>4, <1>5

LEMMA PrepareKeeps ==
    ASSUME IInv, NEW r \in Reviewers, Prepare(r)
    PROVE  IInv'
<1> USE Numbers DEF IInv, Prepare, RemoveDirectory, github, others
<1>1. TypeOK'
  BY DEF TypeOK
<1>2. NoLeftovers'
  BY DEF TypeOK, NoLeftovers
<1>3. PlaceInv'
  BY DEF TypeOK, PlaceInv
<1>4. CalmInv'
  BY DEF TypeOK, PlaceInv, CalmInv, Alone
<1>5. RemoteInv'
  BY DEF TypeOK, PlaceInv, CalmInv, Alone, RemoteInv, Sound
<1> QED
  BY <1>1, <1>2, <1>3, <1>4, <1>5

LEMMA AddTreeKeeps ==
    ASSUME IInv, NEW r \in Reviewers, AddTree(r)
    PROVE  IInv'
<1> USE Numbers DEF IInv, AddTree, github, others, history
<1>1. TypeOK'
  <2>1. attempt[r] \in Attempts
    BY DEF PlaceInv
  <2>2. branches' \subseteq Attempts /\ dir' \in Attempts
    BY <2>1 DEF TypeOK
  <2>3. pc' \in [Reviewers -> {"idle", "record", "add"} \cup HasTree]
    BY DEF TypeOK
  <2> QED
    BY <2>2, <2>3 DEF TypeOK
<1>2. NoLeftovers'
  BY DEF TypeOK, NoLeftovers
<1>3. PlaceInv'
  BY DEF TypeOK, PlaceInv
<1>4. CalmInv'
  BY DEF TypeOK, PlaceInv, CalmInv, Alone
<1>5. RemoteInv'
  BY DEF TypeOK, PlaceInv, CalmInv, Alone, RemoteInv, Sound
<1> QED
  BY <1>1, <1>2, <1>3, <1>4, <1>5

LEMMA AddFailsKeeps ==
    ASSUME IInv, NEW r \in Reviewers, AddFails(r)
    PROVE  IInv'
<1> USE Numbers DEF IInv, AddFails, Return, checkout, github, others
<1>1. TypeOK'
  BY DEF TypeOK
<1>2. NoLeftovers'
  BY DEF TypeOK, NoLeftovers
<1>3. PlaceInv'
  BY DEF TypeOK, PlaceInv
<1>4. CalmInv'
  BY DEF TypeOK, PlaceInv, CalmInv, Alone
<1>5. RemoteInv'
  BY DEF TypeOK, PlaceInv, CalmInv, Alone, RemoteInv, Sound
<1> QED
  BY <1>1, <1>2, <1>3, <1>4, <1>5

LEMMA FixerEndsKeeps ==
    ASSUME IInv, NEW r \in Reviewers, FixerEnds(r)
    PROVE  IInv'
<1> USE Numbers DEF IInv, FixerEnds, FixerCommits, github, others, history
<1>1. TypeOK'
  BY DEF TypeOK
<1>2. NoLeftovers'
  BY DEF TypeOK, NoLeftovers
<1>3. PlaceInv'
  BY DEF TypeOK, PlaceInv
<1>4. CalmInv'
  BY DEF TypeOK, PlaceInv, CalmInv, Alone
<1>5. RemoteInv'
  BY DEF TypeOK, PlaceInv, CalmInv, Alone, RemoteInv, Sound
<1> QED
  BY <1>1, <1>2, <1>3, <1>4, <1>5

LEMMA DiffKeeps ==
    ASSUME IInv, NEW r \in Reviewers, Diff(r)
    PROVE  IInv'
<1> USE Numbers DEF IInv, Diff, checkout, github, others, history
<1>1. TypeOK'
  BY DEF TypeOK
<1>2. NoLeftovers'
  BY DEF TypeOK, NoLeftovers
<1>3. PlaceInv'
  BY DEF TypeOK, PlaceInv
<1>4. CalmInv'
  <2>1. ASSUME NEW q \in Calm' PROVE Alone(q)'
    <3>1. q = r /\ Alone(r)
      BY <2>1 DEF TypeOK, CalmInv, Alone
    <3>2. touches'[r] <=> WorkflowEdits(commits[attempt[r]]) # {}
      BY DEF TypeOK
    <3>3. pc'[r] = "leave" \/ commits[attempt[r]] # {}
      BY DEF TypeOK
    <3>4. pc'[r] = "publish" => ~(touches'[r] /\ Strict)
      BY <3>2 DEF TypeOK
    <3>5. pc'[r] \in {"leave", "scan", "publish"}
      BY DEF TypeOK
    <3> QED
      BY <3>1, <3>2, <3>3, <3>4, <3>5 DEF TypeOK, Alone, WorkflowEdits
  <2> QED
    BY <2>1 DEF CalmInv
<1>5. RemoteInv'
  BY DEF TypeOK, PlaceInv, CalmInv, Alone, RemoteInv, Sound
<1> QED
  BY <1>1, <1>2, <1>3, <1>4, <1>5

LEMMA ScanKeeps ==
    ASSUME IInv, NEW r \in Reviewers, Scan(r)
    PROVE  IInv'
<1> USE Numbers DEF IInv, Scan, checkout, github, others
<1>1. TypeOK'
  BY DEF TypeOK
<1>2. NoLeftovers'
  BY DEF TypeOK, NoLeftovers
<1>3. PlaceInv'
  BY DEF TypeOK, PlaceInv
<1>4. CalmInv'
  BY DEF TypeOK, PlaceInv, CalmInv, Alone
<1>5. RemoteInv'
  BY DEF TypeOK, PlaceInv, CalmInv, Alone, RemoteInv, Sound
<1> QED
  BY <1>1, <1>2, <1>3, <1>4, <1>5

LEMMA PublishKeeps ==
    ASSUME IInv, NEW r \in Reviewers, Publish(r)
    PROVE  IInv'
<1> USE Numbers DEF IInv, Publish, PushAccepted, OpenRequest, checkout, others, history
<1>1. TypeOK'
  <2>1. remote' \in [Attempts -> SUBSET (Commits \cup {Older})]
    BY DEF TypeOK, PlaceInv
  <2>2. pr' \in [Attempts -> [label : Labels, calm : BOOLEAN, vetted : BOOLEAN]]
    <3>1. CASE UNCHANGED pr
      BY <3>1 DEF TypeOK
    <3>2. CASE OpenRequest(r)
      <4>1. PICK label \in {"todo", IF touches[r] THEN "human" ELSE "plain"} :
               pr' = [pr EXCEPT ![attempt[r]] =
                  [label |-> label, calm |-> r \notin disturbed, vetted |-> r \in vetted]]
        BY <3>2
      <4>2. label \in Labels /\ (r \notin disturbed) \in BOOLEAN /\ (r \in vetted) \in BOOLEAN
        BY DEF Labels
      <4>3. [label |-> label, calm |-> r \notin disturbed, vetted |-> r \in vetted]
               \in [label : Labels, calm : BOOLEAN, vetted : BOOLEAN]
        BY <4>2
      <4> QED
        BY <4>1, <4>3 DEF TypeOK
    <3> QED
      BY <3>1, <3>2
  <2> QED
    BY <2>1, <2>2 DEF TypeOK
<1>2. NoLeftovers'
  BY DEF TypeOK, NoLeftovers
<1>3. PlaceInv'
  BY DEF TypeOK, PlaceInv
<1>4. CalmInv'
  BY DEF TypeOK, PlaceInv, CalmInv, Alone
<1>5. RemoteInv'
  <2> DEFINE n == attempt[r]
  <2>1. n \in Attempts /\ remote'[n] = commits[n] /\ pc'[r] = "leave" /\ pc[r] = "publish"
    BY DEF TypeOK, PlaceInv
  <2>2. \A m \in Attempts \ {n} : remote'[m] = remote[m] /\ pr'[m] = pr[m]
    BY DEF TypeOK
  <2>3. \A q \in Reviewers \ {r} : pc'[q] = pc[q]
    BY DEF TypeOK
  <2>4. ASSUME NEW m \in Attempts \ {n}, Open(m)'
        PROVE  remote'[m] # {} /\ (pr'[m].calm /\ remote'[m] # {Older} => Sound(m)')
    <3>1. Open(m)
      BY <2>2, <2>4
    <3>2. ASSUME Sound(m) PROVE Sound(m)'
      BY <2>1, <2>2, <2>3, <3>2 DEF Sound, WorkflowEdits
    <3> QED
      BY <2>2, <3>1, <3>2 DEF RemoteInv
  <2>5. ASSUME Open(n)
        PROVE  /\ pr'[n] = pr[n] /\ remote'[n] # {}
               /\ ~pr[n].calm
    <3>1. pr'[n] = pr[n]
      BY <2>5
    <3>2. remote[n] # {} /\ remote[n] \subseteq commits[n]
      BY <2>1, <2>5 DEF RemoteInv
    <3>3. remote[n] # {Older}
      BY <2>1, <3>2, OlderIsGone DEF TypeOK
    <3>4. ~Sound(n)
      <4>1. n \in Nat /\ r \in Busy /\ attempt[r] = n /\ pc[r] # "leave"
        BY <2>1
      <4>2. ~(n > n)
        BY <4>1
      <4> QED
        BY <4>1, <4>2 DEF Sound
    <3> QED
      BY <2>1, <2>5, <3>1, <3>2, <3>3, <3>4 DEF RemoteInv
  <2>6. ASSUME ~Open(n), Open(n)'
        PROVE  remote'[n] # {} /\ (pr'[n].calm => Sound(n)')
    <3>1. OpenRequest(r)
      BY <2>1, <2>6
    <3>2. PICK label \in {"todo", IF touches[r] THEN "human" ELSE "plain"} :
             pr' = [pr EXCEPT ![n] =
                [label |-> label, calm |-> r \notin disturbed, vetted |-> r \in vetted]]
      BY <3>1
    <3>3. /\ pr'[n].label = label /\ (pr'[n].calm <=> r \notin disturbed)
          /\ (pr'[n].vetted <=> r \in vetted)
      BY <2>1, <3>2 DEF TypeOK
    <3>4. ASSUME r \notin disturbed PROVE Sound(n)'
      <4>1. Alone(r)
        BY <2>1, <3>4 DEF CalmInv
      <4>2. \A c \in commits[n] : c.of = n
        BY <2>1, <4>1 DEF Alone
      <4>3. n = count /\ \A q \in Busy' : q = r
        BY <2>1, <2>3, <4>1 DEF Alone
      <4>4. WorkflowEdits(commits[n]) # {} => touches[r] /\ (Strict => r \in vetted)
        BY <2>1, <4>1 DEF Alone
      <4>5. touches[r] => pr'[n].label # "plain"
        BY <3>2, <3>3
      <4>6. WorkflowEdits(remote'[n]) # {} => (Strict => pr'[n].vetted) /\ pr'[n].label # "plain"
        BY <2>1, <3>3, <4>4, <4>5
      <4>7. (\A c \in remote[n] : c.of = n)' /\ n' = n /\ count' = count
        BY <2>1, <4>2
      <4>8. \A q \in Busy' : attempt'[q] = n /\ pc'[q] = "leave"
        BY <2>1, <4>3
      <4>9. n <= count'
        <5>1. n \in Nat /\ count = n
          BY <2>1, <4>3
        <5>2. n' <= count'
          BY <4>7, <5>1
        <5> QED
          BY <5>2
      <4> QED
        BY <4>6, <4>7, <4>8, <4>9 DEF Sound, WorkflowEdits
    <3> QED
      BY <3>1, <3>3, <3>4
  <2> QED
    BY <2>4, <2>5, <2>6 DEF RemoteInv
<1> QED
  BY <1>1, <1>2, <1>3, <1>4, <1>5

LEMMA StepFailsKeeps ==
    ASSUME IInv, NEW r \in Reviewers, StepFails(r)
    PROVE  IInv'
<1> USE Numbers DEF IInv, StepFails, checkout, github, others, history
<1>1. TypeOK'
  BY DEF TypeOK
<1>2. NoLeftovers'
  BY DEF TypeOK, NoLeftovers
<1>3. PlaceInv'
  BY DEF TypeOK, PlaceInv
<1>4. CalmInv'
  BY DEF TypeOK, PlaceInv, CalmInv, Alone
<1>5. RemoteInv'
  BY DEF TypeOK, PlaceInv, CalmInv, Alone, RemoteInv, Sound
<1> QED
  BY <1>1, <1>2, <1>3, <1>4, <1>5

LEMMA LeaveKeeps ==
    ASSUME IInv, NEW r \in Reviewers, Leave(r)
    PROVE  IInv'
<1> USE Numbers DEF IInv, Leave, RemoveDirectory, Return, github, others
<1>1. TypeOK'
  BY DEF TypeOK
<1>2. NoLeftovers'
  BY DEF TypeOK, NoLeftovers
<1>3. PlaceInv'
  BY DEF TypeOK, PlaceInv
<1>4. CalmInv'
  BY DEF TypeOK, PlaceInv, CalmInv, Alone
<1>5. RemoteInv'
  BY DEF TypeOK, PlaceInv, CalmInv, Alone, RemoteInv, Sound
<1> QED
  BY <1>1, <1>2, <1>3, <1>4, <1>5

LEMMA DieKeeps ==
    ASSUME IInv, NEW r \in Reviewers, Die(r)
    PROVE  IInv'
<1> USE Numbers DEF IInv, Die, Return, checkout, github, others
<1>1. TypeOK'
  BY DEF TypeOK
<1>2. NoLeftovers'
  BY DEF TypeOK, NoLeftovers
<1>3. PlaceInv'
  BY DEF TypeOK, PlaceInv
<1>4. CalmInv'
  BY DEF TypeOK, PlaceInv, CalmInv, Alone
<1>5. RemoteInv'
  BY DEF TypeOK, PlaceInv, CalmInv, Alone, RemoteInv, Sound
<1> QED
  BY <1>1, <1>2, <1>3, <1>4, <1>5

-----------------------------------------------------------------------------
(* The others. *)

LEMMA SweepFindsKeeps ==
    ASSUME IInv, SweepFinds
    PROVE  IInv'
<1> USE Numbers DEF IInv, SweepFinds, review, checkout, github, history
<1>1. TypeOK'
  BY DEF TypeOK
<1>2. NoLeftovers'
  BY DEF TypeOK, NoLeftovers
<1>3. PlaceInv'
  BY DEF TypeOK, PlaceInv
<1>4. CalmInv'
  BY DEF TypeOK, PlaceInv, CalmInv, Alone
<1>5. RemoteInv'
  BY DEF TypeOK, PlaceInv, CalmInv, Alone, RemoteInv, Sound
<1> QED
  BY <1>1, <1>2, <1>3, <1>4, <1>5

LEMMA SweepRemovesKeeps ==
    ASSUME IInv, SweepRemoves
    PROVE  IInv'
<1> USE Numbers DEF IInv, SweepRemoves, RemoveDirectory, review, github
<1>1. TypeOK'
  BY DEF TypeOK
<1>2. NoLeftovers'
  BY DEF TypeOK, NoLeftovers
<1>3. PlaceInv'
  BY DEF TypeOK, PlaceInv
<1>4. CalmInv'
  BY DEF TypeOK, PlaceInv, CalmInv, Alone
<1>5. RemoteInv'
  BY DEF TypeOK, PlaceInv, CalmInv, Alone, RemoteInv, Sound
<1> QED
  BY <1>1, <1>2, <1>3, <1>4, <1>5

LEMMA StaleFoundKeeps ==
    ASSUME IInv, NEW n \in Attempts, StaleFound(n)
    PROVE  IInv'
<1> USE Numbers DEF IInv, StaleFound, review, checkout, github, history
<1>1. TypeOK'
  BY DEF TypeOK
<1>2. NoLeftovers'
  BY DEF TypeOK, NoLeftovers
<1>3. PlaceInv'
  BY DEF TypeOK, PlaceInv
<1>4. CalmInv'
  BY DEF TypeOK, PlaceInv, CalmInv, Alone
<1>5. RemoteInv'
  BY DEF TypeOK, PlaceInv, CalmInv, Alone, RemoteInv, Sound
<1> QED
  BY <1>1, <1>2, <1>3, <1>4, <1>5

LEMMA StaleDeletedKeeps ==
    ASSUME IInv, NEW n \in Attempts, StaleDeleted(n)
    PROVE  IInv'
<1> USE Numbers DEF IInv, StaleDeleted, DeleteBranch, review, github, history
<1>1. TypeOK'
  BY DEF TypeOK
<1>2. NoLeftovers'
  BY DEF TypeOK, NoLeftovers
<1>3. PlaceInv'
  BY DEF TypeOK, PlaceInv
<1>4. CalmInv'
  BY DEF TypeOK, PlaceInv, CalmInv, Alone
<1>5. RemoteInv'
  BY DEF TypeOK, PlaceInv, CalmInv, Alone, RemoteInv, Sound
<1> QED
  BY <1>1, <1>2, <1>3, <1>4, <1>5

LEMMA FreshKeeps ==
    ASSUME IInv, FreshCheckout
    PROVE  IInv'
<1> USE Numbers DEF IInv, FreshCheckout, review
<1>1. TypeOK'
  <2>1. remote' \in [Attempts -> SUBSET (Commits \cup {Older})]
    OBVIOUS
  <2>2. pr' \in [Attempts -> [label : Labels, calm : BOOLEAN, vetted : BOOLEAN]]
    BY DEF NoPR, Labels
  <2> QED
    BY <2>1, <2>2 DEF TypeOK
<1>2. NoLeftovers'
  BY DEF TypeOK, NoLeftovers
<1>3. PlaceInv'
  BY DEF TypeOK, PlaceInv
<1>4. CalmInv'
  BY DEF TypeOK, PlaceInv, CalmInv, Alone
<1>5. RemoteInv'
  <2> SUFFICES ASSUME NEW n \in Attempts, Open(n)'
               PROVE  remote'[n] = {Older}
    BY DEF RemoteInv
  <2>1. Open(n)
    BY DEF NoPR
  <2> QED
    BY <2>1 DEF RemoteInv
<1> QED
  BY <1>1, <1>2, <1>3, <1>4, <1>5

-----------------------------------------------------------------------------
(* The theorems. *)

LEMMA NextIInv == IInv /\ [Next]_vars => IInv'
<1> SUFFICES ASSUME IInv, [Next]_vars PROVE IInv'
  OBVIOUS
<1>1. CASE UNCHANGED vars
  <2>1. TypeOK'
    BY <1>1 DEF vars, review, checkout, github, others, history, IInv, TypeOK
  <2>2. NoLeftovers' /\ PlaceInv'
    BY <1>1 DEF vars, review, checkout, github, others, history, IInv, NoLeftovers, PlaceInv
  <2>3. CalmInv' /\ RemoteInv'
    BY <1>1 DEF vars, review, checkout, github, others, history, IInv, CalmInv, Alone,
                RemoteInv, Sound, WorkflowEdits
  <2> QED
    BY <2>1, <2>2, <2>3 DEF IInv
<1>2. ASSUME NEW r \in Reviewers, Ask(r) \/ Work(r) \/ Die(r) PROVE IInv'
  BY <1>2, AskKeeps, PrepareKeeps, AddTreeKeeps, AddFailsKeeps, FixerEndsKeeps, DiffKeeps,
     ScanKeeps, PublishKeeps, StepFailsKeeps, LeaveKeeps, DieKeeps DEF Work
<1>3. ASSUME NEW n \in Attempts, StaleFound(n) \/ StaleDeleted(n) PROVE IInv'
  BY <1>3, StaleFoundKeeps, StaleDeletedKeeps
<1> QED
  BY <1>1, <1>2, <1>3, SweepFindsKeeps, SweepRemovesKeeps, FreshKeeps DEF Next

LEMMA Inductive == Spec => []IInv
  BY InitIInv, NextIInv, PTL DEF Spec

\* Every variable keeps its type, and a number is never used beyond the cap.
THEOREM TypeCorrect == Spec => []TypeOK
<1>1. IInv => TypeOK
  BY DEF IInv
<1> QED
  BY <1>1, Inductive, PTL

\* The shared directory holds the branch of a reviewer that nobody disturbed, for
\* as long as its attempt lasts.
THEOREM TreeIsKept == Spec => []FixerKeepsItsTree
<1>1. IInv => FixerKeepsItsTree
  BY DEF IInv, CalmInv, Alone, FixerKeepsItsTree
<1> QED
  BY <1>1, Inductive, PTL

\* stale_branches takes neither branch nor commits from such a reviewer.
THEOREM BranchIsKept == Spec => []FixKeepsItsBranch
<1>1. IInv => FixKeepsItsBranch
  BY DEF IInv, CalmInv, Alone, FixKeepsItsBranch
<1> QED
  BY <1>1, Inductive, PTL

\* Nobody but a reviewer that died leaves the directory behind.
THEOREM DirectoryGoes == Spec => []NoLeftovers
<1>1. IInv => NoLeftovers
  BY DEF IInv
<1> QED
  BY <1>1, Inductive, PTL

\* What such a reviewer published as a pull request stays what it was: its own
\* commits, from one checkout, whoever comes after it.
THEOREM RequestIsTheFix == Spec => []PullRequestIsTheFix
<1>1. IInv => PullRequestIsTheFix
  BY DEF IInv, RemoteInv, Sound, PullRequestIsTheFix
<1> QED
  BY <1>1, Inductive, PTL

\* And its workflow edits were scanned under the strict policy, and are not
\* labelled like other fixes.
THEOREM EditsAreScanned == Spec => []WorkflowEditsAreScanned
<1>1. IInv => WorkflowEditsAreScanned
  BY OlderIsGone DEF IInv, RemoteInv, Sound, WorkflowEditsAreScanned
<1> QED
  BY <1>1, Inductive, PTL
-----------------------------------------------------------------------------
(* The end of a review. *)

\* The steps of _fix that are still ahead of a reviewer.
StepsLeft(r) ==
    CASE pc[r] = "record" -> 7
      [] pc[r] = "add" -> 6
      [] pc[r] = "fixing" -> 5
      [] pc[r] = "diff" -> 4
      [] pc[r] = "scan" -> 3
      [] pc[r] = "publish" -> 2
      [] pc[r] = "leave" -> 1
      [] OTHER -> 0

\* The place of a reviewer is changed by a step forward only, and a review begins
\* under the cap only.
Forward ==
    \A r \in Reviewers :
        \/ UNCHANGED pc[r]
        \/ StepsLeft(r)' < StepsLeft(r)
        \/ pc[r] = "idle" /\ pc'[r] = "record" /\ count < MaxFixes

LEMMA WorkForward ==
    ASSUME TypeOK, NEW r \in Reviewers, Work(r) \/ Die(r)
    PROVE  StepsLeft(r)' < StepsLeft(r) /\ Forward
<1>1. pc \in [Reviewers -> {"idle", "record", "add"} \cup HasTree]
  BY DEF TypeOK
<1>2. StepsLeft(r)' < StepsLeft(r)
  <2>1. CASE Prepare(r) \/ AddTree(r) \/ FixerEnds(r)
    BY <1>1, <2>1 DEF Prepare, AddTree, FixerEnds, StepsLeft
  <2>2. CASE Diff(r) \/ Scan(r)
    BY <1>1, <2>2 DEF Diff, Scan, StepsLeft
  <2>3. CASE Publish(r) \/ StepFails(r)
    BY <1>1, <2>3 DEF Publish, StepFails, StepsLeft
  <2>4. CASE AddFails(r) \/ Leave(r) \/ Die(r)
    BY <1>1, <2>4 DEF AddFails, Leave, Die, Return, StepsLeft
  <2>. QED  BY <2>1, <2>2, <2>3, <2>4 DEF Work
<1>3. \A q \in Reviewers \ {r} : UNCHANGED pc[q]
  BY <1>1 DEF Work, Prepare, AddTree, AddFails, FixerEnds, Diff, Scan, Publish, StepFails, Leave,
     Die, Return
<1>. QED  BY <1>2, <1>3 DEF Forward

\* Why a review ends: _fix has no loop, so every step of a reviewer, or its death,
\* takes it forward, and no sweep, no cleanup of branches and no other reviewer
\* moves it; a new attempt begins only while the ledger is under the cap.
THEOREM ReviewForward == Spec => [][Forward]_vars
<1>1. TypeOK /\ [Next]_vars => [Forward]_vars
  <2>. SUFFICES ASSUME TypeOK, Next PROVE Forward
    OBVIOUS
  <2>1. ASSUME NEW r \in Reviewers, Work(r) \/ Die(r) PROVE Forward
    BY <2>1, WorkForward
  <2>2. ASSUME NEW r \in Reviewers, Ask(r) PROVE Forward
    BY <2>2 DEF Ask, Forward, TypeOK
  <2>3. CASE \/ SweepFinds \/ SweepRemoves \/ FreshCheckout
             \/ \E n \in Attempts : StaleFound(n) \/ StaleDeleted(n)
    BY <2>3 DEF SweepFinds, SweepRemoves, FreshCheckout, StaleFound, StaleDeleted, review, Forward
  <2>. QED  BY <2>1, <2>2, <2>3 DEF Next
<1>. QED  BY TypeCorrect, <1>1, PTL DEF Spec
=============================================================================
