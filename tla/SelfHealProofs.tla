--------------------------- MODULE SelfHealProofs ---------------------------
(***************************************************************************)
(* What the ledger of SelfHeal.tla guarantees for any number of workers,   *)
(* any signatures and any caps: the count of a key that was not raced is   *)
(* truthful and stays within its cap.                                      *)
(***************************************************************************)
EXTENDS SelfHeal, FiniteSetTheorems, TLAPS

\* The workers that record an attempt on a key, and those that have recorded
\* one and not begun it, in the state where workers are at and about.
Recording(at, about, k) == {w \in Workers : about[w] = k /\ at[w] \in {"record", "write"}}
Acting(at, about, k) == {w \in Workers : about[w] = k /\ at[w] = "act"}

\* A worker in the middle of a call is about a key.
KeyInv == \A w \in Workers : pc[w] # "idle" => key[w] \in Keys

\* A key has one recorder at most, and nothing has changed since the ledger
\* said yes to it.
Alone(k) ==
    /\ \A v, w \in Recording(pc, key, k) : v = w
    /\ \A w \in Recording(pc, key, k) :
        /\ row[k].attempts < Cap(k) /\ ~row[k].cooling
        /\ pc[w] = "write" => got[w].attempts = row[k].attempts + 1

\* The ledger counts what is begun or about to be, up to the cap.
Counted(k) ==
    /\ begun[k] + Cardinality(Acting(pc, key, k)) <= row[k].attempts
    /\ row[k].attempts <= Cap(k)

LedgerInv == \A k \in Keys \ raced : Alone(k) /\ Counted(k)

IInv == TypeOK /\ KeyInv /\ LedgerInv

\* What a step does to a key that it neither admits a worker to nor writes the
\* row of: no new recorder, and an attempt begun for each one less to begin.
Quiet(k) ==
    /\ row'[k].attempts = row[k].attempts
    /\ row'[k].cooling => row[k].cooling
    /\ Recording(pc', key', k) \subseteq Recording(pc, key, k)
    /\ \A w \in Recording(pc', key', k) :
        pc'[w] = "write" =>
            \/ pc[w] = "write" /\ got'[w].attempts = got[w].attempts
            \/ got'[w].attempts = row[k].attempts + 1
    /\ begun'[k] + Cardinality(Acting(pc', key', k))
         <= begun[k] + Cardinality(Acting(pc, key, k))
-----------------------------------------------------------------------------
\* The caps are natural numbers.
LEMMA CapType == \A k \in Keys : Cap(k) \in Nat
BY HealAssumption DEF Cap

\* Finitely many workers are about to act.
LEMMA ActingType ==
    ASSUME NEW at, NEW about, NEW k
    PROVE  /\ IsFiniteSet(Acting(at, about, k))
           /\ Cardinality(Acting(at, about, k)) \in Nat
<1>1. Acting(at, about, k) \subseteq Workers
  BY DEF Acting
<1>. QED  BY <1>1, HealAssumption, FS_Subset, FS_CardinalityType

\* No more workers are about to act than before if none has joined them.
LEMMA FewerActing ==
    ASSUME NEW k, Acting(pc', key', k) \subseteq Acting(pc, key, k)
    PROVE  Cardinality(Acting(pc', key', k)) <= Cardinality(Acting(pc, key, k))
BY ActingType, FS_Subset

\* A quiet step keeps the ledger truthful about a key.
LEMMA QuietStep ==
    ASSUME NEW k \in Keys, TypeOK, TypeOK', Alone(k), Counted(k), Quiet(k)
    PROVE  Alone(k)' /\ Counted(k)'
<1>1. Alone(k)'
  BY DEF Alone, Quiet, Recording
<1>2. /\ begun[k] \in Nat /\ begun'[k] \in Nat
      /\ row[k].attempts \in Nat /\ row'[k].attempts \in Nat
  BY DEF TypeOK, Rows
<1>3. /\ Cardinality(Acting(pc, key, k)) \in Nat
      /\ Cardinality(Acting(pc', key', k)) \in Nat
  BY ActingType
<1>4. Counted(k)'
  BY <1>2, <1>3, CapType DEF Counted, Quiet
<1>. QED  BY <1>1, <1>4

\* A worker that turns to a key stays within the types.
LEMMA AskStep ==
    ASSUME TypeOK, KeyInv, NEW w \in Workers, NEW k \in Keys,
           pc' \in {pc, [pc EXCEPT ![w] = "ask"]}, key' = [key EXCEPT ![w] = k],
           UNCHANGED <<row, got, raced, begun>>
    PROVE  TypeOK' /\ KeyInv'
BY DEF TypeOK, KeyInv, Rows

\* So does one that leaves its key, ...
LEMMA StopStep ==
    ASSUME TypeOK, KeyInv, NEW w \in Workers, Stop(w), UNCHANGED <<row, raced, begun>>
    PROVE  TypeOK' /\ KeyInv'
<1>1. NoRow \in Rows
  BY DEF NoRow, Rows
<1>2. got' \in [Workers -> Rows] /\ key' \in [Workers -> Keys \cup {None}]
  BY <1>1 DEF TypeOK, Stop
<1>3. /\ pc' \in [Workers -> {"idle", "ask", "record", "write", "act", "fixing"}]
      /\ KeyInv'
  BY DEF TypeOK, KeyInv, Stop
<1>. QED  BY <1>2, <1>3 DEF TypeOK

\* ... and one that begins an attempt.
LEMMA BeginType == ASSUME TypeOK, NEW k \in Keys, Begin(k) PROVE begun' \in [Keys -> Nat]
BY CapType DEF TypeOK, Begin

\* Every step keeps the types.
LEMMA TypeStep == TypeOK /\ KeyInv /\ [Next]_vars => TypeOK' /\ KeyInv'
<1>. SUFFICES ASSUME TypeOK, KeyInv, [Next]_vars PROVE TypeOK' /\ KeyInv'
  OBVIOUS
<1>1. ASSUME NEW w \in Workers, NEW s \in CISignatures, NEW kind \in {"rerun", "fix"},
             ReviewRun(w, s, kind)
      PROVE  TypeOK' /\ KeyInv'
  <2>1. [kind |-> kind, sig |-> s] \in Keys
    BY DEF Keys
  <2>. QED  BY <1>1, <2>1, AskStep DEF ReviewRun, Ask
<1>2. ASSUME NEW w \in Workers, NEW s \in GateSignatures, GatesFailed(w, s)
      PROVE  TypeOK' /\ KeyInv'
  <2>1. [kind |-> "gate", sig |-> s] \in Keys
    BY DEF Keys
  <2>. QED  BY <1>2, <2>1, AskStep DEF GatesFailed, Ask
<1>3. ASSUME NEW w \in Workers, Admit(w) PROVE TypeOK' /\ KeyInv'
  <2>1. key[w] \in Keys
    BY <1>3 DEF Admit, KeyInv
  <2>2. begun' \in [Keys -> Nat] /\ raced' \subseteq Keys
    BY <1>3, <2>1 DEF Admit, TypeOK
  <2>3. pc' \in [Workers -> {"idle", "ask", "record", "write", "act", "fixing"}]
    BY <1>3 DEF Admit, TypeOK
  <2>4. KeyInv' /\ UNCHANGED <<row, key, got>>
    BY <1>3 DEF Admit, TypeOK, KeyInv
  <2>. QED  BY <2>2, <2>3, <2>4 DEF TypeOK
<1>4. ASSUME NEW w \in Workers, RerunRefused(w) PROVE TypeOK' /\ KeyInv'
  <2>1. [key[w] EXCEPT !.kind = "fix"] \in Keys
    BY <1>4 DEF RerunRefused, KeyInv, Keys
  <2>2. /\ key' = [key EXCEPT ![w] = [key[w] EXCEPT !.kind = "fix"]]
        /\ UNCHANGED <<row, pc, got, raced, begun>>
    BY <1>4 DEF RerunRefused, TypeOK
  <2>. QED  BY <2>1, <2>2, AskStep
<1>5. ASSUME NEW w \in Workers, FixRefused(w) \/ EndAttempt(w) \/ Die(w)
      PROVE  TypeOK' /\ KeyInv'
  BY <1>5, StopStep DEF FixRefused, EndAttempt, Die
<1>6. ASSUME NEW w \in Workers, ReadAttempts(w) PROVE TypeOK' /\ KeyInv'
  <2>1. row[key[w]] \in Rows
    BY <1>6 DEF ReadAttempts, TypeOK, KeyInv
  <2>2. [attempts |-> row[key[w]].attempts + 1, cooling |-> TRUE] \in Rows
    BY <2>1 DEF Rows
  <2>3. got' \in [Workers -> Rows]
    BY <1>6, <2>2 DEF ReadAttempts, TypeOK
  <2>. QED  BY <1>6, <2>3 DEF ReadAttempts, TypeOK, KeyInv
<1>7. ASSUME NEW w \in Workers, WriteAttempts(w) PROVE TypeOK' /\ KeyInv'
  BY <1>7 DEF TypeOK, KeyInv, Rows, WriteAttempts, NoRow
<1>8. ASSUME NEW w \in Workers, RerunJobs(w) PROVE TypeOK' /\ KeyInv'
  <2>1. begun' \in [Keys -> Nat]
    BY <1>8, BeginType DEF RerunJobs, KeyInv
  <2>2. got' \in [Workers -> Rows] /\ key' \in [Workers -> Keys \cup {None}]
    BY <1>8 DEF TypeOK, KeyInv, Rows, RerunJobs, Stop, NoRow
  <2>3. /\ pc' \in [Workers -> {"idle", "ask", "record", "write", "act", "fixing"}]
        /\ KeyInv'
    BY <1>8 DEF TypeOK, KeyInv, Rows, RerunJobs, Stop
  <2>. QED  BY <1>8, <2>1, <2>2, <2>3 DEF RerunJobs, TypeOK, KeyInv, Rows
<1>9. ASSUME NEW w \in Workers, StartFixer(w) PROVE TypeOK' /\ KeyInv'
  <2>1. begun' \in [Keys -> Nat]
    BY <1>9, BeginType DEF StartFixer, KeyInv
  <2>2. /\ pc' \in [Workers -> {"idle", "ask", "record", "write", "act", "fixing"}]
        /\ UNCHANGED <<row, key, got, raced>>
    BY <1>9 DEF StartFixer, TypeOK, KeyInv, Rows
  <2>. QED  BY <1>9, <2>1, <2>2 DEF StartFixer, TypeOK, KeyInv, Rows
<1>10. ASSUME NEW k \in Keys, BackoffPasses(k) PROVE TypeOK' /\ KeyInv'
  BY <1>10 DEF BackoffPasses, TypeOK, KeyInv, Rows
<1>11. ASSUME NEW w \in Workers, BackoffPassesUnwritten(w) PROVE TypeOK' /\ KeyInv'
  BY <1>11 DEF BackoffPassesUnwritten, TypeOK, KeyInv, Rows
<1>12. CASE UNCHANGED vars
  BY <1>12 DEF vars, TypeOK, KeyInv, Rows
<1>. QED
  BY <1>1, <1>2, <1>3, <1>4, <1>5, <1>6, <1>7, <1>8, <1>9, <1>10, <1>11, <1>12
  DEF Next, Work

\* A step that does not touch the ledger: workers only move, not to act.
LEMMA MovingStep ==
    ASSUME NEW w \in Workers, NEW k \in Keys, TypeOK,
           UNCHANGED <<row, begun, raced>>,
           \A v \in Workers \ {w} : pc'[v] = pc[v] /\ key'[v] = key[v] /\ got'[v] = got[v],
           pc'[w] \notin {"record", "write", "act"} \/ (pc'[w] = pc[w] /\ key'[w] = key[w]),
           pc'[w] = "write" => got'[w].attempts = got[w].attempts
    PROVE  Quiet(k)
<1>1. Acting(pc', key', k) \subseteq Acting(pc, key, k)
  BY DEF Acting
<1>2. begun'[k] \in Nat
  BY DEF TypeOK
<1>3. begun'[k] + Cardinality(Acting(pc', key', k)) <= begun[k] + Cardinality(Acting(pc, key, k))
  BY <1>1, <1>2, FewerActing, ActingType
<1>. QED  BY <1>3 DEF Quiet, Recording

\* A step that begins an attempt: one worker less is about to act.
LEMMA BeginningStep ==
    ASSUME NEW w \in Workers, NEW k \in Keys, TypeOK, KeyInv, Counted(k), k \notin raced,
           pc[w] = "act", pc'[w] \in {"idle", "fixing"},
           \A v \in Workers \ {w} : pc'[v] = pc[v] /\ key'[v] = key[v] /\ got'[v] = got[v],
           Begin(key[w]), UNCHANGED row
    PROVE  Quiet(k)
<1>1. \A v \in Recording(pc', key', k) :
        v \in Recording(pc, key, k) /\ pc'[v] = pc[v] /\ got'[v] = got[v]
  BY DEF Recording
<1>2. Acting(pc', key', k) = Acting(pc, key, k) \ {w}
  BY DEF Acting
<1>3. begun[k] \in Nat /\ key[w] \in Keys /\ row[k].attempts \in Nat /\ Cap(k) \in Nat
  BY CapType DEF TypeOK, KeyInv, Rows
<1>4. CASE key[w] = k
  <2>1. w \in Acting(pc, key, k)
    BY <1>4 DEF Acting
  <2>2. Cardinality(Acting(pc', key', k)) = Cardinality(Acting(pc, key, k)) - 1
    BY <1>2, <2>1, ActingType, FS_RemoveElement
  <2>3. begun'[k] = IF k \in raced \/ begun[k] > Cap(k) THEN begun[k] ELSE begun[k] + 1
    <3>1. begun' = [begun EXCEPT ![k] = IF k \in raced \/ begun[k] > Cap(k)
                                          THEN begun[k] ELSE begun[k] + 1]
      BY <1>4 DEF Begin
    <3>. QED  BY <3>1 DEF TypeOK
  <2>4. begun'[k] + Cardinality(Acting(pc', key', k))
          <= begun[k] + Cardinality(Acting(pc, key, k))
    BY <1>3, <2>2, <2>3, ActingType
  <2>. QED  BY <1>1, <2>4 DEF Quiet
<1>5. CASE key[w] # k
  <2>1. begun'[k] = begun[k]
    BY <1>3, <1>5 DEF Begin, TypeOK
  <2>2. begun'[k] + Cardinality(Acting(pc', key', k))
          <= begun[k] + Cardinality(Acting(pc, key, k))
    <3>1. Acting(pc', key', k) \subseteq Acting(pc, key, k)
      BY <1>2
    <3>. QED  BY <1>3, <2>1, <3>1, FewerActing, ActingType
  <2>. QED  BY <1>1, <2>2 DEF Quiet
<1>. QED  BY <1>4, <1>5

\* Every step keeps the ledger truthful.
LEMMA LedgerStep == IInv /\ TypeOK' /\ [Next]_vars => LedgerInv'
<1>. SUFFICES ASSUME IInv, TypeOK', [Next]_vars, NEW k \in Keys \ raced'
              PROVE  Alone(k)' /\ Counted(k)'
  BY DEF LedgerInv
<1>1. TypeOK /\ KeyInv /\ LedgerInv
  BY DEF IInv
<1>2. k \notin raced /\ Alone(k) /\ Counted(k)
  BY <1>1 DEF LedgerInv, Next, vars, Work, ReviewRun, GatesFailed, Admit, RerunRefused,
     FixRefused, ReadAttempts, WriteAttempts, RerunJobs, StartFixer, EndAttempt, Die,
     BackoffPasses, BackoffPassesUnwritten
<1>. SUFFICES Quiet(k) \/ (Alone(k)' /\ Counted(k)')
  BY <1>1, <1>2, QuietStep
<1>3. ASSUME NEW w \in Workers,
             \/ \E s \in CISignatures, kind \in {"rerun", "fix"} : ReviewRun(w, s, kind)
             \/ \E s \in GateSignatures : GatesFailed(w, s)
      PROVE  Quiet(k)
  BY <1>1, <1>3, MovingStep DEF ReviewRun, GatesFailed, Ask, TypeOK
<1>4. ASSUME NEW w \in Workers, RerunRefused(w) PROVE Quiet(k)
  BY <1>1, <1>4, MovingStep DEF RerunRefused, TypeOK
<1>5. ASSUME NEW w \in Workers, FixRefused(w) \/ EndAttempt(w) \/ Die(w) PROVE Quiet(k)
  BY <1>1, <1>5, MovingStep DEF FixRefused, EndAttempt, Die, Stop, TypeOK
<1>6. ASSUME NEW w \in Workers, BackoffPassesUnwritten(w) PROVE Quiet(k)
  BY <1>1, <1>6, MovingStep DEF BackoffPassesUnwritten, TypeOK
<1>7. ASSUME NEW w \in Workers, RerunJobs(w) \/ StartFixer(w) PROVE Quiet(k)
  <2>1. pc[w] = "act" /\ Begin(key[w]) /\ UNCHANGED row
    BY <1>7 DEF RerunJobs, StartFixer
  <2>2. /\ pc'[w] \in {"idle", "fixing"}
        /\ \A v \in Workers \ {w} : pc'[v] = pc[v] /\ key'[v] = key[v] /\ got'[v] = got[v]
    BY <1>1, <1>7 DEF RerunJobs, StartFixer, Stop, TypeOK
  <2>. QED  BY <1>1, <1>2, <2>1, <2>2, BeginningStep
<1>8. ASSUME NEW w \in Workers, ReadAttempts(w) PROVE Quiet(k)
  <2>1. Acting(pc', key', k) \subseteq Acting(pc, key, k) /\ begun'[k] \in Nat
    BY <1>1, <1>8 DEF ReadAttempts, Acting, TypeOK
  <2>2. begun'[k] + Cardinality(Acting(pc', key', k))
          <= begun[k] + Cardinality(Acting(pc, key, k))
    <3>1. begun'[k] = begun[k]
      BY <1>8 DEF ReadAttempts
    <3>. QED  BY <2>1, <3>1, FewerActing, ActingType
  <2>3. \A v \in Recording(pc', key', k) :
          pc'[v] = "write" =>
              \/ pc[v] = "write" /\ got'[v].attempts = got[v].attempts
              \/ got'[v].attempts = row[k].attempts + 1
    BY <1>1, <1>8 DEF ReadAttempts, Recording, TypeOK
  <2>. QED  BY <1>1, <1>8, <2>2, <2>3 DEF Quiet, Recording, ReadAttempts, TypeOK
<1>9. ASSUME NEW j \in Keys, BackoffPasses(j) PROVE Quiet(k)
  <2>1. Acting(pc', key', k) = Acting(pc, key, k) /\ begun'[k] \in Nat
    BY <1>1, <1>9 DEF BackoffPasses, TypeOK
  <2>2. begun'[k] + Cardinality(Acting(pc', key', k))
          <= begun[k] + Cardinality(Acting(pc, key, k))
    <3>1. begun'[k] = begun[k]
      BY <1>9 DEF BackoffPasses
    <3>. QED  BY <2>1, <3>1, FewerActing, ActingType
  <2>3. row'[k].attempts = row[k].attempts /\ (row'[k].cooling => row[k].cooling)
    BY <1>1, <1>9 DEF BackoffPasses, TypeOK, Rows
  <2>. QED  BY <1>9, <2>2, <2>3 DEF Quiet, Recording, BackoffPasses
<1>10. ASSUME NEW w \in Workers, Admit(w) PROVE Quiet(k) \/ (Alone(k)' /\ Counted(k)')
  <2>1. Acting(pc', key', k) = Acting(pc, key, k)
    BY <1>1, <1>10 DEF Admit, Acting, TypeOK
  <2>2. UNCHANGED <<row, key, got>> /\ begun'[k] = begun[k]
    BY <1>1, <1>10 DEF Admit, TypeOK
  <2>3. begun'[k] + Cardinality(Acting(pc', key', k))
          <= begun[k] + Cardinality(Acting(pc, key, k))
    <3>1. begun[k] \in Nat
      BY <1>1 DEF TypeOK
    <3>. QED  BY <2>1, <2>2, <3>1, ActingType
  <2>4. CASE key[w] # k
    <3>1. Recording(pc', key', k) \subseteq Recording(pc, key, k)
      BY <1>1, <1>10, <2>4 DEF Admit, Recording, TypeOK
    <3>2. \A v \in Recording(pc', key', k) : pc'[v] = pc[v]
      BY <1>1, <1>10, <2>4 DEF Admit, Recording, TypeOK
    <3>. QED  BY <2>2, <2>3, <3>1, <3>2 DEF Quiet
  <2>5. CASE key[w] = k
    <3>1. Recording(pc', key', k) = {w} /\ pc'[w] = "record"
      BY <1>1, <1>10, <2>5 DEF Admit, Recording, TypeOK
    <3>2. row[k].attempts < Cap(k) /\ ~row[k].cooling
      BY <1>10, <2>5 DEF Admit, Allowed
    <3>3. Alone(k)'
      BY <2>2, <3>1, <3>2 DEF Alone
    <3>4. Counted(k)'
      BY <1>2, <2>1, <2>2 DEF Counted
    <3>. QED  BY <3>3, <3>4
  <2>. QED  BY <2>4, <2>5
<1>11. ASSUME NEW w \in Workers, WriteAttempts(w) PROVE Quiet(k) \/ (Alone(k)' /\ Counted(k)')
  <2>1. UNCHANGED <<key, begun>> /\ got'[w] = NoRow
    BY <1>1, <1>11 DEF WriteAttempts, TypeOK
  <2>2. Recording(pc', key', k) = Recording(pc, key, k) \ {w}
    BY <1>1, <1>11 DEF WriteAttempts, Recording, TypeOK
  <2>3. CASE key[w] # k
    <3>1. Acting(pc', key', k) \subseteq Acting(pc, key, k)
      BY <1>1, <1>11, <2>3 DEF WriteAttempts, Acting, TypeOK
    <3>2. begun'[k] = begun[k] /\ begun[k] \in Nat
      BY <1>1, <2>1 DEF TypeOK
    <3>3. row'[k] = row[k]
      BY <1>1, <1>11, <2>3 DEF WriteAttempts, TypeOK
    <3>4. \A v \in Recording(pc', key', k) : pc'[v] = pc[v] /\ got'[v] = got[v]
      BY <1>1, <1>11, <2>2 DEF WriteAttempts, Recording, TypeOK
    <3>5. begun'[k] + Cardinality(Acting(pc', key', k))
            <= begun[k] + Cardinality(Acting(pc, key, k))
      BY <3>1, <3>2, FewerActing, ActingType
    <3>. QED  BY <2>2, <3>3, <3>4, <3>5 DEF Quiet
  <2>4. CASE key[w] = k
    <3>1. w \in Recording(pc, key, k) /\ pc[w] = "write"
      BY <1>11, <2>4 DEF WriteAttempts, Recording
    <3>2. Recording(pc', key', k) = {}
      BY <1>2, <2>2, <3>1 DEF Alone
    <3>3. Alone(k)'
      BY <3>2 DEF Alone
    <3>4. row'[k].attempts = row[k].attempts + 1 /\ row[k].attempts < Cap(k)
      BY <1>1, <1>2, <1>11, <2>4, <3>1 DEF Alone, WriteAttempts, TypeOK
    <3>5. Acting(pc', key', k) = Acting(pc, key, k) \cup {w} /\ w \notin Acting(pc, key, k)
      BY <1>1, <1>11, <2>4 DEF WriteAttempts, Acting, TypeOK
    <3>6. Cardinality(Acting(pc', key', k)) = Cardinality(Acting(pc, key, k)) + 1
      BY <3>5, ActingType, FS_AddElement
    <3>7. begun[k] \in Nat /\ row[k].attempts \in Nat /\ Cap(k) \in Nat
      BY <1>1, CapType DEF TypeOK, Rows
    <3>8. Counted(k)'
      BY <1>2, <2>1, <3>4, <3>6, <3>7, ActingType DEF Counted
    <3>. QED  BY <3>3, <3>8
  <2>. QED  BY <2>3, <2>4
<1>12. CASE UNCHANGED vars
  BY <1>2, <1>12 DEF vars, Alone, Counted, Recording, Acting
<1>. QED
  BY <1>3, <1>4, <1>5, <1>6, <1>7, <1>8, <1>9, <1>10, <1>11, <1>12 DEF Next, Work
-----------------------------------------------------------------------------
\* A fresh ledger is truthful: nobody is about to act.
LEMMA FreshLedger == Init => IInv
<1>. SUFFICES ASSUME Init PROVE IInv
  OBVIOUS
<1>1. NoRow \in Rows
  BY DEF NoRow, Rows
<1>2. /\ row \in [Keys -> Rows] /\ got \in [Workers -> Rows]
      /\ key \in [Workers -> Keys \cup {None}]
  BY <1>1 DEF Init
<1>3. /\ pc \in [Workers -> {"idle", "ask", "record", "write", "act", "fixing"}]
      /\ begun \in [Keys -> Nat] /\ raced \subseteq Keys
  BY DEF Init
<1>4. KeyInv
  BY DEF Init, KeyInv
<1>5. ASSUME NEW k \in Keys PROVE Alone(k) /\ Counted(k)
  <2>1. Recording(pc, key, k) = {} /\ Acting(pc, key, k) = {}
    BY DEF Init, Recording, Acting
  <2>2. begun[k] = 0 /\ row[k].attempts = 0
    BY DEF Init, NoRow
  <2>. QED  BY <2>1, <2>2, CapType, FS_EmptySet DEF Alone, Counted
<1>. QED  BY <1>2, <1>3, <1>4, <1>5 DEF IInv, TypeOK, LedgerInv

\* The inductive invariant holds.
LEMMA Invariance == Spec => []IInv
<1>1. IInv /\ [Next]_vars => IInv'
  BY TypeStep, LedgerStep DEF IInv
<1>. QED  BY FreshLedger, <1>1, PTL DEF Spec

\* "A signature that keeps failing is retried at most max_fix_attempts times"
\* (guardrails.py:3-4): if no two workers asked about it at once.
THEOREM CapHolds == Spec => []CapUnlessRaced
<1>1. IInv => CapUnlessRaced
  <2>. SUFFICES ASSUME IInv, NEW k \in Keys \ raced
                PROVE  begun[k] <= row[k].attempts /\ row[k].attempts <= Cap(k)
    BY DEF CapUnlessRaced
  <2>1. Counted(k)
    BY DEF IInv, LedgerInv
  <2>2. begun[k] \in Nat /\ row[k].attempts \in Nat
    BY DEF IInv, TypeOK, Rows
  <2>. QED  BY <2>1, <2>2, ActingType DEF Counted
<1>. QED  BY Invariance, <1>1, PTL

\* No attempt is recorded during the backoff of the one before it, if no two
\* workers asked about the signature at once (guardrails.allowed, record).
THEOREM BackoffHolds == Spec => BackoffUnlessRaced
<1>1. IInv /\ [Next]_vars =>
        [\A k \in Keys \ raced : row'[k].attempts # row[k].attempts => ~row[k].cooling]_vars
  <2>. SUFFICES ASSUME IInv, Next, NEW k \in Keys \ raced,
                       row'[k].attempts # row[k].attempts
                PROVE  ~row[k].cooling
    BY DEF vars
  <2>1. TypeOK /\ Alone(k)
    BY DEF IInv, LedgerInv
  <2>2. PICK w \in Workers : WriteAttempts(w)
    <3>1. ASSUME NEW j \in Keys, BackoffPasses(j) PROVE FALSE
      BY <2>1, <3>1 DEF BackoffPasses, TypeOK, Rows
    <3>. QED  BY <3>1 DEF Next, Work, ReviewRun, GatesFailed, Admit, RerunRefused, FixRefused,
                ReadAttempts, RerunJobs, StartFixer, EndAttempt, Die, BackoffPassesUnwritten
  <2>3. key[w] = k
    BY <2>1, <2>2 DEF WriteAttempts, TypeOK
  <2>4. w \in Recording(pc, key, k)
    BY <2>2, <2>3 DEF WriteAttempts, Recording
  <2>. QED  BY <2>1, <2>4 DEF Alone
<1>. QED  BY Invariance, <1>1, PTL DEF Spec, BackoffUnlessRaced
\* The ledger's rows, the copies of them about to be written and the counts of
\* attempts keep their types, and every worker in a call is about a key.
THEOREM TypeCorrect == Spec => [](TypeOK /\ KeyInv)
<1>1. IInv => TypeOK /\ KeyInv
  BY DEF IInv
<1>. QED  BY Invariance, <1>1, PTL
-----------------------------------------------------------------------------
\* The ledger has counted n attempts on a key, and no worker is about to write
\* back a smaller count.
AtLeast(k, n) ==
    /\ n <= row[k].attempts
    /\ \A w \in Workers : pc[w] = "write" /\ key[w] = k => n <= got[w].attempts

\* Nobody counts an attempt from what is below the counts there are.
Onwards(k, n) ==
    /\ AtLeast(k, n)'
    /\ \A w \in Workers :
        pc[w] = "record" /\ key[w] = k /\ pc'[w] = "write" => n < got'[w].attempts

\* A step of a worker that leaves the rows alone, and its copy unless it has
\* just read the row, loses no count.
LEMMA CopyStep ==
    ASSUME NEW k \in Keys, NEW n \in Nat, NEW w \in Workers, TypeOK, AtLeast(k, n),
           UNCHANGED row,
           \A v \in Workers \ {w} : pc'[v] = pc[v] /\ key'[v] = key[v] /\ got'[v] = got[v],
           \/ pc'[w] # "write"
           \/ pc[w] = "write" /\ key'[w] = key[w] /\ got'[w].attempts = got[w].attempts
    PROVE  Onwards(k, n)
BY DEF AtLeast, Onwards

\* Every step loses no count below those there are.
LEMMA OnwardsStep ==
    ASSUME NEW k \in Keys, NEW n \in Nat, TypeOK, KeyInv, AtLeast(k, n), Next
    PROVE  Onwards(k, n)
<1>1. ASSUME NEW w \in Workers,
             \/ \E s \in CISignatures, kind \in {"rerun", "fix"} : ReviewRun(w, s, kind)
             \/ \E s \in GateSignatures : GatesFailed(w, s)
      PROVE  Onwards(k, n)
  BY <1>1, CopyStep DEF ReviewRun, GatesFailed, Ask, TypeOK
<1>2. ASSUME NEW w \in Workers, Admit(w) \/ RerunRefused(w) PROVE Onwards(k, n)
  BY <1>2, CopyStep DEF Admit, RerunRefused, TypeOK
<1>3. ASSUME NEW w \in Workers,
             FixRefused(w) \/ EndAttempt(w) \/ Die(w) \/ RerunJobs(w) \/ StartFixer(w)
      PROVE  Onwards(k, n)
  BY <1>3, CopyStep DEF FixRefused, EndAttempt, Die, RerunJobs, StartFixer, Stop, TypeOK
<1>4. ASSUME NEW w \in Workers, BackoffPassesUnwritten(w) PROVE Onwards(k, n)
  BY <1>4, CopyStep DEF BackoffPassesUnwritten, TypeOK, Rows
<1>5. ASSUME NEW w \in Workers, ReadAttempts(w) PROVE Onwards(k, n)
  <2>1. key[w] \in Keys /\ row[key[w]].attempts \in Nat
    BY <1>5 DEF ReadAttempts, TypeOK, KeyInv, Rows
  <2>2. got'[w].attempts = row[key[w]].attempts + 1
    BY <1>5 DEF ReadAttempts, TypeOK
  <2>3. \A v \in Workers \ {w} : pc'[v] = pc[v] /\ got'[v] = got[v]
    BY <1>5 DEF ReadAttempts, TypeOK
  <2>4. UNCHANGED <<row, key>>
    BY <1>5 DEF ReadAttempts
  <2>. QED  BY <2>1, <2>2, <2>3, <2>4 DEF AtLeast, Onwards
<1>6. ASSUME NEW w \in Workers, WriteAttempts(w) PROVE Onwards(k, n)
  <2>1. pc'[w] = "act" /\ \A v \in Workers \ {w} : pc'[v] = pc[v] /\ got'[v] = got[v]
    BY <1>6 DEF WriteAttempts, TypeOK
  <2>2. row'[k] = IF key[w] = k THEN got[w] ELSE row[k]
    BY <1>6 DEF WriteAttempts, TypeOK
  <2>. QED  BY <1>6, <2>1, <2>2 DEF AtLeast, Onwards, WriteAttempts
<1>7. ASSUME NEW j \in Keys, BackoffPasses(j) PROVE Onwards(k, n)
  <2>1. row'[k].attempts = row[k].attempts
    BY <1>7 DEF BackoffPasses, TypeOK, Rows
  <2>. QED  BY <1>7, <2>1 DEF BackoffPasses, AtLeast, Onwards
<1>. QED  BY <1>1, <1>2, <1>3, <1>4, <1>5, <1>6, <1>7 DEF Next, Work

\* Why healing ends even if workers race (guardrails.py:5-6): a lost update takes
\* a count back no further than the smallest copy about to be written.  Once that
\* and the row have reached n they stay there, and every attempt recorded
\* from then on is counted from n or more, towards the cap.
THEOREM LossBounded ==
    ASSUME NEW k \in Keys, NEW n \in Nat
    PROVE  Spec => [][AtLeast(k, n) => Onwards(k, n)]_vars
<1>1. IInv /\ [Next]_vars => [AtLeast(k, n) => Onwards(k, n)]_vars
  BY OnwardsStep DEF IInv
<1>. QED  BY Invariance, <1>1, PTL DEF Spec
=============================================================================
