------------------------------ MODULE SelfHeal ------------------------------
(***************************************************************************)
(* Self-healing: the guardrail ledger (factory/selfheal/guardrails.py) and *)
(* the two callers that ask it before they act, CIReviewer                 *)
(* (selfheal/ci_review.py) and GateHealer (selfheal/loop.py).              *)
(*                                                                         *)
(* allowed and record are separate transactions, and record itself is a    *)
(* read and a write, so every one is an action: healing runs of other      *)
(* processes come in between.  Of time only this is kept, whether          *)
(* next_allowed still lies ahead: a backoff may pass at any moment, so its *)
(* length (which doubles with every attempt) is immaterial here.           *)
(***************************************************************************)
EXTENDS Naturals, FiniteSets

CONSTANTS
    Workers,        \* processes: factory heal, pipelines whose gates failed
    CISignatures,   \* failure signatures of CI runs
    GateSignatures, \* failure signatures of gates
    None,
    MaxReruns,      \* selfheal.max_reruns
    MaxFixes        \* selfheal.max_fix_attempts

ASSUME HealAssumption ==
    /\ IsFiniteSet(Workers)
    /\ MaxReruns \in Nat /\ MaxFixes \in Nat

\* What is counted: reruns of a signature apart from fixes of it.
Keys == [kind : {"rerun", "fix"}, sig : CISignatures]
          \cup [kind : {"gate"}, sig : GateSignatures]
Cap(k) == IF k.kind = "rerun" THEN MaxReruns ELSE MaxFixes

VARIABLES
    row,       \* row[k]: the ledger's count, and if it is in its backoff
    pc, key,   \* where a worker is, and the key it is about
    got,       \* the row a worker is going to write
    \* history:
    raced,     \* keys two workers asked the ledger about at once
    begun      \* reruns and fixers started, per key: counted up to Cap + 1,
               \* and not any more once raced

vars == <<row, pc, key, got, raced, begun>>

Rows == [attempts : Nat, cooling : BOOLEAN]
NoRow == [attempts |-> 0, cooling |-> FALSE]

TypeOK ==
    /\ row \in [Keys -> Rows]
    /\ pc \in [Workers -> {"idle", "ask", "record", "write", "act", "fixing"}]
    /\ key \in [Workers -> Keys \cup {None}]
    /\ got \in [Workers -> Rows]
    /\ begun \in [Keys -> Nat]
    /\ raced \subseteq Keys

Init ==
    /\ row = [k \in Keys |-> NoRow]
    /\ pc = [w \in Workers |-> "idle"]
    /\ key = [w \in Workers |-> None]
    /\ got = [w \in Workers |-> NoRow]
    /\ begun = [k \in Keys |-> 0]
    /\ raced = {}
-----------------------------------------------------------------------------
\* Wrong: the cap may be exceeded by one.
AllowedOnceMore(k) == row[k].attempts <= Cap(k) /\ ~row[k].cooling

\* Wrong: the backoff is not looked at.
AllowedAtOnce(k) == row[k].attempts < Cap(k)

\* allowed: under the cap and past the backoff.
Allowed(k) == row[k].attempts < Cap(k) /\ ~row[k].cooling

Ask(w, k) ==
    /\ pc' = [pc EXCEPT ![w] = "ask"]
    /\ key' = [key EXCEPT ![w] = k]

\* Done with the key: an issue for humans (_escalate), if any, is opened and
\* the worktree, if any, removed; that either fails is only logged.
Stop(w) ==
    /\ pc' = [pc EXCEPT ![w] = "idle"]
    /\ key' = [key EXCEPT ![w] = None]
    /\ got' = [got EXCEPT ![w] = NoRow]

\* CIReviewer: the ci_analyzer agent has classified a failed run as
\* transient or as fixable.  (What it escalates is a GitHub issue, no more.)
ReviewRun(w, s, kind) ==
    /\ pc[w] = "idle"
    /\ Ask(w, [kind |-> kind, sig |-> s])
    /\ UNCHANGED <<row, got, raced, begun>>

\* GateHealer.heal: the gates of a task have failed.
GatesFailed(w, s) ==
    /\ pc[w] = "idle"
    /\ Ask(w, [kind |-> "gate", sig |-> s])
    /\ UNCHANGED <<row, got, raced, begun>>

\* The ledger says yes.
Admit(w) ==
    /\ pc[w] = "ask"
    /\ Allowed(key[w])
    /\ pc' = [pc EXCEPT ![w] = "record"]
    /\ IF \E v \in Workers \ {w} : key[v] = key[w] /\ pc[v] \in {"record", "write"}
         THEN raced' = raced \cup {key[w]} /\ begun' = [begun EXCEPT ![key[w]] = 0]
         ELSE UNCHANGED <<raced, begun>>
    /\ UNCHANGED <<row, key, got>>

\* It says no to a rerun, at the cap or only in a backoff: the failure is
\* handed to the fixer either way.
RerunRefused(w) ==
    /\ pc[w] = "ask"
    /\ key[w].kind = "rerun" /\ ~Allowed(key[w])
    /\ key' = [key EXCEPT ![w].kind = "fix"]
    /\ UNCHANGED <<row, pc, got, raced, begun>>

\* It says no to a fix: escalated to humans, or the task is BLOCKED.
FixRefused(w) ==
    /\ pc[w] = "ask"
    /\ key[w].kind # "rerun" /\ ~Allowed(key[w])
    /\ Stop(w)
    /\ UNCHANGED <<row, raced, begun>>

\* record, first transaction: the row to write.
ReadAttempts(w) ==
    /\ pc[w] = "record"
    /\ got' = [got EXCEPT ![w] =
           [attempts |-> row[key[w]].attempts + 1, cooling |-> TRUE]]
    /\ pc' = [pc EXCEPT ![w] = "write"]
    /\ UNCHANGED <<row, key, raced, begun>>

\* Wrong: an existing row is kept (ON CONFLICT DO NOTHING).
WriteFirstOnly(w) ==
    /\ pc[w] = "write"
    /\ row' = [row EXCEPT ![key[w]] = IF @ = NoRow THEN got[w] ELSE @]
    /\ got' = [got EXCEPT ![w] = NoRow]
    /\ pc' = [pc EXCEPT ![w] = "act"]
    /\ UNCHANGED <<key, raced, begun>>

\* record, second transaction.
WriteAttempts(w) ==
    /\ pc[w] = "write"
    /\ row' = [row EXCEPT ![key[w]] = got[w]]
    /\ got' = [got EXCEPT ![w] = NoRow]
    /\ pc' = [pc EXCEPT ![w] = "act"]
    /\ UNCHANGED <<key, raced, begun>>

Begin(k) ==
    begun' = [begun EXCEPT ![k] = IF k \in raced \/ @ > Cap(k) THEN @ ELSE @ + 1]

\* rerun_failed_jobs.
RerunJobs(w) ==
    /\ pc[w] = "act"
    /\ key[w].kind = "rerun"
    /\ Begin(key[w])
    /\ Stop(w)
    /\ UNCHANGED <<row, raced>>

\* The worktree is made - for CI on a branch named after signature and
\* attempt, else of the failing branch - and the fixer starts.
StartFixer(w) ==
    /\ pc[w] = "act"
    /\ key[w].kind # "rerun"
    /\ Begin(key[w])
    /\ pc' = [pc EXCEPT ![w] = "fixing"]
    /\ UNCHANGED <<row, key, got, raced>>

\* The attempt is over: with a pull request, a commit for the gates to look
\* at, or no change; or because the rerun, the worktree (the branch may exist
\* already), the fixer, the security gate or GitHub has failed.
EndAttempt(w) ==
    /\ pc[w] \in {"act", "fixing"}
    /\ Stop(w)
    /\ UNCHANGED <<row, raced, begun>>

\* The process is killed, or the database stays locked for too long.
Die(w) ==
    /\ pc[w] # "idle"
    /\ Stop(w)
    /\ UNCHANGED <<row, raced, begun>>

\* A backoff is over.  It runs from before the row is written.
BackoffPasses(k) ==
    /\ row[k].cooling
    /\ row' = [row EXCEPT ![k].cooling = FALSE]
    /\ UNCHANGED <<pc, key, got, raced, begun>>

BackoffPassesUnwritten(w) ==
    /\ pc[w] = "write"
    /\ got[w].cooling
    /\ got' = [got EXCEPT ![w].cooling = FALSE]
    /\ UNCHANGED <<row, pc, key, raced, begun>>

Work(w) ==
    \/ Admit(w) \/ RerunRefused(w) \/ FixRefused(w)
    \/ ReadAttempts(w) \/ WriteAttempts(w)
    \/ RerunJobs(w) \/ StartFixer(w) \/ EndAttempt(w)

Next ==
    \/ \E w \in Workers :
        \/ Work(w) \/ Die(w) \/ BackoffPassesUnwritten(w)
        \/ \E s \in CISignatures, kind \in {"rerun", "fix"} : ReviewRun(w, s, kind)
        \/ \E s \in GateSignatures : GatesFailed(w, s)
    \/ \E k \in Keys : BackoffPasses(k)

\* No step has to happen: a worker may be killed, and the agent it waits for
\* may never return.
Spec == Init /\ [][Next]_vars
-----------------------------------------------------------------------------
(* Properties. *)

\* "A signature that keeps failing is retried at most max_fix_attempts times"
\* (guardrails.py:3-4), and rerun at most max_reruns times: unless two workers
\* asked about the key at once, the ledger has counted every attempt begun,
\* whoever died meanwhile, and not more than the cap.
CapUnlessRaced ==
    \A k \in Keys \ raced : begun[k] <= row[k].attempts /\ row[k].attempts <= Cap(k)

\* No attempt is recorded before the backoff of the one before it is over,
\* unless two workers asked at once.
BackoffUnlessRaced ==
    [][\A k \in Keys \ raced :
           row'[k].attempts # row[k].attempts => ~row[k].cooling]_vars

\* "This is what prevents runaway healing loops" (guardrails.py:5-6): even if
\* workers race and lose each other's updates for as long as they live, or die
\* and are replaced, attempts on a finite set of signatures are at some time no
\* longer begun.
NoRunaway == <>[][\A w \in Workers : ~(RerunJobs(w) \/ StartFixer(w))]_vars
=============================================================================
