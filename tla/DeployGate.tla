----------------------------- MODULE DeployGate -----------------------------
(***************************************************************************)
(* The human deploy gate (factory/deploy/gate.py) and the runner that      *)
(* executes what it lets through (factory/deploy/runner.py).               *)
(*                                                                         *)
(* Pending request and history live in one JSON file.  The CLI, the        *)
(* request threads of the dashboard and the runner all load it, decide on  *)
(* their copy and write it back, without a lock: load and decision are one *)
(* action here, truncating the file and writing it are two more.           *)
(***************************************************************************)
EXTENDS Naturals, Sequences

CONSTANTS
    Actors,       \* CLI processes, dashboard threads, runners
    Requests,     \* deploy requests, told apart even if they name one ref
    None,         \* nothing pending
    Torn,         \* a file that does not parse
    MaxHistory    \* MAX_HISTORY

Calls == {"request", "approve", "reject", "take"}

ASSUME DeployAssumption ==
    /\ None \notin Requests \cup Calls
    /\ MaxHistory \in Nat

Pending == [request : Requests, approved : BOOLEAN]
Entry == [request : Requests, outcome : {"executed", "rejected"}]
Histories == {h \in Seq(Entry) : Len(h) <= MaxHistory}
Content == [pending : Pending \cup {None}, history : Histories]

ASSUME TornAssumption == Torn \notin Content /\ None \notin Pending

VARIABLES
    file,        \* .factory/deploy.json
    pc,          \* pc[a]: where actor a is in a call
    call,        \* call[a]: the call it is in
    data,        \* data[a]: the content it is going to write
    subject,     \* subject[a]: the request its call is about
    requested,   \* history: requests made
    approvals,   \* history: requests somebody called approve on
    rejections,  \* history: requests whose rejection was reported
    deployed,    \* history: starts of r's hook: none, one, or more (2)
    overlapped   \* history: a call began during another one

vars == <<file, pc, call, data, subject, requested, approvals, rejections,
          deployed, overlapped>>
history == <<requested, approvals, rejections, deployed>>

Empty == [pending |-> None, history |-> <<>>]

TypeOK ==
    /\ file \in Content \cup {Torn}
    /\ pc \in [Actors -> {"idle", "save", "write", "hook"}]
    /\ call \in [Actors -> Calls \cup {None}]
    /\ data \in [Actors -> Content]
    /\ subject \in [Actors -> Requests \cup {None}]
    /\ requested \subseteq Requests
    /\ approvals \subseteq Requests
    /\ rejections \subseteq Requests
    /\ deployed \in [Requests -> 0..2]
    /\ overlapped \in BOOLEAN

Init ==
    /\ file = Empty
    /\ pc = [a \in Actors |-> "idle"]
    /\ call = [a \in Actors |-> None]
    /\ data = [a \in Actors |-> Empty]
    /\ subject = [a \in Actors |-> None]
    /\ requested = {}
    /\ approvals = {}
    /\ rejections = {}
    /\ deployed = [r \in Requests |-> 0]
    /\ overlapped = FALSE
-----------------------------------------------------------------------------
\* _load: a file that does not parse counts as empty.
Load == IF file = Torn THEN Empty ELSE file

\* Wrong: the history is not cut.
Uncapped(h) == h

\* _save keeps the last MAX_HISTORY entries.
Capped(h) == IF Len(h) <= MaxHistory THEN h
             ELSE SubSeq(h, Len(h) - MaxHistory + 1, Len(h))

Conclude(content, outcome) ==
    [pending |-> None,
     history |-> Capped(Append(content.history,
         [request |-> content.pending.request, outcome |-> outcome]))]

\* Actor a has loaded the file, decided, and goes on to write new.
Decide(a, op, r, new) ==
    /\ pc[a] = "idle"
    /\ pc' = [pc EXCEPT ![a] = "save"]
    /\ call' = [call EXCEPT ![a] = op]
    /\ subject' = [subject EXCEPT ![a] = r]
    /\ data' = [data EXCEPT ![a] = new]
    /\ overlapped' = (overlapped \/ \E b \in Actors : pc[b] # "idle")
    /\ UNCHANGED file

\* The call is over: its locals are gone.
Forget(a) ==
    /\ call' = [call EXCEPT ![a] = None]
    /\ subject' = [subject EXCEPT ![a] = None]
    /\ data' = [data EXCEPT ![a] = Empty]

\* request: refused while another request is pending.
Request(a, r) ==
    /\ r \notin requested
    /\ Load.pending = None
    /\ Decide(a, "request", r,
           [Load EXCEPT !.pending = [request |-> r, approved |-> FALSE]])
    /\ requested' = requested \cup {r}
    /\ UNCHANGED <<approvals, rejections, deployed>>

\* approve: takes no argument, it approves what is pending when it loads,
\* whatever the dashboard has shown.
Approve(a) ==
    /\ Load.pending # None
    /\ LET r == Load.pending.request IN
        /\ Decide(a, "approve", r,
               [Load EXCEPT !.pending = [request |-> r, approved |-> TRUE]])
        /\ approvals' = approvals \cup {r}
    /\ UNCHANGED <<requested, rejections, deployed>>

\* Wrong: the outcome recorded is the other one.
RejectAsExecuted(a) ==
    /\ Load.pending # None
    /\ Decide(a, "reject", Load.pending.request, Conclude(Load, "executed"))
    /\ UNCHANGED <<history>>

\* Wrong: the request is recorded and stays pending.
RejectKeepsPending(a) ==
    /\ Load.pending # None
    /\ Decide(a, "reject", Load.pending.request,
           [Conclude(Load, "rejected") EXCEPT !.pending = Load.pending])
    /\ UNCHANGED <<history>>

Reject(a) ==
    /\ Load.pending # None
    /\ Decide(a, "reject", Load.pending.request, Conclude(Load, "rejected"))
    /\ UNCHANGED <<history>>

\* Wrong: whatever is pending is taken.
TakePending(a) ==
    /\ Load.pending # None
    /\ Decide(a, "take", Load.pending.request, Conclude(Load, "executed"))
    /\ UNCHANGED <<history>>

\* Wrong: the approved request is not consumed.
TakeWithoutConsuming(a) ==
    /\ Load.pending # None
    /\ Load.pending.approved
    /\ Decide(a, "take", Load.pending.request, Load)
    /\ UNCHANGED <<history>>

\* take_approved: the request is consumed before anything is executed.
TakeApproved(a) ==
    /\ Load.pending # None
    /\ Load.pending.approved
    /\ Decide(a, "take", Load.pending.request, Conclude(Load, "executed"))
    /\ UNCHANGED <<history>>

\* write_text opens the file with truncation ...
Truncate(a) ==
    /\ pc[a] = "save"
    /\ pc' = [pc EXCEPT ![a] = "write"]
    /\ file' = Torn
    /\ UNCHANGED <<call, data, subject, history, overlapped>>

\* ... and writes it.  Over what another actor wrote meanwhile the result may
\* be a mixture that does not parse.  A reject reports; a take goes on to the
\* hook.
Write(a) ==
    /\ pc[a] = "write"
    /\ file' \in {data[a]} \cup (IF file = Torn THEN {} ELSE {Torn})
    /\ pc' = [pc EXCEPT ![a] = IF call[a] = "take" THEN "hook" ELSE "idle"]
    /\ rejections' = IF call[a] = "reject" THEN rejections \cup {subject[a]}
                     ELSE rejections
    /\ IF call[a] = "take" THEN UNCHANGED <<call, data, subject>> ELSE Forget(a)
    /\ UNCHANGED <<requested, approvals, deployed, overlapped>>

\* DeployRunner.execute after take_approved: the hook runs; whether it
\* succeeds makes no difference to the gate.
RunHook(a) ==
    /\ pc[a] = "hook"
    /\ deployed' = [deployed EXCEPT ![subject[a]] = IF @ = 0 THEN 1 ELSE 2]
    /\ pc' = [pc EXCEPT ![a] = "idle"]
    /\ Forget(a)
    /\ UNCHANGED <<file, requested, approvals, rejections, overlapped>>

\* The process of a call is killed: the file stays as it is.
Crash(a) ==
    /\ pc[a] # "idle"
    /\ pc' = [pc EXCEPT ![a] = "idle"]
    /\ Forget(a)
    /\ UNCHANGED <<file, history, overlapped>>

Next ==
    \E a \in Actors :
        \/ Approve(a) \/ Reject(a) \/ TakeApproved(a)
        \/ Truncate(a) \/ Write(a) \/ RunHook(a) \/ Crash(a)
        \/ \E r \in Requests : Request(a, r)

Spec == Init /\ [][Next]_vars
-----------------------------------------------------------------------------
(* Properties. *)

\* Nothing is deployed that nobody approved, whatever calls overlap, die or
\* leave a torn file behind ("the runner refuses to execute anything that is
\* not approved", gate.py:6-7).
DeployedWasApproved == \A r \in Requests : deployed[r] > 0 => r \in approvals

\* The history does not tell of an execution nobody approved either.
HistoryWasApproved ==
    file # Torn => \A i \in 1..Len(file.history) :
        file.history[i].outcome = "executed" => file.history[i].request \in approvals

\* As long as calls do not overlap, an approval is good for one deploy, and
\* a request reported as rejected is not deployed.
OneDeployPerApproval ==
    ~overlapped => \A r \in Requests :
        /\ deployed[r] <= 1
        /\ r \in rejections => deployed[r] = 0

\* As long as calls do not overlap, a request that was concluded does not
\* become pending again, and the history has it once.
ConcludedOnce ==
    ~overlapped /\ file # Torn =>
        LET h == file.history IN
        /\ \A i, j \in 1..Len(h) : h[i].request = h[j].request => i = j
        /\ file.pending # None =>
               \A i \in 1..Len(h) : h[i].request # file.pending.request
=============================================================================
