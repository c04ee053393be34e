-------------------------- MODULE DeployGateProofs --------------------------
(***************************************************************************)
(* What DeployGate.tla guarantees for any number of actors and requests.   *)
(*                                                                         *)
(* The inductive invariant follows the approval flag wherever it is        *)
(* copied: into the file, into the copies calls are about to write back,   *)
(* into the history and into the hand of a runner on its way to the hook.  *)
(***************************************************************************)
EXTENDS DeployGate, TLAPS

\* A content that claims no approval but those given, S.
Truthful(c, S) ==
    /\ c.pending # None /\ c.pending.approved => c.pending.request \in S
    /\ \A i \in 1..Len(c.history) :
           c.history[i].outcome = "executed" => c.history[i].request \in S

Inv ==
    /\ file # Torn => Truthful(file, approvals)
    /\ \A a \in Actors : Truthful(data[a], approvals)
    /\ \A a \in Actors : call[a] = "take" => subject[a] \in approvals
    /\ \A a \in Actors : pc[a] = "hook" => call[a] = "take"
    /\ DeployedWasApproved

\* Cutting the history to its last entries leaves a history.
LEMMA CappedType ==
    ASSUME NEW h \in Seq(Entry)
    PROVE  /\ Capped(h) \in Histories
           /\ Len(Capped(h)) <= Len(h)
           /\ \A i \in 1..Len(Capped(h)) : \E j \in 1..Len(h) : Capped(h)[i] = h[j]
<1>1. CASE Len(h) <= MaxHistory
  BY <1>1 DEF Capped, Histories
<1>2. CASE ~(Len(h) <= MaxHistory)
  <2>. DEFINE m == Len(h) - MaxHistory + 1
  <2>1. /\ Len(h) \in Nat
        /\ MaxHistory \in Nat
        /\ m \in 1..Len(h) + 1
    BY <1>2, DeployAssumption
  <2>2. /\ SubSeq(h, m, Len(h)) \in Seq(Entry)
        /\ Len(SubSeq(h, m, Len(h))) = Len(h) - m + 1
        /\ \A i \in 1..(Len(h) - m + 1) : SubSeq(h, m, Len(h))[i] = h[m + i - 1]
    BY <2>1
  <2>3. \A i \in 1..(Len(h) - m + 1) : m + i - 1 \in 1..Len(h)
    BY <2>1
  <2>. QED  BY <1>2, <2>1, <2>2, <2>3 DEF Capped, Histories
<1>. QED  BY <1>1, <1>2

\* The content of a missing file.
LEMMA EmptyContent == Empty \in Content /\ \A S : Truthful(Empty, S)
<1>. DEFINE h == <<>>
<1>1. h \in Histories /\ h \in Seq(Entry) /\ Len(h) = 0
  BY DeployAssumption DEF Histories
<1>2. Empty = [pending |-> None, history |-> h]
  BY DEF Empty
<1>. HIDE DEF h
<1>3. \A i \in 1..Len(h) : FALSE
  BY <1>1
<1>. QED  BY <1>1, <1>2, <1>3 DEF Content, Truthful

\* What load returns, and what reject and take_approved write, is a content.
LEMMA LoadType == TypeOK => Load \in Content
BY EmptyContent DEF TypeOK, Load

LEMMA ConcludeType ==
    ASSUME NEW c \in Content, c.pending # None, NEW o \in {"executed", "rejected"}
    PROVE  Conclude(c, o) \in Content
<1>. DEFINE e == [request |-> c.pending.request, outcome |-> o]
<1>1. c.history \in Seq(Entry) /\ e \in Entry
  BY DEF Content, Histories, Pending, Entry
<1>2. Append(c.history, e) \in Seq(Entry)
  BY <1>1
<1>3. Capped(Append(c.history, e)) \in Histories
  BY <1>2, CappedType
<1>. QED  BY <1>3 DEF Conclude, Content

\* A content stays truthful when its request is concluded, as executed only
\* if it was approved.
LEMMA ConcludeTruthful ==
    ASSUME NEW c \in Content, c.pending # None, NEW S, Truthful(c, S),
           NEW o \in {"executed", "rejected"}, o = "executed" => c.pending.approved
    PROVE  Truthful(Conclude(c, o), S)
<1>. DEFINE e == [request |-> c.pending.request, outcome |-> o]
            h == Append(c.history, e)
<1>1. c.history \in Seq(Entry) /\ e \in Entry
  BY DEF Content, Histories, Pending, Entry
<1>2. /\ h \in Seq(Entry)
      /\ Len(h) = Len(c.history) + 1
      /\ h[Len(c.history) + 1] = e
      /\ \A i \in 1..Len(c.history) : h[i] = c.history[i]
  BY <1>1
<1>3. \A i \in 1..Len(h) : h[i].outcome = "executed" => h[i].request \in S
  <2>. SUFFICES ASSUME NEW i \in 1..Len(h), h[i].outcome = "executed"
                PROVE  h[i].request \in S
    OBVIOUS
  <2>1. CASE i = Len(h)
    BY <2>1, <1>1, <1>2 DEF Truthful, Content, Pending
  <2>2. CASE i # Len(h)
    <3>1. i \in 1..Len(c.history) /\ h[i] = c.history[i]
      BY <2>2, <1>1, <1>2
    <3>. QED  BY <3>1 DEF Truthful
  <2>. QED  BY <2>1, <2>2
<1>4. \A i \in 1..Len(Capped(h)) : \E j \in 1..Len(h) : Capped(h)[i] = h[j]
  BY <1>2, CappedType
<1>5. Conclude(c, o) = [pending |-> None, history |-> Capped(h)]
  BY DEF Conclude
<1>. QED  BY <1>3, <1>4, <1>5 DEF Truthful
-----------------------------------------------------------------------------
\* A call in progress is about a request: with it, TypeOK is inductive.
CallsHaveSubjects ==
    \A a \in Actors : pc[a] # "idle" => call[a] \in Calls /\ subject[a] \in Requests

TypeInv == TypeOK /\ CallsHaveSubjects

\* Every variable keeps its type: the calls only ever write well-formed
\* contents, over a file that may be torn.
LEMMA TypeInvariant == Spec => []TypeInv
<1>1. Init => TypeInv
  <2>1. Empty \in Content
    BY EmptyContent
  <2>. HIDE DEF Empty
  <2>. SUFFICES ASSUME Init PROVE TypeInv
    OBVIOUS
  <2>2. file \in Content \cup {Torn} /\ data \in [Actors -> Content]
    BY <2>1 DEF Init
  <2>3. /\ pc \in [Actors -> {"idle", "save", "write", "hook"}]
        /\ call \in [Actors -> Calls \cup {None}]
        /\ subject \in [Actors -> Requests \cup {None}]
        /\ deployed \in [Requests -> 0..2]
    BY DEF Init
  <2>4. CallsHaveSubjects
    BY DEF Init, CallsHaveSubjects
  <2>. QED  BY <2>2, <2>3, <2>4 DEF Init, TypeInv, TypeOK
<1>2. TypeInv /\ [Next]_vars => TypeInv'
  <2>. SUFFICES ASSUME TypeInv, [Next]_vars PROVE TypeInv'
    OBVIOUS
  <2>. USE DEF TypeInv, CallsHaveSubjects, TypeOK
  <2>1. Load \in Content
    BY LoadType
  <2>2. Empty \in Content
    BY EmptyContent
  <2>4. ASSUME NEW a \in Actors, NEW r \in Requests, Request(a, r) PROVE TypeInv'
    <3>1. [Load EXCEPT !.pending = [request |-> r, approved |-> FALSE]] \in Content
      BY <2>1 DEF Content, Pending
    <3>. QED  BY <2>4, <3>1 DEF Request, Decide, Calls
  <2>5. ASSUME NEW a \in Actors, Approve(a) PROVE TypeInv'
    <3>1. Load.pending.request \in Requests
      BY <2>1, <2>5 DEF Approve, Content, Pending
    <3>2. [Load EXCEPT !.pending = [request |-> Load.pending.request,
                                    approved |-> TRUE]] \in Content
      BY <2>1, <3>1 DEF Content, Pending
    <3>. QED  BY <2>5, <3>1, <3>2 DEF Approve, Decide, Calls
  <2>6. ASSUME NEW a \in Actors, Reject(a) PROVE TypeInv'
    <3>1. Load.pending.request \in Requests /\ Conclude(Load, "rejected") \in Content
      BY <2>1, <2>6, ConcludeType DEF Reject, Content, Pending
    <3>. QED  BY <2>6, <3>1 DEF Reject, Decide, history, Calls
  <2>7. ASSUME NEW a \in Actors, TakeApproved(a) PROVE TypeInv'
    <3>1. Load.pending.request \in Requests /\ Conclude(Load, "executed") \in Content
      BY <2>1, <2>7, ConcludeType DEF TakeApproved, Content, Pending
    <3>. QED  BY <2>7, <3>1 DEF TakeApproved, Decide, history, Calls
  <2>8. ASSUME NEW a \in Actors, Truncate(a) PROVE TypeInv'
    BY <2>8 DEF Truncate, history
  <2>9. ASSUME NEW a \in Actors, Write(a) PROVE TypeInv'
    <3>1. CASE call[a] = "take"
      BY <2>9, <3>1 DEF Write
    <3>2. CASE call[a] # "take"
      BY <2>2, <2>9, <3>2 DEF Write, Forget
    <3>. QED  BY <3>1, <3>2
  <2>10. ASSUME NEW a \in Actors, RunHook(a) PROVE TypeInv'
    <3>1. subject[a] \in Requests
      BY <2>10 DEF RunHook
    <3>2. deployed' \in [Requests -> 0..2]
      BY <2>10, <3>1 DEF RunHook
    <3>. QED  BY <2>2, <2>10, <3>2 DEF RunHook, Forget
  <2>11. ASSUME NEW a \in Actors, Crash(a) PROVE TypeInv'
    BY <2>2, <2>11 DEF Crash, Forget, history
  <2>12. CASE UNCHANGED vars
    BY <2>12 DEF vars
  <2>. QED
    BY <2>4, <2>5, <2>6, <2>7, <2>8, <2>9, <2>10, <2>11, <2>12 DEF Next
<1>. QED  BY <1>1, <1>2, PTL DEF Spec

THEOREM TypeCorrect == Spec => []TypeOK
<1>1. TypeInv => TypeOK
  BY DEF TypeInv
<1>. QED  BY <1>1, TypeInvariant, PTL
-----------------------------------------------------------------------------
\* An actor that is in no call is not taking a request.
LEMMA NoneIsNoCall == None # "take"
BY DeployAssumption DEF Calls

\* The approval flag is never made up, whatever copies of the file are read
\* and written back in whatever order, torn files and killed calls included.
LEMMA Invariance == Spec => []Inv
<1>1. Init => Inv
  <2>. SUFFICES ASSUME Init PROVE Inv
    OBVIOUS
  <2>1. Truthful(Empty, approvals)
    BY EmptyContent
  <2>. HIDE DEF Empty, Truthful
  <2>2. file = Empty /\ \A a \in Actors : data[a] = Empty
    BY DEF Init
  <2>3. \A a \in Actors : call[a] # "take" /\ pc[a] # "hook"
    BY DeployAssumption DEF Init, Calls
  <2>4. \A r \in Requests : deployed[r] = 0
    BY DEF Init
  <2>. QED  BY <2>1, <2>2, <2>3, <2>4 DEF Inv, DeployedWasApproved
<1>2. TypeInv /\ Inv /\ [Next]_vars => Inv'
  <2>. SUFFICES ASSUME TypeInv, Inv, [Next]_vars PROVE Inv'
    OBVIOUS
  <2>. USE DEF Inv, DeployedWasApproved
  <2>1. Load \in Content /\ Truthful(Load, approvals) /\ \A S : Truthful(Empty, S)
    BY LoadType, EmptyContent DEF TypeInv, Load
  <2>2. \A c, S, T : Truthful(c, S) /\ S \subseteq T => Truthful(c, T)
    BY DEF Truthful
  <2>3. /\ pc \in [Actors -> {"idle", "save", "write", "hook"}]
        /\ call \in [Actors -> Calls \cup {None}]
        /\ data \in [Actors -> Content]
        /\ subject \in [Actors -> Requests \cup {None}]
        /\ deployed \in [Requests -> 0..2]
    BY DEF TypeInv, TypeOK
  <2>5. ASSUME NEW a \in Actors, NEW r \in Requests, Request(a, r) PROVE Inv'
    <3>. DEFINE c == [Load EXCEPT !.pending = [request |-> r, approved |-> FALSE]]
    <3>1. Truthful(c, approvals)
      BY <2>1 DEF Truthful, Content
    <3>2. /\ data' = [data EXCEPT ![a] = c]
          /\ call' = [call EXCEPT ![a] = "request"]
          /\ subject' = [subject EXCEPT ![a] = r]
          /\ pc' = [pc EXCEPT ![a] = "save"]
          /\ UNCHANGED <<file, approvals, deployed>>
      BY <2>5 DEF Request, Decide
    <3>. HIDE DEF c
    <3>. QED  BY <2>3, <3>1, <3>2
  <2>6. ASSUME NEW a \in Actors, Approve(a) PROVE Inv'
    <3>. DEFINE r == Load.pending.request
                c == [Load EXCEPT !.pending = [request |-> r, approved |-> TRUE]]
    <3>1. /\ data' = [data EXCEPT ![a] = c]
          /\ call' = [call EXCEPT ![a] = "approve"]
          /\ subject' = [subject EXCEPT ![a] = r]
          /\ pc' = [pc EXCEPT ![a] = "save"]
          /\ approvals' = approvals \cup {r}
          /\ UNCHANGED <<file, deployed>>
      BY <2>6 DEF Approve, Decide
    <3>2. c.pending = [request |-> r, approved |-> TRUE] /\ c.history = Load.history
      BY <2>1 DEF Content
    <3>3. Truthful(c, approvals')
      BY <2>1, <3>1, <3>2 DEF Truthful
    <3>. HIDE DEF r, c
    <3>. QED  BY <2>2, <2>3, <3>1, <3>3
  <2>7. ASSUME NEW a \in Actors, Reject(a) PROVE Inv'
    <3>. DEFINE c == Conclude(Load, "rejected")
    <3>1. Truthful(c, approvals)
      BY <2>1, <2>7, ConcludeTruthful DEF Reject
    <3>2. /\ data' = [data EXCEPT ![a] = c]
          /\ call' = [call EXCEPT ![a] = "reject"]
          /\ subject' = [subject EXCEPT ![a] = Load.pending.request]
          /\ pc' = [pc EXCEPT ![a] = "save"]
          /\ UNCHANGED <<file, approvals, deployed>>
      BY <2>7 DEF Reject, Decide, history
    <3>. HIDE DEF c
    <3>. QED  BY <2>3, <3>1, <3>2
  <2>8. ASSUME NEW a \in Actors, TakeApproved(a) PROVE Inv'
    <3>. DEFINE c == Conclude(Load, "executed")
                r == Load.pending.request
    <3>1. Truthful(c, approvals) /\ r \in approvals
      BY <2>1, <2>8, ConcludeTruthful DEF TakeApproved, Truthful
    <3>2. /\ data' = [data EXCEPT ![a] = c]
          /\ call' = [call EXCEPT ![a] = "take"]
          /\ subject' = [subject EXCEPT ![a] = r]
          /\ pc' = [pc EXCEPT ![a] = "save"]
          /\ UNCHANGED <<file, approvals, deployed>>
      BY <2>8 DEF TakeApproved, Decide, history
    <3>. HIDE DEF c, r
    <3>. QED  BY <2>3, <3>1, <3>2
  <2>9. ASSUME NEW a \in Actors, Truncate(a) PROVE Inv'
    BY <2>3, <2>9 DEF Truncate, history
  <2>10. ASSUME NEW a \in Actors, Write(a) PROVE Inv'
    <3>1. file' # Torn => Truthful(file', approvals')
      BY <2>10 DEF Write
    <3>2. CASE call[a] = "take"
      BY <2>3, <2>10, <3>1, <3>2 DEF Write
    <3>3. CASE call[a] # "take"
      <4>1. /\ pc' = [pc EXCEPT ![a] = "idle"]
            /\ call' = [call EXCEPT ![a] = None]
            /\ subject' = [subject EXCEPT ![a] = None]
            /\ data' = [data EXCEPT ![a] = Empty]
            /\ UNCHANGED <<approvals, deployed>>
        BY <2>10, <3>3 DEF Write, Forget
      <4>. QED  BY <2>1, <2>3, <3>1, <4>1, NoneIsNoCall
    <3>. QED  BY <3>2, <3>3
  <2>11. ASSUME NEW a \in Actors, RunHook(a) PROVE Inv'
    <3>1. subject[a] \in approvals
      BY <2>11 DEF RunHook
    <3>2. /\ pc' = [pc EXCEPT ![a] = "idle"]
          /\ call' = [call EXCEPT ![a] = None]
          /\ subject' = [subject EXCEPT ![a] = None]
          /\ data' = [data EXCEPT ![a] = Empty]
          /\ UNCHANGED <<file, approvals>>
      BY <2>11 DEF RunHook, Forget
    <3>3. \A r \in Requests : r # subject[a] => deployed'[r] = deployed[r]
      BY <2>3, <2>11 DEF RunHook
    <3>. QED  BY <2>1, <2>3, <3>1, <3>2, <3>3, NoneIsNoCall
  <2>12. ASSUME NEW a \in Actors, Crash(a) PROVE Inv'
    <3>1. /\ pc' = [pc EXCEPT ![a] = "idle"]
          /\ call' = [call EXCEPT ![a] = None]
          /\ subject' = [subject EXCEPT ![a] = None]
          /\ data' = [data EXCEPT ![a] = Empty]
          /\ UNCHANGED <<file, approvals, deployed>>
      BY <2>12 DEF Crash, Forget, history
    <3>. QED  BY <2>1, <2>3, <3>1, NoneIsNoCall
  <2>13. CASE UNCHANGED vars
    BY <2>13 DEF vars
  <2>. QED
    BY <2>5, <2>6, <2>7, <2>8, <2>9, <2>10, <2>11, <2>12, <2>13 DEF Next
<1>. QED  BY <1>1, <1>2, TypeInvariant, PTL DEF Spec

\* Nothing is deployed that nobody approved (DeployRunner.execute).
THEOREM ApprovalIsMandatory == Spec => []DeployedWasApproved
<1>1. Inv => DeployedWasApproved
  BY DEF Inv
<1>. QED  BY <1>1, Invariance, PTL

\* Nor does the file ever tell of an execution nobody approved.
THEOREM HistoryIsTruthful == Spec => []HistoryWasApproved
<1>1. Inv => HistoryWasApproved
  BY DEF Inv, HistoryWasApproved, Truthful
<1>. QED  BY <1>1, Invariance, PTL
-----------------------------------------------------------------------------
(* Calls one after the other. *)

\* A content in which no request is concluded twice, or concluded and pending.
Unique(c) ==
    /\ \A i, j \in 1..Len(c.history) :
           c.history[i].request = c.history[j].request => i = j
    /\ c.pending # None =>
           \A i \in 1..Len(c.history) : c.history[i].request # c.pending.request

\* A content that names only requests that were made, S.
Known(c, S) ==
    /\ c.pending # None => c.pending.request \in S
    /\ \A i \in 1..Len(c.history) : c.history[i].request \in S

Done(r) == deployed[r] # 0 \/ r \in rejections

\* The actor in a call, if there is one, has the gate for itself: what it writes
\* follows from what is there, and its request is not concluded yet.
InCall(a) ==
    /\ \A b \in Actors : pc[b] # "idle" => b = a
    /\ subject[a] \in requested /\ ~Done(subject[a])
    /\ pc[a] \in {"save", "write"} =>
        /\ Unique(data[a]) /\ Known(data[a], requested)
        /\ data[a].pending # None =>
               call[a] \in {"request", "approve"} /\ data[a].pending.request = subject[a]
    /\ pc[a] = "write" => file = Torn
    /\ pc[a] = "hook" => file # Torn /\ file.pending = None

SerialInv ==
    /\ file # Torn =>
        /\ Unique(file) /\ Known(file, requested)
        /\ file.pending # None => ~Done(file.pending.request)
    /\ \A r \in Requests : Done(r) => r \in requested
    /\ \A r \in Requests : deployed[r] <= 1 /\ (r \in rejections => deployed[r] = 0)
    /\ \A a \in Actors : pc[a] # "idle" => InCall(a)

\* The capped history is the end of the whole one.
LEMMA CappedIsSuffix ==
    ASSUME NEW h \in Seq(Entry)
    PROVE  \E k \in Nat : \A i \in 1..Len(Capped(h)) :
               i + k \in 1..Len(h) /\ Capped(h)[i] = h[i + k]
<1>1. CASE Len(h) <= MaxHistory
  <2>1. \A i \in 1..Len(h) : i + 0 \in 1..Len(h) /\ h[i] = h[i + 0]
    OBVIOUS
  <2>. QED  BY <1>1, <2>1 DEF Capped
<1>2. CASE ~(Len(h) <= MaxHistory)
  <2>. DEFINE k == Len(h) - MaxHistory
              s == SubSeq(h, k + 1, Len(h))
  <2>1. Len(h) \in Nat /\ MaxHistory \in Nat /\ k \in Nat /\ k + 1 \in 1..Len(h) + 1
    BY <1>2, DeployAssumption
  <2>2. /\ Len(s) = Len(h) - k
        /\ \A i \in 1..(Len(h) - k) : s[i] = h[k + 1 + i - 1]
    BY <2>1
  <2>3. \A i \in 1..Len(s) : i + k \in 1..Len(h) /\ s[i] = h[i + k]
    BY <2>1, <2>2
  <2>4. Capped(h) = s
    BY <1>2 DEF Capped
  <2>. HIDE DEF s
  <2>. QED  BY <2>1, <2>3, <2>4
<1>. QED  BY <1>1, <1>2

\* Concluding the pending request once leaves it concluded once.
LEMMA ConcludeUnique ==
    ASSUME NEW c \in Content, c.pending # None, NEW o \in {"executed", "rejected"},
           NEW S, Unique(c), Known(c, S)
    PROVE  /\ Unique(Conclude(c, o)) /\ Known(Conclude(c, o), S)
           /\ Conclude(c, o).pending = None
<1>. DEFINE e == [request |-> c.pending.request, outcome |-> o]
            h == Append(c.history, e)
<1>1. c.history \in Seq(Entry) /\ e \in Entry /\ e.request = c.pending.request
  BY DEF Content, Histories, Pending, Entry
<1>2. /\ h \in Seq(Entry)
      /\ Len(h) = Len(c.history) + 1 /\ Len(c.history) \in Nat
      /\ h[Len(c.history) + 1] = e
      /\ \A i \in 1..Len(c.history) : h[i] = c.history[i]
  BY <1>1
<1>. HIDE DEF e, h
<1>3. \A i \in 1..Len(h) : i = Len(c.history) + 1 \/ i \in 1..Len(c.history)
  BY <1>2
<1>4. \A i, j \in 1..Len(h) : h[i].request = h[j].request => i = j
  BY <1>1, <1>2, <1>3 DEF Unique
<1>5. \A i \in 1..Len(h) : h[i].request \in S
  BY <1>1, <1>2, <1>3 DEF Known
<1>6. PICK k \in Nat : \A i \in 1..Len(Capped(h)) :
          i + k \in 1..Len(h) /\ Capped(h)[i] = h[i + k]
  BY <1>2, CappedIsSuffix
<1>7. Conclude(c, o) = [pending |-> None, history |-> Capped(h)]
  BY DEF Conclude, e, h
<1>8. \A i, j \in 1..Len(Capped(h)) : Capped(h)[i].request = Capped(h)[j].request => i = j
  <2>. SUFFICES ASSUME NEW i \in 1..Len(Capped(h)), NEW j \in 1..Len(Capped(h)),
                       Capped(h)[i].request = Capped(h)[j].request
                PROVE  i = j
    OBVIOUS
  <2>1. /\ i + k \in 1..Len(h) /\ Capped(h)[i] = h[i + k]
        /\ j + k \in 1..Len(h) /\ Capped(h)[j] = h[j + k]
    BY <1>6
  <2>2. h[i + k].request = h[j + k].request
    BY <2>1
  <2>3. i + k = j + k
    BY <1>4, <2>1, <2>2, Zenon
  <2>. QED  BY <2>3
<1>9. \A i \in 1..Len(Capped(h)) : Capped(h)[i].request \in S
  BY <1>5, <1>6
<1>. QED  BY <1>7, <1>8, <1>9 DEF Unique, Known

LEMMA SerialInit == Init => SerialInv
<1>. SUFFICES ASSUME Init PROVE SerialInv
  OBVIOUS
<1>1. \A S : Unique(Empty) /\ Known(Empty, S)
  <2>. DEFINE h == <<>>
  <2>1. Len(h) = 0
    OBVIOUS
  <2>2. Empty = [pending |-> None, history |-> h]
    BY DEF Empty
  <2>. HIDE DEF h
  <2>3. \A i \in 1..Len(h) : FALSE
    BY <2>1
  <2>. QED  BY <2>2, <2>3 DEF Unique, Known
<1>2. file = Empty /\ Empty.pending = None
  BY DEF Init, Empty
<1>3. /\ \A r \in Requests : deployed[r] = 0 /\ r \notin rejections
      /\ \A a \in Actors : pc[a] = "idle"
  BY DEF Init
<1>. QED  BY <1>1, <1>2, <1>3 DEF SerialInv, Done

\* Nobody is in a call, and the next one begins: what it loads is in order, and
\* so is what it is going to write.
LEMMA CallBegins ==
    ASSUME TypeInv, TypeInv', SerialInv, NEW a \in Actors, NEW op \in Calls, NEW r \in Requests,
           NEW new \in Content, Decide(a, op, r, new), ~overlapped',
           UNCHANGED <<deployed, rejections>>, requested \subseteq requested', r \in requested',
           Unique(new), Known(new, requested'), ~Done(r),
           new.pending # None => op \in {"request", "approve"} /\ new.pending.request = r
    PROVE  SerialInv'
<1>1. /\ pc' = [pc EXCEPT ![a] = "save"] /\ call' = [call EXCEPT ![a] = op]
      /\ subject' = [subject EXCEPT ![a] = r] /\ data' = [data EXCEPT ![a] = new]
      /\ file' = file /\ \A b \in Actors : pc[b] = "idle"
  BY DEF Decide
<1>2. /\ pc'[a] = "save" /\ call'[a] = op /\ subject'[a] = r /\ data'[a] = new
      /\ \A b \in Actors : pc'[b] # "idle" => b = a
  BY <1>1 DEF TypeInv, TypeOK
<1>3. \A q : Done(q)' <=> Done(q)
  BY DEF Done
<1>4. InCall(a)'
  BY <1>2, <1>3 DEF InCall, Unique, Known
<1>5. file # Torn => Known(file, requested')
  BY DEF SerialInv, Known
<1>. QED  BY <1>1, <1>2, <1>3, <1>4, <1>5 DEF SerialInv, Unique, Known

\* The file as a call finds it.
LEMMA Loaded ==
    ASSUME TypeInv, SerialInv
    PROVE  /\ Load \in Content /\ Unique(Load) /\ Known(Load, requested)
           /\ Load.pending # None => ~Done(Load.pending.request)
<1>1. Load \in Content
  BY LoadType DEF TypeInv
<1>2. CASE file # Torn
  BY <1>1, <1>2 DEF SerialInv, Load
<1>3. CASE file = Torn
  <2>. DEFINE h == <<>>
  <2>1. Len(h) = 0
    OBVIOUS
  <2>2. Load = [pending |-> None, history |-> h]
    BY <1>3 DEF Empty, Load
  <2>. HIDE DEF h
  <2>3. \A i \in 1..Len(h) : FALSE
    BY <2>1
  <2>. QED  BY <1>1, <2>2, <2>3 DEF Unique, Known
<1>. QED  BY <1>2, <1>3

LEMMA DecisionKeeps ==
    ASSUME TypeInv, TypeInv', SerialInv, NEW a \in Actors, ~overlapped',
           \/ Approve(a) \/ Reject(a) \/ TakeApproved(a)
           \/ \E r \in Requests : Request(a, r)
    PROVE  SerialInv'
<1>1. ASSUME NEW r \in Requests, Request(a, r) PROVE SerialInv'
  <2>. DEFINE p == [request |-> r, approved |-> FALSE]
              new == [Load EXCEPT !.pending = p]
  <2>1. p \in Pending /\ p.request = r
    BY DEF Pending
  <2>2. new \in Content /\ new.pending = p /\ new.history = Load.history
    BY <2>1, Loaded DEF Content
  <2>3. \A i \in 1..Len(Load.history) : Load.history[i].request \in requested
    BY Loaded DEF Known
  <2>4. Unique(new) /\ Known(new, requested')
    BY <1>1, <2>1, <2>2, <2>3, Loaded DEF Request, Unique, Known
  <2>5. ~Done(r)
    BY <1>1 DEF Request, SerialInv
  <2>6. Decide(a, "request", r, new) /\ "request" \in Calls
    BY <1>1 DEF Request, Calls
  <2>. HIDE DEF new, p
  <2>. QED  BY <1>1, <2>1, <2>2, <2>4, <2>5, <2>6, CallBegins DEF Request
<1>2. CASE Approve(a)
  <2>. DEFINE r == Load.pending.request
              p == [request |-> r, approved |-> TRUE]
              new == [Load EXCEPT !.pending = p]
  <2>1. r \in Requests /\ r \in requested /\ ~Done(r)
    BY <1>2, Loaded DEF Approve, Known, Content, Pending
  <2>2. p \in Pending /\ p.request = r
    BY <2>1 DEF Pending
  <2>3. new \in Content /\ new.pending = p /\ new.history = Load.history
    BY <2>2, Loaded DEF Content
  <2>4. Unique(new) /\ Known(new, requested)
    BY <1>2, <2>1, <2>2, <2>3, Loaded DEF Approve, Unique, Known
  <2>5. Decide(a, "approve", r, new) /\ "approve" \in Calls
    BY <1>2 DEF Approve, Calls
  <2>. HIDE DEF new, p, r
  <2>. QED  BY <1>2, <2>1, <2>2, <2>3, <2>4, <2>5, CallBegins DEF Approve
<1>3. ASSUME NEW op \in {"reject", "take"}, NEW o \in {"executed", "rejected"},
             Load.pending # None, Decide(a, op, Load.pending.request, Conclude(Load, o)),
             UNCHANGED history
      PROVE  SerialInv'
  <2>. DEFINE r == Load.pending.request
              new == Conclude(Load, o)
  <2>1. r \in Requests /\ r \in requested /\ ~Done(r)
    BY <1>3, Loaded DEF Known, Content, Pending
  <2>2. new \in Content /\ Unique(new) /\ Known(new, requested) /\ new.pending = None
    BY <1>3, Loaded, ConcludeType, ConcludeUnique
  <2>3. Decide(a, op, r, new) /\ op \in Calls
    BY <1>3 DEF Calls
  <2>. HIDE DEF new, r
  <2>. QED  BY <1>3, <2>1, <2>2, <2>3, CallBegins DEF history
<1>. QED  BY <1>1, <1>2, <1>3 DEF Reject, TakeApproved

LEMMA SaveKeeps ==
    ASSUME TypeInv, TypeInv', SerialInv, NEW a \in Actors, ~overlapped',
           Truncate(a) \/ Write(a) \/ RunHook(a) \/ Crash(a)
    PROVE  SerialInv'
<1>1. InCall(a) /\ \A b \in Actors \ {a} : pc[b] = "idle" /\ pc'[b] = "idle"
  BY DEF SerialInv, InCall, Truncate, Write, RunHook, Crash, TypeInv, TypeOK
<1>2. subject[a] \in Requests /\ requested' = requested
  BY DEF TypeInv, CallsHaveSubjects, Truncate, Write, RunHook, Crash, history
<1>3. CASE Truncate(a)
  <2>1. /\ pc'[a] = "write" /\ file' = Torn /\ data' = data /\ call' = call
        /\ subject' = subject /\ \A q : Done(q)' <=> Done(q)
    BY <1>3 DEF Truncate, history, TypeInv, TypeOK, Done
  <2>2. InCall(a)'
    BY <1>1, <1>2, <1>3, <2>1 DEF Truncate, InCall, Unique, Known
  <2>. QED
    BY <1>1, <1>2, <1>3, <2>1, <2>2 DEF Truncate, history, SerialInv
<1>4. CASE Write(a)
  <2>1. /\ pc[a] = "write" /\ file = Torn /\ file' = data[a]
        /\ Unique(data[a]) /\ Known(data[a], requested)
    BY <1>1, <1>4 DEF Write, InCall
  <2>2. CASE call[a] = "take"
    <3>1. /\ pc'[a] = "hook" /\ data' = data /\ call' = call
          /\ subject' = subject /\ \A q : Done(q)' <=> Done(q)
      BY <1>4, <2>2 DEF Write, TypeInv, TypeOK, Done
    <3>2. data[a].pending = None /\ data[a] # Torn
      BY <1>1, <2>1, <2>2, TornAssumption DEF InCall, TypeInv, TypeOK
    <3>3. InCall(a)'
      BY <1>1, <1>2, <2>1, <3>1, <3>2 DEF InCall
    <3>. QED
      BY <1>1, <1>2, <1>4, <2>1, <2>2, <3>1, <3>2, <3>3 DEF Write, SerialInv, Unique, Known
  <2>3. CASE call[a] # "take"
    <3>1. \A b \in Actors : pc'[b] = "idle"
      BY <1>1, <1>4, <2>3 DEF Write, TypeInv, TypeOK
    <3>2. \A q : Done(q)' => Done(q) \/ (q = subject[a] /\ call[a] = "reject")
      BY <1>4 DEF Write, Done
    <3>3. file'.pending # None => ~Done(file.pending.request)'
      <4>. SUFFICES ASSUME file'.pending # None PROVE ~Done(file.pending.request)'
        OBVIOUS
      <4>1. /\ call[a] \in {"request", "approve"} /\ ~Done(subject[a])
            /\ file'.pending.request = subject[a]
        BY <1>1, <2>1 DEF InCall
      <4>. QED  BY <3>2, <4>1
    <3>4. \A q \in Requests : Done(q)' => q \in requested
      BY <1>1, <3>2 DEF InCall, SerialInv
    <3>5. \A q \in Requests : deployed'[q] <= 1 /\ (q \in rejections' => deployed'[q] = 0)
      BY <1>1, <1>4 DEF Write, InCall, SerialInv, Done
    <3>. QED
      BY <1>2, <2>1, <3>1, <3>3, <3>4, <3>5 DEF SerialInv, Unique, Known
  <2>. QED  BY <2>2, <2>3
<1>5. CASE RunHook(a)
  <2>1. /\ file' = file /\ file # Torn /\ file.pending = None
        /\ \A b \in Actors : pc'[b] = "idle"
    BY <1>1, <1>5 DEF RunHook, InCall, TypeInv, TypeOK
  <2>2. \A q \in Requests : deployed'[q] = IF q = subject[a] THEN 1 ELSE deployed[q]
    BY <1>1, <1>2, <1>5 DEF RunHook, InCall, Done, TypeInv, TypeOK
  <2>3. rejections' = rejections
    BY <1>5 DEF RunHook
  <2>4. \A q \in Requests : Done(q)' => Done(q) \/ q = subject[a]
    BY <2>2, <2>3 DEF Done
  <2>5. \A q \in Requests : deployed'[q] <= 1 /\ (q \in rejections' => deployed'[q] = 0)
    BY <1>1, <2>2, <2>3 DEF InCall, SerialInv, Done
  <2>. QED
    BY <1>1, <1>2, <2>1, <2>4, <2>5 DEF SerialInv, InCall, Unique, Known
<1>6. CASE Crash(a)
  <2>1. /\ file' = file /\ \A b \in Actors : pc'[b] = "idle"
        /\ \A q : Done(q)' <=> Done(q)
    BY <1>1, <1>6 DEF Crash, history, TypeInv, TypeOK, Done
  <2>. QED
    BY <1>2, <1>6, <2>1 DEF Crash, history, SerialInv, Unique, Known
<1>. QED  BY <1>3, <1>4, <1>5, <1>6

LEMMA SerialInvariance == Spec => [](~overlapped => SerialInv)
<1>1. Init => (~overlapped => SerialInv)
  BY SerialInit
<1>2. TypeInv /\ TypeInv' /\ (~overlapped => SerialInv) /\ [Next]_vars
         => (~overlapped => SerialInv)'
  <2>. SUFFICES ASSUME TypeInv, TypeInv', ~overlapped => SerialInv, [Next]_vars, ~overlapped'
                PROVE  SerialInv'
    OBVIOUS
  <2>1. CASE UNCHANGED vars
    BY <2>1 DEF vars, SerialInv, InCall, Done, Unique, Known
  <2>2. ASSUME NEW a \in Actors,
               \/ Approve(a) \/ Reject(a) \/ TakeApproved(a)
               \/ \E r \in Requests : Request(a, r)
        PROVE  SerialInv'
    <3>1. ~overlapped
      BY <2>2 DEF Approve, Reject, TakeApproved, Request, Decide
    <3>. QED  BY <2>2, <3>1, DecisionKeeps
  <2>3. ASSUME NEW a \in Actors, Truncate(a) \/ Write(a) \/ RunHook(a) \/ Crash(a)
        PROVE  SerialInv'
    <3>1. ~overlapped
      BY <2>3 DEF Truncate, Write, RunHook, Crash
    <3>. QED  BY <2>3, <3>1, SaveKeeps
  <2>. QED  BY <2>1, <2>2, <2>3 DEF Next
<1>. QED  BY <1>1, <1>2, TypeInvariant, PTL DEF Spec

\* Without overlap an approval is good for one deploy, whatever crashes, and a
\* rejected request is not deployed.
THEOREM DeploysOnce == Spec => []OneDeployPerApproval
<1>1. (~overlapped => SerialInv) => OneDeployPerApproval
  BY DEF SerialInv, OneDeployPerApproval
<1>. QED  BY <1>1, SerialInvariance, PTL

\* Without overlap a request is concluded once and for all.
THEOREM ConcludesOnce == Spec => []ConcludedOnce
<1>1. (~overlapped => SerialInv) => ConcludedOnce
  BY DEF SerialInv, ConcludedOnce, Unique
<1>. QED  BY <1>1, SerialInvariance, PTL
=============================================================================
