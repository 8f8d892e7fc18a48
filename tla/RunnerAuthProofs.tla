--------------------------- MODULE RunnerAuthProofs ---------------------------
(***************************************************************************)
(* Theorems about the accounts of the test runner, for any requests,       *)
(* names, addresses and limits.  The gate comes first.                     *)
(***************************************************************************)
EXTENDS RunnerAuth, FiniteSetTheorems, TLAPS

\* Those admitted are finitely many, and a caller more or less is one more or less.
LEMMA AdmittedCount ==
  /\ IsFiniteSet(Admitted)
  /\ Cardinality(Admitted) \in Nat
  /\ \A c \in Caller : IsFiniteSet(Admitted \cup {c}) /\ IsFiniteSet(Admitted \ {c})
  /\ \A c \in Caller \ Admitted :
       Cardinality(Admitted \cup {c}) = Cardinality(Admitted) + 1
  /\ \A c \in Admitted :
       /\ Cardinality(Admitted \ {c}) = Cardinality(Admitted) - 1
       /\ Cardinality(Admitted) > 0
<1>1. IsFiniteSet(Admitted)
  <2>1. Admitted \subseteq Caller  BY DEF Admitted
  <2> QED  BY <2>1, FS_Subset, GateAssumption DEF GateAssumption
<1>2. Cardinality(Admitted) \in Nat  BY <1>1, FS_CardinalityType
<1>3. ASSUME NEW c \in Caller
      PROVE  IsFiniteSet(Admitted \cup {c}) /\ IsFiniteSet(Admitted \ {c})
  BY <1>1, FS_AddElement, FS_RemoveElement
<1>4. ASSUME NEW c \in Caller \ Admitted
      PROVE  Cardinality(Admitted \cup {c}) = Cardinality(Admitted) + 1
  BY <1>1, FS_AddElement
<1>5. ASSUME NEW c \in Admitted
      PROVE  /\ Cardinality(Admitted \ {c}) = Cardinality(Admitted) - 1
             /\ Cardinality(Admitted) > 0
  <2>1. Cardinality(Admitted \ {c}) = Cardinality(Admitted) - 1
    BY <1>1, FS_RemoveElement
  <2>2. Cardinality(Admitted) # 0  BY <1>1, FS_EmptySet
  <2> QED  BY <2>1, <2>2, <1>2
<1> QED  BY <1>1, <1>2, <1>3, <1>4, <1>5

LEMMA GateInitInv == GateInit => GateInv
<1> SUFFICES ASSUME GateInit PROVE GateInv  OBVIOUS
<1>1. GateTypeOK  BY DEF GateInit, GateTypeOK, Places
<1>2. QueueIsWaiting  BY DEF GateInit, QueueIsWaiting
<1>3. Admitted = {}  BY DEF GateInit, Admitted
<1>4. SlotsAreCounted
  BY <1>3, FS_EmptySet, GateAssumption DEF GateInit, SlotsAreCounted, GateAssumption
<1> QED  BY <1>1, <1>2, <1>4 DEF GateInv

LEMMA EnterInv ==
  ASSUME GateInv, NEW c \in Caller, Enter(c)
  PROVE  GateInv'
<1> USE DEF GateInv
<1>1. GateTypeOK'  BY DEF GateTypeOK, Places, Enter
<1>2. QueueIsWaiting'  BY DEF QueueIsWaiting, GateTypeOK, Enter
<1>3. Admitted' = Admitted \cup {c} /\ c \notin Admitted
  BY DEF Admitted, GateTypeOK, Enter
<1>4. waiting = << >>  BY GateAssumption DEF SlotsAreCounted, Enter, GateTypeOK, GateAssumption
<1>5. SlotsAreCounted'
  BY <1>3, <1>4, AdmittedCount, GateAssumption
  DEF SlotsAreCounted, GateTypeOK, Enter, GateAssumption
<1> QED  BY <1>1, <1>2, <1>5

LEMMA WaitInv ==
  ASSUME GateInv, NEW c \in Caller, Wait(c)
  PROVE  GateInv'
<1> USE DEF GateInv
<1>1. GateTypeOK'  BY DEF GateTypeOK, Places, Wait
<1>2. Len(waiting') = Len(waiting) + 1 /\ Len(waiting) \in Nat
  BY DEF GateTypeOK, Wait
<1>3. /\ \A i \in 1..Len(waiting) : waiting'[i] = waiting[i]
      /\ waiting'[Len(waiting) + 1] = c
  BY DEF GateTypeOK, Wait
<1>4. \A i \in 1..Len(waiting) : waiting[i] # c
  BY DEF QueueIsWaiting, Wait
<1>5. QueueIsWaiting'
  <2>1. ASSUME NEW d \in Caller
        PROVE  caller'[d] = "waiting" <=> \E i \in 1..Len(waiting') : waiting'[i] = d
    BY <1>2, <1>3 DEF QueueIsWaiting, GateTypeOK, Wait
  <2>2. ASSUME NEW i \in 1..Len(waiting'), NEW j \in 1..Len(waiting'), waiting'[i] = waiting'[j]
        PROVE  i = j
    BY <1>2, <1>3, <1>4, <2>2 DEF QueueIsWaiting
  <2> QED  BY <2>1, <2>2 DEF QueueIsWaiting
<1>6. Admitted' = Admitted  BY DEF Admitted, GateTypeOK, Wait
<1>7. SlotsAreCounted'
  BY <1>2, <1>6, GateAssumption DEF SlotsAreCounted, GateTypeOK, Wait, GateAssumption
<1> QED  BY <1>1, <1>5, <1>7

LEMMA ResumeInv ==
  ASSUME GateInv, NEW c \in Caller, Resume(c)
  PROVE  GateInv'
<1> USE DEF GateInv
<1>1. GateTypeOK'  BY DEF GateTypeOK, Places, Resume
<1>2. QueueIsWaiting'  BY DEF QueueIsWaiting, GateTypeOK, Resume
<1>3. Admitted' = Admitted  BY DEF Admitted, GateTypeOK, Resume
<1>4. SlotsAreCounted'  BY <1>3 DEF SlotsAreCounted, Resume
<1> QED  BY <1>1, <1>2, <1>4

LEMMA ReleaseInv ==
  ASSUME GateInv, NEW c \in Caller, Release(c)
  PROVE  GateInv'
<1> USE DEF GateInv
<1>1. c \in Admitted  BY DEF Admitted, Release
<1>2. CASE waiting = << >>
  <2>1. GateTypeOK'
    <3>1. active = Cardinality(Admitted) /\ active > 0
      BY <1>1, AdmittedCount DEF SlotsAreCounted
    <3>2. active - 1 \in Nat  BY <3>1 DEF GateTypeOK
    <3> QED  BY <1>2, <3>2 DEF GateTypeOK, Places, Release
  <2>2. QueueIsWaiting'  BY <1>2 DEF QueueIsWaiting, GateTypeOK, Release
  <2>3. Admitted' = Admitted \ {c}  BY <1>2 DEF Admitted, GateTypeOK, Release
  <2>4. SlotsAreCounted'
    BY <1>1, <1>2, <2>3, AdmittedCount, GateAssumption
    DEF SlotsAreCounted, GateTypeOK, Release, GateAssumption
  <2> QED  BY <2>1, <2>2, <2>4
<1>3. CASE waiting # << >>
  <2> DEFINE h == Head(waiting)
  <2>1. /\ Len(waiting) \in Nat \ {0}
        /\ h = waiting[1] /\ h \in Caller
        /\ Len(waiting') = Len(waiting) - 1
        /\ \A i \in 1..Len(waiting') : waiting'[i] = waiting[i + 1]
    BY <1>3 DEF GateTypeOK, Release
  <2>2. caller[h] = "waiting" /\ h # c
    BY <2>1 DEF QueueIsWaiting, Release
  <2>3. /\ active' = active
        /\ caller' = [caller EXCEPT ![c] = "out", ![h] = "handed"]
    BY <1>3 DEF Release
  <2>4. GateTypeOK'  BY SMTT(30), <1>3, <2>1, <2>3 DEF GateTypeOK, Places, Release
  <2>5. QueueIsWaiting'
    <3>1. ASSUME NEW d \in Caller, caller'[d] = "waiting"
          PROVE  \E i \in 1..Len(waiting') : waiting'[i] = d
      <4>1. caller[d] = "waiting" /\ d # h  BY <2>1, <2>2, <2>3, <3>1 DEF GateTypeOK
      <4>2. PICK i \in 1..Len(waiting) : waiting[i] = d  BY <4>1 DEF QueueIsWaiting
      <4>3. i - 1 \in 1..Len(waiting')  BY <2>1, <4>1, <4>2
      <4>4. waiting'[i - 1] = d  BY <2>1, <4>2, <4>3
      <4> QED  BY <4>3, <4>4
    <3>2. ASSUME NEW i \in 1..Len(waiting')
          PROVE  caller'[waiting'[i]] = "waiting"
      <4>1. i + 1 \in 1..Len(waiting) /\ 1 \in 1..Len(waiting)  BY <2>1
      <4>2. waiting[i + 1] # h  BY <2>1, <4>1 DEF QueueIsWaiting
      <4>3. waiting[i + 1] \in Caller  BY <4>1 DEF GateTypeOK
      <4>4. caller[waiting[i + 1]] = "waiting"  BY <4>1, <4>3 DEF QueueIsWaiting
      <4>5. waiting[i + 1] # c  BY <4>4 DEF Release
      <4> QED  BY <2>1, <2>3, <4>2, <4>3, <4>4, <4>5 DEF GateTypeOK
    <3>3. ASSUME NEW i \in 1..Len(waiting'), NEW j \in 1..Len(waiting'), waiting'[i] = waiting'[j]
          PROVE  i = j
      <4>1. i + 1 \in 1..Len(waiting) /\ j + 1 \in 1..Len(waiting)  BY <2>1
      <4>2. waiting[i + 1] = waiting[j + 1]  BY <2>1, <3>3
      <4>3. i + 1 = j + 1  BY <4>1, <4>2 DEF QueueIsWaiting
      <4> QED  BY <4>3, <2>1
    <3> QED  BY <3>1, <3>2, <3>3 DEF QueueIsWaiting
  <2>6. Admitted' = (Admitted \ {c}) \cup {h}
    BY <2>1, <2>2, <2>3 DEF Admitted, GateTypeOK
  <2>7. h \notin Admitted \ {c}  BY <2>2 DEF Admitted
  <2>8. Cardinality((Admitted \ {c}) \cup {h}) = Cardinality(Admitted)
    <3>1. IsFiniteSet(Admitted \ {c})  BY AdmittedCount
    <3>2. Cardinality((Admitted \ {c}) \cup {h}) = Cardinality(Admitted \ {c}) + 1
      BY <2>7, <3>1, FS_AddElement
    <3> QED  BY <1>1, <3>2, AdmittedCount
  <2>9. active = MaxConcurrent /\ Len(waiting') <= MaxQueue
    BY <1>3, <2>1, GateAssumption DEF SlotsAreCounted, GateAssumption
  <2>10. SlotsAreCounted'
    BY <2>3, <2>6, <2>8, <2>9 DEF SlotsAreCounted
  <2> QED  BY <2>4, <2>5, <2>10
<1> QED  BY <1>2, <1>3

LEMMA RestartInv == GateRestart => GateInv'
<1> SUFFICES ASSUME GateRestart PROVE GateInv'  OBVIOUS
<1>1. GateTypeOK'  BY DEF GateRestart, GateTypeOK, Places
<1>2. QueueIsWaiting'  BY DEF GateRestart, QueueIsWaiting
<1>3. Admitted' = {}  BY DEF GateRestart, Admitted
<1>4. SlotsAreCounted'
  BY <1>3, FS_EmptySet, GateAssumption DEF GateRestart, SlotsAreCounted, GateAssumption
<1> QED  BY <1>1, <1>2, <1>4 DEF GateInv

LEMMA GateStep == GateInv /\ [GateNext]_gateVars => GateInv'
<1> SUFFICES ASSUME GateInv, [GateNext]_gateVars PROVE GateInv'  OBVIOUS
<1>1. CASE \E c \in Caller : Enter(c) \/ Wait(c) \/ Resume(c) \/ Release(c)
  BY <1>1, EnterInv, WaitInv, ResumeInv, ReleaseInv
<1>2. CASE GateRestart  BY <1>2, RestartInv
<1>3. CASE UNCHANGED gateVars
  <2>1. Admitted' = Admitted  BY <1>3 DEF gateVars, Admitted
  <2> QED
    BY <1>3, <2>1 DEF gateVars, GateInv, GateTypeOK, QueueIsWaiting, SlotsAreCounted
<1> QED  BY <1>1, <1>2, <1>3 DEF GateNext

\* At every moment the count of createGate is of those admitted, those handed
\* a slot included, it keeps to the limit, and nobody waits for a free slot.
THEOREM GateCounts == GateSpec => []GateInv
<1> QED  BY GateInitInv, GateStep, PTL DEF GateSpec

\* A caller is let in at once only when nobody waits.
THEOREM FirstComeFirstServed == GateSpec => NobodyBarges
<1>1. GateInv /\ [GateNext]_gateVars =>
        [\A c \in Caller : caller[c] = "out" /\ caller'[c] = "inside" => waiting = << >>]_gateVars
  <2> SUFFICES ASSUME GateInv, GateNext, NEW c \in Caller,
                      caller[c] = "out", caller'[c] = "inside"
               PROVE  waiting = << >>
    OBVIOUS
  <2>1. CASE \E d \in Caller : Enter(d)
    BY <2>1, GateAssumption
    DEF GateInv, SlotsAreCounted, GateTypeOK, Enter, GateAssumption
  <2>2. CASE \E d \in Caller : Wait(d)  BY <2>2 DEF GateInv, GateTypeOK, Wait
  <2>3. CASE \E d \in Caller : Resume(d)  BY <2>3 DEF GateInv, GateTypeOK, Resume
  <2>4. CASE \E d \in Caller : Release(d)  BY <2>4 DEF GateInv, GateTypeOK, Release
  <2>5. CASE GateRestart  BY <2>5 DEF GateRestart
  <2> QED  BY <2>1, <2>2, <2>3, <2>4, <2>5 DEF GateNext
<1> QED  BY <1>1, GateCounts, PTL DEF GateSpec, NobodyBarges

-----------------------------------------------------------------------------
(* The accounts behind the gate.                                           *)

LEMMA StepOfGate == [Next]_vars => [GateNext]_gateVars
<1> SUFFICES ASSUME [Next]_vars PROVE [GateNext]_gateVars  OBVIOUS
<1>1. ASSUME NEW r \in Caller, NEW c \in Call, Derives(r, c)
      PROVE  [GateNext]_gateVars
  BY <1>1 DEF Derives, GateNext
<1>2. ASSUME NEW r \in Caller, NEW c \in Call,
             \/ Login(r, c) \/ Signup(r, c)
             \/ NotAllowed(r, c) \/ AwaitBody(r, c) \/ Delete(r, c)
      PROVE  [GateNext]_gateVars
  BY <1>1, <1>2 DEF Login, Signup, NotAllowed, AwaitBody, Delete
<1>3. ASSUME NEW r \in Caller, Reset(r)
      PROVE  [GateNext]_gateVars
  BY <1>3 DEF Reset, Derives, GateNext
<1>4. ASSUME NEW r \in Caller,
             GoesOn(r) \/ Derived(r) \/ SetRole(r) \/ Refused(r) \/ StoreFails(r)
      PROVE  [GateNext]_gateVars
  <2>1. CASE GoesOn(r)  BY <2>1 DEF GoesOn, GateNext
  <2>2. CASE Derived(r)
    BY <2>2 DEF Derived, LoginSucceeds, LoginFails, SignupEnds, ResetEnds, GateNext
  <2>3. CASE SetRole(r)  BY <2>3 DEF SetRole
  <2>4. CASE Refused(r)  BY <2>4 DEF Refused
  <2>5. CASE StoreFails(r)  BY <2>5 DEF StoreFails, GateNext
  <2> QED  BY <1>4, <2>1, <2>2, <2>3, <2>4, <2>5
<1>5. CASE \E u \in User : ForgetName(u) \/ \E a \in Address : ForgetAddress(u, a)
  BY <1>5 DEF ForgetName, ForgetAddress
<1>6. CASE \E s \in session : SessionEnds(s)  BY <1>6 DEF SessionEnds
<1>7. CASE ServerStops  BY <1>7 DEF ServerStops, GateNext
<1>8. CASE UNCHANGED vars  BY <1>8 DEF vars
<1> QED  BY <1>2, <1>3, <1>4, <1>5, <1>6, <1>7, <1>8 DEF Next

\* Every handler goes through createGate as it is meant to be gone through.
THEOREM ImplementsGate == Spec => GateSpec
<1>1. Init => GateInit  BY DEF Init
<1> QED  BY <1>1, StepOfGate, PTL DEF Spec, GateSpec

\* Whatever the handlers do, slots are counted and the queue is those who wait.
THEOREM SlotsSafe == Spec => []SlotsAreSafe
<1>1. GateInv => SlotsAreSafe  BY DEF GateInv, SlotsAreSafe
<1> QED  BY <1>1, ImplementsGate, GateCounts, PTL

\* Whatever the handlers do, a newcomer does not pass those who wait.
THEOREM NobodyIsPassed == Spec => NobodyBarges
<1> QED  BY ImplementsGate, FirstComeFirstServed

\* The gate is kept by every path of the handlers: its steps, its count and
\* its order, for any callers and sizes.
THEOREM GateKept == Spec => GateIsKept
<1> QED  BY ImplementsGate, SlotsSafe, NobodyIsPassed, PTL
   DEF GateIsKept, NobodyBarges, GateSpec

-----------------------------------------------------------------------------
(* Types. *)

\* Who is in the gate, or its queue, before and after each of its steps.
LEMMA GateMoves ==
  ASSUME GateInv, NEW r \in Caller
  PROVE  /\ Enter(r) \/ Wait(r) =>
              \A q \in Caller : caller'[q] # "out" <=> (caller[q] # "out" \/ q = r)
         /\ Resume(r) => \A q \in Caller : caller'[q] # "out" <=> caller[q] # "out"
         /\ Release(r) =>
              \A q \in Caller : caller'[q] # "out" <=> (caller[q] # "out" /\ q # r)
<1> USE DEF GateInv, GateTypeOK
<1>1. Enter(r) \/ Wait(r) =>
        \A q \in Caller : caller'[q] # "out" <=> (caller[q] # "out" \/ q = r)
  BY DEF Enter, Wait
<1>2. Resume(r) => \A q \in Caller : caller'[q] # "out" <=> caller[q] # "out"
  BY DEF Resume
<1>3. ASSUME Release(r)
      PROVE  \A q \in Caller : caller'[q] # "out" <=> (caller[q] # "out" /\ q # r)
  <2>1. CASE waiting = << >>  BY <1>3, <2>1 DEF Release
  <2>2. CASE waiting # << >>
    <3>1. 1 \in 1..Len(waiting) /\ Head(waiting) = waiting[1] /\ waiting[1] \in Caller
      BY <2>2
    <3>2. caller[Head(waiting)] = "waiting"  BY <3>1 DEF QueueIsWaiting
    <3> QED  BY <1>3, <2>2, <3>1, <3>2 DEF Release
  <2> QED  BY <2>1, <2>2
<1> QED  BY <1>1, <1>2, <1>3

\* How the record of a request changes when it ends.
LEMMA EndsType ==
  ASSUME TypeOK, NEW r \in Caller, NEW outcome \in Outcomes, Ends(r, outcome)
  PROVE  /\ request' \in [Caller -> Requests]
         /\ \A q \in Caller : q # r => request'[q] = request[q]
         /\ request'[r].pc = "done"
BY ZenonT(60) DEF TypeOK, Requests, Ends

LEMMA HashType ==
  ASSUME TypeOK, NEW u \in User
  PROVE  account[u].hash \in Hash \cup {NoHash}
BY DEF TypeOK, Accounts, NoAccount

LEMMA EndsAtOnceType ==
  ASSUME TypeOK, NEW r \in Caller, NEW c \in Call, NEW outcome \in Outcomes,
         EndsAtOnce(r, c, outcome)
  PROVE  /\ request' \in [Caller -> Requests]
         /\ \A q \in Caller : q # r => request'[q] = request[q]
         /\ request'[r].pc = "done"
<1>1. c.user \in User  BY AuthAssumption DEF AuthAssumption
<1>2. account[c.user].hash \in Hash \cup {NoHash}  BY <1>1, HashType
<1> QED  BY ZenonT(60), <1>2 DEF TypeOK, Requests, EndsAtOnce

\* A derivation is asked for: the request is in the gate or has ended.
LEMMA DerivesType ==
  ASSUME TypeOK, GateInv, NEW r \in Caller, NEW c \in Call, Derives(r, c),
         request[r].pc # "deriving"
  PROVE  /\ request' \in [Caller -> Requests]
         /\ \A q \in Caller : request'[q].pc \in {"body", "deriving"} => request'[q].call \in Call
         /\ InGate'
<1>1. c.user \in User  BY AuthAssumption DEF AuthAssumption
<1>2. account[c.user].hash \in Hash \cup {NoHash}  BY <1>1, HashType
<1>3. CASE Busy /\ EndsAtOnce(r, c, "busy") /\ UNCHANGED gateVars
  <2>1. /\ request' \in [Caller -> Requests]
        /\ \A q \in Caller : q # r => request'[q] = request[q]
        /\ request'[r].pc = "done"
    BY <1>3, EndsAtOnceType DEF Outcomes
  <2> QED  BY <1>3, <2>1 DEF TypeOK, InGate, gateVars
<1>4. CASE /\ Enter(r) \/ Wait(r)
           /\ request' = [request EXCEPT ![r] =
                [@ EXCEPT !.pc = "deriving", !.call = c, !.hash = account[c.user].hash]]
  <2>1. request' \in [Caller -> Requests]  BY ZenonT(60), <1>2, <1>4 DEF TypeOK, Requests
  <2>2. /\ \A q \in Caller : q # r => request'[q] = request[q]
        /\ request'[r].pc = "deriving" /\ request'[r].call = c
    BY <1>4 DEF TypeOK, Requests
  <2>3. InGate'  BY <1>4, <2>2, GateMoves DEF TypeOK, InGate
  <2> QED  BY <2>1, <2>2, <2>3 DEF TypeOK
<1> QED  BY <1>3, <1>4 DEF Derives

\* A request leaves the gate, or ends without having been there.
LEMMA LeavesType ==
  ASSUME TypeOK, GateInv, NEW r \in Caller,
         \A q \in Caller : q # r => request'[q] = request[q],
         request'[r].pc = "done",
         \/ Release(r)
         \/ UNCHANGED gateVars /\ request[r].pc # "deriving"
  PROVE  /\ \A q \in Caller : request'[q].pc \in {"body", "deriving"} => request'[q].call \in Call
         /\ InGate'
<1>1. CASE Release(r)  BY <1>1, GateMoves DEF TypeOK, InGate
<1>2. CASE UNCHANGED gateVars /\ request[r].pc # "deriving"
  BY <1>2 DEF TypeOK, InGate, gateVars
<1> QED  BY <1>1, <1>2 DEF TypeOK

LEMMA NoFailures == 0 \in 0..MaxFailures /\ 0 \in 0..MaxBrake
BY AuthAssumption DEF AuthAssumption

LEMMA ClearType ==
  ASSUME TypeOK, NEW u \in User, ClearFailures(u)
  PROVE  /\ wrong' \in [User -> [Address -> 0..MaxFailures]]
         /\ brake' \in [User -> 0..MaxBrake]
BY AuthAssumption DEF TypeOK, ClearFailures, AuthAssumption

LEMMA SignInType ==
  ASSUME NEW r \in Caller, NEW u \in User, NEW hash \in Hash
  PROVE  IssueSession(r, u, hash) \in Sessions
BY DEF Sessions, IssueSession, Salt

LEMMA InitType == Init => TypeOK
<1> SUFFICES ASSUME Init PROVE TypeOK  OBVIOUS
<1>1. GateTypeOK  BY GateInitInv DEF Init, GateInv
<1>2. PICK role \in Opening :
        /\ account = [u \in User |->
             IF role[u] = "none" THEN NoAccount
             ELSE [hash |-> [password |-> FirstPassword, salt |-> u], role |-> role[u]]]
        /\ session = {[id |-> u, user |-> u, hash |-> account[u].hash, late |-> FALSE] :
                        u \in {v \in User : role[v] # "none"}}
  BY DEF Init
<1>3. role \in [User -> {"admin", "user", "none"}]  BY AuthAssumption DEF AuthAssumption
<1>4. ASSUME NEW u \in User, role[u] # "none"
      PROVE  account[u].hash \in Hash /\ account[u] \in Accounts
  BY <1>2, <1>3, <1>4, AuthAssumption DEF Hash, Salt, Accounts, AuthAssumption
<1>5. account \in [User -> Accounts]
  BY <1>2, <1>4 DEF Accounts
<1>6. session \subseteq Sessions
  <2>1. ASSUME NEW u \in User, role[u] # "none"
        PROVE  [id |-> u, user |-> u, hash |-> account[u].hash, late |-> FALSE] \in Sessions
    BY <1>4, <2>1 DEF Sessions, Salt
  <2>2. session = {[id |-> u, user |-> u, hash |-> account[u].hash, late |-> FALSE] :
                     u \in {v \in User : role[v] # "none"}}
    BY <1>2
  <2> QED  BY ONLY <2>1, <2>2
<1>7. /\ wrong \in [User -> [Address -> 0..MaxFailures]]
      /\ brake \in [User -> 0..MaxBrake]
  BY AuthAssumption DEF Init, AuthAssumption
<1>8. /\ request \in [Caller -> Requests]
      /\ \A r \in Caller : request[r].pc = "new"
  BY DEF Init, NewRequest, Requests, Outcomes
<1>9. InGate  BY <1>8 DEF InGate, Init, GateInit
<1> QED  BY <1>1, <1>5, <1>6, <1>7, <1>8, <1>9 DEF TypeOK

LEMMA StartType ==
  ASSUME TypeOK, GateInv, GateInv', NEW r \in Caller, NEW c \in Call,
         Login(r, c) \/ Signup(r, c)
  PROVE  TypeOK'
<1>1. request[r].pc = "new" /\ UNCHANGED <<account, memory>>
  BY DEF Login, Signup
<1>2. GateTypeOK'  BY DEF GateInv
<1>3. CASE Derives(r, c)
  BY <1>1, <1>2, <1>3, DerivesType DEF TypeOK, memory
<1>4. CASE (EndsAtOnce(r, c, "locked") \/ EndsAtOnce(r, c, "taken")) /\ UNCHANGED gateVars
  <2>1. /\ request' \in [Caller -> Requests]
        /\ \A q \in Caller : q # r => request'[q] = request[q]
        /\ request'[r].pc = "done"
    BY <1>4, EndsAtOnceType DEF Outcomes
  <2>2. /\ \A q \in Caller : request'[q].pc \in {"body", "deriving"} => request'[q].call \in Call
        /\ InGate'
    BY <1>1, <1>4, <2>1, LeavesType
  <2> QED  BY <1>1, <1>2, <2>1, <2>2 DEF TypeOK, memory
<1> QED  BY <1>3, <1>4 DEF Login, Signup

LEMMA LoginEndsType ==
  ASSUME TypeOK, GateInv, GateInv', NEW r \in Caller, LoginSucceeds(r) \/ LoginFails(r)
  PROVE  TypeOK'
<1> DEFINE u == request[r].call.user
           a == request[r].call.from
           hash == request[r].hash
<1>1. /\ request[r].call \in Call /\ u \in User /\ a \in Address
      /\ request[r].call.password \in Password
  BY AuthAssumption DEF TypeOK, LoginSucceeds, LoginFails, At, AuthAssumption
<1>2. hash \in Hash \cup {NoHash}  BY DEF TypeOK, Requests
<1>3. Release(r) /\ UNCHANGED account /\ GateTypeOK'
  BY DEF LoginSucceeds, LoginFails, GateInv
<1>4. CASE LoginSucceeds(r)
  <2>1. hash \in Hash
    BY <1>1, <1>2, <1>4, AuthAssumption DEF LoginSucceeds, PasswordOk, NoHash, AuthAssumption
  <2>2. session' \subseteq Sessions
    BY <1>1, <1>4, <2>1, SignInType DEF TypeOK, LoginSucceeds
  <2>3. /\ wrong' \in [User -> [Address -> 0..MaxFailures]]
        /\ brake' \in [User -> 0..MaxBrake]
    BY <1>1, <1>4, AuthAssumption DEF TypeOK, LoginSucceeds, AuthAssumption
  <2>4. /\ request' \in [Caller -> Requests]
        /\ \A q \in Caller : q # r => request'[q] = request[q]
        /\ request'[r].pc = "done"
    BY <1>4, EndsType DEF LoginSucceeds, Outcomes
  <2>5. /\ \A q \in Caller : request'[q].pc \in {"body", "deriving"} => request'[q].call \in Call
        /\ InGate'
    BY <1>3, <2>4, LeavesType
  <2> QED  BY <1>3, <2>2, <2>3, <2>4, <2>5 DEF TypeOK
<1>5. CASE LoginFails(r)
  <2>1. /\ wrong' \in [User -> [Address -> 0..MaxFailures]]
        /\ brake' \in [User -> 0..MaxBrake]
    <3>1. /\ Noted(wrong[u][a], MaxFailures) \in 0..MaxFailures
          /\ Noted(brake[u], MaxBrake) \in 0..MaxBrake
      <4>1. wrong[u][a] \in 0..MaxFailures /\ brake[u] \in 0..MaxBrake
        BY <1>1 DEF TypeOK
      <4> QED  BY SMTT(60), <4>1, AuthAssumption DEF Noted, AuthAssumption
    <3>2. /\ wrong' = [wrong EXCEPT ![u][a] = Noted(@, MaxFailures)]
          /\ brake' = [brake EXCEPT ![u] = Noted(@, MaxBrake)]
      BY <1>5 DEF LoginFails
    <3> QED  BY <1>1, <3>1, <3>2 DEF TypeOK
  <2>2. account[u].hash \in Hash \cup {NoHash}  BY <1>1, HashType
  <2>3. PICK outcome \in Outcomes :
          request' = [request EXCEPT ![r] =
            [@ EXCEPT !.pc = "done", !.against = account[u].hash, !.outcome = outcome]]
    BY <1>5 DEF LoginFails, Outcomes
  <2>4. /\ request' \in [Caller -> Requests]
        /\ \A q \in Caller : q # r => request'[q] = request[q]
        /\ request'[r].pc = "done"
    BY ZenonT(60), <2>2, <2>3 DEF TypeOK, Requests
  <2>5. /\ \A q \in Caller : request'[q].pc \in {"body", "deriving"} => request'[q].call \in Call
        /\ InGate'
    BY <1>3, <2>4, LeavesType
  <2>6. session' = session  BY <1>5 DEF LoginFails
  <2> QED  BY <1>3, <2>1, <2>4, <2>5, <2>6 DEF TypeOK
<1> QED  BY <1>4, <1>5

LEMMA SignupEndsType ==
  ASSUME TypeOK, GateInv, GateInv', NEW r \in Caller, SignupEnds(r)
  PROVE  TypeOK'
<1> DEFINE c == request[r].call
           hash == [password |-> c.password, salt |-> r]
<1>1. c \in Call /\ c.user \in User /\ hash \in Hash
  BY AuthAssumption DEF TypeOK, SignupEnds, At, AuthAssumption, Hash, Salt
<1>2. Release(r) /\ GateTypeOK'  BY DEF SignupEnds, GateInv
<1>3. /\ request' \in [Caller -> Requests]
      /\ \A q \in Caller : q # r => request'[q] = request[q]
      /\ request'[r].pc = "done"
  <2>1. Ends(r, "taken") \/ Ends(r, "in")  BY DEF SignupEnds
  <2> QED  BY <2>1, EndsType DEF Outcomes
<1>4. /\ \A q \in Caller : request'[q].pc \in {"body", "deriving"} => request'[q].call \in Call
      /\ InGate'
  BY <1>2, <1>3, LeavesType
<1>5. CASE Exists(c.user)
  <2>1. UNCHANGED <<account, memory>>  BY <1>5 DEF SignupEnds
  <2> QED  BY <1>2, <1>3, <1>4, <2>1 DEF TypeOK, memory
<1>6. CASE ~ Exists(c.user)
  <2>1. PICK role \in {"admin", "user"} :
          account' = [account EXCEPT ![c.user] = [hash |-> hash, role |-> role]]
    BY <1>6 DEF SignupEnds
  <2>2. account' \in [User -> Accounts]  BY <1>1, <2>1 DEF TypeOK, Accounts
  <2>3. session' \subseteq Sessions
    <3>1. session' = session \cup {IssueSession(r, c.user, hash)}  BY <1>6 DEF SignupEnds
    <3> QED  BY <1>1, <3>1, SignInType DEF TypeOK
  <2>4. ClearFailures(c.user)  BY <1>6 DEF SignupEnds
  <2>5. /\ wrong' \in [User -> [Address -> 0..MaxFailures]]
        /\ brake' \in [User -> 0..MaxBrake]
    BY <1>1, <2>4, ClearType
  <2> QED  BY <1>2, <1>3, <1>4, <2>2, <2>3, <2>5 DEF TypeOK
<1> QED  BY <1>5, <1>6

LEMMA ResetEndsType ==
  ASSUME TypeOK, GateInv, GateInv', NEW r \in Caller, ResetEnds(r)
  PROVE  TypeOK'
<1> DEFINE c == request[r].call
<1>1. c \in Call /\ c.user \in User /\ [password |-> c.password, salt |-> r] \in Hash
  BY AuthAssumption DEF TypeOK, ResetEnds, At, AuthAssumption, Hash, Salt
<1>2. Release(r) /\ GateTypeOK'  BY DEF ResetEnds, GateInv
<1>3. /\ request' \in [Caller -> Requests]
      /\ \A q \in Caller : q # r => request'[q] = request[q]
      /\ request'[r].pc = "done"
  <2>1. Ends(r, "ok") \/ Ends(r, "missing")  BY DEF ResetEnds
  <2> QED  BY <2>1, EndsType DEF Outcomes
<1>4. /\ \A q \in Caller : request'[q].pc \in {"body", "deriving"} => request'[q].call \in Call
      /\ InGate'
  BY <1>2, <1>3, LeavesType
<1>5. CASE ~ Exists(c.user)
  <2>1. UNCHANGED <<account, memory>>  BY <1>5 DEF ResetEnds
  <2> QED  BY <1>2, <1>3, <1>4, <2>1 DEF TypeOK, memory
<1>6. CASE Exists(c.user)
  <2>1. account' = [account EXCEPT ![c.user].hash = [password |-> c.password, salt |-> r]]
    BY <1>6 DEF ResetEnds
  <2>2. account[c.user] \in [hash : Hash, role : {"admin", "user"}]
    BY <1>1, <1>6 DEF TypeOK, Accounts, Exists, NoAccount
  <2>3. account' \in [User -> Accounts]  BY <1>1, <2>1, <2>2 DEF TypeOK, Accounts
  <2>4. session' \subseteq Sessions  BY <1>6 DEF ResetEnds, DropSessions, TypeOK
  <2>5. ClearFailures(c.user)  BY <1>6 DEF ResetEnds
  <2>6. /\ wrong' \in [User -> [Address -> 0..MaxFailures]]
        /\ brake' \in [User -> 0..MaxBrake]
    BY <1>1, <2>5, ClearType
  <2> QED  BY <1>2, <1>3, <1>4, <2>3, <2>4, <2>6 DEF TypeOK
<1> QED  BY <1>5, <1>6

LEMMA SetRoleType ==
  ASSUME TypeOK, GateInv, GateInv', NEW r \in Caller, SetRole(r)
  PROVE  TypeOK'
<1> DEFINE c == request[r].call
<1>1. c \in Call /\ c.user \in User
  BY AuthAssumption DEF TypeOK, SetRole, At, AuthAssumption
<1>2. /\ request[r].pc # "deriving" /\ GateTypeOK'
      /\ UNCHANGED gateVars /\ UNCHANGED <<wrong, brake>>
  BY DEF SetRole, At, GateInv
<1>3. /\ request' \in [Caller -> Requests]
      /\ \A q \in Caller : q # r => request'[q] = request[q]
      /\ request'[r].pc = "done"
  <2>1. Ends(r, "conflict") \/ Ends(r, "missing") \/ Ends(r, "ok")  BY DEF SetRole
  <2> QED  BY <2>1, EndsType DEF Outcomes
<1>4. /\ \A q \in Caller : request'[q].pc \in {"body", "deriving"} => request'[q].call \in Call
      /\ InGate'
  BY <1>2, <1>3, LeavesType
<1>5. CASE UNCHANGED <<account, session>>
  BY <1>2, <1>3, <1>4, <1>5 DEF TypeOK
<1>6. CASE /\ Exists(c.user)
           /\ account' = [account EXCEPT ![c.user].role =
                            IF c.kind = "promote" THEN "admin" ELSE "user"]
           /\ session' = DropSessions(c.user)
  <2>1. account[c.user] \in [hash : Hash, role : {"admin", "user"}]
    BY <1>1, <1>6 DEF TypeOK, Accounts, Exists, NoAccount
  <2>2. account' \in [User -> Accounts]  BY <1>1, <1>6, <2>1 DEF TypeOK, Accounts
  <2>3. session' \subseteq Sessions  BY <1>6 DEF DropSessions, TypeOK
  <2> QED  BY <1>2, <1>3, <1>4, <2>2, <2>3 DEF TypeOK
<1> QED  BY <1>5, <1>6 DEF SetRole

LEMMA DeleteType ==
  ASSUME TypeOK, GateInv, GateInv', NEW r \in Caller, NEW c \in Call, Delete(r, c)
  PROVE  TypeOK'
<1>1. c.user \in User  BY AuthAssumption DEF AuthAssumption
<1>2. request[r].pc # "deriving" /\ UNCHANGED gateVars /\ GateTypeOK'
  BY DEF Delete, GateInv
<1>3. /\ request' \in [Caller -> Requests]
      /\ \A q \in Caller : q # r => request'[q] = request[q]
      /\ request'[r].pc = "done"
  <2>1. EndsAtOnce(r, c, "conflict") \/ EndsAtOnce(r, c, "missing") \/ EndsAtOnce(r, c, "ok")
    BY DEF Delete
  <2> QED  BY <2>1, EndsAtOnceType DEF Outcomes
<1>4. /\ \A q \in Caller : request'[q].pc \in {"body", "deriving"} => request'[q].call \in Call
      /\ InGate'
  BY <1>2, <1>3, LeavesType
<1>5. CASE UNCHANGED <<account, memory>>
  BY <1>2, <1>3, <1>4, <1>5 DEF TypeOK, memory
<1>6. CASE /\ account' = [account EXCEPT ![c.user] = NoAccount]
           /\ session' = DropSessions(c.user)
           /\ ClearFailures(c.user)
  <2>1. account' \in [User -> Accounts]  BY <1>1, <1>6 DEF TypeOK, Accounts
  <2>2. session' \subseteq Sessions  BY <1>6 DEF DropSessions, TypeOK
  <2>3. /\ wrong' \in [User -> [Address -> 0..MaxFailures]]
        /\ brake' \in [User -> 0..MaxBrake]
    BY <1>1, <1>6, ClearType
  <2> QED  BY <1>2, <1>3, <1>4, <2>1, <2>2, <2>3 DEF TypeOK
<1> QED  BY <1>5, <1>6 DEF Delete

LEMMA AdminStartType ==
  ASSUME TypeOK, GateInv, GateInv', NEW r \in Caller, NEW c \in Call,
         NotAllowed(r, c) \/ AwaitBody(r, c)
  PROVE  TypeOK'
<1>1. /\ request[r].pc # "deriving" /\ GateTypeOK'
      /\ UNCHANGED gateVars /\ UNCHANGED <<account, wrong, brake>>
  BY DEF NotAllowed, AwaitBody, memory, GateInv
<1>2. CASE NotAllowed(r, c)
  <2>1. /\ request' \in [Caller -> Requests]
        /\ \A q \in Caller : q # r => request'[q] = request[q]
        /\ request'[r].pc = "done"
    BY <1>2, EndsAtOnceType DEF NotAllowed, Outcomes
  <2>2. /\ \A q \in Caller : request'[q].pc \in {"body", "deriving"} => request'[q].call \in Call
        /\ InGate'
    BY <1>1, <2>1, LeavesType
  <2>3. session' \subseteq Sessions  BY <1>2 DEF NotAllowed, DropSessions, TypeOK
  <2> QED  BY <1>1, <2>1, <2>2, <2>3 DEF TypeOK
<1>3. CASE AwaitBody(r, c)
  <2>1. request' = [request EXCEPT ![r] = [@ EXCEPT !.pc = "body", !.call = c]]
    BY <1>3 DEF AwaitBody
  <2>2. request' \in [Caller -> Requests]  BY ZenonT(60), <2>1 DEF TypeOK, Requests
  <2>3. /\ \A q \in Caller : q # r => request'[q] = request[q]
        /\ request'[r].pc = "body" /\ request'[r].call = c
    BY <2>1 DEF TypeOK, Requests
  <2>4. InGate'  BY <1>1, <2>3 DEF TypeOK, InGate, gateVars
  <2>5. \A q \in Caller : request'[q].pc \in {"body", "deriving"} => request'[q].call \in Call
    BY <2>3 DEF TypeOK
  <2>6. session' = session  BY <1>3 DEF AwaitBody, memory
  <2> QED  BY <1>1, <2>2, <2>4, <2>5, <2>6 DEF TypeOK
<1> QED  BY <1>2, <1>3

LEMMA ResetType ==
  ASSUME TypeOK, GateInv, GateInv', NEW r \in Caller, Reset(r)
  PROVE  TypeOK'
<1>1. request[r].call \in Call /\ request[r].pc # "deriving"
  BY DEF TypeOK, Reset, At
<1>2. Derives(r, request[r].call) /\ UNCHANGED <<account, memory>> /\ GateTypeOK'
  BY DEF Reset, GateInv
<1> QED  BY <1>1, <1>2, DerivesType DEF TypeOK, memory

LEMMA GoesOnType ==
  ASSUME TypeOK, GateInv, GateInv', NEW r \in Caller, GoesOn(r)
  PROVE  TypeOK'
<1>1. Resume(r) /\ UNCHANGED <<account, memory, request>> /\ GateTypeOK'
  BY DEF GoesOn, GateInv
<1>2. InGate'  BY <1>1, GateMoves DEF TypeOK, InGate
<1> QED  BY <1>1, <1>2 DEF TypeOK, memory

LEMMA FailsType ==
  ASSUME TypeOK, GateInv, GateInv', NEW r \in Caller, Refused(r) \/ StoreFails(r)
  PROVE  TypeOK'
<1>1. UNCHANGED <<account, memory>> /\ GateTypeOK'
  BY DEF Refused, StoreFails, GateInv
<1>2. /\ request' \in [Caller -> Requests]
      /\ \A q \in Caller : q # r => request'[q] = request[q]
      /\ request'[r].pc = "done"
  BY EndsType, EndsAtOnceType DEF Refused, StoreFails, Outcomes
<1>3. \/ Release(r)
      \/ UNCHANGED gateVars /\ request[r].pc # "deriving"
  BY DEF Refused, StoreFails, At
<1>4. /\ \A q \in Caller : request'[q].pc \in {"body", "deriving"} => request'[q].call \in Call
      /\ InGate'
  BY <1>2, <1>3, LeavesType
<1> QED  BY <1>1, <1>2, <1>4 DEF TypeOK, memory

LEMMA ForgetType ==
  ASSUME TypeOK, NEW u \in User,
         ForgetName(u) \/ \E a \in Address : ForgetAddress(u, a)
  PROVE  TypeOK'
<1>1. UNCHANGED gateVars /\ UNCHANGED <<account, session, request>>
  BY DEF ForgetName, ForgetAddress
<1>2. /\ wrong' \in [User -> [Address -> 0..MaxFailures]]
      /\ brake' \in [User -> 0..MaxBrake]
  <2>1. CASE ForgetName(u)
    BY <2>1, NoFailures DEF TypeOK, ForgetName
  <2>2. ASSUME NEW a \in Address, ForgetAddress(u, a)
        PROVE  /\ wrong' \in [User -> [Address -> 0..MaxFailures]]
               /\ brake' \in [User -> 0..MaxBrake]
    BY <2>2, NoFailures DEF TypeOK, ForgetAddress
  <2> QED  BY <2>1, <2>2
<1> QED  BY <1>1, <1>2 DEF TypeOK, GateTypeOK, gateVars, InGate

LEMMA StopType ==
  ASSUME TypeOK, GateInv', ServerStops
  PROVE  TypeOK'
<1>1. GateTypeOK' /\ UNCHANGED account /\ session' = {}  BY DEF ServerStops, GateInv
<1>2. /\ wrong' \in [User -> [Address -> 0..MaxFailures]]
      /\ brake' \in [User -> 0..MaxBrake]
  BY NoFailures DEF ServerStops
<1>3. /\ request' \in [Caller -> Requests]
      /\ \A r \in Caller : request'[r].pc \in {"new", "done"}
  BY ZenonT(60) DEF TypeOK, Requests, Outcomes, ServerStops
<1>4. InGate'  BY <1>3 DEF InGate, ServerStops, GateRestart
<1> QED  BY <1>1, <1>2, <1>3, <1>4 DEF TypeOK

LEMMA StepType == TypeOK /\ GateInv /\ GateInv' /\ [Next]_vars => TypeOK'
<1> SUFFICES ASSUME TypeOK, GateInv, GateInv', [Next]_vars PROVE TypeOK'  OBVIOUS
<1>1. ASSUME NEW r \in Caller, NEW c \in Call,
             \/ Login(r, c) \/ Signup(r, c)
             \/ NotAllowed(r, c) \/ AwaitBody(r, c) \/ Delete(r, c)
      PROVE  TypeOK'
  BY <1>1, StartType, AdminStartType, DeleteType
<1>2. ASSUME NEW r \in Caller,
             \/ GoesOn(r) \/ Derived(r) \/ Reset(r) \/ SetRole(r)
             \/ Refused(r) \/ StoreFails(r)
      PROVE  TypeOK'
  BY <1>2, GoesOnType, LoginEndsType, SignupEndsType, ResetEndsType, ResetType, SetRoleType,
     FailsType DEF Derived
<1>3. CASE \E u \in User : ForgetName(u) \/ \E a \in Address : ForgetAddress(u, a)
  BY <1>3, ForgetType
<1>4. CASE \E s \in session : SessionEnds(s)
  BY <1>4 DEF SessionEnds, TypeOK, GateTypeOK, gateVars, InGate
<1>5. CASE ServerStops  BY <1>5, StopType
<1>6. CASE UNCHANGED vars
  BY <1>6 DEF vars, memory, TypeOK, GateTypeOK, gateVars, InGate
<1> QED  BY <1>1, <1>2, <1>3, <1>4, <1>5, <1>6 DEF Next

\* The state keeps its types, and a request is in the gate exactly while a
\* password is derived for it.
THEOREM TypeCorrect == Spec => []TypeOK
<1>1. Spec => []GateInv  BY ImplementsGate, GateCounts, PTL
<1> QED  BY <1>1, InitType, StepType, PTL DEF Spec

-----------------------------------------------------------------------------
(* Administrators. *)

LEMMA AdminInit == Init => AdminRemains
<1> SUFFICES ASSUME Init PROVE AdminRemains  OBVIOUS
<1>1. PICK role \in Opening :
        account = [u \in User |->
          IF role[u] = "none" THEN NoAccount
          ELSE [hash |-> [password |-> FirstPassword, salt |-> u], role |-> role[u]]]
  BY DEF Init
<1>2. \A u \in User : account[u].role = role[u]  BY <1>1 DEF NoAccount
<1>3. (\E u \in User : role[u] # "none") => \E u \in User : role[u] = "admin"
  BY AuthAssumption DEF AuthAssumption
<1> QED  BY <1>2, <1>3 DEF AdminRemains, Exists, Admins

\* Whoever is removed is not the last: the others who are administrators remain.
LEMMA RemovalLeavesAdmin ==
  ASSUME TypeOK, AdminRemains, NEW c \in Call, c.user \in User, Exists(c.user), MayRemove(c),
         \A u \in User \ {c.user} : account'[u] = account[u]
  PROVE  Admins' # {}
<1>1. Admins # {}  BY DEF AdminRemains
<1>2. PICK u \in Admins : u # c.user  BY <1>1 DEF MayRemove
<1>3. u \in User /\ account[u].role = "admin"  BY DEF Admins
<1>4. account'[u].role = "admin"  BY <1>2, <1>3
<1> QED  BY <1>3, <1>4 DEF Admins

LEMMA AdminStep == TypeOK /\ AdminRemains /\ [Next]_vars => AdminRemains'
<1> SUFFICES ASSUME TypeOK, AdminRemains, [Next]_vars PROVE AdminRemains'  OBVIOUS
<1>1. CASE UNCHANGED account  BY <1>1 DEF AdminRemains, Admins, Exists
<1>2. ASSUME NEW r \in Caller, SignupEnds(r), ~ Exists(request[r].call.user)
      PROVE  AdminRemains'
  <2> DEFINE c == request[r].call
  <2>1. c.user \in User
    BY <1>2, AuthAssumption DEF TypeOK, SignupEnds, At, AuthAssumption
  <2>2. account' = [account EXCEPT ![c.user] =
          [hash |-> [password |-> c.password, salt |-> r],
           role |-> IF \E u \in User : Exists(u) THEN "user" ELSE "admin"]]
    BY <1>2 DEF SignupEnds
  <2>3. CASE \E u \in User : Exists(u)
    <3>1. PICK u \in User : account[u].role = "admin"  BY <2>3 DEF AdminRemains, Admins
    <3>2. u # c.user  BY <1>2, <3>1 DEF Exists
    <3>3. account'[u].role = "admin"  BY <2>1, <2>2, <3>1, <3>2 DEF TypeOK
    <3> QED  BY <3>3 DEF AdminRemains, Admins
  <2>4. CASE ~ \E u \in User : Exists(u)
    <3>1. account'[c.user].role = "admin"  BY <2>1, <2>2, <2>4 DEF TypeOK
    <3> QED  BY <2>1, <3>1 DEF AdminRemains, Admins
  <2> QED  BY <2>3, <2>4
<1>3. ASSUME NEW r \in Caller, ResetEnds(r), Exists(request[r].call.user)
      PROVE  AdminRemains'
  <2> DEFINE c == request[r].call
  <2>1. c.user \in User
    BY <1>3, AuthAssumption DEF TypeOK, ResetEnds, At, AuthAssumption
  <2>2. account' = [account EXCEPT ![c.user].hash = [password |-> c.password, salt |-> r]]
    BY <1>3 DEF ResetEnds
  <2>3. account[c.user] \in [hash : Hash, role : {"admin", "user"}]
    BY <1>3, <2>1 DEF TypeOK, Accounts, Exists, NoAccount
  <2>4. \A u \in User : account'[u].role = account[u].role
    BY <2>1, <2>2, <2>3 DEF TypeOK
  <2> QED  BY <2>4 DEF AdminRemains, Admins, Exists
<1>4. ASSUME NEW r \in Caller, SetRole(r)
      PROVE  AdminRemains'
  <2> DEFINE c == request[r].call
  <2>1. c \in Call /\ c.user \in User
    BY <1>4, AuthAssumption DEF TypeOK, SetRole, At, AuthAssumption
  <2>2. CASE UNCHANGED account  BY <2>2, <1>1
  <2>3. CASE /\ c.kind = "demote" => MayRemove(c)
             /\ Exists(c.user)
             /\ account' = [account EXCEPT ![c.user].role =
                              IF c.kind = "promote" THEN "admin" ELSE "user"]
    <3>1. account[c.user] \in [hash : Hash, role : {"admin", "user"}]
      BY <2>1, <2>3 DEF TypeOK, Accounts, Exists, NoAccount
    <3>2. CASE c.kind = "promote"
      <4>1. account'[c.user].role = "admin"  BY <2>1, <2>3, <3>1, <3>2 DEF TypeOK
      <4> QED  BY <2>1, <4>1 DEF AdminRemains, Admins
    <3>3. CASE c.kind = "demote"
      <4>1. \A u \in User \ {c.user} : account'[u] = account[u]
        BY <2>1, <2>3 DEF TypeOK
      <4> QED  BY <2>1, <2>3, <3>3, <4>1, RemovalLeavesAdmin DEF AdminRemains
    <3> QED  BY <1>4, <3>2, <3>3 DEF SetRole, At
  <2> QED  BY <1>4, <2>2, <2>3 DEF SetRole
<1>5. ASSUME NEW r \in Caller, NEW c \in Call, Delete(r, c)
      PROVE  AdminRemains'
  <2>1. c.user \in User  BY AuthAssumption DEF AuthAssumption
  <2>2. CASE UNCHANGED account  BY <2>2, <1>1
  <2>3. CASE /\ MayRemove(c) /\ Exists(c.user)
             /\ account' = [account EXCEPT ![c.user] = NoAccount]
    <3>1. \A u \in User \ {c.user} : account'[u] = account[u]
      BY <2>1, <2>3 DEF TypeOK
    <3> QED  BY <2>1, <2>3, <3>1, RemovalLeavesAdmin DEF AdminRemains
  <2> QED  BY <1>5, <2>2, <2>3 DEF Delete
<1>6. ASSUME NEW r \in Caller, NEW c \in Call,
             Login(r, c) \/ Signup(r, c) \/ NotAllowed(r, c) \/ AwaitBody(r, c)
      PROVE  UNCHANGED account
  BY <1>6 DEF Login, Signup, NotAllowed, AwaitBody
<1>7. ASSUME NEW r \in Caller,
             \/ GoesOn(r) \/ LoginSucceeds(r) \/ LoginFails(r)
             \/ Reset(r) \/ Refused(r) \/ StoreFails(r)
             \/ SignupEnds(r) /\ Exists(request[r].call.user)
             \/ ResetEnds(r) /\ ~ Exists(request[r].call.user)
      PROVE  UNCHANGED account
  BY <1>7 DEF GoesOn, LoginSucceeds, LoginFails, Reset, Refused, StoreFails, SignupEnds, ResetEnds
<1>8. CASE \/ \E u \in User : ForgetName(u) \/ \E a \in Address : ForgetAddress(u, a)
           \/ \E s \in session : SessionEnds(s)
           \/ ServerStops
           \/ UNCHANGED vars
  BY <1>1, <1>8 DEF ForgetName, ForgetAddress, SessionEnds, ServerStops, vars
<1> QED
  BY <1>1, <1>2, <1>3, <1>4, <1>5, <1>6, <1>7, <1>8 DEF Next, Derived

\* A runner that has an account has an administrator, whatever runs at once.
THEOREM AnAdminRemains == Spec => []AdminRemains
<1> QED  BY TypeCorrect, AdminInit, AdminStep, PTL DEF Spec

-----------------------------------------------------------------------------
(* Sessions. *)

LEMMA NobodysHash == NoHash \notin Hash
BY AuthAssumption DEF NoHash, Hash, AuthAssumption

\* Sessions that were there, of accounts whose password is as it was, and at
\* most one more, issued by IssueSession.
LEMMA SessionsStay ==
  ASSUME SessionsAreCurrent,
         \A s \in session' : \/ s \in session /\ account'[s.user].hash = account[s.user].hash
                             \/ s.late \/ account'[s.user].hash = s.hash
  PROVE  SessionsAreCurrent'
BY DEF SessionsAreCurrent

\* A name without an account has only late sessions.
LEMMA NobodysSessions ==
  ASSUME TypeOK, SessionsAreCurrent, NEW s \in session, ~ Exists(s.user)
  PROVE  s.late
<1>1. s \in Sessions /\ s.user \in User /\ s.hash \in Hash /\ account[s.user] \in Accounts
  BY DEF TypeOK, Sessions
<1>2. account[s.user] = NoAccount
  BY <1>1 DEF Accounts, Exists, NoAccount
<1> QED  BY <1>1, <1>2, NobodysHash DEF NoAccount, SessionsAreCurrent, Sessions

\* The accounts change at one name, whose sessions are dropped.
LEMMA OthersStay ==
  ASSUME TypeOK, SessionsAreCurrent, NEW u \in User, session' = DropSessions(u),
         \A v \in User \ {u} : account'[v] = account[v]
  PROVE  SessionsAreCurrent'
BY SessionsStay DEF DropSessions, TypeOK, Sessions

LEMMA SessionsStep == TypeOK /\ SessionsAreCurrent /\ [Next]_vars => SessionsAreCurrent'
<1> SUFFICES ASSUME TypeOK, SessionsAreCurrent, [Next]_vars PROVE SessionsAreCurrent'
  OBVIOUS
<1>1. CASE UNCHANGED account /\ session' \subseteq session
  BY <1>1, SessionsStay
<1>2. ASSUME NEW r \in Caller, LoginSucceeds(r)  PROVE SessionsAreCurrent'
  <2>1. PICK u, hash : u \in User /\ session' = session \cup {IssueSession(r, u, hash)}
    BY <1>2, AuthAssumption DEF LoginSucceeds, TypeOK, At, AuthAssumption
  <2>2. UNCHANGED account  BY <1>2 DEF LoginSucceeds
  <2>3. IssueSession(r, u, hash).late \/ account'[u].hash = hash
    BY DEF IssueSession
  <2>4. IssueSession(r, u, hash).user = u /\ IssueSession(r, u, hash).hash = hash
    BY DEF IssueSession
  <2> QED  BY <2>1, <2>2, <2>3, <2>4, SessionsStay
<1>3. ASSUME NEW r \in Caller, SignupEnds(r), ~ Exists(request[r].call.user)
      PROVE  SessionsAreCurrent'
  <2>1. PICK u \in User, hash \in Hash, role \in {"admin", "user"} :
          /\ u = request[r].call.user
          /\ account' = [account EXCEPT ![u] = [hash |-> hash, role |-> role]]
          /\ session' = session \cup {IssueSession(r, u, hash)}
    <3>1. request[r].call \in Call  BY <1>3 DEF SignupEnds, TypeOK, At
    <3>2. /\ request[r].call.user \in User
          /\ [password |-> request[r].call.password, salt |-> r] \in Hash
      BY <3>1, AuthAssumption DEF AuthAssumption, Hash, Salt
    <3> QED  BY <1>3, <3>2 DEF SignupEnds
  <2>2. \A v \in User \ {u} : account'[v] = account[v]  BY <2>1 DEF TypeOK
  <2>3. IssueSession(r, u, hash).late \/ account'[u].hash = hash
    BY DEF IssueSession
  <2>4. IssueSession(r, u, hash).user = u /\ IssueSession(r, u, hash).hash = hash
    BY DEF IssueSession
  <2>5. \A s \in session : s.user \in User /\ (s.user = u => s.late)
    BY <1>3, <2>1, NobodysSessions DEF TypeOK, Sessions
  <2> QED  BY <2>1, <2>2, <2>3, <2>4, <2>5, SessionsStay
<1>4. ASSUME NEW r \in Caller, ResetEnds(r) \/ SetRole(r)  PROVE SessionsAreCurrent'
  <2>1. PICK u \in User : u = request[r].call.user
    BY <1>4, AuthAssumption DEF ResetEnds, SetRole, TypeOK, At, AuthAssumption
  <2>2. CASE UNCHANGED account /\ session' = session  BY <1>1, <2>2
  <2>3. CASE session' = DropSessions(u) /\ \A v \in User \ {u} : account'[v] = account[v]
    BY <2>3, OthersStay
  <2> QED  BY <1>4, <2>1, <2>2, <2>3 DEF ResetEnds, SetRole, TypeOK, memory
<1>5. ASSUME NEW r \in Caller, NEW c \in Call, Delete(r, c)  PROVE SessionsAreCurrent'
  <2>1. PICK u \in User : u = c.user  BY AuthAssumption DEF AuthAssumption
  <2>2. CASE UNCHANGED account /\ session' = session  BY <1>1, <2>2
  <2>3. CASE session' = DropSessions(u) /\ \A v \in User \ {u} : account'[v] = account[v]
    BY <2>3, OthersStay
  <2> QED  BY <1>5, <2>1, <2>2, <2>3 DEF Delete, TypeOK, memory
<1>6. ASSUME NEW r \in Caller, NEW c \in Call,
             Login(r, c) \/ Signup(r, c) \/ NotAllowed(r, c) \/ AwaitBody(r, c)
      PROVE  UNCHANGED account /\ session' \subseteq session
  BY <1>6 DEF Login, Signup, NotAllowed, AwaitBody, memory, DropSessions
<1>7. ASSUME NEW r \in Caller,
             \/ GoesOn(r) \/ LoginFails(r) \/ Reset(r) \/ Refused(r) \/ StoreFails(r)
             \/ SignupEnds(r) /\ Exists(request[r].call.user)
      PROVE  UNCHANGED account /\ session' \subseteq session
  BY <1>7 DEF GoesOn, LoginFails, Reset, Refused, StoreFails, SignupEnds, memory
<1>8. CASE \/ \E u \in User : ForgetName(u) \/ \E a \in Address : ForgetAddress(u, a)
           \/ \E s \in session : SessionEnds(s)
           \/ ServerStops
           \/ UNCHANGED vars
  BY <1>1, <1>8 DEF ForgetName, ForgetAddress, SessionEnds, ServerStops, vars
<1> QED
  BY <1>1, <1>2, <1>3, <1>4, <1>5, <1>6, <1>7, <1>8 DEF Next, Derived

LEMMA SessionsInit == Init => SessionsAreCurrent
BY DEF Init, SessionsAreCurrent

-----------------------------------------------------------------------------
(* Failed attempts.  A request that is answered never changes again, so the *)
(* guesses that have been made stay; what counts against a name is at most  *)
(* as many, for resetting, deleting and signing up clear it.                *)

\* One request goes on, or none: the guesses stay.
LEMMA GuessesStay ==
  ASSUME AnswersComeLast,
         \A q \in Caller : request'[q] = request[q] \/ request[q].pc # "done"
  PROVE  \A u, a, hash : Guesses(u, a, hash) \subseteq Guesses(u, a, hash)'
<1>1. ASSUME NEW q \in Caller, Guess(q)  PROVE request'[q] = request[q]
  BY <1>1 DEF AnswersComeLast, Guess
<1> QED  BY <1>1 DEF Guesses, Guess

LEMMA FewerGuesses ==
  ASSUME NEW S \in SUBSET Caller, NEW T \in SUBSET S
  PROVE  /\ Cardinality(S) \in Nat /\ Cardinality(T) \in Nat
         /\ Cardinality(T) <= Cardinality(S)
<1>1. IsFiniteSet(S)  BY GateAssumption, FS_Subset DEF GateAssumption
<1> QED  BY <1>1, FS_Subset, FS_CardinalityType

\* Nothing counts that was not a guess at the present password: no new account,
\* no new password, and no more failures, unless they are cleared.
LEMMA StillCounted ==
  ASSUME TypeOK, TypeOK', GuessesAreCounted,
         \A u, a, hash : Guesses(u, a, hash) \subseteq Guesses(u, a, hash)',
         \A u \in User, a \in Address : Exists(u)' =>
           \/ wrong'[u][a] = 0
           \/ /\ Exists(u) /\ account'[u].hash = account[u].hash
              /\ wrong'[u][a] = wrong[u][a]
  PROVE  GuessesAreCounted'
<1> SUFFICES ASSUME NEW u \in User, NEW a \in Address, Exists(u)'
             PROVE  wrong'[u][a] <= Cardinality(Guesses(u, a, account[u].hash)')
  BY DEF GuessesAreCounted
<1>1. PICK hash : hash = account'[u].hash  OBVIOUS
<1>2. wrong'[u][a] \in Nat  BY AuthAssumption DEF TypeOK, AuthAssumption
<1>3. Guesses(u, a, hash)' \in SUBSET Caller  BY DEF Guesses
<1>4. Guesses(u, a, hash) \in SUBSET Guesses(u, a, hash)'  OBVIOUS
<1>5. /\ Cardinality(Guesses(u, a, hash)) <= Cardinality(Guesses(u, a, hash)')
      /\ Cardinality(Guesses(u, a, hash)) \in Nat
      /\ Cardinality(Guesses(u, a, hash)') \in Nat
  BY <1>3, <1>4, FewerGuesses
<1>6. wrong'[u][a] <= Cardinality(Guesses(u, a, hash)')
  <2>1. CASE wrong'[u][a] = 0  BY <1>5, <2>1
  <2>2. CASE Exists(u) /\ hash = account[u].hash /\ wrong'[u][a] = wrong[u][a]
    <3>1. wrong[u][a] <= Cardinality(Guesses(u, a, hash))
      BY <2>2 DEF GuessesAreCounted
    <3> QED  BY <1>2, <1>5, <2>2, <3>1
  <2> QED  BY <1>1, <2>1, <2>2
<1>7. Guesses(u, a, account[u].hash)' = Guesses(u, a, hash)'  BY <1>1 DEF Guesses
<1> QED  BY <1>6, <1>7

\* Who was refused has had the guesses; who is refused now shows them.
LEMMA StillIn ==
  ASSUME OwnersGetIn, NEW r \in Caller,
         \A q \in Caller : q # r => request'[q] = request[q],
         \A u, a, hash : Guesses(u, a, hash) \subseteq Guesses(u, a, hash)',
         Refusal(r)' /\ PasswordOk(r)' =>
           \E u, a, hash :
             /\ request'[r].call.user = u /\ request'[r].call.from = a
             /\ request'[r].hash = hash
             /\ r \notin Guesses(u, a, hash)
             /\ Cardinality(Guesses(u, a, hash)) >= MaxFailures
  PROVE  OwnersGetIn'
<1>1. MaxFailures \in Nat  BY AuthAssumption DEF AuthAssumption
<1> SUFFICES ASSUME NEW q \in Caller, Refusal(q)', PasswordOk(q)'
             PROVE  Cardinality(Guesses(request[q].call.user, request[q].call.from,
                                        request[q].hash)' \ {q}) >= MaxFailures
  BY DEF OwnersGetIn
<1>2. PICK u, a, hash :
        /\ request'[q].call.user = u /\ request'[q].call.from = a
        /\ request'[q].hash = hash
        /\ Cardinality(Guesses(u, a, hash) \ {q}) >= MaxFailures
  <2>1. CASE q = r
    <3>1. PICK u, a, hash :
            /\ request'[r].call.user = u /\ request'[r].call.from = a
            /\ request'[r].hash = hash
            /\ r \notin Guesses(u, a, hash)
            /\ Cardinality(Guesses(u, a, hash)) >= MaxFailures
      BY <2>1
    <3>2. Guesses(u, a, hash) \ {r} = Guesses(u, a, hash)  BY <3>1
    <3> QED  BY <2>1, <3>1, <3>2
  <2>2. CASE q # r
    <3>1. request'[q] = request[q]  BY <2>2
    <3>2. Refusal(q) /\ PasswordOk(q)  BY <3>1 DEF Refusal, PasswordOk
    <3> QED  BY <3>1, <3>2 DEF OwnersGetIn
  <2> QED  BY <2>1, <2>2
<1>3. /\ Guesses(u, a, hash)' \ {q} \in SUBSET Caller
      /\ Guesses(u, a, hash) \ {q} \in SUBSET (Guesses(u, a, hash)' \ {q})
  BY DEF Guesses
<1>4. /\ Cardinality(Guesses(u, a, hash) \ {q}) <= Cardinality(Guesses(u, a, hash)' \ {q})
      /\ Cardinality(Guesses(u, a, hash) \ {q}) \in Nat
      /\ Cardinality(Guesses(u, a, hash)' \ {q}) \in Nat
  BY <1>3, FewerGuesses
<1>5. Guesses(request[q].call.user, request[q].call.from, request[q].hash)'
        = Guesses(u, a, hash)'
  BY <1>2 DEF Guesses
<1> QED  BY <1>1, <1>2, <1>4, <1>5

\* The server stops: whoever was under way is lost, and not refused.
LEMMA AllStillIn ==
  ASSUME OwnersGetIn,
         \A q \in Caller : request'[q] = request[q] \/ request'[q].outcome = "lost",
         \A u, a, hash : Guesses(u, a, hash) \subseteq Guesses(u, a, hash)'
  PROVE  OwnersGetIn'
<1>1. MaxFailures \in Nat  BY AuthAssumption DEF AuthAssumption
<1> SUFFICES ASSUME NEW q \in Caller, Refusal(q)', PasswordOk(q)'
             PROVE  Cardinality(Guesses(request[q].call.user, request[q].call.from,
                                        request[q].hash)' \ {q}) >= MaxFailures
  BY DEF OwnersGetIn
<1>2. request'[q] = request[q]  BY DEF Refusal
<1>3. Refusal(q) /\ PasswordOk(q)  BY <1>2 DEF Refusal, PasswordOk
<1>4. PICK u, a, hash :
        u = request[q].call.user /\ a = request[q].call.from /\ hash = request[q].hash
  OBVIOUS
<1>5. Cardinality(Guesses(u, a, hash) \ {q}) >= MaxFailures
  BY <1>3, <1>4 DEF OwnersGetIn
<1>6. /\ Guesses(u, a, hash)' \ {q} \in SUBSET Caller
      /\ Guesses(u, a, hash) \ {q} \in SUBSET (Guesses(u, a, hash)' \ {q})
  BY DEF Guesses
<1>7. /\ Cardinality(Guesses(u, a, hash) \ {q}) <= Cardinality(Guesses(u, a, hash)' \ {q})
      /\ Cardinality(Guesses(u, a, hash) \ {q}) \in Nat
      /\ Cardinality(Guesses(u, a, hash)' \ {q}) \in Nat
  BY <1>6, FewerGuesses
<1>8. Guesses(request[q].call.user, request[q].call.from, request[q].hash)'
        = Guesses(u, a, hash)'
  BY <1>2, <1>4 DEF Guesses
<1> QED  BY <1>1, <1>5, <1>7, <1>8

AnswersOK == AnswersComeLast /\ GuessesAreCounted /\ OwnersGetIn

\* What counts after a step counted before, or is cleared.
NoneAdded ==
  \A u \in User, a \in Address : Exists(u)' =>
    \/ wrong'[u][a] = 0
    \/ /\ Exists(u) /\ account'[u].hash = account[u].hash
       /\ wrong'[u][a] = wrong[u][a]

\* A step of one request that does not refuse it.
LEMMA OneGoesOn ==
  ASSUME TypeOK, TypeOK', AnswersOK, NEW r \in Caller, request[r].pc # "done",
         \A q \in Caller : q # r => request'[q] = request[q],
         request'[r].pc # "done" => request'[r].outcome = "none",
         request'[r].outcome \notin {"locked", "braked"}, NoneAdded
  PROVE  AnswersOK'
<1>1. AnswersComeLast'  BY DEF AnswersOK, AnswersComeLast
<1>2. \A u, a, hash : Guesses(u, a, hash) \subseteq Guesses(u, a, hash)'
  BY GuessesStay DEF AnswersOK
<1>3. GuessesAreCounted'  BY <1>2, StillCounted DEF AnswersOK, NoneAdded
<1>4. OwnersGetIn'
  <2>1. ~ Refusal(r)'  BY DEF Refusal
  <2> QED  BY <1>2, <2>1, StillIn DEF AnswersOK
<1> QED  BY <1>1, <1>3, <1>4 DEF AnswersOK

\* Nothing counts differently when accounts and failures are as they were.
LEMMA SameCount == ASSUME UNCHANGED <<account, wrong>> PROVE NoneAdded
BY DEF NoneAdded, Exists

\* How the outcome of a request changes when it ends.
LEMMA EndsOutcome ==
  ASSUME TypeOK, NEW r \in Caller, NEW outcome, Ends(r, outcome)
  PROVE  /\ \A q \in Caller : q # r => request'[q] = request[q]
         /\ request'[r].pc = "done" /\ request'[r].outcome = outcome
BY DEF TypeOK, Requests, Ends

LEMMA EndsAtOnceOutcome ==
  ASSUME TypeOK, NEW r \in Caller, NEW c, NEW outcome, EndsAtOnce(r, c, outcome)
  PROVE  /\ \A q \in Caller : q # r => request'[q] = request[q]
         /\ request'[r].pc = "done" /\ request'[r].outcome = outcome
         /\ request'[r].call = c /\ request'[r].hash = account[c.user].hash
BY DEF TypeOK, Requests, EndsAtOnce

LEMMA DerivesOutcome ==
  ASSUME TypeOK, AnswersOK, NEW r \in Caller, NEW c, Derives(r, c), request[r].pc # "done"
  PROVE  /\ \A q \in Caller : q # r => request'[q] = request[q]
         /\ request'[r].pc # "done" => request'[r].outcome = "none"
         /\ request'[r].outcome \notin {"locked", "braked"}
<1>1. request[r].outcome = "none"  BY DEF AnswersOK, AnswersComeLast
<1>2. CASE EndsAtOnce(r, c, "busy")  BY <1>2, EndsAtOnceOutcome
<1>3. CASE request' = [request EXCEPT ![r] =
             [@ EXCEPT !.pc = "deriving", !.call = c, !.hash = account[c.user].hash]]
  BY <1>1, <1>3 DEF TypeOK, Requests
<1> QED  BY <1>2, <1>3 DEF Derives

\* A sign-in that is refused for the failures at its address: if it had the
\* right password, the failures were guesses at that password.
LEMMA LockedKeeps ==
  ASSUME TypeOK, TypeOK', AnswersOK, NEW r \in Caller, NEW c \in Call,
         request[r].pc = "new", wrong[c.user][c.from] = MaxFailures,
         EndsAtOnce(r, c, "locked"), UNCHANGED <<account, wrong>>
  PROVE  AnswersOK'
<1>1. /\ \A q \in Caller : q # r => request'[q] = request[q]
      /\ request'[r].pc = "done" /\ request'[r].call = c
      /\ request'[r].hash = account[c.user].hash
  BY EndsAtOnceOutcome
<1>2. \A u, a, hash : Guesses(u, a, hash) \subseteq Guesses(u, a, hash)'
  BY <1>1, GuessesStay DEF AnswersOK
<1>3. AnswersComeLast'  BY <1>1 DEF AnswersOK, AnswersComeLast
<1>4. GuessesAreCounted'  BY <1>2, SameCount, StillCounted DEF AnswersOK, NoneAdded
<1>5. c.user \in User /\ c.from \in Address /\ c.password \in Password
  BY AuthAssumption DEF AuthAssumption
<1>6. OwnersGetIn'
  <2>1. ASSUME PasswordOk(r)'
        PROVE  Exists(c.user) /\ r \notin Guesses(c.user, c.from, account[c.user].hash)
    <3>1. account[c.user].hash # NoHash
      BY <1>1, <1>5, <2>1, AuthAssumption DEF PasswordOk, NoHash, AuthAssumption
    <3>2. Exists(c.user)
      BY <1>5, <3>1 DEF TypeOK, Accounts, NoAccount, Exists
    <3>3. ~ Guess(r)  BY DEF AnswersOK, AnswersComeLast, Guess
    <3> QED  BY <3>2, <3>3 DEF Guesses
  <2>2. PasswordOk(r)' =>
          MaxFailures <= Cardinality(Guesses(c.user, c.from, account[c.user].hash))
    BY <1>5, <2>1 DEF AnswersOK, GuessesAreCounted
  <2>3. PICK u, a, hash : u = c.user /\ a = c.from /\ hash = account[c.user].hash
    OBVIOUS
  <2>4. Cardinality(Guesses(u, a, hash)) \in Nat /\ MaxFailures \in Nat
    <3>1. Guesses(u, a, hash) \in SUBSET Caller  BY DEF Guesses
    <3> QED  BY <3>1, FewerGuesses, AuthAssumption DEF AuthAssumption
  <2>5. PasswordOk(r)' => /\ r \notin Guesses(u, a, hash)
                          /\ Cardinality(Guesses(u, a, hash)) >= MaxFailures
    BY <2>1, <2>2, <2>3, <2>4
  <2> QED  BY <1>1, <1>2, <2>3, <2>5, StillIn DEF AnswersOK
<1> QED  BY <1>3, <1>4, <1>6 DEF AnswersOK

\* A wrong password is one failure and one guess more.
LEMMA FailsKeeps ==
  ASSUME TypeOK, TypeOK', AnswersOK, NEW r \in Caller, LoginFails(r)
  PROVE  AnswersOK'
<1>1. PICK v \in User, b \in Address :
        v = request[r].call.user /\ b = request[r].call.from
  <2>1. request[r].pc = "deriving"  BY DEF LoginFails, At
  <2>2. request[r].call \in Call  BY <2>1 DEF TypeOK
  <2>3. request[r].call.user \in User /\ request[r].call.from \in Address
    BY <2>2, AuthAssumption DEF AuthAssumption
  <2> QED  BY <2>3
<1>2. /\ request[r].pc = "deriving" /\ ~ PasswordOk(r) /\ UNCHANGED account
      /\ wrong' = [wrong EXCEPT ![v][b] = Noted(@, MaxFailures)]
  BY <1>1 DEF LoginFails, At
<1>3. PICK outcome \in {"locked", "braked", "wrong"} :
        request' = [request EXCEPT ![r] =
          [@ EXCEPT !.pc = "done", !.against = account[v].hash, !.outcome = outcome]]
  BY <1>1 DEF LoginFails
<1>4. /\ \A q \in Caller : q # r => request'[q] = request[q]
      /\ request'[r].pc = "done" /\ request'[r].call = request[r].call
      /\ request'[r].hash = request[r].hash /\ request'[r].against = account[v].hash
      /\ request'[r].outcome = outcome
  BY <1>3 DEF TypeOK, Requests
<1>5. \A u, a, hash : Guesses(u, a, hash) \subseteq Guesses(u, a, hash)'
  BY <1>2, <1>4, GuessesStay DEF AnswersOK
<1>6. AnswersComeLast'  BY <1>4 DEF AnswersOK, AnswersComeLast
<1>7. OwnersGetIn'
  <2>1. ~ PasswordOk(r)'  BY <1>2, <1>4 DEF PasswordOk
  <2> QED  BY <1>4, <1>5, <2>1, StillIn DEF AnswersOK
<1>8. ASSUME NEW u \in User, NEW a \in Address, Exists(u)'
      PROVE  wrong'[u][a] <= Cardinality(Guesses(u, a, account[u].hash)')
  <2>1. PICK hash : hash = account[u].hash /\ hash = account'[u].hash  BY <1>2
  <2>2. Exists(u) /\ wrong[u][a] <= Cardinality(Guesses(u, a, hash))
    BY <1>2, <1>8, <2>1 DEF Exists, AnswersOK, GuessesAreCounted
  <2>3. /\ Guesses(u, a, hash)' \in SUBSET Caller
        /\ Guesses(u, a, hash) \in SUBSET Guesses(u, a, hash)'
        /\ Guesses(u, a, hash) \in SUBSET Caller
    BY <1>5 DEF Guesses
  <2>4. /\ Cardinality(Guesses(u, a, hash)) <= Cardinality(Guesses(u, a, hash)')
        /\ Cardinality(Guesses(u, a, hash)) \in Nat
        /\ Cardinality(Guesses(u, a, hash)') \in Nat
    BY <2>3, FewerGuesses
  <2>5. wrong[u][a] \in Nat  BY AuthAssumption DEF TypeOK, AuthAssumption
  <2>6. CASE u = v /\ a = b
    <3>1. hash # NoHash
      <4>1. account[u] \in [hash : Hash, role : {"admin", "user"}]
        BY <2>2 DEF TypeOK, Accounts, NoAccount, Exists
      <4>2. hash \in Hash  BY <2>1, <4>1
      <4> QED  BY <4>2, NobodysHash
    <3>2. r \in Guesses(u, a, hash)' /\ r \notin Guesses(u, a, hash)
      BY <1>1, <1>2, <1>4, <2>1, <2>6, <3>1
      DEF Guesses, Guess, AnswersOK, AnswersComeLast
    <3>3. Cardinality(Guesses(u, a, hash) \cup {r}) = Cardinality(Guesses(u, a, hash)) + 1
      <4>1. IsFiniteSet(Guesses(u, a, hash))
        BY <2>3, GateAssumption, FS_Subset DEF GateAssumption
      <4> QED  BY <3>2, <4>1, FS_AddElement
    <3>4. Guesses(u, a, hash) \cup {r} \in SUBSET Guesses(u, a, hash)'  BY <2>3, <3>2
    <3>5. Cardinality(Guesses(u, a, hash)) + 1 <= Cardinality(Guesses(u, a, hash)')
      BY <2>3, <3>3, <3>4, FewerGuesses
    <3>6. wrong'[u][a] <= wrong[u][a] + 1
      <4>1. wrong'[u][a] = Noted(wrong[u][a], MaxFailures)
        BY <1>2, <2>6 DEF TypeOK
      <4> QED  BY <2>5, <4>1 DEF Noted
    <3>7. wrong'[u][a] \in Nat  BY AuthAssumption DEF TypeOK, AuthAssumption
    <3>8. wrong'[u][a] <= Cardinality(Guesses(u, a, hash)')
      BY <2>2, <2>4, <2>5, <3>5, <3>6, <3>7
    <3> QED  BY <2>1, <3>8 DEF Guesses
  <2>7. CASE ~ (u = v /\ a = b)
    <3>1. wrong'[u][a] = wrong[u][a]  BY <1>2, <2>7 DEF TypeOK
    <3>2. wrong'[u][a] <= Cardinality(Guesses(u, a, hash)')
      BY <2>2, <2>4, <2>5, <3>1
    <3> QED  BY <2>1, <3>2 DEF Guesses
  <2> QED  BY <2>6, <2>7
<1> QED  BY <1>6, <1>7, <1>8 DEF AnswersOK, GuessesAreCounted

\* The accounts change at one name, whose failures are cleared.
LEMMA ClearedCount ==
  ASSUME TypeOK, NEW u \in User, ClearFailures(u),
         \A v \in User \ {u} : account'[v] = account[v]
  PROVE  NoneAdded
BY DEF NoneAdded, ClearFailures, TypeOK, Exists

LEMMA AnswersStep ==
  ASSUME TypeOK, TypeOK', AnswersOK, [Next]_vars
  PROVE  AnswersOK'
<1>1. ASSUME NEW r \in Caller, NEW c \in Call, Login(r, c) \/ Signup(r, c)
      PROVE  AnswersOK'
  <2>1. request[r].pc = "new" /\ UNCHANGED <<account, wrong>>
    BY <1>1 DEF Login, Signup, memory
  <2>2. CASE Derives(r, c)
    BY <2>1, <2>2, DerivesOutcome, SameCount, OneGoesOn
  <2>3. CASE EndsAtOnce(r, c, "taken")
    BY <2>1, <2>3, EndsAtOnceOutcome, SameCount, OneGoesOn
  <2>4. CASE wrong[c.user][c.from] = MaxFailures /\ EndsAtOnce(r, c, "locked")
    BY <2>1, <2>4, LockedKeeps
  <2> QED  BY <1>1, <2>2, <2>3, <2>4 DEF Login, Signup
<1>2. ASSUME NEW r \in Caller, LoginSucceeds(r)  PROVE AnswersOK'
  <2>0. request[r].call.user \in User /\ request[r].call.from \in Address
    BY <1>2, AuthAssumption DEF LoginSucceeds, TypeOK, At, AuthAssumption
  <2>1. PICK u \in User, a \in Address : wrong' = [wrong EXCEPT ![u][a] = 0]
    BY <1>2, <2>0 DEF LoginSucceeds
  <2>2. request[r].pc # "done" /\ UNCHANGED account /\ Ends(r, "in")
    BY <1>2 DEF LoginSucceeds, At
  <2>3. NoneAdded  BY <2>1, <2>2 DEF NoneAdded, Exists, TypeOK
  <2> QED  BY <2>2, <2>3, EndsOutcome, OneGoesOn
<1>3. ASSUME NEW r \in Caller, SignupEnds(r) \/ ResetEnds(r)  PROVE AnswersOK'
  <2>1. PICK u \in User : u = request[r].call.user
    BY <1>3, AuthAssumption DEF SignupEnds, ResetEnds, TypeOK, At, AuthAssumption
  <2>2. request[r].pc # "done"  BY <1>3 DEF SignupEnds, ResetEnds, At
  <2>3. NoneAdded
    <3>1. CASE UNCHANGED <<account, wrong>>  BY <3>1, SameCount
    <3>2. CASE ClearFailures(u) /\ \A v \in User \ {u} : account'[v] = account[v]
      BY <3>2, ClearedCount
    <3> QED  BY <1>3, <2>1, <3>1, <3>2 DEF SignupEnds, ResetEnds, TypeOK, memory
  <2>4. \E outcome \in {"taken", "in", "ok", "missing"} : Ends(r, outcome)
    BY <1>3 DEF SignupEnds, ResetEnds
  <2> QED  BY <2>2, <2>3, <2>4, EndsOutcome, OneGoesOn
<1>4. ASSUME NEW r \in Caller, SetRole(r)  PROVE AnswersOK'
  <2>1. PICK u \in User : u = request[r].call.user
    BY <1>4, AuthAssumption DEF SetRole, TypeOK, At, AuthAssumption
  <2>2. NoneAdded
    <3>1. CASE UNCHANGED account  BY <1>4, <3>1, SameCount DEF SetRole
    <3>2. ASSUME Exists(u), NEW role,
                 account' = [account EXCEPT ![u].role = role]
          PROVE  NoneAdded
      <4>1. account[u] \in [hash : Hash, role : {"admin", "user"}]
        BY <3>2 DEF TypeOK, Accounts, NoAccount, Exists
      <4>2. \A v \in User : account'[v].hash = account[v].hash
        BY <3>2, <4>1 DEF TypeOK
      <4>3. \A v \in User : Exists(v)' => Exists(v)  BY <3>2 DEF Exists, TypeOK
      <4> QED  BY <1>4, <4>2, <4>3 DEF NoneAdded, SetRole
    <3> QED  BY <1>4, <2>1, <3>1, <3>2 DEF SetRole
  <2>3. /\ request[r].pc # "done"
        /\ \E outcome \in {"conflict", "ok", "missing"} : Ends(r, outcome)
    BY <1>4 DEF SetRole, At
  <2> QED  BY <2>2, <2>3, EndsOutcome, OneGoesOn
<1>5. ASSUME NEW r \in Caller, NEW c \in Call, Delete(r, c)  PROVE AnswersOK'
  <2>1. PICK u \in User : u = c.user  BY AuthAssumption DEF AuthAssumption
  <2>2. NoneAdded
    <3>1. CASE UNCHANGED <<account, wrong>>  BY <3>1, SameCount
    <3>2. CASE ClearFailures(u) /\ \A v \in User \ {u} : account'[v] = account[v]
      BY <3>2, ClearedCount
    <3> QED  BY <1>5, <2>1, <3>1, <3>2 DEF Delete, TypeOK, memory
  <2>3. /\ request[r].pc # "done"
        /\ \E outcome \in {"conflict", "ok", "missing"} : EndsAtOnce(r, c, outcome)
    BY <1>5 DEF Delete
  <2> QED  BY <2>2, <2>3, EndsAtOnceOutcome, OneGoesOn
<1>6. ASSUME NEW r \in Caller, NEW c \in Call, NotAllowed(r, c) \/ AwaitBody(r, c)
      PROVE  AnswersOK'
  <2>1. request[r].pc = "new" /\ UNCHANGED <<account, wrong>>
    BY <1>6 DEF NotAllowed, AwaitBody, memory
  <2>2. CASE EndsAtOnce(r, c, "not allowed")
    <3>1. /\ \A q \in Caller : q # r => request'[q] = request[q]
          /\ request'[r].pc = "done" /\ request'[r].outcome = "not allowed"
      BY ZenonT(60), <2>2, EndsAtOnceOutcome
    <3> QED  BY <2>1, <3>1, SameCount, OneGoesOn
  <2>3. CASE request' = [request EXCEPT ![r] = [@ EXCEPT !.pc = "body", !.call = c]]
    <3>1. /\ \A q \in Caller : q # r => request'[q] = request[q]
          /\ request'[r].outcome = request[r].outcome
      BY <2>3 DEF TypeOK, Requests
    <3>2. request[r].outcome = "none"  BY <2>1 DEF AnswersOK, AnswersComeLast
    <3> QED  BY <2>1, <3>1, <3>2, SameCount, OneGoesOn
  <2> QED  BY <1>6, <2>2, <2>3 DEF NotAllowed, AwaitBody
<1>7. ASSUME NEW r \in Caller, Reset(r)  PROVE AnswersOK'
  <2>1. /\ request[r].pc = "body" /\ UNCHANGED <<account, wrong>>
        /\ Derives(r, request[r].call)
    BY <1>7 DEF Reset, At, memory
  <2> QED  BY <2>1, DerivesOutcome, SameCount, OneGoesOn
<1>8. ASSUME NEW r \in Caller, Refused(r) \/ StoreFails(r)  PROVE AnswersOK'
  <2>1. request[r].pc # "done" /\ UNCHANGED <<account, wrong>>
    BY <1>8 DEF Refused, StoreFails, At, memory
  <2>2. \/ \E outcome \in {"refused", "failed"} : Ends(r, outcome)
        \/ \E outcome \in {"refused", "failed"}, c \in Call : EndsAtOnce(r, c, outcome)
    BY <1>8 DEF Refused, StoreFails
  <2> QED  BY <2>1, <2>2, EndsOutcome, EndsAtOnceOutcome, SameCount, OneGoesOn
<1>9. CASE \/ \E r \in Caller : GoesOn(r)
           \/ \E u \in User : ForgetName(u) \/ \E a \in Address : ForgetAddress(u, a)
           \/ \E s \in session : SessionEnds(s)
           \/ UNCHANGED vars
  <2>1. UNCHANGED <<account, request>>
    BY <1>9 DEF GoesOn, ForgetName, ForgetAddress, SessionEnds, vars
  <2>2. NoneAdded
    <3>1. CASE UNCHANGED wrong  BY <2>1, <3>1, SameCount
    <3>2. ASSUME NEW u \in User, NEW a \in Address, ForgetAddress(u, a)  PROVE NoneAdded
      BY <2>1, <3>2 DEF ForgetAddress, NoneAdded, Exists, TypeOK
    <3> QED
      BY <1>9, <3>1, <3>2 DEF GoesOn, ForgetName, SessionEnds, vars, memory
  <2>3. \A u, a, hash : Guesses(u, a, hash)' = Guesses(u, a, hash)
    BY <2>1 DEF Guesses, Guess
  <2>4. GuessesAreCounted'  BY <2>2, <2>3, StillCounted DEF AnswersOK, NoneAdded
  <2>5. AnswersComeLast' /\ OwnersGetIn'
    BY <2>1 DEF AnswersOK, AnswersComeLast, OwnersGetIn, Refusal, PasswordOk, Guesses, Guess
  <2> QED  BY <2>4, <2>5 DEF AnswersOK
<1>10. CASE ServerStops
  <2>1. /\ \A q \in Caller :
             \/ request'[q] = request[q]
             \/ request[q].pc # "done" /\ request'[q].outcome = "lost" /\ request'[q].pc = "done"
        /\ UNCHANGED account
        /\ \A u \in User, a \in Address : wrong'[u][a] = 0
    BY ZenonT(60), <1>10 DEF ServerStops, TypeOK, Requests
  <2>2. \A u, a, hash : Guesses(u, a, hash) \subseteq Guesses(u, a, hash)'
    BY <2>1, GuessesStay DEF AnswersOK
  <2>3. GuessesAreCounted'  BY <2>1, <2>2, StillCounted DEF AnswersOK
  <2>4. AnswersComeLast'  BY <2>1 DEF AnswersOK, AnswersComeLast
  <2>5. OwnersGetIn'  BY <2>1, <2>2, AllStillIn DEF AnswersOK
  <2> QED  BY <2>3, <2>4, <2>5 DEF AnswersOK
<1> QED
  BY <1>1, <1>2, <1>3, <1>4, <1>5, <1>6, <1>7, <1>8, <1>9, <1>10, FailsKeeps
  DEF Next, Derived

LEMMA AnswersInit == Init => AnswersOK
<1> SUFFICES ASSUME Init PROVE AnswersOK  OBVIOUS
<1>1. \A r \in Caller : request[r].outcome = "none"  BY DEF Init, NewRequest
<1>2. AnswersComeLast /\ OwnersGetIn
  BY <1>1 DEF AnswersComeLast, OwnersGetIn, Refusal
<1>3. ASSUME NEW u \in User, NEW a \in Address
      PROVE  wrong[u][a] <= Cardinality(Guesses(u, a, account[u].hash))
  <2>1. wrong[u][a] = 0  BY DEF Init
  <2>2. Guesses(u, a, account[u].hash) \in SUBSET Caller  BY DEF Guesses
  <2> QED  BY <2>1, <2>2, FewerGuesses
<1> QED  BY <1>2, <1>3 DEF AnswersOK, GuessesAreCounted

-----------------------------------------------------------------------------
\* What a request relies on, whatever the others change while a password is
\* derived for it: sessions, failures and answers speak of the accounts as they
\* are, and an account has an administrator.
THEOREM Inductive == Spec => []IInv
<1>1. Spec => []GateInv  BY ImplementsGate, GateCounts, PTL
<1>2. Init => TypeOK /\ AdminRemains /\ SessionsAreCurrent /\ AnswersOK
  BY InitType, AdminInit, SessionsInit, AnswersInit
<1>3. /\ TypeOK /\ AdminRemains /\ SessionsAreCurrent /\ AnswersOK
      /\ GateInv /\ GateInv' /\ [Next]_vars
      => (TypeOK /\ AdminRemains /\ SessionsAreCurrent /\ AnswersOK)'
  BY StepType, AdminStep, SessionsStep, AnswersStep
<1>4. TypeOK /\ AdminRemains /\ SessionsAreCurrent /\ AnswersOK => IInv
  BY DEF IInv, AnswersOK
<1> QED  BY <1>1, <1>2, <1>3, <1>4, PTL DEF Spec

\* A session belongs to the password the account has, whatever is reset, deleted
\* and signed up again at once (dropSessionsFor), except for a sign-in that was
\* being checked meanwhile.
THEOREM SessionsCurrent == Spec => []SessionsAreCurrent
<1>1. IInv => SessionsAreCurrent  BY DEF IInv
<1> QED  BY <1>1, Inductive, PTL

\* Nobody is refused with the right password but for wrong guesses at it from
\* their own address (recordFailedAttempt, login).
THEOREM OwnersEnter == Spec => []OwnersGetIn
<1>1. IInv => OwnersGetIn  BY DEF IInv
<1> QED  BY <1>1, Inductive, PTL
===============================================================================
