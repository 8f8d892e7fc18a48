-------------------------------- MODULE Gate --------------------------------
(***************************************************************************)
(* The asynchronous semaphore of the test runner: createGate in            *)
(* src/test-runner/src/limiter.js.  At most MaxConcurrent callers are      *)
(* inside, at most MaxQueue wait, the rest are refused.                    *)
(*                                                                         *)
(* The process has one thread: what runs between two awaits is one step.   *)
(* release resolves the promise of the first caller in the queue, and that *)
(* caller goes on in a later step, so that others may ask in between.      *)
(***************************************************************************)
EXTENDS Naturals, Sequences, FiniteSets

CONSTANTS Caller, MaxConcurrent, MaxQueue

ASSUME GateAssumption ==
  /\ IsFiniteSet(Caller)
  /\ MaxConcurrent \in Nat \ {0}
  /\ MaxQueue \in Nat

VARIABLES
  active,   \* callers admitted, those handed a slot included
  waiting,  \* the queue of resolve functions, by caller
  caller    \* where each caller is

gateVars == <<active, waiting, caller>>

GateInit ==
  /\ active = 0
  /\ waiting = << >>
  /\ caller = [c \in Caller |-> "out"]

Enter(c) ==
  /\ caller[c] = "out"
  /\ active < MaxConcurrent
  /\ active' = active + 1
  /\ caller' = [caller EXCEPT ![c] = "inside"]
  /\ UNCHANGED waiting

Wait(c) ==
  /\ caller[c] = "out"
  /\ active >= MaxConcurrent
  /\ Len(waiting) < MaxQueue
  /\ waiting' = Append(waiting, c)
  /\ caller' = [caller EXCEPT ![c] = "waiting"]
  /\ UNCHANGED active

\* GATE_BUSY: a caller that asks now is refused.
Busy == active >= MaxConcurrent /\ Len(waiting) >= MaxQueue

\* The caller that was handed a slot goes on.
Resume(c) ==
  /\ caller[c] = "handed"
  /\ caller' = [caller EXCEPT ![c] = "inside"]
  /\ UNCHANGED <<active, waiting>>

\* Mutant: the slot handed over is not counted before its new owner goes on.
ReleaseUncounted(c) ==
  /\ caller[c] = "inside"
  /\ active' = active - 1
  /\ IF waiting = << >>
       THEN caller' = [caller EXCEPT ![c] = "out"] /\ UNCHANGED waiting
       ELSE /\ waiting' = Tail(waiting)
            /\ caller' = [caller EXCEPT ![c] = "out", ![Head(waiting)] = "handed"]

\* Mutant: the next in the queue is forgotten.
ReleaseForgets(c) ==
  /\ caller[c] = "inside"
  /\ active' = active - 1
  /\ caller' = [caller EXCEPT ![c] = "out"]
  /\ UNCHANGED waiting

\* fn has ended, one way or the other: the slot goes to the first in the queue.
Release(c) ==
  /\ caller[c] = "inside"
  /\ IF waiting = << >>
       THEN /\ active' = active - 1
            /\ caller' = [caller EXCEPT ![c] = "out"]
            /\ UNCHANGED waiting
       ELSE /\ waiting' = Tail(waiting)
            /\ caller' = [caller EXCEPT ![c] = "out", ![Head(waiting)] = "handed"]
            /\ UNCHANGED active

\* The process ends and another starts.
GateRestart ==
  /\ active' = 0
  /\ waiting' = << >>
  /\ caller' = [c \in Caller |-> "out"]

GateNext ==
  \/ \E c \in Caller : Enter(c) \/ Wait(c) \/ Resume(c) \/ Release(c)
  \/ GateRestart

GateSpec == GateInit /\ [][GateNext]_gateVars

-----------------------------------------------------------------------------
Places == {"out", "waiting", "handed", "inside"}

GateTypeOK ==
  /\ active \in Nat
  /\ waiting \in Seq(Caller)
  /\ caller \in [Caller -> Places]

Admitted == {c \in Caller : caller[c] \in {"handed", "inside"}}

\* The queue holds exactly those who wait, each once.
QueueIsWaiting ==
  /\ \A c \in Caller : caller[c] = "waiting" <=> \E i \in 1..Len(waiting) : waiting[i] = c
  /\ \A i, j \in 1..Len(waiting) : waiting[i] = waiting[j] => i = j

\* A slot belongs to somebody or is free, at every moment: the count is of
\* those admitted, it keeps to the limit, and nobody waits for a free slot.
SlotsAreCounted ==
  /\ active = Cardinality(Admitted)
  /\ active <= MaxConcurrent
  /\ waiting # << >> => active = MaxConcurrent
  /\ Len(waiting) <= MaxQueue

GateInv == GateTypeOK /\ QueueIsWaiting /\ SlotsAreCounted

\* Nobody who has just come is admitted before those who wait.
NobodyBarges ==
  [][\A c \in Caller :
       caller[c] = "out" /\ caller'[c] = "inside" => waiting = << >>]_gateVars
=============================================================================
