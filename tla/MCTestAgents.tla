---------------------------- MODULE MCTestAgents ----------------------------
(***************************************************************************)
(* The test framework's agents side by side: incidents routed by the test  *)
(* workers, bugs reported from the command line, and questions put to the  *)
(* policy.  Two workers, or three commands, or the policy alone.           *)
(***************************************************************************)
EXTENDS Incidents, BugReports, TLC

CONSTANTS Scenes,     \* what is given: failures, the process, commands
          Questions,  \* what the policy is asked
          w1, w2, c1, c2, c3

ASSUME AgentsAssumption ==
  /\ \A scene \in Scenes :
       /\ scene.ofProcess \in Environment \cup {"none"}
       /\ \A w \in Incident : IsFailure(scene.failure[w])
       /\ \A c \in Command : IsCommand(scene.command[c])
  /\ Questions \subseteq Question

Quiet == [signals |-> {}, environment |-> "none", contract |-> FALSE,
          strategies |-> <<>>, scenario |-> "none"]
Fails(signals, environment, contract, strategies) ==
  [signals |-> signals, environment |-> environment, contract |-> contract,
   strategies |-> strategies, scenario |-> "one"]

AllFour == <<"contract-recheck", "refresh-and-retry", "locator-heal", "extend-wait">>
HealOnly == <<"locator-heal">>

\* One failure with everything on offer, and one beside it or none.
Mixes == {{"401", "stale locator"}, {"denied words", "network"}, {"5xx typed", "late"},
          {"stale locator"}, {"empty words"}, {"contract broken"}, {"wrong url", "network"}, {}}
Alone == {Fails(s, e, TRUE, AllFour) : s \in Mixes, e \in {"none", "production"}}
Besides == {Fails({"modal missing"}, "none", TRUE, HealOnly),
            Fails({"late words"}, "none", FALSE, <<"refresh-and-retry", "extend-wait">>),
            Fails({"4xx"}, "none", FALSE, <<>>)}

Idle == [kind |-> "none", signature |-> "s", page |-> "p", reruns |-> 1, skipped |-> TRUE]
Idles == (c1 :> Idle @@ c2 :> Idle @@ c3 :> Idle)
Manually(s, p) == [kind |-> "manual", signature |-> s, page |-> p, reruns |-> 1, skipped |-> FALSE]
OfScenario(s, n) == [kind |-> "scenario", signature |-> s, page |-> "p", reruns |-> n, skipped |-> FALSE]

Commands ==
  {(c1 :> OfScenario("s", 1) @@ c2 :> OfScenario("s", 2) @@ c3 :> Idle),
   (c1 :> OfScenario("s", 1) @@ c2 :> OfScenario("t", 1) @@ c3 :> OfScenario("s", 1)),
   (c1 :> Manually("s", "p") @@ c2 :> Manually("s", "p") @@ c3 :> Idle),
   (c1 :> Manually("s", "p") @@ c2 :> Manually("t", "p") @@ c3 :> Idle)}

MCScenes ==
  {[failure |-> (w1 :> a @@ w2 :> Quiet), ofProcess |-> p, command |-> Idles] :
     a \in Alone, p \in {"none", "production", "staging"}}
  \cup
  {[failure |-> (w1 :> a @@ w2 :> b), ofProcess |-> "none", command |-> Idles] :
     a \in {Fails({"stale locator"}, "none", TRUE, HealOnly)}, b \in Besides}
  \cup
  {[failure |-> (w1 :> Quiet @@ w2 :> Quiet), ofProcess |-> "none", command |-> c] : c \in Commands}
  \cup {[failure |-> (w1 :> Quiet @@ w2 :> Quiet), ofProcess |-> "none", command |-> Idles]}

MCQuestions == [action : Action, confidence : {50, 86, 100},
                said : SUBSET {"reversible", "idempotent", "business data"}]

-----------------------------------------------------------------------------
VARIABLE asked  \* the last question to the policy, and its answers

vars == <<incidentVars, bugVars, asked>>

Init ==
  /\ \E scene \in Scenes :
       failure = scene.failure /\ ofProcess = scene.ofProcess /\ command = scene.command
  /\ IncidentInit /\ BugInit
  /\ asked = {}

\* PolicyEngine.evaluate, in every environment; it keeps no state, so it is
\* asked while nothing else goes on.
Ask ==
  /\ \A w \in Incident : At(w, "absent")
  /\ \A c \in Command : Is(c, "absent")
  /\ \E q \in Questions :
       asked' = {[of |-> q, answer |-> [e \in Environment |-> Evaluate(e, q)]]}
  /\ UNCHANGED <<incidentVars, bugVars>>

Next ==
  \/ IncidentNext /\ UNCHANGED <<bugVars, asked>>
  \/ BugNext /\ UNCHANGED <<incidentVars, asked>>
  \/ Ask

Spec == Init /\ [][Next]_vars

-----------------------------------------------------------------------------
\* What every step keeps, of incidents and of bugs: the types among it.
AgentInv == IncidentInv /\ BugInv

\* What may run by itself in production may in staging, and outside QA nothing
\* that touches business data may (PolicyEngine.evaluate).
ProductionIsStrictest ==
  \A a \in asked :
    /\ a.answer["production"] = "allow" => a.answer["staging"] = "allow"
    /\ "business data" \in a.of.said =>
         a.answer["production"] # "allow" /\ a.answer["staging"] # "allow"

\* An incident is acted upon within its bounds: hands off what may not be
\* touched, strategies in turn, success that was seen, patches for review only.
StaysInBounds ==
  /\ HandsOff /\ StopsAtTheFirst /\ MitigatedWasSeen
  /\ PatchesAreForReview /\ ProductionIsStrictest

\* What is remembered stays, and what it advises has worked.
MemoryServes == RememberedInTurn /\ AdviceWorked

\* A bug is filed when every look confirmed it, once, with its evidence.
BugsAreFiled == FiledWhenConfirmed /\ FiledOnceInTurn /\ EvidenceIsKept

\* What workers learn and file stays, and is what was seen.
RecordsAreKept == MemoryServes /\ BugsAreFiled
=============================================================================
