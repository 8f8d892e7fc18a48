------------------------------ MODULE Incidents -----------------------------
(***************************************************************************)
(* The incident router (src/framework/orchestrator/IncidentRouter.ts): one *)
(* failure after another is classified, planned, recovered, checked,       *)
(* planned for repair, reported and remembered.  Playwright's workers do   *)
(* this side by side and share the files; a worker may stop at any await.  *)
(***************************************************************************)
EXTENDS AgentRules, FiniteSets

CONSTANTS Incident,   \* the failures routed, one per test
          MaxBreaks,  \* at most so many workers stop or fail to write
          MaxDrift    \* a page changes by itself so often

\* "old" is an incident of an earlier day.
ASSUME IncidentAssumption == MaxBreaks \in Nat /\ MaxDrift \in Nat /\ "old" \notin Incident

\* What a test gives: no test offers a strategy twice.
IsFailure(f) ==
  /\ f.signals \subseteq Signal /\ f.environment \in Environment \cup {"none"}
  /\ f.contract \in BOOLEAN /\ f.strategies \in Seq(Strategy)
  /\ \A i, j \in DOMAIN f.strategies : f.strategies[i] = f.strategies[j] => i = j

VARIABLES
  failure,   \* what each router is given (IncidentRouterRequest)
  ofProcess, \* SELF_HEALING_TARGET_ENV or SELF_HEALING_ENV
  job,       \* where each router is and what it found
  page,      \* does the incident's page meet its contract now?
  memory,    \* incident-memory.json
  reports,   \* the incident report file of each scenario
  patches,   \* the incidents with a patch-plan.json
  drifted,   \* how often each page changed by itself
  broken,    \* how many stopped
  crossed    \* two rewrote the memory at once, or one stopped in its write

incidentVars ==
  <<failure, ofProcess, job, page, memory, reports, patches, drifted, broken, crossed>>

Old == [incident |-> "old", category |-> "ui-missing-locator", recovered |-> TRUE,
        strategyUsed |-> "locator-heal", finalStatus |-> "mitigated"]
NewJob == [step |-> "start", plan |-> <<>>, attempts |-> <<>>, checked |-> "not",
           met |-> FALSE, read |-> <<>>]

IncidentInit ==
  /\ job = [w \in Incident |-> [NewJob EXCEPT !.step =
              IF failure[w].scenario = "none" THEN "absent" ELSE "start"]]
  /\ page \in [Incident -> BOOLEAN]
  /\ memory = [whole |-> TRUE, records |-> <<Old>>]
  /\ reports = [s \in {failure[w].scenario : w \in Incident} |-> "none"]
  /\ patches = {}
  /\ drifted = [w \in Incident |-> 0]
  /\ broken = 0
  /\ crossed = FALSE

At(w, step) == job[w].step = step
Goes(w, step) == job' = [job EXCEPT ![w].step = step]
Class(w) == Classify(failure[w].signals)
EnvironmentOf(w) == Resolve(failure[w].environment, ofProcess)
Offered(w, i) == failure[w].strategies[i]
\* evaluateStrategies: the places of those that may run by themselves.
Approved(w) ==
  {i \in DOMAIN failure[w].strategies : Allows(EnvironmentOf(w), Offered(w, i), Class(w).confidence)}

\* getPriority: as the class prefers, then as asked for.
Priority(w, s, i) ==
  LET order == PreferredOrder(Class(w).category)
      listed == {k \in DOMAIN order : order[k] = s}
  IN IF listed # {} THEN CHOOSE k \in listed : TRUE ELSE Len(order) + i

\* i is not tried after j.
NotAfter(w, i, j) ==
  \/ Priority(w, Offered(w, i), i) < Priority(w, Offered(w, j), j)
  \/ Priority(w, Offered(w, i), i) = Priority(w, Offered(w, j), j) /\ i <= j

\* Mutant: the strategies stay in the order the test gave.
RankAsAsked(w, j) == Cardinality({i \in Approved(w) : i <= j})

Rank(w, j) == Cardinality({i \in Approved(w) : NotAfter(w, i, j)})

\* ExecutionPlanner.build: the approved, by priority.
Plan(w) ==
  IF Class(w).category \notin Mendable THEN <<>>
  ELSE [n \in 1..Cardinality(Approved(w)) |->
          Offered(w, CHOOSE i \in Approved(w) : Rank(w, i) = n)]

Worked(w) ==
  LET tried == job[w].attempts IN tried # <<>> /\ tried[Len(tried)].worked
RequiresValidation(w) == job[w].plan # <<>> /\ Class(w).category \in Validated

\* Mutant: a recovery is a mitigation whatever the check said.
FinalStatusUnchecked(w) ==
  IF Worked(w) THEN "mitigated"
  ELSE IF Class(w).category \in Mendable /\ failure[w].strategies # <<>> /\ job[w].plan = <<>> THEN "escalate"
  ELSE IF Class(w).confidence < 50 THEN "escalate"
  ELSE "unresolved"

FinalStatus(w) ==
  IF Worked(w) /\ job[w].checked = "passed" THEN "mitigated"
  ELSE IF Worked(w) /\ ~(failure[w].contract /\ RequiresValidation(w)) THEN "mitigated"
  ELSE IF Class(w).category \in Mendable /\ failure[w].strategies # <<>> /\ job[w].plan = <<>> THEN "escalate"
  ELSE IF Class(w).confidence < 50 THEN "escalate"
  ELSE "unresolved"

-----------------------------------------------------------------------------
\* After a recovery or without one: the page is checked when it recovered, a
\* repair is planned outside production, or the report comes next.

BeforeRepair(w) == IF failure[w].environment = "production" THEN "report" ELSE "repair"

\* classify and lookup, up to the first await.
Start(w) ==
  /\ At(w, "start")
  /\ Goes(w, "collect")
  /\ UNCHANGED <<page, memory, reports, patches, crossed>>

\* The evidence is on disk; then what the policy allows, and the plan.
Collect(w) ==
  /\ At(w, "collect")
  /\ job' = [job EXCEPT ![w].plan = Plan(w),
                        ![w].step = IF Plan(w) # <<>> THEN "recover" ELSE BeforeRepair(w)]
  /\ UNCHANGED <<page, memory, reports, patches, crossed>>

\* What a strategy may come to: its success, and the page after it.  A click
\* (a heal, a refresh) may mend the page or break it.
Clicks == {"locator-heal", "refresh-and-retry"}
\* Nothing visible fits, or the best match is acted upon, right or wrong.
HealOutcomes(w) == {<<FALSE, page[w]>>} \cup (BOOLEAN \X BOOLEAN)
Outcomes(w, s) ==
  CASE s = "locator-heal" -> HealOutcomes(w)
    [] s = "refresh-and-retry" -> BOOLEAN \X BOOLEAN
    [] s = "extend-wait" -> BOOLEAN \X {page[w]}
    [] OTHER -> {<<page[w], page[w]>>}

\* RecoveryRouter.recover: the next strategy; the first that works is the last.
Try(w) ==
  /\ At(w, "recover")
  /\ LET s == job[w].plan[Len(job[w].attempts) + 1] IN
     \E o \in Outcomes(w, s) :
       /\ page' = [page EXCEPT ![w] = o[2]]
       /\ job' = [job EXCEPT
            ![w].attempts = Append(@, [strategy |-> s, worked |-> o[1]]),
            ![w].met = IF s = "contract-recheck" THEN o[1] ELSE s \notin Clicks /\ @,
            ![w].step =
              IF o[1] /\ failure[w].contract /\ RequiresValidation(w) THEN "validate"
              ELSE IF o[1] \/ Len(job[w].attempts) + 1 = Len(job[w].plan) THEN BeforeRepair(w)
              ELSE "recover"]
  /\ UNCHANGED <<memory, reports, patches, crossed>>

\* PageValidationAgent.validateContract, on the page as it is now.
Validate(w) ==
  /\ At(w, "validate")
  /\ job' = [job EXCEPT ![w].checked = IF page[w] THEN "passed" ELSE "failed",
                        ![w].met = page[w],
                        ![w].step = BeforeRepair(w)]
  /\ UNCHANGED <<page, memory, reports, patches, crossed>>

\* Mutant: the classes nobody may mend by themselves are planned too.
PermittedAnyClass(w) == Class(w).confidence >= 50

\* PatchPlanner.plan: never an unsure class, nor one a person must look at.
Permitted(w) == Class(w).confidence >= 50 /\ Eligible(Class(w).category)

\* PatchApplier.apply writes the plan for review, RepairVerifier looks again.
Repair(w) ==
  /\ At(w, "repair")
  /\ patches' = IF Permitted(w) THEN patches \cup {w} ELSE patches
  /\ Goes(w, IF Permitted(w) /\ failure[w].contract THEN "verify" ELSE "report")
  /\ UNCHANGED <<page, memory, reports, crossed>>
Verify(w) ==
  /\ At(w, "verify")
  /\ Goes(w, "report")
  /\ UNCHANGED <<page, memory, reports, patches, crossed>>

\* writeIncidentReport: one file a day and scenario; a failure is swallowed.
Report(w) ==
  /\ At(w, "report")
  /\ \/ reports' = [reports EXCEPT ![failure[w].scenario] = w]
     \/ UNCHANGED reports
  /\ Goes(w, "recall")
  /\ UNCHANGED <<page, memory, patches, crossed>>

-----------------------------------------------------------------------------
\* IncidentMemoryStore.record: read all, add one, write all.

\* Mutant: an incident that recovered names the first strategy it tried.
UsedFirst(w) == IF Worked(w) THEN job[w].attempts[1].strategy ELSE "none"
Used(w) == IF Worked(w) THEN job[w].attempts[Len(job[w].attempts)].strategy ELSE "none"
Remembered(w) ==
  [incident |-> w, category |-> Class(w).category, recovered |-> Worked(w),
   strategyUsed |-> Used(w), finalStatus |-> FinalStatus(w)]

\* Mutant: the file counts as unreadable.
ReadNothing == <<>>
\* readAll: a file that cannot be parsed is an empty memory.
ReadAll == IF memory.whole THEN memory.records ELSE <<>>

Rewriting == {w \in Incident : job[w].step \in {"cut", "write"}}
Recall(w) ==
  /\ At(w, "recall")
  /\ job' = [job EXCEPT ![w].read = ReadAll, ![w].step = "cut"]
  /\ crossed' = (crossed \/ Rewriting # {})
  /\ UNCHANGED <<page, memory, reports, patches>>

\* writeFile empties the file first.
Cut(w) ==
  /\ At(w, "cut")
  /\ memory' = [whole |-> FALSE, records |-> <<>>]
  /\ Goes(w, "write")
  /\ UNCHANGED <<page, reports, patches, crossed>>
Write(w) ==
  /\ At(w, "write")
  /\ memory' = [whole |-> TRUE, records |-> Append(job[w].read, Remembered(w))]
  /\ Goes(w, "done")
  /\ UNCHANGED <<page, reports, patches, crossed>>

\* getSuccessfulStrategies
SuccessfulStrategies(category) ==
  {ReadAll[i].strategyUsed : i \in {k \in DOMAIN ReadAll :
     ReadAll[k].category = category /\ ReadAll[k].recovered}} \ {"none"}

-----------------------------------------------------------------------------
Under(w) == job[w].step \notin {"absent", "start", "done", "stopped"}

Route(w) ==
  /\ \/ Start(w) \/ Collect(w) \/ Try(w) \/ Validate(w) \/ Repair(w) \/ Verify(w)
     \/ Report(w) \/ Recall(w) \/ Cut(w) \/ Write(w)
  /\ UNCHANGED <<failure, ofProcess, drifted, broken>>

\* The test times out, its worker is stopped, or a write fails: route rejects.
Stops(w) ==
  /\ Under(w) /\ broken < MaxBreaks
  /\ broken' = broken + 1
  /\ Goes(w, "stopped")
  /\ crossed' = (crossed \/ At(w, "write"))
  /\ UNCHANGED <<failure, ofProcess, page, memory, reports, patches, drifted>>

\* Data arrives late or goes: the page changes by itself.
Drifts(w) ==
  /\ Under(w) /\ drifted[w] < MaxDrift
  /\ page' = [page EXCEPT ![w] = ~ @]
  /\ drifted' = [drifted EXCEPT ![w] = @ + 1]
  /\ UNCHANGED <<failure, ofProcess, job, memory, reports, patches, broken, crossed>>

IncidentNext == \E w \in Incident : Route(w) \/ Stops(w) \/ Drifts(w)

-----------------------------------------------------------------------------
Steps == {"absent", "start", "collect", "recover", "validate", "repair", "verify", "report",
          "recall", "cut", "write", "done", "stopped"}
Memories ==
  [incident : Incident \cup {"old"}, category : Category, recovered : BOOLEAN,
   strategyUsed : Strategy \cup {"none"}, finalStatus : {"mitigated", "escalate", "unresolved"}]
Jobs ==
  [step : Steps, plan : Seq(Strategy), attempts : Seq([strategy : Strategy, worked : BOOLEAN]),
   checked : {"not", "passed", "failed"}, met : BOOLEAN, read : Seq(Memories)]

IncidentTypeOK ==
  /\ \A w \in Incident : IsFailure(failure[w])
  /\ ofProcess \in Environment \cup {"none"}
  /\ job \in [Incident -> Jobs] /\ page \in [Incident -> BOOLEAN]
  /\ memory \in [whole : BOOLEAN, records : Seq(Memories)]
  /\ reports \in [{failure[w].scenario : w \in Incident} -> Incident \cup {"none"}]
  /\ patches \subseteq Incident /\ drifted \in [Incident -> 0..MaxDrift]
  /\ broken \in 0..MaxBreaks /\ crossed \in BOOLEAN

\* A failure that shows a signed-out or denied page is never acted upon, what-
\* ever else it shows, and nothing is clicked in production, whoever said that
\* it is production (FailureClassifier rules 1 and 2, the registry's chains,
\* productionPolicy).
HandsOff ==
  \A w \in Incident : job[w].attempts # <<>> =>
    /\ failure[w].signals \cap {"401", "403", "sign-in words", "denied words"} = {}
    /\ EnvironmentOf(w) = "production" =>
         \A i \in DOMAIN job[w].attempts : job[w].attempts[i].strategy \notin Clicks

\* The strategies are tried in the order the class prefers, each once, and
\* none after one that worked (ExecutionPlanner.build, RecoveryRouter.recover).
StopsAtTheFirst ==
  \A w \in Incident : \A i, j \in DOMAIN job[w].attempts : i < j =>
    LET first == job[w].attempts[i]  later == job[w].attempts[j] IN
    /\ ~ first.worked
    /\ first.strategy # later.strategy
    /\ Priority(w, first.strategy, i) <= Priority(w, later.strategy, j)

\* What memory calls mitigated recovered, and when the class's chain checks
\* its page and the test gave a contract, the page met it after the last click
\* (IncidentRouter's finalStatus).
MitigatedWasSeen ==
  \A w \in Incident : job[w].step \in {"recall", "cut", "write", "done"} =>
    (FinalStatus(w) = "mitigated" =>
       /\ Worked(w)
       /\ (failure[w].contract /\ Class(w).category \in Validated) => job[w].met)

\* A patch is written for review only for a failure whose request did not say
\* production and that no answer of the server explains: it was not signed out
\* or denied, and where an API failed it was a dialog or the place that went
\* wrong first (PatchPlanner, PatchApplier, FailureClassifier rules 1 to 5).
PatchesAreForReview ==
  \A w \in patches :
    /\ failure[w].environment # "production"
    /\ failure[w].signals \cap {"401", "403", "sign-in words", "denied words"} = {}
    /\ failure[w].signals \cap {"5xx", "5xx typed", "5xx timed out", "4xx"} # {} =>
         failure[w].signals \cap {"modal missing", "modal words", "wrong url", "route words"} # {}

\* While no two rewrite the memory at once and none stops within its write,
\* every incident that ended is remembered, once, and what was there stays
\* (IncidentMemoryStore.record).
RememberedInTurn ==
  (~ crossed /\ memory.whole) =>
    /\ memory.records # <<>> /\ memory.records[1] = Old
    /\ \A w \in Incident : At(w, "done") =>
         Cardinality({i \in DOMAIN memory.records : memory.records[i].incident = w}) = 1

\* A strategy the memory advises for a class recovered a failure of that class
\* (getSuccessfulStrategies), however the writes of the memory cross.
AdviceWorked ==
  \A c \in Category : \A s \in SuccessfulStrategies(c) :
    \/ c = Old.category /\ s = Old.strategyUsed
    \/ \E w \in Incident :
         /\ Class(w).category = c
         /\ \E i \in DOMAIN job[w].attempts :
              job[w].attempts[i].strategy = s /\ job[w].attempts[i].worked

-----------------------------------------------------------------------------
\* What every step keeps.

\* A job follows its plan, and has checked its page when it says so.
JobInv ==
  \A w \in Incident :
    /\ job[w].plan \in {<<>>, Plan(w)}
    /\ job[w].step \in {"absent", "start", "collect"} => job[w].plan = <<>>
    /\ Len(job[w].attempts) <= Len(job[w].plan)
    /\ \A i \in DOMAIN job[w].attempts :
         /\ job[w].attempts[i].strategy = job[w].plan[i]
         /\ job[w].attempts[i].worked => i = Len(job[w].attempts)
    /\ job[w].step = "recover" =>
         /\ Len(job[w].attempts) < Len(job[w].plan)
         /\ \A i \in DOMAIN job[w].attempts : ~ job[w].attempts[i].worked
    /\ job[w].step \in {"absent", "start", "collect", "recover", "validate"} => job[w].checked = "not"
    /\ job[w].checked = "passed" => job[w].met
    /\ job[w].step = "repair" => failure[w].environment # "production"
PatchInv == \A w \in patches : failure[w].environment # "production" /\ Permitted(w)

\* A record is the old one, or what became of an incident that has ended.
IsWritten(r) == r = Old \/ \E w \in Incident : At(w, "done") /\ r = Remembered(w)
WrittenInv ==
  /\ \A i \in DOMAIN memory.records : IsWritten(memory.records[i])
  /\ \A w \in Incident : \A i \in DOMAIN job[w].read : IsWritten(job[w].read[i])

\* The old record, and one of each incident that has ended.
Complete(rs) ==
  /\ rs # <<>> /\ rs[1] = Old
  /\ \A w \in Incident :
       IF At(w, "done")
       THEN \E i \in DOMAIN rs : \A j \in DOMAIN rs : rs[j].incident = w <=> j = i
       ELSE \A j \in DOMAIN rs : rs[j].incident # w

\* While nothing crossed, one at most rewrites the memory, and has all of it.
TurnInv ==
  ~ crossed =>
    /\ \A v, w \in Rewriting : v = w
    /\ \A w \in Incident :
         /\ At(w, "cut") => memory.whole /\ job[w].read = memory.records
         /\ At(w, "write") => Complete(job[w].read)
    /\ IF memory.whole THEN Complete(memory.records) ELSE \E w \in Incident : At(w, "write")

IncidentInv == IncidentTypeOK /\ JobInv /\ PatchInv /\ WrittenInv /\ TurnInv
=============================================================================
