----------------------------- MODULE GitHubRuns -----------------------------
(***************************************************************************)
(* The workflow runs at GitHub, as src/test-runner/src/github-stub.js      *)
(* plays them and src/test-runner/src/github.js reads them: a dispatch     *)
(* becomes a run, which ends as its tests, its pipeline or a cancel decide. *)
(***************************************************************************)
EXTENDS Integers, FiniteSets, FiniteSetsExt

CONSTANTS
  RunId,      \* numbers of runs, in the order they are created
  Flows,      \* what is run
  People,     \* who runs it, "nobody" where the title of a run names nobody
  Endings,    \* how a run may end: "pass", "fail" or "infra"
  MaxTime     \* the clock stops here

NoRun == 0
ASSUME RunsAreNumbers ==
  /\ RunId \subseteq Nat /\ NoRun \notin RunId /\ IsFiniteSet(RunId)
  /\ Endings \subseteq {"pass", "fail", "infra"}
  /\ MaxTime \in Nat \ {0}

VARIABLES
  runs,       \* [RunId -> the run, or Unborn]
  accepted,   \* dispatches GitHub took and has not made a run of yet
  clock

runVars == <<runs, accepted, clock>>

Unborn == [stage |-> "unborn"]
Stages == {"live", "done", "cancelled"}
Run == [flow : Flows, by : People, dispatch : Nat, born : 0..MaxTime,
        ending : {"pass", "fail", "infra"}, stage : Stages]
Dispatch == [flow : Flows, by : People, dispatch : Nat]
Born(r) == runs[r] # Unborn
\* How many runs were dispatched so far: the number of the next one is one more.
Dispatched == Cardinality({r \in RunId : Born(r)}) + Cardinality(accepted)

RunsTypeOK ==
  /\ runs \in [RunId -> Run \cup {Unborn}]
  /\ accepted \subseteq Dispatch /\ IsFiniteSet(accepted)
  /\ clock \in 0..MaxTime

RunsInit(opening) == runs = opening /\ accepted = {} /\ clock = 1

-----------------------------------------------------------------------------
\* status and conclusion of a run (phases); one that waits and one that goes on
\* are the same to their readers.
Over(run) == run.stage # "live"
Status(run) == IF Over(run) THEN "completed" ELSE "active"
Conclusion(run) ==
  IF ~Over(run) THEN "none"
  ELSE IF run.stage = "cancelled" THEN "cancelled"
  ELSE IF run.ending = "pass" THEN "success"
  ELSE "failure"

\* The jobs listed for a run that is over, each with its conclusion (jobRecords).
Jobs(run) ==
  IF run.stage = "cancelled" THEN {<<"plan", "cancelled">>}
  ELSE IF run.ending = "infra" THEN
         {<<"plan", "failure">>, <<"tests", "skipped">>, <<"report", "skipped">>}
  ELSE IF run.ending = "fail" THEN
         {<<"plan", "success">>, <<"tests", "failure">>, <<"report", "failure">>}
  ELSE {<<"plan", "success">>, <<"tests", "success">>, <<"report", "success">>}

\* What the fields of a run alone say of it (classifyOutcome), and for
\* "failed" what its jobs add (refineFailureOutcome).
Classify(status, conclusion) ==
  IF status = "active" THEN "running"
  ELSE IF conclusion = "failure" THEN "failed"
  ELSE IF conclusion = "success" THEN "passed"
  ELSE IF conclusion = "cancelled" THEN "cancelled"
  ELSE "infra"
Broken == {"failure", "timed_out", "startup_failure"}
RefineHasty(jobs) == IF \E j \in jobs : j[2] \in Broken THEN "failed" ELSE "infra"
Refine(jobs) == IF <<"tests", "failure">> \in jobs THEN "failed" ELSE "infra"
OutcomeOf(status, conclusion, jobs) ==
  LET outcome == Classify(status, conclusion) IN
  IF outcome = "failed" THEN Refine(jobs) ELSE outcome

-----------------------------------------------------------------------------
\* A dispatch is a run some time after it was taken.
Create ==
  /\ \E d \in accepted, e \in Endings :
       LET r == Min({s \in RunId : ~Born(s)}) IN
       /\ runs' = [runs EXCEPT ![r] = [flow |-> d.flow, by |-> d.by,
                                       dispatch |-> d.dispatch, born |-> clock,
                                       ending |-> e, stage |-> "live"]]
       /\ accepted' = accepted \ {d}
  /\ UNCHANGED clock

\* Its last job is done, or the first one that fails the pipeline.
Ends(r) ==
  /\ Born(r) /\ ~Over(runs[r])
  /\ runs' = [runs EXCEPT ![r].stage = "done"]
  /\ UNCHANGED <<accepted, clock>>

TimePasses ==
  /\ clock < MaxTime
  /\ clock' = clock + 1
  /\ UNCHANGED <<runs, accepted>>

RunsStep == Create \/ \E r \in RunId : Ends(r)
=============================================================================
