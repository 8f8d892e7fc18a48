---------------------------- MODULE MCRunnerPage ----------------------------
(* One run that is waiting when the page is opened, and one to be dispatched. *)
EXTENDS RunnerPage, TLC

In == <<"sign in">>
Out == <<"sign out">>
Tab(t) == <<"tab", t>>
Open == <<"open", 1>>
Cancel == <<"cancel", 1>>
Start == <<"start">>
Refresh == <<"refresh">>
Colleague(flow) == <<"colleague", flow, "bob">>

First(stage, ending) ==
  [r \in RunId |-> IF r = 1 THEN [flow |-> "smoke", by |-> "ann", dispatch |-> 0, born |-> 0,
                                  ending |-> ending, stage |-> stage] ELSE Unborn]
Scene(t, stage, n, acts) ==
  [tab |-> t, runs |-> First(stage, IF t = "history" THEN "infra" ELSE "pass"), faults |-> n, acts |-> acts]

MCScenes == {
  Scene("history", "live", 0, <<In, Open, Out, In>>),
  Scene("history", "live", 0, <<In, Cancel, Out, In, Cancel>>),
  Scene("history", "live", 1, <<In, Open, Refresh>>),
  Scene("history", "live", 1, <<In, Open, Cancel>>),
  Scene("history", "live", 0, <<In, Open, <<"session ends">>, In>>),
  Scene("history", "live", 0, <<In, <<"hide">>, <<"come back">>, Tab("dashboard")>>),
  Scene("dashboard", "live", 1, <<In, Cancel, Tab("history"), Refresh>>),
  Scene("dashboard", "live", 0, <<In, Open, <<"hide">>, <<"come back">>>>),
  Scene("dashboard", "live", 0, <<In, Refresh, <<"hide">>, <<"come back">>>>),
  Scene("reports", "done", 1, <<In, Refresh, Refresh, Out, In>>),
  Scene("run", "done", 0, <<In, Start, Out, In>>),
  Scene("run", "done", 1, <<In, Start>>),
  Scene("history", "done", 0, <<In, Start>>),
  Scene("dashboard", "done", 0, <<In, Start>>),
  Scene("run", "done", 0, <<In, Colleague("smoke"), <<"time">>, Start>>),
  Scene("run", "done", 0, <<In, Start, Colleague("deep")>>)}
=============================================================================
