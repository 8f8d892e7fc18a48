--------------------------- MODULE RunnerDispatch ---------------------------
(***************************************************************************)
(* The runner's server between the browser and GitHub: the requests of     *)
(* src/test-runner/server.js that start, read and cancel runs, as          *)
(* src/test-runner/src/github.js serves them.  A request is served one     *)
(* GitHub call at a time; its reply waits on the wire until the browser    *)
(* takes it, in any order.                                                 *)
(***************************************************************************)
EXTENDS GitHubRuns

CONSTANTS
  MaxSessions, \* bound: sessions the server issues
  Lookups,     \* length of RUN_LOOKUP_DELAYS_MS
  Skew,        \* CLOCK_SKEW_TOLERANCE_MS in ticks of the clock
  MaxFaults    \* bound: how often a call fails

ASSUME DispatchAssumption ==
  MaxSessions \in Nat /\ Lookups \in Nat /\ Skew \in Nat /\ MaxFaults \in Nat

VARIABLES
  wire,        \* requests under way, those answered but not taken yet included
  issued,      \* how many sessions were issued; they are numbered from 1
  live,        \* those that have not ended
  faults       \* how often a call may still fail

serverVars == <<wire, issued, live, faults>>

Nowhere == "none"
Kinds == {"runs", "dashboard", "detail", "logs", "results", "start", "cancel",
          "report", "logout", "session"}
Chains == {"none", "poll", "start", "cancel"}
Statuses == {Nowhere, "active", "completed"}
Texts == {Nowhere, "unfinished", "part", "all", "no file", "results"}
None == [r \in RunId |-> Nowhere]
NoData == [list |-> None, status |-> Nowhere, conclusion |-> Nowhere, jobs |-> {},
           text |-> Nowhere, named |-> NoRun]

\* A request as the browser sends it: what it asks, of which run, in which
\* epoch and session, and the chain of the page that goes on when it is done.
\* "mark" is the page's own, "copy" tells equal requests apart.
Ask(kind, run, epoch, session, chain) ==
  [at |-> "sent", kind |-> kind, run |-> run, epoch |-> epoch, session |-> session,
   chain |-> chain, dispatch |-> 0, since |-> 0, tries |-> 0, mark |-> 0, copy |-> 0,
   ok |-> Nowhere, data |-> NoData]
Copied(there, q) ==
  [q EXCEPT !.copy = Min({c \in 0..Cardinality(there) : [q EXCEPT !.copy = c] \notin there})]
Put(there, asks) == there \cup {Copied(there, q) : q \in asks}
LastCopy(q) == [q EXCEPT !.copy = @ + 1] \notin wire

\* What the list of runs says of each (listRuns, mapRun).
Listing == [r \in RunId |-> IF Born(r) THEN Status(runs[r]) ELSE Nowhere]

ServerInit(n) == wire = {} /\ issued = 0 /\ live = {} /\ faults = n

Answer == [list : [RunId -> Statuses], status : Statuses,
           conclusion : {Nowhere, "success", "failure", "cancelled"},
           jobs : SUBSET ({"plan", "tests", "report"} \X {"success", "failure", "skipped", "cancelled"}),
           text : Texts, named : RunId \cup {NoRun}]
Request == [at : {"sent", "found", "looking", "answered"}, kind : Kinds,
            run : RunId \cup {NoRun}, epoch : Nat, session : Nat, chain : Chains,
            dispatch : Nat, since : 0..MaxTime, tries : Nat, mark : Nat, copy : Nat,
            ok : {Nowhere, "ok", "fail", "gone"}, data : Answer]

ServerTypeOK ==
  /\ wire \subseteq Request /\ IsFiniteSet(wire)
  /\ \A q \in wire : q.session <= issued
  /\ issued \in 0..MaxSessions /\ live \subseteq 1..issued
  /\ faults \in 0..MaxFaults

-----------------------------------------------------------------------------
Becomes(q, changed) == wire' = Put(wire \ {q}, {changed})
Reply(q, ok, data) ==
  Becomes(q, [q EXCEPT !.at = "answered", !.ok = ok, !.data = data])
Says(text) == [NoData EXCEPT !.text = text]
Serves(q, kinds, at) == q.kind \in kinds /\ q.at = at /\ LastCopy(q)
Entitled(q) == q.session \in live

\* requireUser: no session, no answer.
Refuse(q) ==
  /\ Serves(q, Kinds \ {"logout", "session"}, "sent")
  /\ ~Entitled(q)
  /\ Reply(q, "gone", NoData)
  /\ UNCHANGED <<runVars, issued, live, faults>>

\* The call to GitHub fails, or the connection does.  A hiccup while looking is
\* not worth failing for, and a run is described without its jobs.
Fails(q) ==
  /\ faults > 0 /\ LastCopy(q)
  /\ faults' = faults - 1
  /\ \/ q.at = "looking" /\ Becomes(q, [q EXCEPT !.tries = @ + 1])
     \/ q.at = "found" /\ q.kind = "detail" /\ Reply(q, "ok", q.data)
     \/ q.at = "found" /\ q.kind # "detail" /\ Reply(q, "fail", NoData)
     \/ q.at = "sent" /\ Reply(q, "fail", NoData)
  /\ UNCHANGED <<runVars, issued, live>>

\* One call to GitHub: the list, and what getStats and the reports make of it.
ReadList(q) ==
  /\ Serves(q, {"runs", "dashboard", "report"}, "sent") /\ Entitled(q)
  /\ Reply(q, "ok", [NoData EXCEPT !.list = Listing])
  /\ UNCHANGED <<runVars, issued, live, faults>>

\* requireOwnRun: the run is read first, and only then acted on or described.
FindRun(q) ==
  /\ Serves(q, {"detail", "logs", "results", "cancel"}, "sent") /\ Entitled(q)
  /\ LET run == runs[q.run]
         seen == [NoData EXCEPT !.status = Status(run), !.conclusion = Conclusion(run)] IN
     IF q.kind = "results" /\ ~Over(run) THEN Reply(q, "ok", Says("unfinished"))
     ELSE IF q.kind = "cancel" /\ Over(run) THEN Reply(q, "fail", NoData)
     ELSE Becomes(q, [q EXCEPT !.at = "found", !.data = seen])
  /\ UNCHANGED <<runVars, issued, live, faults>>

\* getRun: the jobs, asked for after the run.
ReadJobs(q) ==
  /\ Serves(q, {"detail"}, "found")
  /\ LET run == runs[q.run] IN
     Reply(q, "ok", [q.data EXCEPT !.jobs = IF Over(run) THEN Jobs(run) ELSE {}])
  /\ UNCHANGED <<runVars, issued, live, faults>>

\* getRunLogs: what the jobs have written so far.
ReadLogs(q) ==
  /\ Serves(q, {"logs"}, "found")
  /\ Reply(q, "ok", Says(IF Over(runs[q.run]) THEN "all" ELSE "part"))
  /\ UNCHANGED <<runVars, issued, live, faults>>

\* getRunResults: the results file, which only the report leaves.
ReadResults(q) ==
  /\ Serves(q, {"results"}, "found")
  /\ LET run == runs[q.run] IN
     Reply(q, "ok", Says(IF run.stage = "done" /\ run.ending # "infra"
                           THEN "results" ELSE "no file"))
  /\ UNCHANGED <<runVars, issued, live, faults>>

\* cancelRun: GitHub answers 409 when the run ended meanwhile.
PostCancel(q) ==
  /\ Serves(q, {"cancel"}, "found")
  /\ IF Over(runs[q.run])
       THEN Reply(q, "fail", NoData) /\ UNCHANGED runs
       ELSE /\ runs' = [runs EXCEPT ![q.run].stage = "cancelled"]
            /\ Reply(q, "ok", NoData)
  /\ UNCHANGED <<accepted, clock, issued, live, faults>>

-----------------------------------------------------------------------------
\* startRun: the dispatch, which names no run.
PostDispatch(q, flow, by) ==
  /\ Serves(q, {"start"}, "sent") /\ Entitled(q)
  /\ Dispatched < Cardinality(RunId)
  /\ accepted' = accepted \cup {[flow |-> flow, by |-> by, dispatch |-> Dispatched + 1]}
  /\ Becomes(q, [q EXCEPT !.at = "looking", !.since = clock,
                          !.dispatch = Dispatched + 1])
  /\ UNCHANGED <<runs, clock, issued, live, faults>>

\* matchDispatchedRun: the newest run in the window that is titled for this
\* flow and this person; failing that, the newest in the window.
InWindow(q) == {r \in RunId : Born(r) /\ runs[r].born >= q.since - Skew}
Titled(flow, by) ==
  {r \in RunId : Born(r) /\ runs[r].flow = flow /\ runs[r].by \in {by, "nobody"}}
MatchNewest(candidates, ours) == Max(candidates)
Match(candidates, ours) ==
  IF candidates \cap ours # {} THEN Max(candidates \cap ours) ELSE Max(candidates)
Look(q, flow, by) ==
  /\ Serves(q, {"start"}, "looking")
  /\ IF q.tries >= Lookups THEN Reply(q, "ok", NoData)
     ELSE IF InWindow(q) = {} THEN Becomes(q, [q EXCEPT !.tries = @ + 1])
     ELSE LET r == Match(InWindow(q), Titled(flow, by)) IN
          Reply(q, "ok", [NoData EXCEPT !.named = r, !.status = Status(runs[r])])
  /\ UNCHANGED <<runVars, issued, live, faults>>

\* A colleague's dispatch, from a browser of their own.
ColleagueStarts(flow, by) ==
  /\ Dispatched < Cardinality(RunId)
  /\ accepted' = accepted \cup {[flow |-> flow, by |-> by, dispatch |-> Dispatched + 1]}
  /\ UNCHANGED <<runs, clock, serverVars>>

-----------------------------------------------------------------------------
\* logout and sessionInfo need no session, and say nothing of one that is over.
Farewell(q) ==
  /\ Serves(q, {"logout", "session"}, "sent")
  /\ live' = IF q.kind = "logout" THEN live \ {q.session} ELSE live
  /\ Reply(q, "ok", NoData)
  /\ UNCHANGED <<runVars, issued, faults>>

\* A session ends by itself: it expires, its account is deleted, the server stops.
EndSession(n) ==
  /\ n \in live
  /\ live' = live \ {n}
  /\ UNCHANGED <<runVars, wire, issued, faults>>

Serve(q, flow, by) ==
  \/ Refuse(q) \/ ReadList(q) \/ FindRun(q) \/ ReadJobs(q) \/ ReadLogs(q)
  \/ ReadResults(q) \/ PostCancel(q) \/ PostDispatch(q, flow, by)
  \/ Look(q, flow, by) \/ Farewell(q)

-----------------------------------------------------------------------------
\* A verdict read from the jobs blames the tests exactly when a test failed,
\* although the run and its jobs are read at two moments.
VerdictsAreTrue ==
  \A q \in wire : q.kind = "detail" /\ q.data.jobs # {} /\ q.data.status = "completed" =>
    LET run == runs[q.run] IN
    OutcomeOf(q.data.status, q.data.conclusion, q.data.jobs) =
      IF run.stage = "cancelled" THEN "cancelled"
      ELSE [pass |-> "passed", fail |-> "failed", infra |-> "infra"][run.ending]
=============================================================================
