----------------------------- MODULE RunnerPage -----------------------------
(***************************************************************************)
(* The runner's page (src/test-runner/public/app.js): what it shows of the *)
(* runs, who is signed in, what it has asked for, and when it asks again.  *)
(* A handler runs to its end in one step; requests are answered in any     *)
(* order, and nothing in flight is called back when somebody signs out.    *)
(***************************************************************************)
EXTENDS RunnerDispatch, Sequences

CONSTANTS
  Scenes,           \* what there is at first (the tab this browser was on, the runs,
                    \* how many calls may fail) and what is done then
  Me, MyFlow,       \* who starts runs from this page, and which flow
  MaxPollCycles,    \* MAX_POLL_CYCLES
  MaxPollFailures,  \* MAX_POLL_FAILURES
  MaxPolls          \* bound: the timer fires with fewer polls than this under way

Tabs == {"dashboard", "run", "history", "reports"}

\* The runs there are at first were not started here.
ASSUME PageAssumption ==
  /\ \A scene \in Scenes :
       /\ scene.tab \in Tabs /\ scene.faults \in 0..MaxFaults
       /\ scene.runs \in [RunId -> {run \in Run : run.dispatch = 0} \cup {Unborn}]
  /\ Me \in People /\ MyFlow \in Flows
  /\ MaxPollCycles \in Nat /\ MaxPollFailures \in Nat /\ MaxPolls \in Nat

VARIABLES page, todo

vars == <<runVars, serverVars, page, todo>>

NoLogs == [fetched |-> FALSE, loading |-> FALSE, final |-> FALSE,
           shows |-> Nowhere, entry |-> 0]

\* What signing out drops (resetRunnerState).  "from" names the sessions
\* that what is shown was fetched in.
Fresh ==
  [view |-> NoRun, starting |-> FALSE, awaiting |-> FALSE, cancelling |-> {},
   loaded |-> {}, listed |-> None, board |-> None,
   detail |-> None, logs |-> [r \in RunId |-> NoLogs], results |-> None,
   report |-> 0, mine |-> {}, from |-> {}]

NewPage ==
  [screen |-> "auth", leaving |-> "no", epoch |-> 0, me |-> 0, tab |-> "dashboard",
   stored |-> "dashboard", hidden |-> FALSE, timer |-> FALSE, cycles |-> 0,
   failures |-> 0, ticket |-> 0, held |-> Fresh]

Init ==
  \E scene \in Scenes :
    /\ RunsInit(scene.runs) /\ ServerInit(scene.faults)
    /\ page = [NewPage EXCEPT !.stored = scene.tab]
    /\ todo = scene.acts

-----------------------------------------------------------------------------
\* What a handler does: the page after it, and the requests it sends, of which
\* no two ask the same.
Then(p, asks) == [page |-> p, asks |-> asks]
And(done, asks) == Then(done.page, done.asks \cup asks)

Send(p, kind, r, chain) == Ask(kind, r, p.epoch, p.me, chain)
Active(status) == status = "active"
CountActive(listing) == Cardinality({r \in RunId : Active(listing[r])})

\* The History list is authoritative once it has been loaded (activeRunCount).
ActiveRunCount(p) ==
  IF "history" \in p.held.loaded \/ CountActive(p.held.board) = 0
    THEN CountActive(p.held.listed) ELSE CountActive(p.held.board)

PollingCapped(p) ==
  /\ p.screen = "runner" /\ ~p.hidden /\ p.failures < MaxPollFailures
  /\ p.cycles < MaxPollCycles
  /\ \/ p.tab = "view" /\ p.held.view # NoRun
     \/ p.tab \in {"history", "dashboard"} /\ (p.held.awaiting \/ ActiveRunCount(p) > 0)
PollingWanted(p) ==
  /\ p.screen = "runner" /\ ~p.hidden /\ p.failures < MaxPollFailures
  /\ \/ /\ p.tab = "view" /\ p.held.view # NoRun
        /\ p.held.detail[p.held.view] # "completed"
     \/ /\ p.tab \in {"history", "dashboard"} /\ p.cycles < MaxPollCycles
        /\ p.held.awaiting \/ ActiveRunCount(p) > 0

ScheduleAnyway(p) == [p EXCEPT !.timer = TRUE]
SchedulePolling(p) == [p EXCEPT !.timer = PollingWanted(p)]

\* isSessionLoss and handleSessionLoss ask for the screen, not for the epoch.
Reset(p) == [p EXCEPT !.timer = FALSE, !.epoch = @ + 1, !.held = Fresh]
ShowAuth(p) == [p EXCEPT !.screen = "auth", !.timer = FALSE, !.leaving = "no"]
LoseSession(p) == IF p.screen = "runner" THEN ShowAuth(Reset(p)) ELSE p

StaleScreen(p, q) == p.screen # "runner"
Stale(p, q) == p.screen # "runner" \/ q.epoch # p.epoch

-----------------------------------------------------------------------------
\* Asking again.
LoadLogs(p, r) ==
  IF p.held.logs[r].loading THEN Then(p, {})
  ELSE Then([p EXCEPT !.held.logs[r].loading = TRUE],
            {[Send(p, "logs", r, "none") EXCEPT !.mark = p.held.logs[r].entry]})

LoadReport(p) ==
  Then([p EXCEPT !.ticket = @ + 1],
       {[Send(p, "report", NoRun, "none") EXCEPT !.mark = p.ticket + 1]})

\* ensureTabData: a tab fetches when it is opened for the first time.  Only
\* History schedules polling once it has its answer.
EnsureTabData(p, t) ==
  CASE t = "dashboard" /\ "dashboard" \notin p.held.loaded ->
         Then(p, {Send(p, "dashboard", NoRun, "none")})
    [] t = "run" /\ "history" \notin p.held.loaded ->
         Then(p, {Send(p, "runs", NoRun, "none")})
    [] t = "history" /\ "history" \notin p.held.loaded ->
         Then(p, {Send(p, "runs", NoRun, "poll")})
    [] t = "reports" /\ "reports" \notin p.held.loaded -> LoadReport(p)
    [] OTHER -> Then(p, {})

SetTab(p, t) ==
  EnsureTabData(SchedulePolling([p EXCEPT !.tab = t, !.stored = t, !.held.view = NoRun]), t)

OpenRunViewOnce(p, r) ==
  Then([p EXCEPT !.tab = "view", !.held.view = r], {Send(p, "detail", r, "none")})
OpenRunView(p, r) ==
  LET opened == [p EXCEPT !.tab = "view", !.held.view = r]
      logs == IF p.held.logs[r].fetched THEN Then(opened, {}) ELSE LoadLogs(opened, r)
  IN And(logs, {Send(p, "detail", r, "poll")})

\* refreshRunViews: only the views already loaded are refreshed.
Refreshes(p, r, chain) ==
  (IF "history" \in p.held.loaded THEN {Send(p, "runs", r, chain)} ELSE {})
  \cup (IF "dashboard" \in p.held.loaded THEN {Send(p, "dashboard", r, chain)} ELSE {})

\* renderHistory and pruneRunState: the log text of a run not listed is dropped.
\* The history is shown without its filter, which would drop more.
NoEntry(e) == [NoLogs EXCEPT !.entry = e.entry]
Prune(p) ==
  [p EXCEPT !.held.logs =
     [r \in RunId |-> IF p.held.listed[r] = Nowhere /\ @[r] # NoEntry(@[r])
                        THEN [NoLogs EXCEPT !.entry = p.held.logs[r].entry + 1] ELSE @[r]]]

-----------------------------------------------------------------------------
\* What an answer does to the page it is still meant for.
TakeRuns(p, q) ==
  Then(Prune([p EXCEPT !.held.listed = q.data.list, !.failures = 0,
                       !.held.loaded = @ \cup {"history"},
                       !.held.awaiting = @ /\ CountActive(q.data.list) = 0]), {})

TakeBoard(p, q) ==
  Then([p EXCEPT !.held.board = q.data.list, !.held.loaded = @ \cup {"dashboard"}], {})

TakeDetail(p, q) ==
  LET r == q.run
      over == q.data.status = "completed"
      \* The final console output, once, now that nothing more is coming.
      final == over /\ p.held.logs[r].fetched /\ ~p.held.logs[r].final
      shown == [p EXCEPT !.held.detail[r] = q.data.status,
                 !.held.listed[r] = IF @ = Nowhere THEN @ ELSE q.data.status,
                 !.held.logs[r].final = @ \/ final,
                 !.held.results[r] = IF over /\ @ = Nowhere THEN "loading" ELSE @]
      kept == IF "history" \in p.held.loaded THEN Prune(shown) ELSE shown
  IN And(IF final THEN LoadLogs(kept, r) ELSE Then(kept, {}),
         IF over /\ p.held.results[r] = Nowhere
           THEN {Send(p, "results", r, "none")} ELSE {})

TakeLogs(p, q) ==
  LET r == q.run
      had == p.held.logs[r]
      text == IF q.ok = "ok" THEN q.data.text ELSE had.shows IN
  IF had.entry # q.mark THEN Then(p, {})  \* a detached object by now
  ELSE Then([p EXCEPT !.held.logs[r] =
               [had EXCEPT !.loading = FALSE, !.fetched = TRUE, !.shows = text]], {})

TakeResults(p, q) ==
  Then([p EXCEPT !.held.results[q.run] = IF q.ok = "ok" THEN q.data.text ELSE "failed"], {})

\* A newer filter choice may have landed first; only the latest counts.
TakesAnyReport(p, q) == TRUE
TakesReport(p, q) == q.mark = p.ticket
TakeReport(p, q) ==
  Then(IF TakesReport(p, q)
         THEN [p EXCEPT !.held.report = q.mark, !.held.loaded = @ \cup {"reports"}]
         ELSE p, {})

TakeStart(p, q) ==
  IF q.data.named = NoRun
    THEN Then([p EXCEPT !.held.awaiting = TRUE], Refreshes(p, NoRun, "start"))
  ELSE LET r == q.data.named
           known == [p EXCEPT !.held.mine = @ \cup {r}, !.held.listed[r] = q.data.status]
           opened == OpenRunView(Prune(known), r)
       IN And(opened, Refreshes(p, NoRun, "start"))

\* Refreshed either way: a refusal usually means the run finished meanwhile.
TakeCancel(p, q) ==
  Then(p, Refreshes(p, q.run, "cancel")
          \cup IF p.held.view = q.run THEN {Send(p, "detail", q.run, "cancel")} ELSE {})

Take(p, q) ==
  IF q.kind = "cancel" THEN TakeCancel(p, q)
  ELSE IF q.kind = "logs" THEN TakeLogs(p, q)
  ELSE IF q.kind = "results" THEN TakeResults(p, q)
  ELSE IF q.ok = "fail"
    THEN Then([p EXCEPT !.failures = IF q.kind = "runs" THEN @ + 1 ELSE @], {})
  ELSE CASE q.kind = "runs" -> TakeRuns(p, q)
         [] q.kind = "dashboard" -> TakeBoard(p, q)
         [] q.kind = "detail" -> TakeDetail(p, q)
         [] q.kind = "report" -> TakeReport(p, q)
         [] q.kind = "start" -> TakeStart(p, q)

Shows == {"runs", "dashboard", "detail", "logs", "results", "report", "start"}
Noted(done, q) ==
  IF q.ok = "ok" /\ q.kind \in Shows
    THEN [done EXCEPT !.page.held.from = @ \cup {q.session}] ELSE done

\* The rest of the chain that waited for q, once nothing else of it is under way.
ReleasesLate(p, q) == TRUE
ReleasesWhenServed(p, q) == q.ok = "ok" /\ ~Stale(p, q)
Releases(p, q) == ~Stale(p, q)
InChain(q, o) == o.chain = q.chain /\ o.epoch = q.epoch /\ o.run = q.run
Loose(p, q) ==
  IF q.chain = "start" THEN [p EXCEPT !.held.starting = FALSE]
  ELSE Prune([p EXCEPT !.held.cancelling = @ \ {q.run}])

Goes(done, q, others) ==
  LET p == done.page
      waits == \/ \E o \in others : InChain(q, o)
               \/ \E o \in done.asks : InChain(q, o)
  IN CASE q.chain = "poll" -> Then(SchedulePolling(p), done.asks)
       [] q.chain \in {"start", "cancel"} /\ ~waits /\ Releases(p, q) ->
            Then(SchedulePolling(Loose(p, q)), done.asks)
       [] OTHER -> done

\* Signing out goes on to the sign-in screen whatever the server said.
Leave(p, q) ==
  IF q.kind = "logout"
    THEN LET out == [Reset(p) EXCEPT !.leaving = "told", !.me = IF q.ok = "ok" THEN 0 ELSE @] IN
         Then(out, {Send(out, "session", NoRun, "none")})
    ELSE Then(ShowAuth(p), {})

Landed(p, q, others) ==
  IF q.kind \in {"logout", "session"} THEN Leave(p, q)
  ELSE LET done == IF q.ok = "gone" THEN Then(LoseSession(p), {})
                   ELSE IF Stale(p, q) THEN Then(p, {})
                   ELSE Noted(Take(p, q), q)
       IN Goes(done, q, others)

-----------------------------------------------------------------------------
Does(others, done) ==
  /\ page' = done.page
  /\ wire' = Put(others, done.asks)
  /\ UNCHANGED <<runVars, issued, live, faults>>

Land(q) ==
  /\ q.at = "answered" /\ LastCopy(q)
  /\ Does(wire \ {q}, Landed(page, q, wire \ {q}))
  /\ UNCHANGED todo

\* POLL_MS after polling was scheduled.
Tick ==
  /\ page.timer /\ Cardinality({q \in wire : q.chain = "poll"}) < MaxPolls
  /\ LET p == [page EXCEPT !.timer = FALSE, !.cycles = Min({@ + 1, MaxPollCycles})]
         ask == CASE p.tab = "view" -> Send(p, "detail", p.held.view, "poll")
                  [] p.tab = "dashboard" -> Send(p, "dashboard", NoRun, "poll")
                  [] OTHER -> Send(p, "runs", NoRun, "poll")
     IN Does(wire, Then(p, {ask}))
  /\ UNCHANGED todo

\* AWAIT_RUN_MS after a start that named no run.
AwaitEnds ==
  /\ page.held.awaiting
  /\ page' = [page EXCEPT !.held.awaiting = FALSE]
  /\ UNCHANGED <<runVars, serverVars, todo>>

-----------------------------------------------------------------------------
\* What the person does next.  Nobody presses anything in the moment between
\* the answer to signing out and the sign-in screen.
OnRunner == page.screen = "runner" /\ page.leaving # "told"
Visible(r) ==
  CASE page.tab = "history" -> page.held.listed[r]
    [] page.tab = "dashboard" -> page.held.board[r]
    [] page.tab = "view" /\ page.held.view = r -> page.held.detail[r]
    [] OTHER -> Nowhere

SignIn ==
  /\ page.screen = "auth" /\ issued < MaxSessions
  /\ issued' = issued + 1 /\ live' = live \cup {issued + 1}
  /\ LET p == [page EXCEPT !.screen = "runner", !.me = issued + 1,
                           !.failures = 0, !.cycles = 0]
         done == SetTab(p, p.stored)
     IN /\ page' = done.page
        /\ wire' = Put(wire, done.asks)
  /\ UNCHANGED <<runVars, faults>>

OpensTab(t) == OnRunner /\ t \in Tabs /\ Does(wire, SetTab(page, t))

OpensRun(r) ==
  /\ OnRunner /\ page.tab \in {"history", "dashboard"} /\ Visible(r) # Nowhere
  /\ Does(wire, OpenRunView(page, r))

Starts ==
  /\ OnRunner /\ ~page.held.starting
  /\ LET p == [page EXCEPT !.held.starting = TRUE] IN
     Does(wire, Then(p, {Send(p, "start", NoRun, "start")}))

Cancels(r) ==
  /\ OnRunner /\ r \notin page.held.cancelling /\ Active(Visible(r))
  /\ LET p == [page EXCEPT !.held.cancelling = @ \cup {r}] IN
     Does(wire, Then(p, {Send(p, "cancel", r, "cancel")}))

\* The Refresh buttons of History, the Dashboard, a run's console and the reports.
Refreshed ==
  /\ OnRunner
  /\ Does(wire,
       CASE page.tab = "history" ->
              LET p == [page EXCEPT !.cycles = 0, !.failures = 0] IN
              Then(p, {Send(p, "runs", NoRun, "poll")})
         [] page.tab = "dashboard" -> Then(page, {Send(page, "dashboard", NoRun, "none")})
         [] page.tab = "view" -> LoadLogs(page, page.held.view)
         [] page.tab = "reports" -> LoadReport(page)
         [] OTHER -> Then(page, {}))

Hides ==
  /\ ~page.hidden
  /\ page' = [page EXCEPT !.hidden = TRUE, !.timer = FALSE]
  /\ UNCHANGED <<runVars, serverVars>>

ComesBack ==
  /\ page.hidden
  /\ LET p == [page EXCEPT !.hidden = FALSE]
         fresh == [p EXCEPT !.cycles = 0, !.failures = 0]
     IN Does(wire,
          IF p.screen # "runner" THEN Then(p, {})
          ELSE IF p.tab = "dashboard" THEN Then(fresh, {Send(fresh, "dashboard", NoRun, "poll")})
          ELSE IF p.tab = "history" THEN Then(fresh, {Send(fresh, "runs", NoRun, "poll")})
          ELSE Then(SchedulePolling(fresh), {}))

SignsOut ==
  /\ OnRunner /\ page.leaving = "no"
  /\ LET p == [page EXCEPT !.timer = FALSE, !.leaving = "asked"] IN
     Does(wire, Then(p, {Send(p, "logout", NoRun, "none")}))

Deeds(act) ==
  \/ act = <<"sign in">> /\ SignIn
  \/ \E t \in Tabs : act = <<"tab", t>> /\ OpensTab(t)
  \/ \E r \in RunId : act = <<"open", r>> /\ OpensRun(r)
  \/ act = <<"start">> /\ Starts
  \/ \E r \in RunId : act = <<"cancel", r>> /\ Cancels(r)
  \/ act = <<"refresh">> /\ Refreshed
  \/ act = <<"hide">> /\ Hides
  \/ act = <<"come back">> /\ ComesBack
  \/ act = <<"sign out">> /\ SignsOut
  \/ act = <<"session ends">> /\ (\E n \in live : EndSession(n)) /\ UNCHANGED page
  \/ act = <<"time">> /\ TimePasses /\ UNCHANGED <<serverVars, page>>
  \/ \E flow \in Flows, by \in People :
       act = <<"colleague", flow, by>> /\ ColleagueStarts(flow, by) /\ UNCHANGED page

Act == todo # <<>> /\ Deeds(Head(todo)) /\ todo' = Tail(todo)

-----------------------------------------------------------------------------
ServerStep(q) == Serve(q, MyFlow, Me) /\ UNCHANGED <<page, todo>>
Next ==
  \/ Act \/ Tick \/ AwaitEnds
  \/ \E q \in wire : Land(q) \/ ServerStep(q) \/ (Fails(q) /\ UNCHANGED <<page, todo>>)
  \/ RunsStep /\ UNCHANGED <<serverVars, page, todo>>

Spec == Init /\ [][Next]_vars

\* What is under way moves on, each kind of chain by itself, and a timer fires.
\* Neither the person at the page nor the runs owe anything.
UnderWay(c) == \E q \in wire : q.chain = c
Moves(c) == \E q \in wire : q.chain = c /\ q \notin wire'
FairSpec ==
  /\ Spec
  /\ WF_vars(Tick)
  /\ \A c \in Chains : []<>~UnderWay(c) \/ []<><<Moves(c)>>_vars

-----------------------------------------------------------------------------
Logs == [fetched : BOOLEAN, loading : BOOLEAN, final : BOOLEAN, shows : Texts, entry : Nat]
Held ==
  [view : RunId \cup {NoRun}, starting : BOOLEAN, awaiting : BOOLEAN,
   cancelling : SUBSET RunId, loaded : SUBSET Tabs,
   listed : [RunId -> Statuses], board : [RunId -> Statuses], detail : [RunId -> Statuses],
   logs : [RunId -> Logs], results : [RunId -> Texts \cup {"loading", "failed"}],
   report : Nat, mine : SUBSET RunId, from : SUBSET Nat]
Page ==
  [screen : {"auth", "runner"}, leaving : {"no", "asked", "told"}, epoch : Nat,
   me : Nat, tab : Tabs \cup {"view"}, stored : Tabs, hidden : BOOLEAN, timer : BOOLEAN,
   cycles : 0..MaxPollCycles, failures : Nat, ticket : Nat, held : Held]

TypeOK ==
  /\ RunsTypeOK /\ ServerTypeOK
  /\ page \in Page /\ page.me <= issued
  /\ page.timer => page.screen = "runner" /\ ~page.hidden

\* Whatever was in flight when somebody left, the page shows the person who is
\* signed in only what was fetched in their own session, as long as nobody shows
\* the page again or signs in between the answer to a sign-out and the sign-in
\* screen (Settles).
NothingOfAnother == page.screen = "runner" => page.held.from \subseteq {page.me}

Current(kinds, chain, r) ==
  \E q \in wire : q.epoch = page.epoch /\ q.chain = chain /\ q.run = r /\ q.kind \in kinds

\* Start is locked as long as a start of this session is under way, and a run's
\* Cancel as long as its cancel is: no answer to an older session unlocks it, and
\* nothing is sent twice.
ButtonsHold ==
  page.screen = "runner" =>
    /\ Current(Kinds, "start", NoRun) => page.held.starting
    /\ \A r \in RunId : Current(Kinds, "cancel", r) => r \in page.held.cancelling

\* The report on screen is never replaced by the answer to an older choice.
LatestChoiceStays ==
  [][page'.epoch = page.epoch => page'.held.report >= page.held.report]_vars

\* A run that is live on the run page is polled: the timer is set, or an answer
\* is awaited that sets it again, unless failures have stopped the polling and the
\* success of a list that is no longer in front starts the count afresh.
WatchedIsPolled ==
  page.tab = "view" /\ PollingWanted(page) /\ page.leaving = "no" =>
    page.timer \/ \E q \in wire : q.chain # "none"

\* While its own dispatch is a run already, a start names a run titled for the
\* same flow and person; it never names one from before the dispatch.
OwnRunFirst ==
  [][\A q \in wire : q.at = "looking" /\ q \notin wire' =>
       \A a \in wire' : a.dispatch = q.dispatch /\ a.at = "answered" /\ a.data.named # NoRun =>
         /\ runs[a.data.named].born >= q.since - Skew
         /\ (\E o \in RunId : Born(o) /\ runs[o].dispatch = q.dispatch)
              => a.data.named \in Titled(MyFlow, Me)]_vars

\* A run that is over is shown so on its page, as long as it stays in front.
EndIsShown ==
  \A r \in RunId :
    page.held.view = r /\ Over(runs[r]) ~>
      \/ page.held.detail[r] = "completed"
      \/ page.held.view # r \/ page.hidden \/ page.leaving # "no"
      \/ page.failures >= MaxPollFailures

\* Somebody is sent back to the sign-in screen only by signing out, or because
\* their own session is over: "no handler may touch state or the DOM once the
\* session it belongs to is gone".
OnlyTheirOwnLoss ==
  [][page.screen = "runner" /\ page'.screen = "auth" =>
       page.leaving # "no" \/ page.me \notin live]_vars

\* Start and Cancel come back, whatever becomes of the request, unless the page
\* goes to the sign-in screen first.
ButtonsComeBack ==
  /\ page.held.starting ~> ~page.held.starting \/ page.screen = "auth"
  /\ \A r \in RunId :
       r \in page.held.cancelling ~> r \notin page.held.cancelling \/ page.screen = "auth"

\* What the page shows is so: nothing of another's, no verdict the runs deny.
ShowsWhatIsSo == NothingOfAnother /\ VerdictsAreTrue

\* The page keeps up with what it has under way: its buttons hold, and a run
\* that is live on its page is polled.
KeepsUp == ButtonsHold /\ WatchedIsPolled

\* What was asked for is what comes: a start names its own run, and a report is
\* the latest chosen.
OwnAnswers == OwnRunFirst /\ LatestChoiceStays

\* Nothing is left hanging: the end of a run is shown, and buttons come back.
NothingHangs == EndIsShown /\ ButtonsComeBack

-----------------------------------------------------------------------------
\* What the properties rest on.  What is asked of a run, said of it and shown of
\* it is there, and who is on the run page has one in front.
KnownRuns ==
  /\ \A q \in wire :
       /\ q.run # NoRun => Born(q.run)
       /\ q.kind \in {"detail", "logs", "results", "cancel"} => q.run # NoRun
       /\ \A r \in RunId : q.data.list[r] # Nowhere => Born(r)
       /\ q.data.named # NoRun => Born(q.data.named)
  /\ page.held.view # NoRun => Born(page.held.view)
  /\ \A r \in RunId :
       page.held.listed[r] # Nowhere \/ page.held.board[r] # Nowhere => Born(r)
  /\ page.tab = "view" /\ (page.timer \/ OnRunner) => page.held.view # NoRun

\* What was read of a run that is over stays so.
VerdictInv ==
  \A q \in wire : q.kind = "detail" =>
    LET run == runs[q.run] IN
    /\ q.data.status = "completed" => Over(run) /\ q.data.conclusion = Conclusion(run)
    /\ q.data.jobs # {} => Over(run) /\ q.data.jobs = Jobs(run)

\* What a request goes on with, and when it was sent.
ChainInv ==
  /\ \A q \in wire :
       /\ q.epoch <= page.epoch
       /\ q.chain = "start" => q.run = NoRun
       /\ q.kind = "detail" => q.chain # "none"
       /\ q.kind = "cancel" => q.chain = "cancel"
       /\ q.kind = "start" => q.chain = "start"
  /\ page.held.report <= page.ticket

\* No two requests made one dispatch, and what it became is this page's.
Ours(d) == d.flow = MyFlow /\ d.by = Me
DispatchInv ==
  /\ Dispatched <= Cardinality(RunId)
  /\ \A r \in RunId : Born(r) => runs[r].dispatch <= Dispatched
  /\ \A d \in accepted : d.dispatch <= Dispatched
  /\ \A q \in wire :
       /\ q.dispatch <= Dispatched
       /\ q.at = "looking" =>
            /\ q.kind = "start" /\ q.dispatch > 0 /\ q.since <= clock
            /\ \A d \in accepted : d.dispatch = q.dispatch => Ours(d)
            /\ \A r \in RunId : Born(r) /\ runs[r].dispatch = q.dispatch =>
                 Ours(runs[r]) /\ runs[r].born >= q.since
       /\ \A a \in wire : a.dispatch = q.dispatch /\ q.dispatch > 0 => a = q

\* A button is locked by every request of the epoch that it waits for, whichever
\* screen is shown.
ButtonsInv ==
  \A q \in wire : q.epoch = page.epoch =>
    /\ q.chain = "start" => page.held.starting
    /\ q.chain = "cancel" => q.run \in page.held.cancelling

PageInv ==
  TypeOK /\ KnownRuns /\ VerdictInv /\ ChainInv /\ DispatchInv /\ ButtonsInv

\* Nobody shows the page again or signs in while it asks who is signed in after
\* somebody has left.
Leaving == \E q \in wire : q.kind = "session"
Settles == [][Leaving => UNCHANGED <<page.hidden, issued>>]_vars

\* As long as that is so, nothing of the one who left is on its way to the next.
OwnInv ==
  IF page.screen = "auth" \/ Leaving
    THEN /\ page.screen = "auth" \/ page.leaving = "told"
         /\ page.held = Fresh /\ ~page.timer
         /\ \A q \in wire : q.epoch = page.epoch => q.kind = "session"
    ELSE /\ page.held.from \subseteq {page.me}
         /\ \A q \in wire : q.epoch = page.epoch => q.session = page.me

\* While failures have not stopped it, the polling of a run that is live on its
\* page goes on with this epoch's answers.
WatchInv ==
  page.tab = "view" /\ PollingWanted(page) /\ page.leaving = "no" =>
    \/ page.timer
    \/ \E q \in wire : q.chain = "poll" \/ (q.chain # "none" /\ q.epoch = page.epoch)
=============================================================================
