# Agents-Playground, verified

TLA+ modules, TLC configurations and TLAPS proofs about the programs of the
Agents-Playground repository. The modules are translated from the source in
`src/`; `PROJECT.json` maps every definition to the lines it stands for.

## 1. The system

The repository holds several programs that share a process or a repository but
little state.

| Part | Code | State | Operations | Hard behaviour |
|---|---|---|---|---|
| Bank: money | `bank/money.js`, `bills.js`, `db.js`, `routes.js` | accounts, transfers, bill payments, history rows in Postgres | transfer, pay a bill, add funds, open an account | interleaved transactions under READ COMMITTED, idempotency keys, deadlock, lost connections |
| Bank: scheduled payments | `bank/schedule.js` | schedules, the customer's clock | create, cancel, sweep, move the clock | several sweeps at once, a sweep is many statements, catching up on missed periods |
| Bank: orders and alerts | `bank/exchange.js` | limit orders, alerts | create, cancel, sweep | claim before trade, the way back after an error, the page of orders a sweep reads |
| Bank: coins | `bank/trading.js`, `wallet.js`, `coins.js`, `market.js` | quotes, holdings, trades, sends, swaps | quote, fill, send, swap | quote used once and for 15 s, holding read before it is changed |
| Bank: money requests | `bank/requests.js` | requests | ask, pay, decline, cancel | paid once, pending cap |
| Bank: loans | `bank/loans.js` | loans, instalments | ask, decide | decided once, four eyes, rounding |
| Bank: cards | `bank/cards.js` | cards, charges | charge, limit, freeze | daily limit under concurrent charges, who may unfreeze |
| Bank: sign-in and staff | `bank/auth.js`, `accounts.js` | users, sessions, holds | sign in, change password, lock, promote | hold after five failures, sessions against locks |
| Bank: API keys | `bank/keys.js` | keys, minute counters | create, revoke, count | caps and windows |
| Bank: support, notifications | `bank/support.js`, `notify.js` | tickets, notifications | open, reply, solve, read | stale rows |
| Bank: GraphQL | `bank/graphql.js` | none of its own | the same functions again, several in one document; lists in pages | a document stops in the middle; rows land between pages; price of a query |
| Test runner: gate, limiter | `test-runner/src/limiter.js` | slots, queue, buckets | take, run | FIFO hand-over, bounds |
| Test runner: accounts | `test-runner/src/auth.js`, `store.js` | accounts file, sessions and lockouts in memory | sign up, sign in, reset, delete, change role | state read before an await and used after it |
| Test runner: dispatch | `test-runner/src/github.js` | dispatched runs, caches | start, match, cancel, classify | matching a dispatch with a run listed later |
| Demo site | `server.js`, `practice.js` | users and edits, sessions, planted faults by run key, orders that fail once, in memory | JSON API, test hooks, practice mode | checked before the body comes, written after it; visitors and parallel tests over the same maps |
| Web front end | `web/src/` (`useMoney.ts`, `useBankSession.ts`, `pages/`, API clients) | a cache of queries, forms | show, change, mark what is old, sign in and out, check and pay | answers that are older than the change before them; an account that changes while queries are on their way; a payment sent again |
| Test runner: page | `test-runner/public/app.js` | session epoch, polls, tabs in the browser | sign in and out, start, cancel, watch a run, open a report | answers that arrive late, in any order, or never |
| Framework: agents | `framework/agents/`, `framework/policy/`, `scripts/` for bugs | incident memory, bug records, index, evidence folders in files | recover, validate, diagnose, repair, report a bug | several processes over the same files, a process killed between two writes |
| Scripts, infrastructure | `scripts/`, `terraform/`, `k8s/` | files | command line | one process each |

**How they interact.** A bank request goes through `route` in `bank/routes.js`:
the user is found, then `schedule.runDue` and `exchange.sweep` run for that
user, then the API-key checks, then the handler. So every request of a customer
is also a sweep, and the sweeps of two requests run at the same time. Sweeps
pay through `bills.payBill` and trade through `trading.quoteTrade` and
`trading.fillQuote`. Everything the bank keeps is in Postgres, reached through
`db.query` (one statement, committed at once) and `db.transaction`. Notifications
are rows written by `notify.js`, inside the caller's transaction or on their own.
The test runner is another server with its state in memory and in an accounts
file; it starts GitHub workflows and reads what GitHub says of them, and its page
asks it again and again until a run is over. The demo site is a third server with
everything in memory; it also serves the front end's pages, which call the bank. The framework runs inside Playwright's worker processes; what its agents learn and
report they share through files.

**What makes each part correct**, and what is stated about it:
no account is overdrawn, a key pays once, histories explain balances, answers are
true (money); a period is paid at most once and never passed over in silence
(schedules); an order is filled at most once, within its limit unless the customer's own
trades move the price meanwhile, and is not forgotten while there is room for it on the page of orders a sweep reads
(orders); a quote is used once and holdings never go below zero
(coins); a request is paid once (requests); a loan is decided once (loans); the daily limit holds (cards); five failures put a hold and a
locked customer has no session (sign-in); at most N run at once, in order, and
nobody waits for ever (gate); a reset ends what a person holds and an
administrator remains (accounts); a dispatch shows its own run (dispatch); the
page shows the runs of the person signed in, as they are, and its buttons come back (page);
what a page shows is what the customer's own changes made of it and nobody else's, and what was checked is paid once (front end);
both doors of the bank do the same, and a history read in pages leaves nothing out (GraphQL); one visitor's users and
planted faults are not another's (demo site);
an agent acts only where the policy lets it, and a confirmed bug is filed once with its
evidence (agents).

## 2. Modules

| Module | What it is |
|---|---|
| `BankLedger` | what the bank promises about money: one atomic posting after another |
| `BankMoney` | transfers, bills and deposits, one step per SQL statement |
| `BankMoneyProofs` | theorems about `BankMoney` |
| `Calendar` | dates, weekends and repeats (pure operators) |
| `RepeatDates` | the due dates of one schedule, one after the other |
| `ScheduledPayments` | schedules, the customer's clock and the sweeps that pay |
| `ScheduledProofs` | theorems about `ScheduledPayments` |
| `CoinOrders` | limit orders, alerts and the sweeps that fill and fire them |
| `OrdersProofs` | theorems about `CoinOrders` |
| `DeskRows` | what the bank's other handlers share: requests, accounts, row locks, notices, failures |
| `Cards`, `MoneyRequests`, `Loans`, `Support`, `Trades`, `BankAccess` | one handler family each, over `DeskRows` |
| `BankDesk` | their composition: any of them at once over the same rows |
| `DeskProofs` | theorems about `BankDesk`: what one step may change, types, the order of requests; what is done once and told; what is allowed and stopped; sums over finite sets; what is in every account and holding |
| `BankDoors` | the REST handlers and the GraphQL mutations as sequences of checks before the same change |
| `GraphqlReads` | depth and cost of a query over the schema; a history read in pages |
| `Gate` | the semaphore of the test runner: slots, queue, hand-over |
| `RunnerAuth` | accounts, sign-in and administration of the test runner, through the gate |
| `RunnerAuthProofs` | theorems about `Gate` and `RunnerAuth` |
| `GitHubRuns` | what GitHub does with a dispatch (external) |
| `RunnerDispatch` | the runner's routes over it: start, match, list, read, cancel |
| `RunnerPage` | the browser page over those routes |
| `RunnerPageProofs` | theorems about `RunnerPage` with the routes and GitHub under it |
| `AgentRules` | classifying a failure, and what the policy allows (pure operators) |
| `Incidents` | the router: recovery chains, validation, memory, repair |
| `BugReports` | bug records, their index and evidence, from concurrent commands |
| `AgentsProofs` | theorems about `Incidents`, `BugReports` and the policy, as `MCTestAgents` runs them |
| `QueryCache` | one query of TanStack Query's cache (external, as the front end uses it) |
| `WebPages` | tables: what each API call reads or changes; what each page shows, does and marks |
| `WebApp` | one query followed from page to page while the customer changes what it shows |
| `WebSession` | two customers at one browser |
| `WebForms` | payments that are checked and then confirmed |
| `DemoSite` | the demo site's server: users, sessions, flags by run key, practice, orders, resets |
| `WebProofs` | theorems about `WebApp`, `WebSession`, `WebForms` and `DemoSite`, as `MCWeb` runs them |
| `MC*` | instances of the above for TLC: `MCSchedule` takes `RepeatDates` and the sweep, `MCBank` the desk, doors and reads, `MCTestAgents` incidents, reports and policy questions, `MCWeb` the front end and the demo site |

### BankMoney

A request is a process. `pc` is the SQL statement it runs next, `call` what it
asks for, `answer` what the customer was told. `bal`, `hist` and `posted` are the
committed rows of `bank_money_accounts`, `bank_transactions`, and
`bank_transfers`/`bank_bill_payments`; `lock` says which open transaction holds an
account row. A transaction's writes become visible in `Commit`, so an open
transaction is its `pc`, its `call` and its locks. `Debit` follows Postgres: an
`UPDATE ... WHERE balance_cents >= $2` waits for a row that meets its condition
and asks again after waiting; `Record` waits for an uncommitted row with the same
key and fails (23505) on a committed one. `DeadlockVictim`, `ConnectionLost` (a
COMMIT whose answer is lost may have happened) and `ServerStops` are the failures
the code handles with ROLLBACK or not at all. A call's `race` says whether it meets the
repository's own planted fault `bankTransferRace`, which is a setting of the session that
sends it; the properties hold for requests without it beside requests with it.

A customer's retry is another request with the same call.

### ScheduledPayments

`schedule` holds status, period, runs and last result of each schedule;
`DueOn[s][k]` is its k-th due date, so `next_due` is the number k. How dates follow
each other is `Calendar` and is checked by `RepeatDates`, in the same run. A request is a record:
its statement, the today it read, the copies of schedules it selected, and the
result in hand. `payBill` is two steps: the look-up of the key, and its
transaction, which `BankMoney` shows to be one step of the ledger. Requests are
used again and again: a customer who comes back.

### CoinOrders

One coin of one customer. The price is `base`, a function of time only, plus
`push`, what the customer's own trades add; `base` is fixed when the request
starts, `push` is read when the code reads it. Amounts are small enough for the
fee to round to nothing. A request keeps in `counted` how many trades there were when it read the price;
the code keeps no such thing, and only `FillsWithinLimit` reads it. `fillQuote` is one step, except that two of them can
collide (`FillCollides`) because the holding is read before it is changed;
its statements are in `Trades`, and what they leave in balances and holdings is asked there
(`BooksAreExplained`), not of `CoinOrders`.

### The bank's desk

`DeskRows` is the part every handler has: `pc` (the statement a request runs
next), `call`, `outcome`, the committed balances, `lock` (the open transaction that
holds a row, of any table), `notices` with the request that wrote them, and the failures: a
statement that fails, a deadlock's victim, a lost connection, a server stop. Each of the six modules adds its
own tables and, per statement of its handlers, one action: a
count before an insert is two actions, a `SELECT ... FOR UPDATE` takes a lock, an
`UPDATE ... WHERE status = ...` takes it and asks again, a write outside a
transaction is committed at once. Writes inside a transaction become visible at its
last statement.

- `Cards`: issue (counted first), change the limit, freeze by the customer or the bank, charge: the
  sum of the day, the decision, the debit.
- `MoneyRequests`: ask, pay (claim, key, both balances, history), decline, cancel, and a plain transfer beside
  them for the key they share.
- `Loans`: apply (counted first), decide under the row's lock, pay out.
- `Support`: open, reply from both sides, solve.
- `Trades`: fill a quote (claim, cash, holding read and then changed or inserted), send coins, swap.
- `BankAccess`: register with its accounts, sign in against the hold, sign out, stop
  and start a customer, open an account, make and revoke a key, call with a key within its minute.

A request is `Handle(r)`. A scene, a member of `Plan`, says what each request asks; every order of their statements
and failures follows. `PlanAssumption` is what the routes let through: ids that exist, amounts
above zero (of a trade, the coin that leaves and the coin that arrives), a swap between holdings of one customer,
two staff words for a status. Ids, keys and sessions that a request makes are drawn by the database or at random, so no two
requests make the same one, and a session's requests name the log-in or sign-up that opens it.

`before[r]` is the set of requests that were over when r began. It is a history variable that no handler reads;
`Met` (neither was over when the other began) and `InTurn` (of those that have begun, no two have met) are said with it.

### The two doors

`BankDoors` writes every mutating REST handler and every GraphQL mutation as the tuple of checks it makes before it
calls the shared module (`RestTransfer`, `GraphqlTransfer`, ...). A document is a sequence of operations; at one door it is a
request per operation, at the other one document that `Resolves` an operation after the other and stops at the first
that fails, with null data and the earlier changes done. `Elsewhere` is what another request may do in between.
`DoorsAgree` compares what the books hold and which check refuses.

`GraphqlReads` has the schema as a table of the fields that lead on, `Depth` and `SelectionCost` as `graphql.js` computes
them, and the paged readers: `PageAfter` is a page after a cursor, over rows that may land with a time before it.

### The front end

`QueryCache` is external: held data, whether it counts as old, a fetch under way, its answer. `WebPages` says for each
component which queries it shows, what it lets the customer do, and which queries it marks afterwards (`useMoney.ts` and the
handlers of the pages). `WebApp` follows one query: the server's record is known by how many of the tab's changes it holds,
so that an answer older than a change is told from a newer one. `WebSession` follows two queries, `me` and one of
the customer's own, over sign-in and sign-out. `WebForms` is check, confirm, lose the answer, confirm again, with the key
made where the code makes it.

### The demo site

`DemoSite` has one record `site` for `runtimeState`. A handler runs to where it waits for its body or sleeps
(`Waits`, which keeps what it read before) and then to its end. A user is a number, who made it and who edited it last; a
flag's value is looked up by run key, then for everybody, then the default.

### Gate and RunnerAuth

`Gate` is `createGate`: `active` and `waiting` are its two variables, `caller`
says where each caller is. `RunnerAuth` extends it; a caller is a request. `account`
is the accounts file, `session`, `wrong` and `brake` are the maps in memory
(sessions, failures by name and address, failures by name). A record at its
threshold is blocked: the code sets its count to zero then, and the block
ends when the count would be forgotten. Node runs a handler without interruption
to its next `await`, so one action is one stretch between awaits: the body of an
administrative request, and the password derivation, which waits for a slot.
`Ends`, `EndsAtOnce` and `Derives` are how a handler goes on. What is read
before an await and used after it is kept in the request: `hash` at sign-in, and
for administration the mere fact that `requireAdmin` was passed.

A sign-in that was being checked while its account was reset or deleted still gets
a session, because `login` does not read the account again; such a session is
marked `late`, and `SessionsAreCurrent` is about the others.

Left out: accounts declared in `TR_USERS` (no request changes them, and an
administrator among them would only make `AdminRemains` easier), an accounts file
that cannot be read, spellings of one name, and the token buckets, which are a
refusal at any time (`Refused`).

### The runner's page

`GitHubRuns` is external: runs appear some time after their dispatch, are listed late, move on and
end, in any order. `RunnerDispatch` is the server: a start remembers what was listed, dispatches,
looks `Lookups` times for a run it can take for its own, and answers without one if there is none;
the other routes read or cancel. `RunnerPage` is the page. `page` is the record of its state: the
screen, the epoch that signing out and losing a session raise (`Reset`), who is signed in, the tab, the polling timer with
its counts, and in `held` what signing out drops: the run in front, the lists, details, logs and reports
fetched, the locked buttons. `wire` is the set of requests under way, each with the epoch and the session it was sent
in and the chain of the page that goes on when it is answered (`Goes`); `copy` tells equal ones apart. The server handles one in a
step (`Serve`; a start needs several), and the page takes answers in any order (`Land`). `Take...` is what the handler
does with one: 401 first, stale epoch next, the rest after. `Fails` loses or fails a request, `EndSession` ends a session on the
server. `todo` is what the person at the page and those around it still do, one deed after another.

### The agents

`AgentRules` are functions: classification by what a failure says, the chain of
strategies for a category, `PolicyEngine.evaluate` per environment. `Incidents` routes one incident per
worker: diagnose, ask the memory, try each strategy that the policy allows, validate, remember,
propose a repair. The page under test breaks again, drifts or heals between steps. `memory` is the file: a write is its
read, its change and its write, and a stop in between leaves what was written. `BugReports` is the
command line: looks that confirm a failure, the record and the index that are two files, the evidence that is moved
file by file. `MCTestAgents` runs both, and asks the policy every question while neither goes on. `PatchesAreForReview` does not say that
a failing server is never patched: a dialog or a place that went wrong is found first (`FailureClassifier` rules 3 and 4), whatever the API answered.

## 3. Runs

| Run | Configuration | Question | Result |
|---|---|---|---|
| `money` | `BankMoney.cfg` | Are balances, histories, keys and answers right however three requests interleave, does it implement the ledger, is every request answered? | holds |
| `scheduled` | `ScheduledPayments.cfg` | Two sweeps at once, failures and a stop: paid once, told always, forward only? Do due dates keep their day and skip nothing? | holds |
| `scheduled_live` | `ScheduledLive.cfg` | Is what is due dealt with in the end? | holds |
| `coin_orders` | `CoinOrders.cfg` | Two sweeps at once and a stop: filled once, within its limit, settled, told? | holds |
| `coin_orders_live` | `CoinOrdersLive.cfg` | Is a reached order not forgotten, as long as a sweep's page has room for it? | holds |
| `coin_orders_twice` | `CoinOrdersTwice.cfg` | Filled once, when a statement fails? | violated |
| `desk` | `BankDesk.cfg` | Cards, money requests, loans, tickets, trades and sign-in at once: books explained, caps, stops, once and told, served? Do REST and GraphQL do the same? Are queries priced, and histories read, whole? | holds |
| `runner_auth` | `RunnerAuth.cfg` | Sign-in, sign-up, reset, demotion and deletion at once: is the gate kept, does an administrator remain, do sessions end, do owners get in, is everyone answered? | holds |
| `runner_page` | `RunnerPage.cfg` | Late, lost and reordered answers: does the page show what is so, keep polling, and come back? | holds |
| `page_late401` | `RunnerPageLate401.cfg` | Does only the loss of one's own session send one to the sign-in screen? | violated |
| `agents` | `TestAgents.cfg` | Workers and commands over the same files, killed at any step: hands off, memory kept, bugs filed once? | holds |
| `web` | `Web.cfg` | Does the front end show what its customer's changes made, to that customer only; is what was checked paid once; do buttons come back? Do the demo site's visitors leave each other alone? | holds |

Most runs check a few composite properties. Their parts are definitions of their own in the modules:

| Composite | Parts |
|---|---|
| `BooksAreRight` | `NoOverdraft`, `HistoryRuns`, `PaymentsHaveTheirRows`, `KeyPaysOnce`, `AnswersAreTrue`, `OnlyOwnersSpend` |
| `BooksAreExplained` | `MoneyIsExplained`, `CoinsAreExplained`, `EmptyCostsNothing`, `SwapsCostNothing` |
| `CapsHold` | `LimitHoldsInTurn`, `AskCapHoldsInTurn`, `LoanCapHoldsInTurn`, `CapsHoldInTurn`, `RateHolds` |
| `StopsStand` | `FrozenBuysNothing`, `StoppedMeansStopped`, `LockEndsSessions`, `HoldStandsInTurn` |
| `DoneOnceAndTold` | `AnsweredOnce`, `KeyPaysOnce`, `DecidedOnce`, `StartersOnce`, `ShowsTheLastWord`, `ToldOfEveryAct` |
| `GateIsKept` | a step of `Gate`, `SlotsAreSafe`, nobody barges |
| `ShowsWhatIsSo`, `KeepsUp` | `NothingOfAnother`, `VerdictsAreTrue`; `ButtonsHold`, `WatchedIsPolled` |
| `OwnAnswers`, `NothingHangs` | `OwnRunFirst`, `LatestChoiceStays`; `EndIsShown`, `ButtonsComeBack` |
| `StaysInBounds` | `HandsOff`, `StopsAtTheFirst`, `MitigatedWasSeen`, `PatchesAreForReview`, `ProductionIsStrictest` |
| `RecordsAreKept` | `MemoryServes` (`RememberedInTurn`, `AdviceWorked`), `BugsAreFiled` (`FiledWhenConfirmed`, `FiledOnceInTurn`, `EvidenceIsKept`) |
| `PaidOnceAndTold` | `PaidAtMostOnce`, `EveryPeriodIsTold` |
| `PagesAreTrue` | `ShownIsSo`, `NothingOfAnother`, `SaysWhoItIs` |
| `AgentInv` | `IncidentInv` and `BugInv`: the types and the inductive invariants of the two |
| `WebInv` | `AppInv`, `SessionInv`, `FormInv`, `DemoInv`: the types and the inductive invariants of the four |
| `DoorsAgree` | `SameAtBothDoors`, `HowFarIsTold` |
| `ReadsAreWhole` | `EveryRowOnce`, `AnswersAreBounded` |
| `SharedInPeace` | `UsersKeepTheirOwn`, `FailsOnce`, `OthersUntouched` |

A name that ends in `InTurn` says what holds when the requests it is about do not overlap: the code counts
before it writes, without a lock, so two at once may both pass. The divergences below say which. The order meant is
that of the requests themselves: it does not matter what other requests do beside them.

### Violations

Two runs show something a comment of the repository says and the code does not keep;
`PROJECT.json` quotes the line. `coin_orders_twice`: an error after the trade puts the order back, and it is
filled again. `page_late401`: a 401 that answers a request of the session before is looked at before its
epoch is, and drops the session of whoever has signed in since.

More of the kind were met while modelling. They are written into the models as the code has
them, and the properties say what holds nevertheless.

Bank:
- `payBill` looks its key up before it pays (`schedule/bills.js:150` through a sweep): two sweeps look, the first pays, the second finds the balance
  short and tells the customer that a payment was skipped that was made; after a stop before the first one's notification that is all the customer hears.
- An order is held against one price and filled at a quote made later, and the limit is not asked again (`exchange.js:293`): a
  trade of the customer's own in between, the first fill of the same sweep included, moves the price past it, and so does pressure that
  has faded. `FillsWithinLimit` names these (`MovedAgainst`); without that exemption TLC breaks it.
- A sweep reads the oldest 50 open orders before it looks at prices; 50 that are out of reach hide the others for good
  (`exchange.js:271`). `NoOrderIsForgotten` is about orders with fewer than `MaxFills` such older ones (`OutOfReach`); without that
  condition TLC breaks it.
- A stop between the claim and the trade leaves an order shown as filled that never traded (`Settled` says what holds without a stop).
- Two moves of the customer's clock pass the same check and go past its limit (`schedule.js:115`).
- Two charges at once pass a card's daily limit (`cards.js:214`); two requests at once pass the caps on pending
  money requests, loans, accounts and keys.
- A card the bank froze can be frozen again by the customer, and then unfrozen (`cards.js:150`).
- Paying a money request with a key that paid something else is answered "already answered".
- Freezing a card and changing a customer as staff write their notification in a statement of its own.
- A failed sign-in that passed the hold check earlier clears a hold set meanwhile (`accounts.js:258`); a sign-in
  under way while the customer is stopped leaves a session that works again once the customer is started.
- A customer whose registration breaks after the user row has no accounts until the server starts again.
- Two first purchases of one coin: one fails on the inserted row and is answered as an error; a cost is taken from a
  holding read before its lock (`wallet.js:276`).

Test runner:
- A dispatch that finds no run of its own flow and person takes the first candidate (`github.js:1966`).
- A dashboard opened before the runs are loaded is not polled, and failures counted on another tab may stop its polling for good.
- An older detail answer that arrives late shows a run as active again until the next poll.
- After a sign-out the page asks who is signed in before it shows the sign-in screen (`app.js:936`). If the tab is hidden and
  shown again meanwhile, it loads the list in the epoch that the next person signs in with, and `stale` lets it in; so it is
  for a sign-in while that question is under way. `NothingOfAnother` holds when neither happens (`Settles`).
- After `MAX_POLL_FAILURES` failures polling stops; the late success of a list asked for on another tab sets the count to
  zero (`app.js:6578`) on the page of a run and does not schedule polling again: `WatchedIsPolled` ends there.
- A late 401 during sign-out can leave the Start button held.

Agents:
- The repair stage asks the policy with the environment as given, not as resolved (`IncidentRouter.ts:163`).
- Page objects heal their own clicks without asking the policy (`SelfHealingPage.ts:62`).
- The chain for changed UI contracts has no validation step.
- Two workers read, change and write the memory file: one record is lost; a write cut short empties it (`IncidentMemoryStore.ts:48`).
- Two commands take the same bug number; a stop between record and index gives a number out again; a cut index restarts
  the numbers; evidence half moved stays behind.

GraphQL (`graphql.js:36` says that both doors "always agree because they call the same code"; `NotLookedAt`, `NotNamed`
name where `DoorsAgree` lets them differ, the rest is about data the model leaves out):
- The market and coin queries price without the customer's own pressure, so they differ from REST's.
- A memo sent with coins is neither trimmed nor limited; the planted faults of memo length and loan rounding are not looked at;
  a history with a minimum above its maximum is not refused.
- Errors of trades, quotes and unknown coins come as SERVER_ERROR where REST names them, those of the wallet as
  VALIDATION_FAILED where REST says VALIDATION, and a read-only key that manages keys is told it is read-only.
- Payments take no idempotency key: a document sent again pays again.
- The sweeps run before a key is refused for its rate.
- The cost counts every plain list as ten rows though several return more. A page size that is a variable's own default is
  priced as twenty rows whatever the default is, and a negative one takes from the price of the rest (`graphql.js:2315`).
  `AnswersAreBounded` is about pages asked for in place or not at all (`AsksInPlace`).

Web front end:
- A query of the customer before, in flight at sign-out, clears the mark when it lands: another's data can count as fresh for
  a minute (`useBankSession.ts:36` clears the cache for this reason). `WebSession` exempts it by name.
- A sign-out that fails leaves the cookie valid. An older save of the profile whose answer lands last shows the old one.
- A reply shown on a ticket is overwritten by a poll asked before it; ticket lists and one's own notices wait for a timer
  (`LeftToTime`).
- Reviewing again after a lost answer, or opening the pay dialog again, makes a new key; forms without a key pay or ask again.
- A trade quote that arrives late is shown again (`TradePanel.tsx`).

Demo site:
- Practice mode arms `rbacBug` with `true` (`practice.js:27`); the server looks for `editor-delete`, so that fault is never armed.
- An edit that waits for its body over a reset lands on whoever gets the number next; rights are checked before the body, so
  a create or edit is written for a visitor who has signed out meanwhile, or on a user deleted meanwhile (`server.js:1008`).
- The time a session expires is written and never read. Clearing flags without a run key resets everything.
- After practice mode is switched off, faults armed for everybody do not show for that visitor.

### Bounds

`BankMoney`: three requests, because a deadlock needs two and a third
shows what the survivors see; four accounts of three customers, one of them a
demo customer; calls chosen so that amounts fit only once, keys are shared by
equal and by different calls, transfers oppose each other, and one meets the planted race. Requests are used
once, so the state space is finite without a bound. `RepeatDates`: first days from
December 2095 to March 2096 (every day of the month, a leap February), followed to
March 2105, over the missing leap day of 2100. `ScheduledPayments`: two requests
that are made again and again, a weekly payment due on Saturdays and a one-time payment
due on a Sunday, `Periods` = 3 due dates each, `MaxFailures` failing statements or
stops, `MaxBalance` cents, `LastDay` as the last real date, and a clock limit of one step so that two moves reach past it. The customer comes
when one period is due, and a step of the clock makes it three: after a sweep that failed, the next has three before it and
stops at `MaxRuns` = 2. `CoinOrders`:
three orders, one alert, two requests, `MaxTrades` trades by hand, `MaxErrors`
and `MaxStops` failures, and one market price, so that what moves the price is the customer's own trades; market moves are in
`coin_orders_live` (two prices), and in `OrdersProofs` any. There, of three orders, one is never reached, one at the lower price, one always, and a sweep reads
two: the first two fill its page while the market is high. `RunnerAuth`: three requests, each used once, so that one can
be inside the gate, one in its queue, and a third refused or overtaking; two
administrators or nobody at the start; two addresses and passwords; one wrong guess
locks an address and two brake a name, so that a guess, a reset and a sign-in fit
into three requests and counting is still seen in the brake.

`BankDesk`: 43 scenes of three requests each, one for each pair or triple of handlers that touch a
common row or limit; three requests are two that race and one that sees or disturbs the result.
Caps are as small as they can be and still be met (`MaxPending` = 2, `MaxLoans` = 1, `MaxKeys` = 2, `Rate` = 1,
`MaxAccounts` = 3, `Starter` = 2 accounts), a hold comes after `MaxFailures` = 2 wrong passwords, and `StartLimit` = 2 is
a day's limit one charge fills. `RunnerPage`: 16 scenes (who signs in, which runs there are, which clicks are made), three runs, `MaxSessions` = 2
people after each other, one poll per wait (`MaxPolls`), two polls for a start (`MaxPollCycles`) and one
failure before polling gives up (`MaxPollFailures`, so one fault in a list does reach it), `Lookups` = 2 looks for a dispatched run, clocks at most
`Skew` = 1 apart, one fault per scene. The scenes are too short for the divergences of the page listed above: each needs deeds or faults beyond them,
and the theorems say under which condition the properties hold for scripts of any length. `MCTestAgents`: two workers with an incident each, three commands, three bug numbers, one or two
reruns, at most one break, one drift and one stop.

`MCBank` beside the desk: every operation with one thing wrong at both doors (initial states), 8 documents of two or three operations with one
change by somebody else in between, for a customer, a demo customer, a key and a visitor; queries to depth 8 and
cost 5000, the limits of the code, with page sizes absent, 1, 100, -1 and left to a variable's default of 100, a field asked for under five names at once, and at most one step written as a fragment; histories of
up to 5 rows over 3 moments and 2 ids a moment, in pages of one and two. `MCWeb`: every pair of a query and a call that changes what
it shows, from every page that makes the call to one that shows the query (162 scenes, the call made twice where two can
overlap, one lost request); two customers, two signs in or out; three presses of Confirm and two reviews, two lost calls; 13 scenes of four
requests of two visitors to the demo site, with one restart. `LeftToTime` names the pairs that the code leaves to a poll or to
the age of the data; `ShownIsSo` is not about data whose last request failed, or that was marked while its first request, or that of a page since left,
was under way (`raced`).

### Fairness

Weak fairness of each request's own next statement: Node runs every
ready continuation and Postgres every statement that is not blocked. In
`ScheduledPayments` and `CoinOrders` a request that has ended is made again: the
repository says the work is done "the next time that customer shows up", so the
properties are about a customer who does. No fairness is assumed for failures,
market moves, or what the customer chooses to do.

In `BankDesk` `Handle(r)` is fair, and Postgres ends a deadlock by failing one of its transactions. In `RunnerAuth` a derivation that has a slot ends (scrypt always calls back) and
a request that was handed a slot goes on; a body, which the client sends, need not come. In `RunnerPage` the
server serves a request, the browser delivers or fails its answer, and a set timer fires; GitHub and
the person owe nothing. The conditions are stated as "infinitely often not waiting, or infinitely
often a move", which is weak fairness of that move. In `MCWeb` every request ends, by an answer or an error of the
browser; the customer owes nothing. The doors, reads, session, forms, demo site and agents are checked for safety only: a worker may be killed at any time.

**Deadlock.** `BankMoney`, `BankDesk`, `RunnerPage`, `MCWeb` and `MCTestAgents` stop when everything asked for is
done; the others are checked for deadlock, dates past the bound standing still.

## 4. Proofs

`BankMoneyProofs` proves, for any customers, accounts, keys, calls and number of
requests, from `CallAssumption` and `BankAssumption` (what the routes' validation
and the schema guarantee about calls, owners and openings):

| Theorem | Statement |
|---|---|
| `TypeCorrect` | `Spec => [](TypeOK /\ AcceptedInv)` |
| `Locking` | `Spec => [](LockInv /\ CallInv)` |
| `Covered` | `Spec => []CoveredInv` |
| `NeverOverdrawn` | `Spec => []NoOverdraft` |
| `KeysPayOnce` | `Spec => [](KeyInv /\ KeyPaysOnce)` |
| `ImplementsLedger` | `Spec => LedgerSpec` |
| `HistoriesRun` | `Spec => []HistoryRuns` |
| `Inductive` | `Spec => []IInv` |
| `RowsMatch` | `Spec => []PaymentsHaveTheirRows` |
| `AnswersTrue` | `Spec => []AnswersAreTrue` |
| `OwnersSpend` | `Spec => []OnlyOwnersSpend` |
| `BooksRight` | `Spec => []BooksAreRight` |

The argument: `NoOverdraft` is not inductive, because `Commit` does not look at
the balance. What carries it is `CoveredInv`, a debited amount is still covered by
the balance its transaction found, and that holds because rows are locked:
`LockInv` says a row is locked by exactly the request whose transaction updated
it, so nobody commits a change to that row in between. `KeyInv` says the
same of keys: a transaction at COMMIT is the only one with its key. The abstract
ledger posts a call when its key is new and, without the planted race, its balance
covers it; `ImplementsLedger` uses `CoveredInv` and `KeyInv` for exactly these two
guards and shows every other step to be a stutter. `RowsMatch` follows the history rows through
`Commit`: it appends to exactly the accounts the payment touches, and a key is committed once, so a second row of
the same payment would need a second commit. `IInv`, the conjunction, is
also checked by TLC in `money`.

`ScheduledProofs` proves, for any finite set of schedules, any dates, amounts and
number of requests, from `ScheduleAssumption`:

| Theorem | Statement |
|---|---|
| `Inductive` | `Spec => []IInv` |
| `TypeCorrect` | `Spec => []TypeOK` |
| `PaidOnce` | `Spec => []PaidOnceAndTold` |
| `OnlyForward` | `Spec => MovesForward` |

A sweep works on copies of rows that it selected earlier, while others change the
rows, so `PaidAtMostOnce` is not inductive by itself. `SweepOK` says what a copy is still
worth: its period is not ahead of the row's, it was due on the day the sweep read, and
according to the statement the sweep is at, its period is paid, or told, or the row
has gone past it. `StandsRight` ties the count of runs and the end of a
one-time payment to the due date the row is at. On top of it `PaidOnce` carries that periods the row has left are
told and none after it is paid; that none is paid twice rests on the key, which the paying transaction looks at
again. `GoesOn` and `PaidInTime` are
the two halves of `MovesForward`. Schedules are finitely many because a
sweep's `SELECT` returns a list.

`OrdersProofs` proves, for any requests, orders, alerts, prices and amounts, from
`OrdersAssumption`:

| Theorem | Statement |
|---|---|
| `Inductive` | `Spec => []IInv` |
| `TypeCorrect` | `Spec => []TypeOK` |
| `FilledOnce` | `Spec => []FilledOnceAndTold` |
| `LimitsHold` | `Spec => []FillsWithinLimit` |

`IInv` says who may touch an order: one that is being filled belongs to the single
request that claimed it (`OneFiller`), and `HandOK` says what each request has in
hand. This holds with failures too. What fails is the way back after the trade (the run
`coin_orders_twice`), so the rest of `FilledOnceAndTold` is stated until the first error.
`PriceInv` carries `LimitsHold`. When all trades are on one side, what they push is on that side too (`PushSign`). A price that a sweep read
reaches every order it holds for open, and as long as nothing has moved against an order's side since (`Still`), the price now is no worse
than that one, with the push as it is and with the push faded (`Held`); so neither is the quote (`HeldQuote`). Fading
matters only if trades of the other side were counted, which `MovedAgainst` names. The market price is fixed for the
request, so nothing else moves it.

`RunnerAuthProofs` proves, for any callers, limit, queue, names,
addresses and calls, from `GateAssumption` and `AuthAssumption`:

| Theorem | Statement |
|---|---|
| `GateCounts` | `GateSpec => []GateInv` |
| `FirstComeFirstServed` | `GateSpec => NobodyBarges` |
| `ImplementsGate` | `Spec => GateSpec` |
| `SlotsSafe`, `NobodyIsPassed` | `Spec => []SlotsAreSafe`, `Spec => NobodyBarges` |
| `GateKept` | `Spec => GateIsKept` |
| `TypeCorrect` | `Spec => []TypeOK` |
| `AnAdminRemains` | `Spec => []AdminRemains` |
| `Inductive` | `Spec => []IInv` |
| `SessionsCurrent` | `Spec => []SessionsAreCurrent` |
| `OwnersEnter` | `Spec => []OwnersGetIn` |

The gate's counting needs the queue: a slot handed over goes to somebody who is
`waiting` and so not yet counted, which holds because `QueueIsWaiting` says the
queue holds exactly those callers, each once. The handlers of `RunnerAuth` move the
gate only by its own actions, so what holds of the gate holds of them. `AdminRemains` is
inductive with the types: whoever demotes or deletes looks for another administrator
in the step that writes, however old the authority they act on. `SessionsAreCurrent`
needs that whatever changes an account ends its sessions and marks the sign-ins that are being
checked. `OwnersGetIn` needs a count nobody keeps: `GuessesAreCounted` says that the failures
remembered for an address are never more than the requests from it that guessed wrong, and
`AnswersComeLast` that a request counts as such only once it is answered. The second needs
finitely many requests, as there are at any time.

`DeskProofs` proves, for any finite set of requests of any kinds, any
customers, accounts, cards, loans, tickets, keys, holdings and any plan the routes let through, from `PlanAssumption` and the assumptions of the
six modules (ids are rows, caps are naturals, what is on the books at the start keeps to the caps, an empty holding has no cost at the start):

| Theorem | Statement |
|---|---|
| `OnceInductive` | `Spec => []OnceInv` |
| `TypeCorrect` | `Spec => []TypeOK` |
| `DoneOnce` | `Spec => []DoneOnceAndTold` |
| `RulesInductive` | `Spec => []RuleInv` |
| `Stopped` | `Spec => []StopsStand` |
| `Capped` | `Spec => []CapsHold` |
| `BooksInductive` | `Spec => []BookInv` |
| `BooksExplained` | `Spec => []BooksAreExplained` |
| `DeskInductive` | `Spec => []DeskInv`, the conjunction of `OnceInv`, `RuleInv` and `BookInv` |

Some sixty actions over six tables would make every invariant a proof of sixty cases. `DeskProofs` first shows
that a step has one of a few shapes (`ServeShapes`: go on, commit, refuse, write at once, ...), that it leaves every
other request as it was (`Frame`), and that it belongs to one family of handlers while the tables of the
five others stand still (`FamilySteps`). Each part of the invariant then needs the statements of its own family only.

`OnceInv` says how far each thing done once has come. A money request that is being answered is locked by the
one request that claimed it and still pending (`AskInv`); so is a loan that is being decided (`LoanInv`). A key has one committed
payment because the transaction at its commit waits for every other with that key. A customer without
accounts is one whose sign-up broke or is still at it, and the server's start, which opens them, meets no request under way
(`StarterInv`). `ToldOfEveryAct` needs every shape: the commit of an act and its notices are one step, except where the
code writes the notice in a statement of its own.

`RuleInv` says what a request has learnt and what that is still worth at its next statement. A purchase that
has read the status of its card began before the freeze, or after somebody unfroze it (`CardInv`); one that has
summed the day still fits into the limit it saw, unless it met another purchase. A request that counted has room for what it is about to write, if
those it comes in turn with are in turn (`AskCapInv`, `LoanCapInv`, `CapInv`): while one of them is under
way, no other is. A log-in past its check of the hold began before the hold was told (`HoldInv`). A session or
key that was looked up was not stopped before the request began (`StopInv`), and a log-in on its
way to its session met the lock if there is one (`SessionInv`). `Thaws`, `LockedBefore` and `MetALock` are about requests that are over,
and those do not change (`Past`).

What a card spent is a sum over the purchases approved. The library's sum is a recursive function, and no induction over data is
available, so `TableExists` builds the table of all partial sums from a smallest counterexample, and `SumAdd`
(one more purchase adds its amount) is proved from the tables.

`BookInv` says what an open transaction still owes the books. Requests write at their commit, so between a debit and
the commit the balance is that of before; it is enough because the request keeps the account's row, and the balance covers
the price (`MoneyInv`). Likewise for coins: who gives coin keeps the holding's row, which has as much, and what cost
leaves lies between zero and the holding's (`Covered`); who acts on a quote keeps the quote, which nobody has used, so that a
quote fills one trade (`QuoteHeld`). A trade reads the holding before it locks it, and the two may differ: only
if all that is done was done before it began is the cost that leaves the share of the holding as it is
(`ReadingOK`, `Covered`), which is why `EmptyCostsNothing` is said of acts that come in turn. That the last coin takes all
of the cost is arithmetic (`ShareOfAll`: `Share(cost, qty, qty) = cost`, by the quotient of `2 * qty`).
A step then serves one request or writes nothing on the books (`ServesOrRests`), and one more request done adds one term to
every sum (`SumOneMore`, from `SumAdd`): its effect on an account, on a holding, or on the cost of a customer's holdings, where the
two sides of a swap cancel.

`RunnerPageProofs` proves, for any finite set of runs, any flows and people, numbers of sessions, look-ups, polls and
failures, and any script of deeds in any scene, from `RunsAreNumbers`, `DispatchAssumption` and `PageAssumption`:

| Theorem | Statement |
|---|---|
| `PageInductive` | `Spec => []PageInv` |
| `TypeCorrect` | `Spec => []TypeOK` |
| `Verdicts` | `Spec => []VerdictsAreTrue` |
| `Buttons` | `Spec => []ButtonsHold` |
| `StartsNameTheirOwn`, `LatestReport` | `Spec => OwnRunFirst`, `Spec => LatestChoiceStays` |
| `Answers` | `Spec => OwnAnswers` |
| `ShownIsSo` | `Spec /\ Settles => []ShowsWhatIsSo` |
| `KeptUp` | `Spec /\ [](page.failures < MaxPollFailures) => []KeepsUp` |

`PageInv` accounts for everything on the wire and on the page. Whatever is asked of a run, or said of it, is of a run that
exists, and whoever looks at the run page has one in front (`KnownRuns`). What was read of a run that is over stays so, which is
why a verdict may arrive as late as it likes (`VerdictInv`). No two requests made one dispatch, what it became is this page's own
flow and person, and it was born no earlier than the start asked for it (`DispatchInv`): so the match, which prefers a title of
its own, names such a run whenever there is one. A button is locked by every request of the epoch that it waits for, whichever
screen is shown (`ButtonsInv`): `ButtonsHold` alone says it of one screen and is not inductive, since signing in keeps the epoch.
A step then is one of four: nobody tells the page anything (`Passed`), somebody signs in, an answer lands, or something is done at
the page (`Deed`), which leaves epoch and person alone and sends only requests that carry them (`Calm`).

Two theorems have a hypothesis about the behaviour, because without it the code breaks the property, as told under Violations.
`ShownIsSo` is about behaviours in which nobody shows the page again or signs in while the page that somebody has left asks who is
signed in; `OwnInv` then says that a page that is left holds nothing, and that every request of the epoch belongs to
the person in front of it or is that question. `KeptUp` is about behaviours that never count the failures at which
polling stops; `WatchInv` strengthens `WatchedIsPolled` with the epoch: a request that waits with a start or a cancel of an
epoch that is over does not bring polling back, but one that polls does. The run
`runner_page` checks both properties without the hypotheses: its scenes have neither deeds enough for the first exception nor faults enough for
the second.

`WebProofs` proves, for any number of presses, sign-ins, confirmations, visitors, requests, lost calls and restarts, any
query with any changes of it in a scene, from `AppAssumption`, `SessionAssumption`, `FormAssumption` and `DemoAssumption`:

| Theorem | Statement |
|---|---|
| `WebIsKept` | `PagesRefresh => (Spec => []WebInv)` |
| `PagesTellTheTruth` | `PagesRefresh => (Spec => []PagesAreTrue)` |
| `PaidOnce` | `Spec => []PaidAsReviewed` |
| `SiteIsShared` | `Spec => SharedInPeace` |

`PagesRefresh` says that each change in a scene marks the query or puts an answer in its place (`MarksAll`): whether the pages do so is a
matter of the tables in `WebPages`, which TLC goes through entry by entry in the run `web`; a page that forgets a refresh breaks
`PagesAreTrue` there. What is proved is that it is enough: no order of presses, answers, failures and changes of page undoes it.
`DemoAssumption` says that a practice request names no run key, as `practiceApi.ts` sends none: one that did would plant faults for the
visitor named.

The four share no variable, so a step moves one and the rest stand (`OneMoves`).

- The query. `ShownIsSo` speaks of a page at rest. On the way there, what is held, or will be when the answer under way lands,
  has every change the customer was told of, or is known not to count: it is marked, or the request under way
  is to be made again (`Holds(query, known)`). The customer is told only after the last stage of the marks, so for each change that is
  being marked: a stage that reached the query left it with the change (`Reached(i) => Holds(query, press[i].made)`), and one that
  has not yet will. `NothingOldOnScreen` then gives that a query at rest on screen is not marked.
  `saved` counts the changes made, so no change has a number above it.
- The session. Each token is one sign-in's, and a sign-in that has not come back has a token that no request carries
  (`TokensAreTheirs`). `me` is who the cookie is, or is being asked with the cookie of now (`MeIsRight`); `mine` is of
  the same person, or is marked, or was raced, or belongs to whom the page still names after the device in hand was ended (`MineIsMine`).
- The payment. With no planted fault a key names its review, what was answered is paid, and one call is under way at a time;
  so two payments with different keys are of different reviews.
- The demo site. A user's number is their place in the list, and an edit is of the user that was seen unless the users were reset
  since (`Seen`); a run key that a visitor carries was minted for them (`KeysAreOwn`), which is why what others plant, and the
  practice mode they switch, leaves their faults alone (`OthersUntouched`).

The proof found one thing to repair in the model: `Proceeds` let a call that had not been answered go on to its next marks. No scene got
there, since the stage of such a call is zero, but nothing in the action said so; it does now.

`AgentsProofs` proves, for any number of failures, workers' stops, commands, signatures and bug numbers, and any scenes a test or a tester
can give, from `AgentsAssumption`, `IncidentAssumption` and `BugAssumption`:

| Theorem | Statement |
|---|---|
| `AgentsInductive` | `Spec => []AgentInv` |
| `InBounds` | `Spec => []StaysInBounds` |
| `RecordsKept` | `Spec => []RecordsAreKept` |

`AgentsAssumption` says what is given: a test offers no strategy twice (`IsFailure`), and a page checked by hand has a name that is no
scenario's (`IsCommand`). Incidents and bug reports share no variable, so a step moves one and the other stands.

- The bounds. A job follows its plan (`JobInv`), so the bounds are facts about plans: the classes that may be mended are those of a few
  rules (`RuleClasses`), none of which is the first to match when somebody was signed out or refused (`NotSignedOut`), and a plan holds only what the policy approved,
  each place once and the preferred first (`PlanIs`, `PlanInTurn`, by counting who comes before: `RanksAll`). `ProductionIsStrictest` needs that the production
  rules differ from staging's only where they deny (`StagingFirst`).
- The memory. `RememberedInTurn` counts the records of an incident that is done, and is not inductive: a worker writes what it read two
  steps before. `TurnInv` says that while nothing crossed one worker at most rewrites the file, and that what it has in hand is
  all of the file, one record for each incident that is done and none for another. `AdviceWorked` holds even when writes cross, because `WrittenInv` says that every record,
  in the file or in a worker's hand, is what became of an incident that has ended.
- The looks. A command goes on to save only when each look found the bug, and its looks do not change after (`LookInv`); so a record, or a draft
  of one, names only such commands, whoever stops where.
- The books. `FiledOnceInTurn` is about two files that are emptied and written one after the other. In turn, one command saves at a time, and it has in hand
  exactly what is to be saved (`SaverInv`): a new record is under the next number, and the index that it will write is the one that is there
  with that number counted and its signature added. The index then names one whole record for each signature, save the one that is being
  written, and a record it does not name is the next (`IndexInv`). A command that said it filed is once in its record, or, while that is
  written over, once in the draft of whoever writes (`SightingInv`).
- The evidence. What a command has still to move waits under its name, what it moved is under its bug, and nobody else's folder is one of its own
  (`EvidenceInv`, `FoldersApart`), unless two manual checks of one page ran at once (`together`). Each step leaves the folders of the others alone (`OthersStay`).

The proof made three things plain that the run had not said. `PatchesAreForReview` had claimed more than the classifier does, as above: no scene had both signals. A
command's `new` outlives the step that set it unless it is stopped, and `record` is reached only with a number. And an outcome that is not yet set must not look like one
that says filed (`None` in `BugAssumption`).

**Only model-checked.** Liveness and `ENABLED` are out of the prover's reach: `ButtonsComeBack`, `NothingHangs`, and every other property
with fairness. `DoorsAgree`, `ReadsAreWhole` and everything of `RepeatDates` are about recursive operators and
induction over data.

## 5. Plan

1. Done: all modules above; proofs about money, schedules, orders, the desk, the gate, the accounts, the runner's page, the front end,
   the demo site and the agents.
2. Next to model: the making of quotes and their 15 seconds, the instalment table as a function checked against its
   definition, the runner's report caches.

## 6. Not modelled

- Bank start (migrations, seed): one process, before the server listens; the schema's constraints are in the models.
- GraphQL: the data its queries return; parsing and the engine (a library), empty and malformed ids, the planted faults at the doors.
- Reports, triage and the knowledge base of the runner: reading and explaining what GitHub holds.
- The demo site: products, the legacy create-user form, static files, the count of order requests.
- The web front end: drawing, field validation, previews of quotes. The scripts, Terraform and Kubernetes files: no protocol of their own.
- In modelled parts: wording, formatting, layout, and validation of single fields, unless a property is about them.
- The runner: filters and search of the history, which drop the logs of runs they hide; the numbers of the dashboard when GitHub
  fails (the page then shows zeros with an error, the model a failed request that leaves the old ones; no property is about them);
  pages of a list past its first ten, and the filter by branch; a cancel ends a run at once, where GitHub takes a while.
- Bug reports: the readable copy beside each record, written after it and read by no command.
- The front end: a second press of another row, dialog or notice while a first one is under way (`Presses` is once per call); the page of
  devices offers End on other devices only, and `EndsThis` lets the device in hand be ended, as `endOne` provides. `Receipt` keeps the first answer to a
  review, where the code takes each: with one key they name one payment.
