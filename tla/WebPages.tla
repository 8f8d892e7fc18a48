------------------------------ MODULE WebPages ------------------------------
(***************************************************************************)
(* The web front end in two tables.  The calls of its API clients: which   *)
(* of the server's records the answer shows, and which the call changes,   *)
(* for the person signed in.  And its components: what each shows from the *)
(* cache, what it lets the customer do, what it marks afterwards, and      *)
(* which rows must be on screen for its buttons to be there.               *)
(***************************************************************************)
EXTENDS Naturals, Sequences, TLC

(* The calls, one table per section of the clients.                        *)

Reads(records)   == [shows |-> records, changes |-> {}]
Changes(records) == [shows |-> {}, changes |-> records]

\* Who is signed in; the profile and settings travel with the account.
IdentityCalls ==
  [getMe           |-> Reads({"identity", "profile"}),
   registerAccount |-> Changes({"identity", "profile", "devices"}),
   bankLogin       |-> Changes({"identity", "devices"}),
   bankLogout      |-> Changes({"identity", "devices"})]

DeviceCalls ==
  [listSessions     |-> Reads({"devices"}),
   endSession       |-> Changes({"devices"}),
   endOtherSessions |-> Changes({"devices"}),
   updateProfile    |-> Changes({"profile"}),
   updateSettings   |-> Changes({"profile"})]

\* What staff see and change of others.
StaffCalls ==
  [listBankUsers   |-> Reads({"customers"}),
   updateBankUser  |-> Changes({"customers"})]

AccountCalls ==
  [listMoneyAccounts |-> Reads({"accounts"}),
   getMoneyAccount   |-> Reads({"accounts"}),
   openMoneyAccount  |-> Changes({"accounts", "history"}),
   addFunds          |-> Changes({"accounts", "history"})]

HistoryCalls ==
  [listTransactions  |-> Reads({"history"}),
   recentActivity    |-> Reads({"history"}),
   makeTransfer      |-> Changes({"accounts", "history"}),
   getBankUserDetail |-> Reads({"customers", "customers' cards"})]

\* Leaving a bill out of the list of payees leaves its payments.
BillCalls ==
  [listPayees       |-> Reads({"payees"}),
   addPayee         |-> Changes({"payees"}),
   deletePayee      |-> Changes({"payees"}),
   listBillPayments |-> Reads({"bills"})]

\* Moving the clock pays what has come due.
ScheduleCalls ==
  [getClock               |-> Reads({"clock"}),
   advanceClock           |-> Changes({"clock", "schedules", "bills", "accounts", "history", "notices"}),
   resetClock             |-> Changes({"clock"}),
   listScheduledPayments  |-> Reads({"schedules", "clock"}),
   createScheduledPayment |-> Changes({"schedules"}),
   cancelScheduledPayment |-> Changes({"schedules"})]

\* A card's row carries what it spent today; a declined charge is told.
CardCalls ==
  [listCards       |-> Reads({"cards", "charges", "clock"}),
   createCard      |-> Changes({"cards"}),
   cardDetails     |-> Reads({"card numbers"}),
   updateCard      |-> Changes({"cards"}),
   chargeCard      |-> Changes({"charges", "accounts", "history", "notices"}),
   listCardCharges |-> Reads({"charges"}),
   adminUpdateCard |-> Changes({"customers' cards"})]

KeyCalls ==
  [listApiKeys  |-> Reads({"keys"}),
   createApiKey |-> Changes({"keys"}),
   revokeApiKey |-> Changes({"keys"})]

PayCall == [payBill |-> Changes({"bills", "accounts", "history"})]

\* A quote depends on what the customer holds and how their loans were decided.
LoanCalls ==
  [loanQuote      |-> Reads({"accounts", "history"}),
   listLoans      |-> Reads({"loans"}),
   requestLoan    |-> Changes({"loans"}),
   getLoan        |-> Reads({"loans"}),
   listStaffLoans |-> Reads({"customers' loans"}),
   decideLoan     |-> Changes({"customers' loans"})]

NoticeCalls ==
  [listNotifications        |-> Reads({"notices"}),
   markNotificationRead     |-> Changes({"notices"}),
   markAllNotificationsRead |-> Changes({"notices"})]

RequestCalls ==
  [listRequests  |-> Reads({"requests"}),
   askForMoney   |-> Changes({"requests"}),
   payRequest    |-> Changes({"requests", "accounts", "history"}),
   answerRequest |-> Changes({"requests"})]

TicketCalls ==
  [listMyTickets |-> Reads({"tickets"}),
   openTicket    |-> Changes({"tickets"}),
   getTicket     |-> Reads({"tickets"}),
   replyToTicket |-> Changes({"tickets"}),
   solveTicket   |-> Changes({"tickets", "notices"}),
   listInbox     |-> Reads({"tickets"})]

\* A customer's own trades push the price they are shown.
MarketCalls ==
  [getMarket |-> Reads({"prices"}),
   getCoin   |-> Reads({"prices"})]

TradeCalls ==
  [priceTrade   |-> Changes({}),
   makeTrade    |-> Changes({"holdings", "trades", "prices", "accounts", "history", "notices"}),
   getPortfolio |-> Reads({"holdings", "trades", "prices"}),
   listTrades   |-> Reads({"trades"})]

WalletCalls ==
  [getWallet   |-> Reads({"wallet"}),
   previewSend |-> Changes({}),
   sendCoin    |-> Changes({"wallet", "holdings"}),
   previewSwap |-> Changes({}),
   swapCoin    |-> Changes({"wallet", "holdings"})]

OrderCalls ==
  [listOrders  |-> Reads({"orders"}),
   createOrder |-> Changes({"orders"}),
   cancelOrder |-> Changes({"orders"})]

AlertCalls ==
  [listAlerts  |-> Reads({"alerts"}),
   createAlert |-> Changes({"alerts"}),
   cancelAlert |-> Changes({"alerts"})]

\* The query editor sends whatever is typed.
GraphqlCalls ==
  [runGraphql |-> Changes({"accounts", "history", "cards", "requests", "tickets", "notices"}),
   loadSchema |-> Reads({})]

DemoCalls ==
  [getOrders  |-> Reads({"demo orders"}),
   getUsers   |-> Reads({"people", "faults"}),
   createUser |-> Changes({"people"}),
   updateUser |-> Changes({"people"}),
   getSession |-> Reads({"demo session"}),
   getFlags   |-> Reads({"faults"}),
   getProducts |-> Reads({}),
   getProduct |-> Reads({})]

PracticeCalls ==
  [getPractice |-> Reads({"faults"}),
   setPractice |-> Changes({"faults"})]

Calls ==
  IdentityCalls @@ DeviceCalls @@ StaffCalls @@ AccountCalls @@ HistoryCalls @@ BillCalls
    @@ ScheduleCalls @@ CardCalls @@ KeyCalls @@ PayCall @@ LoanCalls @@ NoticeCalls
    @@ RequestCalls @@ TicketCalls @@ MarketCalls @@ TradeCalls @@ WalletCalls @@ OrderCalls
    @@ AlertCalls @@ GraphqlCalls @@ DemoCalls @@ PracticeCalls

\* A change one call makes is on show in another call's answer.
ChangesWhat(call, read) == Calls[call].changes \cap Calls[read].shows # {}

-----------------------------------------------------------------------------
(* The components.                                                         *)


Money == <<"bank", "money">>
K(name) == Money \o <<name>>
Me == <<"bank", "me">>
Notifications == <<"bank", "notifications">>
Market == <<"bank", "market">>
People == <<"users">>

\* A query a component shows. polled: asked again by a timer; later: only once
\* something else has come or been opened; retries: a failed request is sent
\* once more.
Watch(key, call) == [key |-> key, call |-> call, polled |-> FALSE, later |-> FALSE, retries |-> TRUE]
Polled(w) == [w EXCEPT !.polled = TRUE]
Later(w) == [w EXCEPT !.later = TRUE]
NoRetry(w) == [w EXCEPT !.retries = FALSE]

\* A change a component makes. marks: the prefixes it marks when it is done, one
\* set after the other; waits: its button is free when what it marked has been
\* asked again; even: it marks though the call failed; puts: the answer goes
\* straight into the cache under this key.
Does(call, prefixes) == [call |-> call, marks |-> <<prefixes>>, waits |-> FALSE, even |-> FALSE, puts |-> {}]
Awaits(d) == [d EXCEPT !.waits = TRUE]
Then(d, prefixes) == [d EXCEPT !.marks = Append(@, prefixes)]
Even(d) == [d EXCEPT !.even = TRUE]
Puts(call, key) == [Does(call, {}) EXCEPT !.puts = {key}]

\* buttons: for each call of the component, the queries whose rows carry its button.
Part(shows, does, buttons) == [shows |-> shows, does |-> does, buttons |-> buttons]
Shows(shows) == Part(shows, {}, <<>>)

\* useMoneyAccounts, useRefreshMoney, useAppFlags, useBankSession
MoneyAccounts == Watch(K("accounts"), "listMoneyAccounts")
\* A flawed version: it forgets everything but the activity list.
RefreshActivity(call) == Awaits(Does(call, {K("activity")}))
RefreshMoney(call) == Awaits(Does(call, {Money}))
AppFlags == Watch(<<"flags">>, "getFlags")
BankSession == NoRetry(Watch(Me, "getMe"))

-----------------------------------------------------------------------------
\* The frame around every page.
MarketTicker == Shows({Polled(Watch(Market, "getMarket"))})

UserMenu == Shows({BankSession})

UseNotifications == Polled(Watch(Notifications, "listNotifications"))

NotificationBell ==
  Part({UseNotifications},
       {Even(Does("markNotificationRead", {Notifications})),
        Even(Does("markAllNotificationsRead", {Notifications}))},
       [markNotificationRead |-> {Notifications}, markAllNotificationsRead |-> {Notifications}])

PracticeSwitch ==
  Part({Watch(<<"practice">>, "getPractice")}, {Does("setPractice", {<<>>})},
       [setPractice |-> {<<"practice">>}])

Topbar == {PracticeSwitch, NotificationBell, UserMenu}
AppLayout == Topbar \cup {MarketTicker}

-----------------------------------------------------------------------------
\* Accounts and their money.
AddFundsDialog(rows) ==
  Part({}, {RefreshMoney("addFunds")}, [addFunds |-> rows])

OpenAccountDialog ==
  Part({}, {RefreshMoney("openMoneyAccount")}, [openMoneyAccount |-> {}])

BankPage == Shows({MoneyAccounts, Watch(K("activity"), "recentActivity")})

BankPageButtons == {AddFundsDialog({K("accounts")}), OpenAccountDialog}

BankAccountPage ==
  Shows({NoRetry(Watch(K("account"), "getMoneyAccount")),
         Later(Watch(K("history"), "listTransactions"))})

BankAccountButtons == {AddFundsDialog({K("account")})}

\* A transfer is reviewed over the accounts it is drawn on.
TransferPage ==
  Part({MoneyAccounts, AppFlags}, {RefreshMoney("makeTransfer")},
       [makeTransfer |-> {K("accounts")}])

\* Scheduled payments: the form needs an account and a payee.
ScheduledHooks ==
  [shows |-> {Watch(K("scheduled"), "listScheduledPayments")},
   does  |-> {RefreshMoney("createScheduledPayment"), RefreshMoney("cancelScheduledPayment")}]

ScheduleForm == [createScheduledPayment |-> {K("accounts"), K("payees")}]
ScheduledRows == [cancelScheduledPayment |-> {K("scheduled")}]

ScheduledPayments ==
  Part(ScheduledHooks.shows, ScheduledHooks.does, ScheduleForm @@ ScheduledRows)

DeletePayeeButton == Part({}, {RefreshMoney("deletePayee")}, [deletePayee |-> {K("payees")}])
AddPayeeForm == Part({}, {RefreshMoney("addPayee")}, [addPayee |-> {}])

BillPayHooks ==
  [shows |-> {MoneyAccounts, Watch(K("payees"), "listPayees"),
              Watch(K("bill-payments"), "listBillPayments")},
   does  |-> {RefreshMoney("payBill")}]

PayBillForm == [payBill |-> {K("accounts"), K("payees")}]

BillPayPage == Part(BillPayHooks.shows, BillPayHooks.does, PayBillForm)

BillPayParts == {BillPayPage, DeletePayeeButton, AddPayeeForm, ScheduledPayments}

\* One card: its charges, its number when asked for, the switch, the limit, a purchase.
CardPanelHooks ==
  [shows |-> {Later(Watch(K("card-details"), "cardDetails")), Later(Watch(K("card-charges"), "listCardCharges"))},
   does  |-> {RefreshMoney("updateCard"), RefreshMoney("chargeCard")}]

CardSwitch == [updateCard |-> {K("cards")}]
CardForms == [chargeCard |-> {K("cards")}]

CardPanel == Part(CardPanelHooks.shows, CardPanelHooks.does, CardSwitch @@ CardForms)

CardsPage ==
  Part({MoneyAccounts, Watch(K("cards"), "listCards")}, {RefreshMoney("createCard")},
       [createCard |-> {K("accounts"), K("cards")}])

-----------------------------------------------------------------------------
\* Money requests and loans.
PayDialog ==
  Part({}, {RefreshMoney("payRequest")}, [payRequest |-> {K("requests")}])

RequestsHooks ==
  [shows |-> {MoneyAccounts, Polled(Watch(K("requests"), "listRequests"))},
   does  |-> {RefreshMoney("askForMoney"),
              Even(Then(RefreshMoney("answerRequest"), {Notifications}))}]

AskForm == [askForMoney |-> {K("accounts")}]
RequestRows == [answerRequest |-> {K("requests")}]

RequestsPage == Part(RequestsHooks.shows, RequestsHooks.does, AskForm @@ RequestRows)

LoanScheduleDialog == Shows({Later(Watch(K("loan"), "getLoan"))})

LoansHooks ==
  [shows |-> {MoneyAccounts, Watch(K("loans"), "listLoans"), Later(Watch(K("quote"), "loanQuote"))},
   does  |-> {RefreshMoney("requestLoan")}]

LoanForm == [requestLoan |-> {K("accounts")}]

LoansPage == Part(LoansHooks.shows, LoansHooks.does, LoanForm)

StaffLoans == <<"bank", "loans", "pending">>

DecisionDialog ==
  Part({}, {Awaits(Does("decideLoan", {<<"bank", "loans">>}))}, [decideLoan |-> {StaffLoans}])

LoanRequestsPage == Shows({Watch(StaffLoans, "listStaffLoans")})

-----------------------------------------------------------------------------
\* Support, staff, keys, devices.
SupportPage ==
  Part({Watch(K("tickets"), "listMyTickets")}, {Does("openTicket", {})}, [openTicket |-> {}])

Ticket == K("ticket")

TicketHooks ==
  [shows |-> {NoRetry(Polled(Watch(Ticket, "getTicket")))},
   does  |-> {Puts("replyToTicket", Ticket), Does("solveTicket", {Ticket})}]

TicketButtons == [replyToTicket |-> {Ticket}, solveTicket |-> {Ticket}]

TicketPage == Part(TicketHooks.shows, TicketHooks.does, TicketButtons)

SupportInboxPage == Shows({Polled(Watch(<<"bank", "inbox", "open">>, "listInbox"))})

Customers == <<"bank", "users">>
Customer == Append(Customers, "u")

BankUserDialog ==
  Part({Later(Watch(Customer, "getBankUserDetail"))},
       {Does("adminUpdateCard", {Customer})}, [adminUpdateCard |-> {Customer}])

RoleDialog == [updateBankUser |-> {Customers}]

AdminUsersPage ==
  Part({Watch(Customers, "listBankUsers")},
       {Awaits(Does("updateBankUser", {Customers}))}, RoleDialog)

NotificationsPage ==
  Part({UseNotifications},
       {Even(Does("markNotificationRead", {Notifications})),
        Even(Does("markAllNotificationsRead", {Notifications}))},
       [markNotificationRead |-> {Notifications}, markAllNotificationsRead |-> {Notifications}])

Keys == <<"bank", "keys">>

DeveloperHooks ==
  [shows |-> {Watch(Keys, "listApiKeys")},
   does  |-> {Does("createApiKey", {Keys}), Does("revokeApiKey", {Keys})}]

KeyButtons == [createApiKey |-> {}, revokeApiKey |-> {Keys}]

DeveloperPage == Part(DeveloperHooks.shows, DeveloperHooks.does, KeyButtons)

Devices == <<"bank", "sessions">>

DevicesPage ==
  Part({Watch(Devices, "listSessions")},
       {Does("endSession", {Devices}), Does("endOtherSessions", {Devices})},
       [endSession |-> {Devices}, endOtherSessions |-> {Devices}])

\* A save puts the account it got back into the cache (useSetBankAccount).
EditProfilePage ==
  Part({BankSession}, {Puts("updateProfile", Me)}, [updateProfile |-> {Me}])

SettingsPage ==
  Part({BankSession}, {Puts("updateSettings", Me)}, [updateSettings |-> {Me}])

ProfilePage == Shows({BankSession})

Clock == <<"bank", "clock">>

\* The clock first, then everything it may have paid.
ClockCard ==
  Part({Watch(Clock, "getClock")},
       {Then(Awaits(Does("advanceClock", {Clock})), {Money}),
        Then(Awaits(Does("resetClock", {Clock})), {Money})},
       [advanceClock |-> {Clock}, resetClock |-> {Clock}])

PracticePage == Shows({Watch(<<"practice">>, "getPractice")})

-----------------------------------------------------------------------------
\* Coins.
TradeHooks ==
  [shows |-> {MoneyAccounts, Watch(K("portfolio"), "getPortfolio")},
   does  |-> {Does("makeTrade", {Money, Market})}]

TradeButtons == [makeTrade |-> {K("accounts")}]

TradePanel == Part(TradeHooks.shows, TradeHooks.does, TradeButtons)

CoinOrdersKey == K("orders") \o <<"coin">>
CoinAlertsKey == K("alerts") \o <<"coin">>

OrdersHooks ==
  [shows |-> {Polled(Watch(CoinOrdersKey, "listOrders")),
              Polled(Watch(CoinAlertsKey, "listAlerts")), MoneyAccounts},
   does  |-> {Does("createOrder", {Money}), Does("cancelOrder", {Money}),
              Does("createAlert", {Money}), Does("cancelAlert", {Money})}]

OrdersButtons ==
  [createOrder |-> {K("accounts")}, cancelOrder |-> {CoinOrdersKey},
   createAlert |-> {}, cancelAlert |-> {CoinAlertsKey}]

OrdersPanel == Part(OrdersHooks.shows, OrdersHooks.does, OrdersButtons)

AllOrders == K("orders") \o <<"all">>

OpenOrdersList ==
  Part({Polled(Watch(AllOrders, "listOrders"))},
       {Does("cancelOrder", {Money})}, [cancelOrder |-> {AllOrders}])

CoinPage == Shows({NoRetry(Polled(Watch(Market \o <<"coin">>, "getCoin")))})

PortfolioPage ==
  Shows({Polled(Watch(K("portfolio"), "getPortfolio")), Watch(K("trades"), "listTrades")})

WalletHooks ==
  [shows |-> {Watch(K("wallet"), "getWallet"), Watch(K("portfolio"), "getPortfolio")},
   does  |-> {Does("sendCoin", {Money}), Does("swapCoin", {Money})}]

SendForm == [sendCoin |-> {K("wallet")}]
SwapForm == [swapCoin |-> {K("wallet")}]

WalletPage == Part(WalletHooks.shows, WalletHooks.does, SendForm @@ SwapForm)

MarketsPage == Shows({Polled(Watch(Market, "getMarket"))})

-----------------------------------------------------------------------------
\* The demo application's own pages, and the query editor.
SchemaBrowser == Shows({Watch(<<"bank", "graphql", "schema">>, "loadSchema")})

GraphqlPage == Part({}, {Does("runGraphql", {})}, [runGraphql |-> {}])

\* The new person is on the list before the server answers.
CreateUserDialog ==
  Part({}, {Even(Does("createUser", {People}))}, [createUser |-> {}])

EditUserDialog == Part({}, {Awaits(Does("updateUser", {People}))}, [updateUser |-> {People}])

UsersPage == Shows({Watch(People, "getUsers"), AppFlags})

OrdersPage == Shows({Watch(<<"orders">>, "getOrders")})
ProductsPage == Shows({Watch(<<"products">>, "getProducts")})
ProductDetailPage == Shows({Watch(<<"product">>, "getProduct")})
AccountPage == Shows({NoRetry(Watch(<<"session">>, "getSession")), BankSession})

-----------------------------------------------------------------------------
\* Which components are on screen at which address.
App ==
  [home          |-> {},
   bank          |-> {BankPage} \cup BankPageButtons,
   bankAccount   |-> {BankAccountPage} \cup BankAccountButtons,
   transfer      |-> {TransferPage},
   bills         |-> BillPayParts,
   cards         |-> {CardsPage, CardPanel},
   requests      |-> {RequestsPage, PayDialog},
   loans         |-> {LoansPage, LoanScheduleDialog},
   loanRequests  |-> {LoanRequestsPage, DecisionDialog},
   support       |-> {SupportPage},
   ticket        |-> {TicketPage},
   inbox         |-> {SupportInboxPage},
   admin         |-> {AdminUsersPage, BankUserDialog},
   notifications |-> {NotificationsPage},
   developer     |-> {DeveloperPage},
   graphql       |-> {GraphqlPage, SchemaBrowser},
   devices       |-> {DevicesPage},
   profile       |-> {ProfilePage},
   editProfile   |-> {EditProfilePage},
   settings      |-> {SettingsPage},
   practice      |-> {PracticePage, ClockCard},
   markets       |-> {MarketsPage},
   coin          |-> {CoinPage, TradePanel, OrdersPanel},
   portfolio     |-> {PortfolioPage, OpenOrdersList},
   wallet        |-> {WalletPage},
   users         |-> {UsersPage, CreateUserDialog, EditUserDialog},
   orders        |-> {OrdersPage},
   products      |-> {ProductsPage},
   product       |-> {ProductDetailPage},
   account       |-> {AccountPage}]

Address == DOMAIN App
OnScreen == [a \in Address |-> App[a] \cup AppLayout]
ShownAt == [a \in Address |-> UNION {p.shows : p \in OnScreen[a]}]
=============================================================================
