---------------------------- MODULE GraphqlReads ----------------------------
(***************************************************************************)
(* What GraphQL lets a client read.  A query: how deep it nests and what   *)
(* it would cost, against what its answer would hold; of each type of the  *)
(* schema the fields that lead on are named, the rest count alike, as      *)
(* "plain".  A history, a page at a time, while rows land in it: each page *)
(* starts after a cursor, the sort key of the last row given (in           *)
(* transactionsAfter, ordersAfter and chargesAfter, which differ in their  *)
(* table only).  A row's time is when its transaction began, so a row may  *)
(* land behind the cursor.                                                 *)
(***************************************************************************)
EXTENDS Integers, Sequences, SequencesExt, FiniteSetsExt, TLC

MaxDepth == 8
MaxCost == 5000
DefaultListSize == 10
DefaultPageSize == 20
MaxPageSize == 100

One(t) == [of |-> t, shape |-> "one"]
List(t) == [of |-> t, shape |-> "list"]
Page(t) == [of |-> t, shape |-> "page"]
Plain == [f \in {} |-> One(f)]

QueryType ==
  [me |-> One("User"), accounts |-> List("MoneyAccount"),
   account |-> One("MoneyAccount"),
   payees |-> List("Payee"), billPayments |-> List("BillPayment"),
   loans |-> List("Loan"), loan |-> One("Loan"), loanQuote |-> One("LoanQuote"),
   requests |-> One("RequestsResult"), notifications |-> One("NotificationsResult"),
   tickets |-> List("SupportTicket"), ticket |-> One("TicketThread"),
   market |-> List("MarketCoin"), coin |-> One("CoinDetail"),
   portfolio |-> One("Portfolio"), trades |-> List("Trade"),
   wallet |-> One("WalletResult"),
   cards |-> List("Card"), card |-> One("Card"), orders |-> Page("OrderConnection"),
   priceAlerts |-> List("PriceAlert"), apiKeys |-> One("ApiKeysResult")]

\* Of the mutations that return one type, one stands for all.
MutationType ==
  [quoteTrade |-> One("TradeQuote"), trade |-> One("TradeResult"),
   sendCoin |-> One("WalletSend"),
   swapCoin |-> One("WalletSwap"), addFunds |-> One("MoneyAccount"),
   transfer |-> One("TransferResult"), payBill |-> One("BillPaymentResult"),
   requestLoan |-> One("Loan"), askForMoney |-> One("MoneyRequest"),
   payRequest |-> One("RequestPaidResult"), openTicket |-> One("TicketThread"),
   getCard |-> One("Card"), chargeCard |-> One("CardChargeResult"),
   placeOrder |-> One("Order"),
   createPriceAlert |-> One("PriceAlert"), createApiKey |-> One("NewApiKey")]

AccountTypes ==
  [User |-> Plain, Counterparty |-> Plain,
   MoneyAccount |-> [transactions |-> Page("TransactionsPage"),
                     history |-> Page("TransactionConnection")],
   MoneyTransaction |-> [counterpartyDetails |-> One("Counterparty"),
                         transfer |-> One("Transfer")],
   TransactionsPage |-> [transactions |-> List("MoneyTransaction")]]

TransferTypes ==
  [Transfer |-> [fromAccount |-> One("MoneyAccount"),
                 toAccount |-> One("MoneyAccount")],
   TransferResult |-> [transfer |-> One("Transfer"),
                       fromAccount |-> One("MoneyAccount")],
   Payee |-> Plain, BillPayment |-> Plain,
   BillPaymentResult |-> [payment |-> One("BillPayment"),
                          fromAccount |-> One("MoneyAccount")]]

LoanTypes ==
  [ScheduleRow |-> Plain, RateReasons |-> Plain, Customer |-> Plain,
   LoanQuote |-> [schedule |-> List("ScheduleRow"), rate |-> One("RateReasons")],
   Loan |-> [customer |-> One("Customer"), schedule |-> List("ScheduleRow")]]

RequestTypes ==
  [MoneyRequest |-> Plain,
   RequestsResult |-> [incoming |-> List("MoneyRequest"),
                       outgoing |-> List("MoneyRequest")],
   RequestPaidResult |-> [request |-> One("MoneyRequest"),
                          transfer |-> One("Transfer"),
                          fromAccount |-> One("MoneyAccount")],
   BankNotification |-> Plain,
   NotificationsResult |-> [notifications |-> List("BankNotification")],
   SupportTicket |-> [customer |-> One("Customer")], TicketMessage |-> Plain,
   TicketThread |-> [ticket |-> One("SupportTicket"),
                     messages |-> List("TicketMessage")]]

MarketTypes ==
  [PricePoint |-> Plain, MarketCoin |-> Plain, TradeQuote |-> Plain, Trade |-> Plain,
   Position |-> Plain, Portfolio |-> [positions |-> List("Position")],
   TradeResult |-> [trade |-> One("Trade")]]

WalletTypes ==
  [WalletAddress |-> Plain, WalletSend |-> Plain, WalletSwap |-> Plain,
   WalletResult |-> [wallets |-> List("WalletAddress"), sends |-> List("WalletSend"),
                     swaps |-> List("WalletSwap")],
   CoinDetail |-> [series |-> List("PricePoint")]]

CardTypes ==
  [PageInfo |-> Plain, CardDetails |-> Plain, CardCharge |-> Plain,
   TransactionConnection |-> [nodes |-> List("MoneyTransaction"),
                             pageInfo |-> One("PageInfo")],
   Card |-> [details |-> One("CardDetails"),
             charges |-> Page("CardChargeConnection")],
   CardChargeConnection |-> [nodes |-> List("CardCharge"),
                            pageInfo |-> One("PageInfo")],
   CardChargeResult |-> [charge |-> One("CardCharge"), card |-> One("Card")]]

OrderTypes ==
  [Order |-> Plain,
   OrderConnection |-> [nodes |-> List("Order"), pageInfo |-> One("PageInfo")],
   PriceAlert |-> Plain, ApiKey |-> Plain,
   ApiKeysResult |-> [keys |-> List("ApiKey")],
   NewApiKey |-> [key |-> One("ApiKey")]]

Schema ==
  [Query |-> QueryType,
   Mutation |-> MutationType] @@ AccountTypes @@ TransferTypes @@ LoanTypes
    @@ RequestTypes @@ MarketTypes @@ WalletTypes @@ CardTypes @@ OrderTypes

-----------------------------------------------------------------------------
\* A selection is a field, its alias by number, the rows asked for (Unasked
\* where none are) and whether they are asked for in a variable that is left to
\* its default; or a fragment, spread or inline, with what it stands for.
Unasked == 0
PlainField == [kind |-> "field", name |-> "plain", alias |-> 1, first |-> Unasked,
               left |-> FALSE, sel |-> {}]
Fragment(kind, sel) == [kind |-> kind, name |-> "", alias |-> 1, first |-> Unasked,
                        left |-> FALSE, sel |-> sel]
Fragments == {"inline", "spread"}

RECURSIVE Depth(_)
Depth(selections) ==
  LET Deep(s) == IF s.kind = "field" THEN 1 + Depth(s.sel) ELSE Depth(s.sel)
  IN  Max({0} \cup {Deep(s) : s \in selections})

\* The page a list is in decides its rows, and a fragment does not change that.
Rows(field, pageSize) ==
  CASE field.shape = "one" -> 1
    [] field.shape = "list" /\ pageSize # Unasked -> pageSize
    [] OTHER -> DefaultListSize

\* The price goes by the number given, below one as it is, and by the default of
\* the argument where a variable has its own.
PageSize(s) == IF s.first = Unasked \/ s.left THEN DefaultPageSize ELSE s.first

RECURSIVE Cost(_, _, _)

\* A flawed version: a fragment forgets the page it is in.
SelectionCostForgetful(s, type, pageSize) ==
  IF s.kind \in Fragments THEN Cost(s.sel, type, Unasked)
  ELSE IF s.name = "plain" THEN 1
  ELSE LET field == Schema[type][s.name] IN
       IF field.shape = "page" THEN 1 + Cost(s.sel, field.of, PageSize(s))
       ELSE 1 + Rows(field, pageSize) * Cost(s.sel, field.of, Unasked)

SelectionCost(s, type, pageSize) ==
  IF s.kind \in Fragments THEN Cost(s.sel, type, pageSize)
  ELSE IF s.name = "plain" THEN 1
  ELSE LET field == Schema[type][s.name] IN
       IF field.shape = "page" THEN 1 + Cost(s.sel, field.of, PageSize(s))
       ELSE 1 + Rows(field, pageSize) * Cost(s.sel, field.of, Unasked)

Cost(selections, type, pageSize) ==
  MapThenSumSet(LAMBDA s : SelectionCost(s, type, pageSize), selections)

\* What run() lets through.
Allowed(selections, type) ==
  Depth(selections) <= MaxDepth /\ Cost(selections, type, Unasked) <= MaxCost

-----------------------------------------------------------------------------
\* The answer, counted by itself: fragments are put in place, fields of one name
\* and alias are one field, each row of a list holds all that is asked of a row,
\* and a page of less than one row is refused.
RECURSIVE InPlace(_)
InPlace(selections) ==
  {s \in selections : s.kind = "field"}
    \cup UNION {InPlace(s.sel) : s \in {t \in selections : t.kind \in Fragments}}

RECURSIVE Fields(_, _, _)
Fields(selections, type, rows) ==
  LET fields == InPlace(selections)
      Of(f) ==
        LET these == {s \in fields : s.name = f.name /\ s.alias = f.alias}
            under == UNION {s.sel : s \in these}
            first == Max({s.first : s \in these})
        IN IF f.name = "plain" THEN 1
           ELSE LET field == Schema[type][f.name] IN
             CASE field.shape = "one" -> 1 + Fields(under, field.of, Unasked)
               [] field.shape = "page" ->
                    LET size == IF first = Unasked THEN DefaultPageSize ELSE first
                    IN  IF size < 1 THEN 1 ELSE 1 + Fields(under, field.of, size)
               [] OTHER ->
                    LET size == IF rows = Unasked THEN DefaultListSize ELSE rows
                    IN  1 + size * Fields(under, field.of, Unasked)
  IN  MapThenSumSet(Of, {[name |-> s.name, alias |-> s.alias] : s \in fields})

-----------------------------------------------------------------------------
VARIABLES root,  \* "Query" or "Mutation"
          path   \* the fields that lead on, outermost first

queryVars == <<root, path>>

QueryStart == root \in {"Query", "Mutation"} /\ path = <<>>

\* A step of the path: its field, the rows asked for, and how it is written: as
\* it is, in a fragment, both at once, or several times under aliases.
Ways == {"field", "inline", "spread", "both", "aliased"}
Width == 5

RECURSIVE Select(_)
Select(steps) ==
  IF steps = <<>> THEN {PlainField}
  ELSE LET s == Head(steps)
           lead == [kind |-> "field", name |-> s.name, alias |-> 1, first |-> s.first,
                    left |-> s.left, sel |-> Select(Tail(steps))]
           all == {PlainField, lead} IN
       CASE s.way = "field" -> all
         [] s.way = "both" -> all \cup {Fragment("inline", {lead})}
         [] s.way = "aliased" -> all \cup {[lead EXCEPT !.alias = n] : n \in 1..Width}
         [] OTHER -> {Fragment(s.way, all)}

\* A document asks for nothing plain of its root.
Document == Select(path) \ {PlainField}

LastStep == path[Len(path)]
TypeNow == IF path = <<>> THEN root ELSE LastStep.of

\* How a page may be asked for: not at all, for one row, for as many as are
\* given, for less than one, and in a variable left to its default.
PagesAsked ==
  {<<n, FALSE>> : n \in {Unasked, 1, MaxPageSize, -1}} \cup {<<MaxPageSize, TRUE>>}

\* The query leads on by one more field, up to one level more than is allowed.
Deeper ==
  /\ Len(path) < MaxDepth
  /\ \E name \in DOMAIN Schema[TypeNow], way \in Ways :
       LET field == Schema[TypeNow][name] IN
       /\ way # "field" => \A i \in 1..Len(path) : path[i].way = "field"
       /\ path = <<>> => way \in {"field", "aliased"}
       /\ \E ask \in IF field.shape = "page" THEN PagesAsked ELSE {<<Unasked, FALSE>>} :
            path' = Append(path, [name |-> name, first |-> ask[1], left |-> ask[2],
                                  way |-> way, of |-> field.of])
  /\ UNCHANGED root

\* Every page is asked for in place, or not at all.
AsksInPlace == \A i \in 1..Len(path) : ~path[i].left /\ path[i].first >= 0

\* "A field that returns a list multiplies what it asks for inside by how many
\* rows it may return": what is let through is answered with no more fields than
\* the limit, and never nests deeper, however wide it is and however it is cut
\* into fragments.  A plain list counts as DefaultListSize rows.  A page asked
\* for in a variable that is left to its default is priced as another page, and
\* one of less than a row takes from the price of the rest: these are left out.
AnswersAreBounded ==
  Allowed(Document, root) =>
    /\ AsksInPlace => Fields(Document, root, Unasked) <= MaxCost
    /\ Len(path) + 1 <= MaxDepth

-----------------------------------------------------------------------------
CONSTANTS Moment,    \* times of rows, in microseconds
          RowId,     \* what tells rows of one time apart
          MaxRows,   \* rows there ever are
          PageSizes  \* rows asked for at a time

VARIABLES landed,   \* the rows there are
          atFirst,  \* those there were when the first page was read
          read,     \* the rows given, in order
          cursor,   \* where the next page starts, or None
          more      \* hasNextPage of the last page: "unread" before the first

pageVars == <<landed, atFirst, read, cursor, more>>

HistoryRow == [at : Moment, id : RowId]
NoCursor == [at |-> 0, id |-> 0]

PagesStart ==
  /\ landed \in {rows \in SUBSET HistoryRow : Cardinality(rows) \in 1..MaxRows}
  /\ atFirst = {} /\ read = <<>> /\ cursor = NoCursor /\ more = "unread"

\* (created_at, id) < (after.at, after.id), as Postgres compares rows.
OlderThan(r, s) == r.at < s.at \/ (r.at = s.at /\ r.id < s.id)

\* ORDER BY created_at DESC, id DESC.
NewestFirst(rows) == SetToSortSeq(rows, LAMBDA r, s : OlderThan(s, r))

\* A flawed version: the cursor keeps the time to the millisecond (two moments).
CursorOfRounded(r) == [r EXCEPT !.at = (r.at \div 2) * 2]

\* endCursor: the sort key, time and all, as text.
CursorOf(r) == r

\* A flawed version: the page after a cursor starts one row late
\* (bankCursorSkip).
PageAfterSkip(c) ==
  IF c = NoCursor THEN NewestFirst(landed)
  ELSE LET older == NewestFirst({r \in landed : OlderThan(r, c)}) IN
       IF older = <<>> THEN older ELSE Tail(older)

\* The rows after the cursor, newest first.
PageAfter(c) ==
  NewestFirst(IF c = NoCursor THEN landed ELSE {r \in landed : OlderThan(r, c)})

\* One page: one more row than asked for says whether there is another.
ReadsPage(first) ==
  /\ more # "no"
  /\ LET rows == PageAfter(cursor)
         page == SubSeq(rows, 1, Min({first, Len(rows)})) IN
     /\ read' = read \o page
     /\ cursor' = IF page = <<>> THEN NoCursor ELSE CursorOf(page[Len(page)])
     /\ more' = IF Len(rows) > first THEN "yes" ELSE "no"
  /\ atFirst' = IF more = "unread" THEN landed ELSE atFirst
  /\ UNCHANGED landed

\* A row lands meanwhile, with a time of its own.
RowLands ==
  /\ more = "yes" /\ Cardinality(landed) < MaxRows
  /\ \E r \in HistoryRow \ landed : landed' = landed \cup {r}
  /\ UNCHANGED <<atFirst, read, cursor, more>>

PagesNext == (\E first \in PageSizes : ReadsPage(first)) \/ RowLands

\* "The next page is the rows strictly older than the last one already seen, so
\* a payment that lands while somebody pages does not push a row they have seen
\* onto the next page, or one they have not off it": no row comes twice, and
\* once there is no next page every row there was at first has come.
EveryRowOnce ==
  /\ \A i, j \in 1..Len(read) : i < j => OlderThan(read[j], read[i])
  /\ more = "no" => \A r \in atFirst : \E i \in 1..Len(read) : read[i] = r
=============================================================================
