------------------------------ MODULE BankDoors ------------------------------
(***************************************************************************)
(* The two doors of the bank: a REST request for each change, or one       *)
(* GraphQL document with several.  Each handler is the sequence of checks  *)
(* it makes before it calls the module that both doors share; the change   *)
(* itself is an entry in the books.  What a request gets wrong is named by *)
(* the check that finds it.                                                *)
(***************************************************************************)
EXTENDS Naturals, Sequences, SequencesExt, FiniteSets

CONSTANTS Money,      \* payments the account is good for
          Coins,      \* sends and swaps the holding is good for
          Cap,        \* rows a customer may have waiting, of each kind
          Documents,  \* the documents that are sent, sequences of operations
          Elsewhere,  \* what others, or the customer elsewhere, may do meanwhile
          MaxElsewhere

VARIABLES caller,  \* who asks: with what, and whether the account is a demo
          door,    \* "rest" or "graphql"
          ops,     \* the document
          turn,    \* the operation that is next
          books,   \* what was done, in order, and by whom
          reply    \* what the caller was told

doorVars == <<caller, door, ops, turn, books, reply>>

ApiKeys == {"readKey", "writeKey", "revokedKey", "spentKey"}
NoReply == [over |-> FALSE, stopped |-> 0, code |-> "", data |-> FALSE]

-----------------------------------------------------------------------------
\* What the handlers check, in their order.
Editable == <<"user", "editable">>

RestAddFunds == Editable \o <<"account", "amount">>
RestTransfer ==
  Editable \o <<"number", "amount", "memo", "account", "recipient", "self", "demoTo",
               "funds">>
RestPayBill == Editable \o <<"amount", "memo", "account", "payee", "funds">>
RestRequestLoan == Editable \o <<"amount", "term", "memo", "account", "waiting">>
RestAskForMoney ==
  Editable \o <<"number", "amount", "memo", "account", "payer", "self", "demoTo",
               "asked">>
RestPayRequest == Editable \o <<"request", "account", "answered", "funds">>
RestDeclineRequest == Editable \o <<"request", "answered">>
RestCancelRequest == Editable \o <<"request", "answeredOwn">>
RestMarkNotificationRead == <<"user", "notification">>
RestMarkAllNotificationsRead == <<"user">>
RestOpenTicket == Editable \o <<"subject", "body", "transaction">>
RestReplyToTicket == <<"user", "ticket", "editable", "body", "demoTicket">>
RestGetCard == Editable \o <<"account", "issued">>
RestUpdateCard == Editable \o <<"card", "limit", "nothing", "bankFroze">>
RestChargeCard == Editable \o <<"merchant", "amount", "card">>
RestPlaceOrder == Editable \o <<"amount", "limit", "coin", "account", "held">>
RestCancelOrder == Editable \o <<"order">>
RestCreatePriceAlert == Editable \o <<"limit", "coin">>
RestCancelPriceAlert == Editable \o <<"alert">>
RestCreateApiKey == Editable \o <<"name", "keys">>
RestRevokeApiKey == Editable \o <<"key">>
RestQuoteTrade == Editable \o <<"amount", "tradedCoin", "buysNothing", "covers">>
RestTrade == Editable \o <<"quote", "used", "expired", "paidFrom", "covers">>
RestSendCoin ==
  Editable \o <<"quantity", "memo", "tradedCoin", "address", "heldInWallet">>
RestSwapCoin == Editable \o <<"quantity", "sameCoin", "tradedCoin", "heldInWallet">>

RestChecks ==
  [addFunds |-> RestAddFunds, transfer |-> RestTransfer, payBill |-> RestPayBill,
   requestLoan |-> RestRequestLoan, askForMoney |-> RestAskForMoney,
   payRequest |-> RestPayRequest, declineRequest |-> RestDeclineRequest,
   cancelRequest |-> RestCancelRequest,
   markNotificationRead |-> RestMarkNotificationRead,
   markAllNotificationsRead |-> RestMarkAllNotificationsRead,
   openTicket |-> RestOpenTicket,
   replyToTicket |-> RestReplyToTicket, getCard |-> RestGetCard,
   updateCard |-> RestUpdateCard,
   chargeCard |-> RestChargeCard, placeOrder |-> RestPlaceOrder,
   cancelOrder |-> RestCancelOrder,
   createPriceAlert |-> RestCreatePriceAlert,
   cancelPriceAlert |-> RestCancelPriceAlert,
   createApiKey |-> RestCreateApiKey, revokeApiKey |-> RestRevokeApiKey,
   quoteTrade |-> RestQuoteTrade, trade |-> RestTrade, sendCoin |-> RestSendCoin,
   swapCoin |-> RestSwapCoin]

Deed == DOMAIN RestChecks
KeyDeeds == {"createApiKey", "revokeApiKey"}

GraphqlAddFunds == Editable \o <<"account", "amount">>
GraphqlTransfer ==
  Editable \o <<"amount", "memo", "account", "number", "recipient", "self", "demoTo",
               "funds">>
GraphqlPayBill == Editable \o <<"amount", "memo", "account", "payee", "funds">>
GraphqlRequestLoan == Editable \o <<"amount", "term", "memo", "account", "waiting">>
GraphqlAskForMoney ==
  Editable \o <<"amount", "memo", "account", "number", "payer", "self", "demoTo",
               "asked">>
GraphqlPayRequest == Editable \o <<"request", "account", "answered", "funds">>
GraphqlAnswerRequest == Editable \o <<"request", "answered">>
GraphqlCancelRequest == Editable \o <<"request", "answeredOwn">>
GraphqlMarkNotificationRead == <<"user", "notification">>
GraphqlMarkAllNotificationsRead == <<"user">>
GraphqlOpenTicket == Editable \o <<"subject", "body", "transaction">>
GraphqlReplyToTicket == <<"user", "ticket", "editable", "body", "demoTicket">>
GraphqlGetCard == Editable \o <<"account", "issued">>
GraphqlUpdateCard == Editable \o <<"limit", "nothing", "card", "bankFroze">>

\* A flawed version: any signed-in account may charge a card.
GraphqlChargeCardUnguarded == <<"user", "merchant", "amount", "card">>

GraphqlChargeCard == Editable \o <<"merchant", "amount", "card">>
GraphqlPlaceOrder == Editable \o <<"amount", "limit", "coin", "account", "held">>
GraphqlCancelOrder == Editable \o <<"order">>
GraphqlCreatePriceAlert == Editable \o <<"limit", "coin">>
GraphqlCancelPriceAlert == Editable \o <<"alert">>

\* A flawed version: a key may make keys.
GraphqlCreateApiKeyByAnyone == <<"user", "editable", "name", "keys">>

GraphqlCreateApiKey == <<"user", "session", "editable", "name", "keys">>
GraphqlRevokeApiKey == <<"user", "session", "editable", "key">>
GraphqlQuoteTrade == Editable \o <<"amount", "tradedCoin", "buysNothing", "covers">>
GraphqlTrade == Editable \o <<"quote", "used", "expired", "paidFrom", "covers">>
GraphqlSendCoin == Editable \o <<"quantity", "tradedCoin", "address", "heldInWallet">>
GraphqlSwapCoin ==
  Editable \o <<"quantity", "sameCoin", "tradedCoin", "heldInWallet">>

GraphqlChecks ==
  [addFunds |-> GraphqlAddFunds, transfer |-> GraphqlTransfer,
   payBill |-> GraphqlPayBill, requestLoan |-> GraphqlRequestLoan,
   askForMoney |-> GraphqlAskForMoney, payRequest |-> GraphqlPayRequest,
   declineRequest |-> GraphqlAnswerRequest,
   cancelRequest |-> GraphqlCancelRequest,
   markNotificationRead |-> GraphqlMarkNotificationRead,
   markAllNotificationsRead |-> GraphqlMarkAllNotificationsRead,
   openTicket |-> GraphqlOpenTicket,
   replyToTicket |-> GraphqlReplyToTicket, getCard |-> GraphqlGetCard,
   updateCard |-> GraphqlUpdateCard,
   chargeCard |-> GraphqlChargeCard, placeOrder |-> GraphqlPlaceOrder,
   cancelOrder |-> GraphqlCancelOrder,
   createPriceAlert |-> GraphqlCreatePriceAlert,
   cancelPriceAlert |-> GraphqlCancelPriceAlert,
   createApiKey |-> GraphqlCreateApiKey, revokeApiKey |-> GraphqlRevokeApiKey,
   quoteTrade |-> GraphqlQuoteTrade,
   trade |-> GraphqlTrade, sendCoin |-> GraphqlSendCoin, swapCoin |-> GraphqlSwapCoin]

\* What is checked of a key before any handler: it must be known and not spent,
\* keys are never managed with a key, and one that may only read changes nothing.
RestGate(deed) ==
  IF deed \in KeyDeeds THEN <<"known", "rate", "session", "scope">>
  ELSE <<"known", "rate", "scope">>

\* The same address for every document: a key that may read may not change.
GraphqlGate == <<"known", "rate", "scope">>

-----------------------------------------------------------------------------
\* How often any of these were done, by anyone.
Times(deeds) == Len(SelectSeq(books, LAMBDA e : e.deed \in deeds))
WasDone(deeds) == Times(deeds) > 0

Spends == {"transfer", "payBill", "payRequest", "trade"}

\* What the check finds now, of this operation.
Fails(check, op) ==
  CASE check = "known" -> caller.by = "revokedKey"
    [] check = "rate" -> caller.by = "spentKey"
    [] check = "scope" -> caller.by = "readKey"
    [] check = "session" -> caller.by \in ApiKeys
    [] check = "user" -> caller.by = "visitor"
    [] check = "editable" -> caller.demo
    [] check = "funds" -> Times(Spends) >= Money + Times({"addFunds"})
    [] check \in {"held", "heldInWallet"} -> Times({"sendCoin", "swapCoin"}) >= Coins
    [] check = "waiting" -> Times({"requestLoan"}) >= Cap
    [] check = "asked" -> Times({"askForMoney"}) >= Cap
    [] check = "keys" -> Times({"createApiKey"}) >= Cap + Times({"revokeApiKey"})
    [] check = "answered" -> WasDone({"payRequest", "declineRequest", "withdrawn"})
    [] check = "answeredOwn" -> WasDone({"cancelRequest", "paidElsewhere"})
    [] check = "issued" -> WasDone({"getCard"})
    [] check = "bankFroze" -> WasDone({"frozenByBank"})
    [] check = "used" -> WasDone({"trade"})
    [] check = "order" -> check \in op.wrong \/ WasDone({"cancelOrder"})
    [] check = "alert" -> check \in op.wrong \/ WasDone({"cancelPriceAlert"})
    [] check = "key" -> check \in op.wrong \/ WasDone({"revokeApiKey"})
    [] OTHER -> check \in op.wrong

\* Fields are VALIDATION_FAILED; the others have a code of their own, the same at
\* both doors but for what is thrown by the coins' modules: REST names it last of
\* all (handle), a resolver does not.
FieldChecks ==
  {"amount", "number", "memo", "term", "self", "limit", "nothing", "merchant", "name",
   "subject", "body", "transaction", "quantity"}
Unnamed ==
  {"tradedCoin", "buysNothing", "covers", "quote", "used", "expired", "paidFrom"}
WalletChecks == {"address", "sameCoin"}

RestCode(check) ==
  CASE check \in FieldChecks -> "VALIDATION_FAILED"
    [] check \in WalletChecks -> "VALIDATION"
    [] check \in {"tradedCoin", "buysNothing", "quote", "paidFrom"} -> "NOT_FOUND"
    [] check \in {"covers", "heldInWallet", "funds"} -> "INSUFFICIENT_FUNDS"
    [] OTHER -> check

GraphqlCode(check) ==
  CASE check \in FieldChecks \cup WalletChecks -> "VALIDATION_FAILED"
    [] check \in Unnamed -> "SERVER_ERROR"
    [] check \in {"heldInWallet", "funds"} -> "INSUFFICIENT_FUNDS"
    [] OTHER -> check

\* The checks that fail, first first.
Failing(checks, op) == SelectSeq(checks, LAMBDA c : Fails(c, op))

RestFailing(op) == Failing(RestGate(op.deed) \o RestChecks[op.deed], op)
GraphqlFailing(op) == Failing(GraphqlGate \o GraphqlChecks[op.deed], op)

-----------------------------------------------------------------------------
Caller ==
  [by : {"visitor", "session"} \cup ApiKeys, demo : BOOLEAN]

DoorStart ==
  /\ caller \in Caller /\ door \in {"rest", "graphql"}
  /\ ops \in Documents
  /\ turn = 1 /\ books = <<>> /\ reply = NoReply

Enters(op) == Append(books, [deed |-> op.deed, by |-> "caller"])

\* The operation is done, and the next one is on.
Does(data) ==
  /\ books' = Enters(ops[turn])
  /\ turn' = turn + 1
  /\ LET last == turn = Len(ops)
     IN  reply' = [reply EXCEPT !.over = last, !.data = last /\ data]

Refuses(stopped, code) ==
  /\ reply' = [over |-> TRUE, stopped |-> stopped, code |-> code, data |-> FALSE]
  /\ UNCHANGED <<turn, books>>

\* REST: a request for each; a program that is refused stops.
Requests ==
  /\ door = "rest" /\ ~reply.over
  /\ LET failing == RestFailing(ops[turn]) IN
     IF failing = <<>> THEN Does(TRUE) ELSE Refuses(turn, RestCode(Head(failing)))
  /\ UNCHANGED <<caller, door, ops>>

\* GraphQL: the whole document is refused before anything is done.
Turned ==
  /\ door = "graphql" /\ turn = 1 /\ ~reply.over
  /\ LET failing == Failing(GraphqlGate, ops[1]) IN
     failing # <<>> /\ Refuses(0, GraphqlCode(Head(failing)))
  /\ UNCHANGED <<caller, door, ops>>

\* A flawed version: a field that fails leaves its place empty and the rest go on.
ResolvesOn ==
  /\ door = "graphql" /\ ~reply.over
  /\ Failing(GraphqlGate, ops[1]) = <<>>
  /\ LET failing == Failing(GraphqlChecks[ops[turn].deed], ops[turn]) IN
     IF failing = <<>> THEN Does(reply.stopped = 0)
     ELSE /\ reply' = [over |-> turn = Len(ops), data |-> FALSE,
                       stopped |-> IF reply.stopped = 0 THEN turn ELSE reply.stopped,
                       code |-> GraphqlCode(Head(failing))]
          /\ turn' = turn + 1 /\ UNCHANGED books
  /\ UNCHANGED <<caller, door, ops>>

\* The fields of a mutation, one after the other. None may be null, so the first
\* that fails ends the document and takes the data with it; what was done before
\* it stays done.
Resolves ==
  /\ door = "graphql" /\ ~reply.over
  /\ Failing(GraphqlGate, ops[1]) = <<>>
  /\ LET failing == Failing(GraphqlChecks[ops[turn].deed], ops[turn]) IN
     IF failing = <<>> THEN Does(TRUE) ELSE Refuses(turn, GraphqlCode(Head(failing)))
  /\ UNCHANGED <<caller, door, ops>>

\* Somebody else is served between two of them.
ServesOthers ==
  /\ ~reply.over
  /\ Len(SelectSeq(books, LAMBDA e : e.by = "others")) < MaxElsewhere
  /\ \E deed \in Elsewhere : books' = Append(books, [deed |-> deed, by |-> "others"])
  /\ UNCHANGED <<caller, door, ops, turn, reply>>

DoorNext == Requests \/ Turned \/ Resolves \/ ServesOthers

-----------------------------------------------------------------------------
\* An operation with nothing wrong, or one thing a check at either door looks for.
Operation ==
  LET Wrong(d) ==
        {{}} \cup {{c} : c \in ToSet(RestChecks[d]) \cup ToSet(GraphqlChecks[d])}
  IN  UNION {[deed : {d}, wrong : Wrong(d)] : d \in Deed}

\* Differences there are: a memo with coins is not looked at in GraphQL; and the
\* codes of what the coins' modules throw.
NotLookedAt(op) == op.deed = "sendCoin" /\ op.wrong = {"memo"}
NotNamed == Unnamed \cup WalletChecks

\* "REST and GraphQL always agree because they call the same code": whoever asks
\* for whatever, both doors let it in or neither, and one thing wrong has one code.
SameAtBothDoors ==
  \A op \in Operation :
    LET rest == RestFailing(op)
        graphql == GraphqlFailing(op)
        failing == ToSet(rest) \cup ToSet(graphql) IN
    /\ NotLookedAt(op) \/ (rest = <<>> <=> graphql = <<>>)
    /\ Cardinality(failing) = 1 /\ ~NotLookedAt(op) =>
         \A c \in failing \ NotNamed : RestCode(c) = GraphqlCode(c)

\* The caller knows how far it came: what was done is what comes before the
\* operation the error names, all of it when nothing failed, and the data is there
\* only then.
HowFarIsTold ==
  LET mine == SelectSeq(books, LAMBDA e : e.by = "caller")
      done == IF reply.code = "" THEN Len(ops)
              ELSE IF reply.stopped = 0 THEN 0
              ELSE reply.stopped - 1 IN
  reply.over =>
    /\ [i \in 1..Len(mine) |-> mine[i].deed] = [i \in 1..done |-> ops[i].deed]
    /\ reply.data <=> reply.code = ""
=============================================================================
