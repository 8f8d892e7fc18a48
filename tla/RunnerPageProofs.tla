-------------------------- MODULE RunnerPageProofs --------------------------
(***************************************************************************)
(* Theorems about RunnerPage, for any runs, scenes, number of sessions,    *)
(* failures and polls: what is on the wire and on the page is what the     *)
(* runs and the sessions of this browser account for.                      *)
(***************************************************************************)
EXTENDS RunnerPage, FiniteSetTheorems, WellFoundedInduction, TLAPS

-----------------------------------------------------------------------------
(* Sets of natural numbers have a least element, and finite ones a         *)
(* greatest.                                                               *)

\* The least element, as intervals below include each other.
LEMMA MinIn ==
  ASSUME NEW S \in SUBSET Nat, S # {}
  PROVE  Min(S) \in S /\ \A y \in S : Min(S) <= y
<1> DEFINE below == {0..n : n \in S}
<1>1. below \subseteq FiniteSubsetsOf(Nat) /\ below # {}
  <2>1. \A n \in S : 0..n \subseteq Nat /\ IsFiniteSet(0..n)  BY FS_Interval
  <2> QED  BY <2>1 DEF FiniteSubsetsOf
<1>2. PICK b \in below : \A a \in below : <<a, b>> \notin StrictSubsetOrdering(Nat)
  <2> HIDE DEF below
  <2> QED  BY <1>1, FS_StrictSubsetOrderingWellFounded, WFMin
<1>3. PICK x \in S : b = 0..x  OBVIOUS
<1>4. ASSUME NEW y \in S  PROVE x <= y
  <2> SUFFICES ASSUME y < x PROVE FALSE  OBVIOUS
  <2>1. <<0..y, b>> \notin StrictSubsetOrdering(Nat)  BY <1>2
  <2>2. 0..y \subseteq 0..x /\ x \in 0..x /\ x \notin 0..y /\ 0..x \subseteq Nat  OBVIOUS
  <2>3. 0..y # 0..x  BY <2>2
  <2>4. <<0..y, 0..x>> \in (SUBSET Nat) \X (SUBSET Nat)  BY <2>2
  <2> QED  BY <1>3, <2>1, <2>2, <2>3, <2>4 DEF StrictSubsetOrdering
<1> QED  BY <1>4 DEF Min

\* The greatest: what is above it in the set is empty.
LEMMA MaxIn ==
  ASSUME NEW S \in SUBSET Nat, S # {}, IsFiniteSet(S)
  PROVE  Max(S) \in S /\ \A y \in S : Max(S) >= y
<1> DEFINE Above(x) == {y \in S : y > x}
           above == {Above(x) : x \in S}
<1>1. above \subseteq FiniteSubsetsOf(Nat) /\ above # {}
  <2>1. \A x \in S : Above(x) \in SUBSET S /\ IsFiniteSet(Above(x))  BY FS_Subset
  <2> QED  BY <2>1 DEF FiniteSubsetsOf
<1>2. PICK b \in above : \A a \in above : <<a, b>> \notin StrictSubsetOrdering(Nat)
  <2> HIDE DEF above
  <2> QED  BY <1>1, FS_StrictSubsetOrderingWellFounded, WFMin
<1>3. PICK x \in S : b = Above(x)  OBVIOUS
<1>4. ASSUME NEW y \in S  PROVE x >= y
  <2> SUFFICES ASSUME y > x PROVE FALSE  OBVIOUS
  <2>1. <<Above(y), b>> \notin StrictSubsetOrdering(Nat)  BY <1>2
  <2>2. /\ x \in Nat /\ y \in Nat
        /\ \A z \in S : z \in Nat /\ (z > y => z > x)
    OBVIOUS
  <2>5. Above(y) \subseteq Above(x) /\ y \in Above(x) /\ y \notin Above(y)
    <3>1. ~(y > y)  BY <2>2
    <3> QED  BY <2>2, <3>1
  <2>3. Above(y) # Above(x)  BY <2>5
  <2>4. <<Above(y), Above(x)>> \in (SUBSET Nat) \X (SUBSET Nat)  OBVIOUS
  <2> HIDE DEF Above
  <2> QED  BY <1>3, <2>1, <2>3, <2>4, <2>5 DEF StrictSubsetOrdering
<1> QED  BY <1>4 DEF Max

-----------------------------------------------------------------------------
(* The wire.                                                               *)

\* A copy number that is free is found: there are more numbers than requests.
LEMMA CopyFree ==
  ASSUME NEW there \in SUBSET Request, IsFiniteSet(there), NEW q \in Request
  PROVE  {c \in 0..Cardinality(there) : [q EXCEPT !.copy = c] \notin there} # {}
<1> SUFFICES ASSUME \A c \in 0..Cardinality(there) : [q EXCEPT !.copy = c] \in there
             PROVE  FALSE
  OBVIOUS
<1> DEFINE n == Cardinality(there)
           f == [c \in 0..n |-> [q EXCEPT !.copy = c]]
<1>1. n \in Nat  BY FS_CardinalityType
<1>2. IsFiniteSet(0..n) /\ Cardinality(0..n) = n + 1
  <2>1. \A k \in Nat : IsFiniteSet(0..k) /\ Cardinality(0..k) = k + 1
    <3> TAKE k \in Nat
    <3>1. 0 \in Int /\ k \in Int /\ ~(0 > k) /\ k - 0 + 1 = k + 1  OBVIOUS
    <3> QED  BY <3>1, FS_Interval
  <2> HIDE DEF n
  <2> QED  BY <1>1, <2>1
<1>3. f \in [0..n -> there]  OBVIOUS
<1>4. PICK x \in 0..n, y \in 0..n : x # y /\ f[x] = f[y]
  <2> HIDE DEF f
  <2>1. n < n + 1  BY <1>1
  <2> QED  BY <1>2, <1>3, <2>1, FS_PigeonHole
<1>5. f[x].copy = x /\ f[y].copy = y  BY DEF Request
<1> QED  BY <1>4, <1>5

\* q and its copy say the same.
Same(a, q) ==
  /\ a.at = q.at /\ a.kind = q.kind /\ a.run = q.run /\ a.epoch = q.epoch
  /\ a.session = q.session /\ a.chain = q.chain /\ a.dispatch = q.dispatch
  /\ a.since = q.since /\ a.tries = q.tries /\ a.mark = q.mark /\ a.ok = q.ok
  /\ a.data = q.data

LEMMA CopyIsSame ==
  ASSUME NEW there \in SUBSET Request, IsFiniteSet(there), NEW q \in Request
  PROVE  Copied(there, q) \in Request /\ Same(Copied(there, q), q)
<1> DEFINE free == {c \in 0..Cardinality(there) : [q EXCEPT !.copy = c] \notin there}
<1>1. free \in SUBSET Nat /\ free # {}  BY CopyFree, FS_CardinalityType
<1>2. Min(free) \in Nat
  <2> HIDE DEF free
  <2> QED  BY <1>1, MinIn
<1> HIDE DEF free
<1>3. Copied(there, q) = [q EXCEPT !.copy = Min(free)]  BY DEF Copied, free
<1> QED  BY <1>2, <1>3 DEF Request, Same

\* What is put on the wire stays a finite set of requests, each of which was
\* there or says what was asked; and all that was there or asked is on it.
LEMMA PutType ==
  ASSUME NEW there \in SUBSET Request, IsFiniteSet(there),
         NEW asks \in SUBSET Request, IsFiniteSet(asks)
  PROVE  /\ Put(there, asks) \in SUBSET Request /\ IsFiniteSet(Put(there, asks))
         /\ there \subseteq Put(there, asks)
         /\ \A q \in Put(there, asks) : q \in there \/ \E a \in asks : Same(q, a)
         /\ \A a \in asks : \E q \in Put(there, asks) : Same(q, a)
<1> DEFINE copies == {Copied(there, q) : q \in asks}
<1>1. \A q \in asks : Copied(there, q) \in Request /\ Same(Copied(there, q), q)
  BY CopyIsSame
<1>2. IsFiniteSet(copies)
  <2> DEFINE f == [q \in asks |-> Copied(there, q)]
  <2>1. f \in Surjection(asks, copies)  BY DEF Surjection
  <2> HIDE DEF f, copies
  <2> QED  BY <2>1, FS_Surjection
<1>3. IsFiniteSet(there \cup copies)
  <2> HIDE DEF copies
  <2> QED  BY <1>2, FS_Union
<1> QED  BY <1>1, <1>3 DEF Put

-----------------------------------------------------------------------------
(* What handlers do to the page.                                           *)

\* A page as it may be, whatever is on the wire.
PageOK(p) ==
  /\ p \in Page
  /\ p.timer => p.screen = "runner" /\ ~p.hidden
  /\ p.held.view # NoRun => Born(p.held.view)
  /\ \A r \in RunId : p.held.listed[r] # Nowhere \/ p.held.board[r] # Nowhere => Born(r)
  /\ p.tab = "view" /\ (p.timer \/ (p.screen = "runner" /\ p.leaving # "told"))
       => p.held.view # NoRun
  /\ p.held.report <= p.ticket

\* A request as it may be, whatever the page is.
AskOK(q) ==
  /\ q \in Request
  /\ q.run # NoRun => Born(q.run)
  /\ q.kind \in {"detail", "logs", "results", "cancel"} => q.run # NoRun
  /\ \A r \in RunId : q.data.list[r] # Nowhere => Born(r)
  /\ q.data.named # NoRun => Born(q.data.named)
  /\ q.chain = "start" => q.run = NoRun
  /\ q.kind = "detail" => q.chain # "none"
  /\ q.kind = "cancel" => q.chain = "cancel"
  /\ q.kind = "start" => q.chain = "start"

\* What p sends: nothing of it has been served, and it does not ask who is
\* signed in.
Sent(p, a) ==
  /\ AskOK(a) /\ a.at = "sent" /\ a.dispatch = 0 /\ a.data = NoData
  /\ a.epoch = p.epoch /\ a.session = p.me
SentBy(p, a) == Sent(p, a) /\ a.kind # "session"

\* p goes on as d: the same session in the same place.
Goods(p, d) ==
  /\ PageOK(d.page)
  /\ d.asks \in SUBSET Request /\ IsFiniteSet(d.asks) /\ \A a \in d.asks : SentBy(p, a)
  /\ d.page.screen = p.screen /\ d.page.leaving = p.leaving /\ d.page.epoch = p.epoch
  /\ d.page.me = p.me /\ d.page.hidden = p.hidden
  /\ d.page.held.from = p.held.from
  /\ d.page.held.report >= p.held.report

\* The buttons of p are as they were.
Pressed(p, d) ==
  d.page.held.starting = p.held.starting /\ d.page.held.cancelling = p.held.cancelling

\* Nothing was asked.
LEMMA NoDataType == NoData \in Answer /\ None \in [RunId -> Statuses]
BY DEF NoData, Answer, None, Statuses, Texts, Nowhere, NoRun

\* What a handler sends is a request of the page.
LEMMA SendType ==
  ASSUME NEW p \in Page, NEW kind \in Kinds, NEW r \in RunId \cup {NoRun}, NEW chain \in Chains
  PROVE  /\ Send(p, kind, r, chain) \in Request
         /\ Send(p, kind, r, chain).kind = kind /\ Send(p, kind, r, chain).run = r
         /\ Send(p, kind, r, chain).chain = chain /\ Send(p, kind, r, chain).at = "sent"
         /\ Send(p, kind, r, chain).dispatch = 0 /\ Send(p, kind, r, chain).data = NoData
         /\ Send(p, kind, r, chain).epoch = p.epoch /\ Send(p, kind, r, chain).session = p.me
         /\ \A n \in Nat : [Send(p, kind, r, chain) EXCEPT !.mark = n] \in Request
<1>1. p.epoch \in Nat /\ p.me \in Nat  BY DEF Page
<1>2. 0 \in 0..MaxTime  BY RunsAreNumbers
<1> QED  BY <1>1, <1>2, NoDataType DEF Send, Ask, Request, Nowhere

\* It may be sent if what it asks of is there and its chain is of its kind.
LEMMA SendOK ==
  ASSUME NEW p \in Page, NEW kind \in Kinds, NEW r \in RunId \cup {NoRun}, NEW chain \in Chains,
         r # NoRun => Born(r),
         kind \in {"detail", "logs", "results", "cancel"} => r # NoRun,
         chain = "start" => r = NoRun, kind = "detail" => chain # "none",
         kind = "cancel" => chain = "cancel", kind = "start" => chain = "start"
  PROVE  /\ Sent(p, Send(p, kind, r, chain))
         /\ kind # "session" => SentBy(p, Send(p, kind, r, chain))
         /\ \A n \in Nat : kind # "session" => SentBy(p, [Send(p, kind, r, chain) EXCEPT !.mark = n])
<1> DEFINE a == Send(p, kind, r, chain)
<1>1. \A s \in RunId : NoData.list[s] = Nowhere  BY DEF NoData, None
<1>2. NoData.named = NoRun  BY DEF NoData
<1>3. Sent(p, a) /\ a.kind = kind  BY SendType, <1>1, <1>2 DEF Sent, AskOK
<1>4. ASSUME NEW n \in Nat, kind # "session"  PROVE SentBy(p, [a EXCEPT !.mark = n])
  <2> DEFINE b == [a EXCEPT !.mark = n]
  <2>1. b \in Request /\ a \in Request  BY SendType
  <2>3. /\ b.at = a.at /\ b.kind = a.kind /\ b.run = a.run /\ b.epoch = a.epoch
        /\ b.session = a.session /\ b.chain = a.chain /\ b.dispatch = a.dispatch /\ b.data = a.data
    BY <2>1 DEF Request
  <2>4. SentBy(p, b)
    <3> HIDE DEF a, b
    <3> QED  BY <1>3, <1>4, <2>1, <2>3 DEF SentBy, Sent, AskOK
  <2> QED  BY <2>4
<1> QED  BY <1>3, <1>4 DEF SentBy

\* Fetching the log text of a run.
LEMMA LoadLogsGood ==
  ASSUME NEW p, PageOK(p), NEW r \in RunId, Born(r)
  PROVE  Goods(p, LoadLogs(p, r)) /\ Pressed(p, LoadLogs(p, r))
<1>0. p \in Page /\ p.held \in Held /\ p.held.logs[r] \in Logs  BY DEF PageOK, Page, Held
<1>1. CASE p.held.logs[r].loading
  BY <1>0, <1>1, FS_EmptySet DEF LoadLogs, Then, Goods, Pressed, Page, Held
<1>2. CASE ~p.held.logs[r].loading
  <2> DEFINE d == [p EXCEPT !.held.logs[r].loading = TRUE]
             a == [Send(p, "logs", r, "none") EXCEPT !.mark = p.held.logs[r].entry]
  <2>1. LoadLogs(p, r) = Then(d, {a})  BY <1>2 DEF LoadLogs
  <2>2. d \in Page  BY <1>0 DEF Page, Held, Logs
  <2>3. SentBy(p, a)
    <3>1. p.held.logs[r].entry \in Nat  BY <1>0 DEF Logs
    <3> QED  BY <1>0, <3>1, SendOK, RunsAreNumbers DEF Kinds, Chains
  <2>4. PageOK(d)  BY <1>0, <2>2 DEF PageOK, Page, Held
  <2>5. a \in Request /\ IsFiniteSet({a})  BY <2>3, FS_Singleton DEF SentBy, Sent, AskOK
  <2>6. /\ d.screen = p.screen /\ d.leaving = p.leaving /\ d.epoch = p.epoch
        /\ d.me = p.me /\ d.hidden = p.hidden
        /\ d.held.from = p.held.from /\ d.held.report >= p.held.report
        /\ d.held.starting = p.held.starting /\ d.held.cancelling = p.held.cancelling
    BY <1>0 DEF Page, Held
  <2> HIDE DEF d, a
  <2> QED  BY <2>1, <2>3, <2>4, <2>5, <2>6 DEF Goods, Pressed, Then
<1> QED  BY <1>1, <1>2

\* The reports, with the next ticket.
LEMMA LoadReportGood ==
  ASSUME NEW p, PageOK(p)
  PROVE  Goods(p, LoadReport(p)) /\ Pressed(p, LoadReport(p))
<1> DEFINE d == [p EXCEPT !.ticket = @ + 1]
           a == [Send(p, "report", NoRun, "none") EXCEPT !.mark = p.ticket + 1]
<1>0. p \in Page /\ p.held \in Held  BY DEF PageOK, Page, Held
<1>1. d \in Page  BY <1>0 DEF Page
<1>2. SentBy(p, a)
  <2>1. p.ticket + 1 \in Nat  BY <1>0 DEF Page
  <2> QED  BY <1>0, <2>1, SendOK DEF Kinds, Chains
<1>3. PageOK(d)  BY <1>0, <1>1 DEF PageOK, Page, Held
<1>4. a \in Request /\ IsFiniteSet({a})  BY <1>2, FS_Singleton DEF SentBy, Sent, AskOK
<1>5. /\ d.screen = p.screen /\ d.leaving = p.leaving /\ d.epoch = p.epoch
      /\ d.me = p.me /\ d.hidden = p.hidden /\ d.held = p.held
      /\ p.held.report >= p.held.report
  BY <1>0 DEF Page, Held
<1>6. LoadReport(p) = Then(d, {a})  BY DEF LoadReport
<1> HIDE DEF d, a
<1> QED  BY <1>2, <1>3, <1>4, <1>5, <1>6 DEF Goods, Pressed, Then

\* q is p in the same session and place, with the same buttons.
Stays(p, q) ==
  /\ q.screen = p.screen /\ q.leaving = p.leaving /\ q.epoch = p.epoch
  /\ q.me = p.me /\ q.hidden = p.hidden
  /\ q.held.from = p.held.from /\ q.held.report >= p.held.report
  /\ q.held.starting = p.held.starting /\ q.held.cancelling = p.held.cancelling

\* A handler that only changes the page, and keeps to that, is good.
LEMMA EditGood ==
  ASSUME NEW p, NEW q, PageOK(q), Stays(p, q)
  PROVE  Goods(p, Then(q, {})) /\ Pressed(p, Then(q, {}))
BY FS_EmptySet DEF Goods, Pressed, Then, Stays

\* A page that goes on as it is, and sends one request or none.
LEMMA OneAsk ==
  ASSUME NEW p, PageOK(p), NEW a, SentBy(p, a)
  PROVE  Goods(p, Then(p, {a})) /\ Pressed(p, Then(p, {a}))
<1>1. p.held.report >= p.held.report  BY DEF PageOK, Page, Held
<1>2. a \in Request /\ IsFiniteSet({a})  BY FS_Singleton DEF SentBy, Sent, AskOK
<1> QED  BY <1>1, <1>2 DEF Goods, Pressed, Then

LEMMA NoAsk ==
  ASSUME NEW p, PageOK(p)
  PROVE  Goods(p, Then(p, {})) /\ Pressed(p, Then(p, {}))
<1>1. p.held.report >= p.held.report  BY DEF PageOK, Page, Held
<1> QED  BY <1>1, FS_EmptySet DEF Goods, Pressed, Then

\* One handler goes on after another, and asks more.
LEMMA AndGood ==
  ASSUME NEW p, PageOK(p), NEW d, Goods(p, d), NEW e, Goods(d.page, e)
  PROVE  /\ Goods(p, [page |-> e.page, asks |-> d.asks \cup e.asks])
         /\ Pressed(p, d) /\ Pressed(d.page, e) =>
              Pressed(p, [page |-> e.page, asks |-> d.asks \cup e.asks])
<1>1. e.page.held.report >= p.held.report
  <2>1. /\ e.page.held.report \in Nat /\ d.page.held.report \in Nat /\ p.held.report \in Nat
    BY DEF Goods, PageOK, Page, Held
  <2> QED  BY <2>1 DEF Goods
<1>2. IsFiniteSet(d.asks \cup e.asks)  BY FS_Union DEF Goods
<1>3. \A a \in e.asks : SentBy(p, a)  BY DEF Goods, SentBy, Sent
<1> QED  BY <1>1, <1>2, <1>3 DEF Goods, Pressed

\* The timer goes with what polling wants.
LEMMA ScheduleGood ==
  ASSUME NEW p, PageOK(p)
  PROVE  Goods(p, Then(SchedulePolling(p), {})) /\ Pressed(p, Then(SchedulePolling(p), {}))
<1> DEFINE d == SchedulePolling(p)
<1>0. p \in Page /\ p.held \in Held  BY DEF PageOK, Page, Held
<1>1. PollingWanted(p) \in BOOLEAN /\ (PollingWanted(p) => p.screen = "runner" /\ ~p.hidden)
      /\ (PollingWanted(p) /\ p.tab = "view" => p.held.view # NoRun)
  BY DEF PollingWanted
<1>2. d \in Page /\ d.timer = PollingWanted(p)  BY <1>0, <1>1 DEF SchedulePolling, Page
<1>3. /\ d.screen = p.screen /\ d.leaving = p.leaving /\ d.epoch = p.epoch /\ d.tab = p.tab
      /\ d.me = p.me /\ d.hidden = p.hidden /\ d.held = p.held /\ d.ticket = p.ticket
      /\ p.held.report >= p.held.report
  BY <1>0 DEF SchedulePolling, Page, Held
<1>4. PageOK(d)  BY <1>1, <1>2, <1>3 DEF PageOK
<1> HIDE DEF d
<1> QED  BY <1>3, <1>4, FS_EmptySet DEF Goods, Pressed, Then, d

\* A tab asks for what it shows when it is opened for the first time.
LEMMA EnsureTabGood ==
  ASSUME NEW p, PageOK(p), NEW t \in Tabs
  PROVE  Goods(p, EnsureTabData(p, t)) /\ Pressed(p, EnsureTabData(p, t))
<1>0. p \in Page  BY DEF PageOK
<1>1. /\ SentBy(p, Send(p, "dashboard", NoRun, "none"))
      /\ SentBy(p, Send(p, "runs", NoRun, "none"))
      /\ SentBy(p, Send(p, "runs", NoRun, "poll"))
  BY <1>0, SendOK DEF Kinds, Chains
<1> QED  BY <1>1, OneAsk, NoAsk, LoadReportGood DEF EnsureTabData, Tabs

\* Another tab closes the run page.
LEMMA SetTabGood ==
  ASSUME NEW p, PageOK(p), NEW t \in Tabs
  PROVE  Goods(p, SetTab(p, t)) /\ Pressed(p, SetTab(p, t))
<1> DEFINE q == [p EXCEPT !.tab = t, !.stored = t, !.held.view = NoRun]
           d == SchedulePolling(q)
<1>0. p \in Page /\ p.held \in Held  BY DEF PageOK, Page, Held
<1>1. q \in Page  BY <1>0 DEF Page, Held
<1>2. t # "view"  BY DEF Tabs
<1>3. PageOK(q)  BY <1>0, <1>1, <1>2 DEF PageOK, Page, Held
<1>4. Goods(p, Then(q, {})) /\ Pressed(p, Then(q, {}))
  <2>1. Stays(p, q)  BY <1>0 DEF Stays, Page, Held
  <2> QED  BY <1>3, <2>1, EditGood
<1>5. Goods(q, Then(d, {})) /\ Pressed(q, Then(d, {}))  BY <1>3, ScheduleGood
<1>6. Goods(d, EnsureTabData(d, t)) /\ Pressed(d, EnsureTabData(d, t))
  BY <1>5, EnsureTabGood DEF Goods, Then
<1>7. SetTab(p, t) = EnsureTabData(d, t)  BY DEF SetTab
<1>8. Goods(p, Then(d, {})) /\ Pressed(p, Then(d, {}))
  <2> HIDE DEF q, d
  <2> QED  BY <1>4, <1>5, AndGood DEF Then
<1>9. EnsureTabData(d, t) = [page |-> EnsureTabData(d, t).page, asks |-> EnsureTabData(d, t).asks]
  BY DEF EnsureTabData, Then, LoadReport
<1> HIDE DEF q, d
<1> QED  BY <1>6, <1>7, <1>8, <1>9, AndGood DEF Then

\* The run page: the log text, once, and the run, which is polled.
LEMMA OpenRunViewGood ==
  ASSUME NEW p, PageOK(p), NEW r \in RunId, Born(r)
  PROVE  Goods(p, OpenRunView(p, r)) /\ Pressed(p, OpenRunView(p, r))
<1> DEFINE q == [p EXCEPT !.tab = "view", !.held.view = r]
           d == IF p.held.logs[r].fetched THEN Then(q, {}) ELSE LoadLogs(q, r)
           a == Send(p, "detail", r, "poll")
<1>0. p \in Page /\ p.held \in Held  BY DEF PageOK, Page, Held
<1>1. q \in Page  BY <1>0 DEF Page, Held
<1>2. PageOK(q)  BY <1>0, <1>1, RunsAreNumbers DEF PageOK, Page, Held
<1>3. Stays(p, q)  BY <1>0 DEF Stays, Page, Held
<1>4. Goods(p, Then(q, {})) /\ Pressed(p, Then(q, {}))  BY <1>2, <1>3, EditGood
<1>5. Goods(q, d) /\ Pressed(q, d)
  <2> HIDE DEF q
  <2> QED  BY <1>2, NoAsk, LoadLogsGood
<1>6. SentBy(p, a)  BY <1>0, SendOK, RunsAreNumbers DEF Kinds, Chains
<1>7. OpenRunView(p, r) = [page |-> d.page, asks |-> d.asks \cup {a}]
  BY DEF OpenRunView, And, Then
<1> HIDE DEF q, d, a
<1>8. Goods(p, [page |-> d.page, asks |-> d.asks]) /\ Pressed(p, [page |-> d.page, asks |-> d.asks])
  BY <1>4, <1>5, AndGood DEF Then
<1>9. SentBy(d.page, a) /\ PageOK(d.page)  BY <1>6, <1>8 DEF SentBy, Sent, Goods
<1>10. Goods(d.page, Then(d.page, {a})) /\ Pressed(d.page, Then(d.page, {a}))
  BY <1>9, OneAsk
<1> QED  BY <1>7, <1>8, <1>10, AndGood DEF Then

\* The views already loaded are refreshed.
LEMMA RefreshesOK ==
  ASSUME NEW p \in Page, NEW r \in RunId \cup {NoRun}, NEW chain \in {"start", "cancel"},
         r # NoRun => Born(r), chain = "start" => r = NoRun
  PROVE  /\ Refreshes(p, r, chain) \in SUBSET Request /\ IsFiniteSet(Refreshes(p, r, chain))
         /\ \A a \in Refreshes(p, r, chain) : SentBy(p, a) /\ a.chain = chain /\ a.run = r
<1> DEFINE a == Send(p, "runs", r, chain)  b == Send(p, "dashboard", r, chain)
<1>1. SentBy(p, a) /\ SentBy(p, b)  BY SendOK DEF Kinds, Chains
<1>2. /\ a.chain = chain /\ a.run = r /\ b.chain = chain /\ b.run = r
      /\ a \in Request /\ b \in Request
  BY SendType DEF Kinds, Chains
<1>3. Refreshes(p, r, chain) \in SUBSET {a, b}  BY DEF Refreshes
<1> HIDE DEF a, b
<1>4. IsFiniteSet({a, b})
  <2>1. {a, b} = {a} \cup {b} /\ IsFiniteSet({a})  BY FS_Singleton
  <2> QED  BY <2>1, FS_AddElement
<1>5. IsFiniteSet(Refreshes(p, r, chain))  BY <1>3, <1>4, FS_Subset
<1> QED  BY <1>1, <1>2, <1>3, <1>5

\* The log text of a run not listed is dropped, and nothing else.
LEMMA PruneGood ==
  ASSUME NEW p, PageOK(p)
  PROVE  /\ PageOK(Prune(p)) /\ Stays(p, Prune(p))
         /\ Prune(p).tab = p.tab /\ Prune(p).held.view = p.held.view
         /\ Prune(p).held.detail = p.held.detail /\ Prune(p).timer = p.timer
<1> DEFINE L == [r \in RunId |->
             IF p.held.listed[r] = Nowhere /\ p.held.logs[r] # NoEntry(p.held.logs[r])
               THEN [NoLogs EXCEPT !.entry = p.held.logs[r].entry + 1] ELSE p.held.logs[r]]
<1>0. p \in Page /\ p.held \in Held  BY DEF PageOK, Page, Held
<1>1. Prune(p) = [p EXCEPT !.held = [p.held EXCEPT !.logs = L]]  BY <1>0 DEF Prune, Page, Held
<1>2. L \in [RunId -> Logs]
  <2>1. \A r \in RunId : p.held.logs[r] \in Logs /\ p.held.logs[r].entry + 1 \in Nat
    BY <1>0 DEF Held, Logs
  <2>2. NoLogs \in Logs  BY DEF NoLogs, Logs, Texts, Nowhere
  <2>3. \A n \in Nat : [NoLogs EXCEPT !.entry = n] \in Logs  BY <2>2 DEF Logs
  <2> QED  BY <2>1, <2>3
<1> HIDE DEF L
<1>3. [p.held EXCEPT !.logs = L] \in Held  BY <1>0, <1>2 DEF Held
<1>4. Prune(p) \in Page  BY <1>0, <1>1, <1>3 DEF Page
<1>5. /\ Prune(p).timer = p.timer /\ Prune(p).screen = p.screen /\ Prune(p).tab = p.tab
      /\ Prune(p).hidden = p.hidden /\ Prune(p).leaving = p.leaving
      /\ Prune(p).ticket = p.ticket /\ Prune(p).held.view = p.held.view
      /\ Prune(p).held.listed = p.held.listed /\ Prune(p).held.board = p.held.board
      /\ Prune(p).held.report = p.held.report
  BY <1>0, <1>1 DEF Page, Held
<1>6. PageOK(Prune(p))  BY <1>4, <1>5 DEF PageOK
<1> QED  BY <1>0, <1>1, <1>5, <1>6 DEF Stays, Page, Held

-----------------------------------------------------------------------------
(* What answers do to the page.                                            *)

\* The requests a handler sends on are of q's chain, or of none.
Chained(q, d) ==
  \A a \in d.asks : a.chain \in {"none", "poll"} \/ (a.chain = q.chain /\ a.run = q.run)

\* The list of runs.
LEMMA TakeRunsGood ==
  ASSUME NEW p, PageOK(p), NEW q, AskOK(q)
  PROVE  Goods(p, TakeRuns(p, q)) /\ Pressed(p, TakeRuns(p, q)) /\ TakeRuns(p, q).asks = {}
<1> DEFINE on == p.held.awaiting /\ CountActive(q.data.list) = 0
           h == [p.held EXCEPT !.listed = q.data.list, !.loaded = @ \cup {"history"},
                               !.awaiting = on]
           d == [p EXCEPT !.failures = 0, !.held = h]
<1>0. p \in Page /\ p.held \in Held  BY DEF PageOK, Page, Held
<1>1. q.data.list \in [RunId -> Statuses]  BY DEF AskOK, Request, Answer
<1>2. TakeRuns(p, q) = Then(Prune(d), {})
  <2>1. [p EXCEPT !.held.listed = q.data.list, !.failures = 0,
                  !.held.loaded = @ \cup {"history"},
                  !.held.awaiting = @ /\ CountActive(q.data.list) = 0] = d
    BY <1>0 DEF Page, Held
  <2> QED  BY <2>1 DEF TakeRuns
<1>3. on \in BOOLEAN  BY <1>0 DEF Held
<1> HIDE DEF on
<1>4. h \in Held  BY <1>0, <1>1, <1>3 DEF Held, Tabs
<1>5. d \in Page  BY <1>0, <1>4 DEF Page
<1>6. /\ h.view = p.held.view /\ h.listed = q.data.list /\ h.board = p.held.board
      /\ h.report = p.held.report /\ h.from = p.held.from
      /\ h.starting = p.held.starting /\ h.cancelling = p.held.cancelling
  BY <1>0 DEF Held
<1>7. /\ d.held = h /\ d.screen = p.screen /\ d.leaving = p.leaving /\ d.epoch = p.epoch
      /\ d.me = p.me /\ d.hidden = p.hidden /\ d.timer = p.timer /\ d.tab = p.tab
      /\ d.ticket = p.ticket
  BY <1>0 DEF Page
<1>8. p.held.report >= p.held.report  BY <1>0 DEF Held
<1> HIDE DEF d, h
<1>9. PageOK(d) /\ Stays(p, d)  BY <1>5, <1>6, <1>7, <1>8 DEF PageOK, Stays, AskOK
<1>10. Goods(p, Then(d, {})) /\ Pressed(p, Then(d, {}))  BY <1>9, EditGood
<1>11. Goods(d, Then(Prune(d), {})) /\ Pressed(d, Then(Prune(d), {}))
  BY <1>9, PruneGood, EditGood
<1> QED  BY <1>2, <1>9, <1>10, <1>11, AndGood DEF Then

\* What a handler asks besides.
LEMMA AlsoAsks ==
  ASSUME NEW p, NEW d, Goods(p, d), NEW asks \in SUBSET Request, IsFiniteSet(asks),
         \A a \in asks : SentBy(p, a)
  PROVE  Goods(p, And(d, asks)) /\ (Pressed(p, d) => Pressed(p, And(d, asks)))
<1>1. IsFiniteSet(d.asks \cup asks)  BY FS_Union DEF Goods
<1> QED  BY <1>1 DEF Goods, Pressed, And, Then

\* Neither the dashboard nor a tab, a run page or a console goes on with what a
\* button waits for.
Quiet(d) == \A a \in d.asks : a.chain \in {"none", "poll"}
LEMMA QuietLoads ==
  ASSUME NEW p, NEW r
  PROVE  Quiet(LoadLogs(p, r)) /\ Quiet(LoadReport(p))
<1> DEFINE a == [Send(p, "logs", r, "none") EXCEPT !.mark = p.held.logs[r].entry]
           b == [Send(p, "report", NoRun, "none") EXCEPT !.mark = p.ticket + 1]
<1>1. a.chain = "none" /\ b.chain = "none"  BY DEF Send, Ask
<1>2. LoadLogs(p, r).asks \in {{}, {a}} /\ LoadReport(p).asks = {b}
  BY DEF LoadLogs, LoadReport, Then
<1> HIDE DEF a, b
<1> QED  BY <1>1, <1>2 DEF Quiet

LEMMA QuietTab ==
  ASSUME NEW p, NEW t \in Tabs
  PROVE  Quiet(SetTab(p, t))
<1> DEFINE d == SchedulePolling([p EXCEPT !.tab = t, !.stored = t, !.held.view = NoRun])
           a == Send(d, "dashboard", NoRun, "none")
           b == Send(d, "runs", NoRun, "none")
           c == Send(d, "runs", NoRun, "poll")
<1>1. a.chain = "none" /\ b.chain = "none" /\ c.chain = "poll"  BY DEF Send, Ask
<1>2. SetTab(p, t).asks \in {{}, {a}, {b}, {c}, LoadReport(d).asks}
  <2>1. SetTab(p, t) = EnsureTabData(d, t)  BY DEF SetTab
  <2> HIDE DEF d
  <2> QED  BY <2>1 DEF EnsureTabData, Then, Tabs
<1>3. Quiet(LoadReport(d))  BY QuietLoads
<1> HIDE DEF a, b, c, d
<1> QED  BY <1>1, <1>2, <1>3 DEF Quiet

LEMMA QuietView ==
  ASSUME NEW p, NEW r
  PROVE  Quiet(OpenRunView(p, r))
<1> DEFINE q == [p EXCEPT !.tab = "view", !.held.view = r]
           a == Send(p, "detail", r, "poll")
<1>1. a.chain = "poll"  BY DEF Send, Ask
<1>2. OpenRunView(p, r).asks \in {{a}, LoadLogs(q, r).asks \cup {a}}
  BY DEF OpenRunView, And, Then
<1>3. Quiet(LoadLogs(q, r))  BY QuietLoads
<1> HIDE DEF a, q
<1> QED  BY <1>1, <1>2, <1>3 DEF Quiet

\* The dashboard's list.
LEMMA TakeBoardGood ==
  ASSUME NEW p, PageOK(p), NEW q, AskOK(q)
  PROVE  Goods(p, TakeBoard(p, q)) /\ Pressed(p, TakeBoard(p, q)) /\ TakeBoard(p, q).asks = {}
<1> DEFINE h == [p.held EXCEPT !.board = q.data.list, !.loaded = @ \cup {"dashboard"}]
           d == [p EXCEPT !.held = h]
<1>0. p \in Page /\ p.held \in Held  BY DEF PageOK, Page, Held
<1>1. q.data.list \in [RunId -> Statuses]  BY DEF AskOK, Request, Answer
<1>2. h \in Held  BY <1>0, <1>1 DEF Held, Tabs
<1>3. /\ h.view = p.held.view /\ h.listed = p.held.listed
      /\ h.board = q.data.list /\ h.report = p.held.report
      /\ h.from = p.held.from /\ h.starting = p.held.starting
      /\ h.cancelling = p.held.cancelling /\ p.held.report >= p.held.report
  BY <1>0 DEF Held
<1>4. TakeBoard(p, q) = Then(d, {})
  <2>1. [p EXCEPT !.held.board = q.data.list, !.held.loaded = @ \cup {"dashboard"}] = d
    BY <1>0 DEF Page, Held
  <2> QED  BY <2>1 DEF TakeBoard
<1> HIDE DEF h
<1>5. d \in Page  BY <1>0, <1>2 DEF Page
<1>6. /\ d.screen = p.screen /\ d.leaving = p.leaving /\ d.ticket = p.ticket
      /\ d.hidden = p.hidden /\ d.timer = p.timer /\ d.tab = p.tab
      /\ d.epoch = p.epoch /\ d.me = p.me /\ d.held = h
  BY <1>0 DEF Page
<1> HIDE DEF d
<1>7. Stays(p, d)  BY <1>3, <1>6 DEF Stays
<1>8. PageOK(d)  BY <1>3, <1>5, <1>6 DEF PageOK, AskOK
<1> QED  BY <1>4, <1>7, <1>8, EditGood DEF Then

\* The state of one run, and what is fetched once it is over.
LEMMA TakeDetailGood ==
  ASSUME NEW p, PageOK(p), NEW q, AskOK(q), q.kind = "detail"
  PROVE  /\ Goods(p, TakeDetail(p, q)) /\ Pressed(p, TakeDetail(p, q))
         /\ Quiet(TakeDetail(p, q))
<1> DEFINE r == q.run
           over == q.data.status = "completed"
           final == over /\ p.held.logs[r].fetched /\ ~p.held.logs[r].final
           shown == [p EXCEPT !.held.detail[r] = q.data.status,
                 !.held.listed[r] = IF @ = Nowhere THEN @ ELSE q.data.status,
                 !.held.logs[r].final = @ \/ final,
                 !.held.results[r] = IF over /\ @ = Nowhere THEN "loading" ELSE @]
           kept == IF "history" \in p.held.loaded THEN Prune(shown) ELSE shown
           d == IF final THEN LoadLogs(kept, r) ELSE Then(kept, {})
           asks == IF over /\ p.held.results[r] = Nowhere
                     THEN {Send(p, "results", r, "none")} ELSE {}
<1>0. p \in Page /\ p.held \in Held  BY DEF PageOK, Page, Held
<1>1. r \in RunId /\ Born(r) /\ q.data.status \in Statuses
  BY DEF AskOK, Request, Answer
<1>2. TakeDetail(p, q) = And(d, asks)  BY DEF TakeDetail
<1>3. final \in BOOLEAN /\ over \in BOOLEAN  BY <1>0, <1>1 DEF Held, Logs
<1> DEFINE detail == [p.held.detail EXCEPT ![r] = q.data.status]
           listed == [p.held.listed EXCEPT ![r] = IF @ = Nowhere THEN @ ELSE q.data.status]
           logs == [p.held.logs EXCEPT ![r].final = @ \/ final]
           results == [p.held.results EXCEPT ![r] = IF over /\ @ = Nowhere THEN "loading" ELSE @]
           h == [p.held EXCEPT !.detail = detail, !.listed = listed, !.logs = logs,
                               !.results = results]
<1> HIDE DEF r, final, over
<1>16. shown = [p EXCEPT !.held = h]  BY ZenonT(60), <1>0, <1>1 DEF Page, Held, Logs
<1>17. detail \in [RunId -> Statuses] /\ listed \in [RunId -> Statuses]
       /\ \A s \in RunId : listed[s] # Nowhere => p.held.listed[s] # Nowhere
  BY <1>0, <1>1 DEF Held
<1>18. logs \in [RunId -> Logs]
  <2>1. (p.held.logs[r].final \/ final) \in BOOLEAN /\ p.held.logs \in [RunId -> Logs]
    BY <1>0, <1>1, <1>3 DEF Held, Logs
  <2> QED  BY <1>1, <2>1 DEF Logs
<1>19. results \in [RunId -> Texts \cup {"loading", "failed"}]  BY <1>0, <1>1 DEF Held
<1> HIDE DEF detail, listed, logs, results
<1>4. h \in Held  BY <1>0, <1>17, <1>18, <1>19 DEF Held
<1>20. /\ h.view = p.held.view /\ h.board = p.held.board /\ h.listed = listed
       /\ h.report = p.held.report /\ p.held.report >= p.held.report
       /\ h.from = p.held.from /\ h.starting = p.held.starting
       /\ h.cancelling = p.held.cancelling
  BY <1>0 DEF Held
<1> HIDE DEF h, shown
<1>5. /\ shown.screen = p.screen /\ shown.leaving = p.leaving /\ shown.ticket = p.ticket
      /\ shown.hidden = p.hidden /\ shown.timer = p.timer /\ shown.tab = p.tab
      /\ shown.epoch = p.epoch /\ shown.me = p.me /\ shown.held = h
  BY <1>0, <1>16 DEF Page
<1>6. shown \in Page  BY <1>0, <1>4, <1>16 DEF Page
<1>7. Stays(p, shown)  BY <1>5, <1>20 DEF Stays
<1>8. PageOK(shown)  BY <1>5, <1>6, <1>17, <1>20 DEF PageOK
<1>9. PageOK(kept) /\ Goods(p, Then(kept, {})) /\ Pressed(p, Then(kept, {}))
  <2>1. Goods(p, Then(shown, {})) /\ Pressed(p, Then(shown, {}))  BY <1>7, <1>8, EditGood
  <2>2. Goods(shown, Then(Prune(shown), {})) /\ Pressed(shown, Then(Prune(shown), {}))
    BY <1>8, PruneGood, EditGood
  <2>3. Goods(p, Then(Prune(shown), {})) /\ Pressed(p, Then(Prune(shown), {}))
    BY <2>1, <2>2, AndGood DEF Then
  <2> QED  BY <1>8, <2>1, <2>3, PruneGood
<1> HIDE DEF kept
<1>10. Goods(kept, d) /\ Pressed(kept, d)  BY <1>1, <1>9, LoadLogsGood, NoAsk
<1>11. d = [page |-> d.page, asks |-> d.asks]  BY DEF LoadLogs, Then
<1>12. Goods(p, d) /\ Pressed(p, d)
  <2> HIDE DEF d
  <2>1. Goods(p, [page |-> d.page, asks |-> {} \cup d.asks])
        /\ Pressed(p, [page |-> d.page, asks |-> {} \cup d.asks])
    BY <1>9, <1>10, AndGood DEF Then
  <2> QED  BY <1>11, <2>1
<1>13. /\ asks \in SUBSET Request /\ IsFiniteSet(asks) /\ \A a \in asks : SentBy(p, a)
       /\ \A a \in asks : a.chain = "none"
  <2>1. SentBy(p, Send(p, "results", r, "none")) /\ Send(p, "results", r, "none").chain = "none"
    BY <1>0, <1>1, SendOK, SendType, RunsAreNumbers DEF Kinds, Chains
  <2> QED  BY <2>1, FS_EmptySet, FS_Singleton DEF SentBy, Sent, AskOK
<1>14. Quiet(d)
  <2>1. Quiet(Then(kept, {}))  BY DEF Quiet, Then
  <2> QED  BY <2>1, QuietLoads
<1> HIDE DEF d, asks
<1>15. Quiet(And(d, asks))  BY <1>13, <1>14 DEF Quiet, And, Then
<1> QED  BY <1>2, <1>12, <1>13, <1>15, AlsoAsks

\* A handler that changes what is held, and keeps the run in front, what is
\* shown of whom, and the report's ticket, is good.
LEMMA HoldGood ==
  ASSUME NEW p, PageOK(p), NEW h \in Held, h.view = p.held.view, h.from = p.held.from,
         \A r \in RunId : h.listed[r] # Nowhere \/ h.board[r] # Nowhere => Born(r),
         h.report >= p.held.report, h.report <= p.ticket,
         h.starting = p.held.starting, h.cancelling = p.held.cancelling
  PROVE  /\ PageOK([p EXCEPT !.held = h])
         /\ Goods(p, Then([p EXCEPT !.held = h], {}))
         /\ Pressed(p, Then([p EXCEPT !.held = h], {}))
<1> DEFINE d == [p EXCEPT !.held = h]
<1>1. p \in Page  BY DEF PageOK
<1>2. d \in Page  BY <1>1 DEF Page
<1>3. /\ d.screen = p.screen /\ d.leaving = p.leaving /\ d.ticket = p.ticket
      /\ d.hidden = p.hidden /\ d.timer = p.timer /\ d.tab = p.tab
      /\ d.epoch = p.epoch /\ d.me = p.me /\ d.held = h
  BY <1>1 DEF Page
<1> HIDE DEF d
<1>4. Stays(p, d)  BY <1>3 DEF Stays
<1>5. PageOK(d)  BY <1>2, <1>3 DEF PageOK
<1>6. Goods(p, Then(d, {})) /\ Pressed(p, Then(d, {}))  BY <1>4, <1>5, EditGood
<1> QED  BY <1>5, <1>6 DEF d

\* The log text, if the run's entry is the one it was fetched for.
LEMMA TakeLogsGood ==
  ASSUME NEW p, PageOK(p), NEW q, AskOK(q), q.kind = "logs"
  PROVE  Goods(p, TakeLogs(p, q)) /\ Pressed(p, TakeLogs(p, q)) /\ TakeLogs(p, q).asks = {}
<1> DEFINE r == q.run
           had == p.held.logs[r]
           text == IF q.ok = "ok" THEN q.data.text ELSE had.shows
           e == [had EXCEPT !.loading = FALSE, !.fetched = TRUE, !.shows = text]
           logs == [p.held.logs EXCEPT ![r] = e]
           h == [p.held EXCEPT !.logs = logs]
<1>0. p \in Page /\ p.held \in Held  BY DEF PageOK, Page, Held
<1>1. r \in RunId /\ q.data.text \in Texts  BY DEF AskOK, Request, Answer
<1>8. TakeLogs(p, q) = Then(p, {}) \/ TakeLogs(p, q) = Then([p EXCEPT !.held.logs[r] = e], {})
  BY DEF TakeLogs
<1> HIDE DEF r
<1>2. logs \in [RunId -> Logs]
  <2>1. p.held.logs \in [RunId -> Logs]  BY <1>0 DEF Held
  <2>2. had \in Logs  BY <1>1, <2>1
  <2>3. text \in Texts  BY <1>1, <2>2 DEF Logs
  <2> HIDE DEF had, text
  <2>5. e \in Logs  BY <2>2, <2>3 DEF Logs
  <2> HIDE DEF e
  <2> QED  BY <1>1, <2>1, <2>5
<1> HIDE DEF e
<1>3. TakeLogs(p, q) = Then(p, {}) \/ TakeLogs(p, q) = Then([p EXCEPT !.held = h], {})
  <2>1. [p EXCEPT !.held.logs[r] = e] = [p EXCEPT !.held = h]
    BY <1>0, <1>1 DEF Page, Held
  <2> QED  BY <1>8, <2>1
<1> HIDE DEF logs
<1>4. h \in Held  BY <1>0, <1>2 DEF Held
<1>5. /\ h.view = p.held.view /\ h.board = p.held.board /\ h.listed = p.held.listed
      /\ h.report = p.held.report /\ p.held.report >= p.held.report
      /\ h.from = p.held.from /\ h.starting = p.held.starting
      /\ h.cancelling = p.held.cancelling
  BY <1>0 DEF Held
<1> HIDE DEF h
<1>6. Goods(p, Then([p EXCEPT !.held = h], {})) /\ Pressed(p, Then([p EXCEPT !.held = h], {}))
  BY <1>4, <1>5, HoldGood DEF PageOK
<1>7. Then(p, {}).asks = {} /\ Then([p EXCEPT !.held = h], {}).asks = {}  BY DEF Then
<1> QED  BY <1>3, <1>6, <1>7, NoAsk

\* The results of a run.
LEMMA TakeResultsGood ==
  ASSUME NEW p, PageOK(p), NEW q, AskOK(q), q.kind = "results"
  PROVE  Goods(p, TakeResults(p, q)) /\ Pressed(p, TakeResults(p, q)) /\ TakeResults(p, q).asks = {}
<1> DEFINE results ==
             [p.held.results EXCEPT ![q.run] = IF q.ok = "ok" THEN q.data.text ELSE "failed"]
           h == [p.held EXCEPT !.results = results]
<1>0. p \in Page /\ p.held \in Held  BY DEF PageOK, Page, Held
<1>1. q.run \in RunId /\ q.data.text \in Texts  BY DEF AskOK, Request, Answer
<1>2. results \in [RunId -> Texts \cup {"loading", "failed"}]  BY <1>0, <1>1 DEF Held
<1>3. TakeResults(p, q) = Then([p EXCEPT !.held = h], {})
  <2>1. [p EXCEPT !.held.results[q.run] = IF q.ok = "ok" THEN q.data.text ELSE "failed"]
          = [p EXCEPT !.held = h]
    BY <1>0, <1>1 DEF Page, Held
  <2> QED  BY <2>1 DEF TakeResults
<1> HIDE DEF results
<1>4. h \in Held  BY <1>0, <1>2 DEF Held
<1>5. /\ h.view = p.held.view /\ h.board = p.held.board /\ h.listed = p.held.listed
      /\ h.report = p.held.report /\ p.held.report >= p.held.report
      /\ h.from = p.held.from /\ h.starting = p.held.starting
      /\ h.cancelling = p.held.cancelling
  BY <1>0 DEF Held
<1> HIDE DEF h
<1>6. Goods(p, Then([p EXCEPT !.held = h], {})) /\ Pressed(p, Then([p EXCEPT !.held = h], {}))
  BY <1>4, <1>5, HoldGood DEF PageOK
<1>7. Then([p EXCEPT !.held = h], {}).asks = {}  BY DEF Then
<1> QED  BY <1>3, <1>6, <1>7

\* The report of the latest ticket, which is not older than the one shown.
LEMMA TakeReportGood ==
  ASSUME NEW p, PageOK(p), NEW q, AskOK(q)
  PROVE  Goods(p, TakeReport(p, q)) /\ Pressed(p, TakeReport(p, q)) /\ TakeReport(p, q).asks = {}
<1> DEFINE h == [p.held EXCEPT !.report = q.mark, !.loaded = @ \cup {"reports"}]
<1>0. p \in Page /\ p.held \in Held  BY DEF PageOK, Page, Held
<1>1. q.mark \in Nat  BY DEF AskOK, Request
<1>2. CASE q.mark = p.ticket
  <2>1. TakeReport(p, q) = Then([p EXCEPT !.held = h], {})
    <3>1. [p EXCEPT !.held.report = q.mark, !.held.loaded = @ \cup {"reports"}]
            = [p EXCEPT !.held = h]
      BY <1>0 DEF Page, Held
    <3> QED  BY <1>2, <3>1 DEF TakeReport, TakesReport
  <2>2. h \in Held  BY <1>0, <1>1 DEF Held, Tabs
  <2>3. /\ h.view = p.held.view /\ h.board = p.held.board /\ h.listed = p.held.listed
        /\ h.report = q.mark
        /\ h.from = p.held.from /\ h.starting = p.held.starting
        /\ h.cancelling = p.held.cancelling
    BY <1>0 DEF Held
  <2>4. h.report >= p.held.report /\ h.report <= p.ticket
    <3>1. p.held.report \in Nat  BY <1>0 DEF Held
    <3> QED  BY <1>1, <1>2, <2>3, <3>1 DEF PageOK
  <2> HIDE DEF h
  <2>5. Goods(p, Then([p EXCEPT !.held = h], {})) /\ Pressed(p, Then([p EXCEPT !.held = h], {}))
    BY <2>2, <2>3, <2>4, HoldGood DEF PageOK
  <2>6. Then([p EXCEPT !.held = h], {}).asks = {}  BY DEF Then
  <2> QED  BY <2>1, <2>5, <2>6
<1>3. CASE q.mark # p.ticket
  <2>1. TakeReport(p, q) = Then(p, {}) /\ Then(p, {}).asks = {}
    BY <1>3 DEF TakeReport, TakesReport, Then
  <2> QED  BY <2>1, NoAsk
<1> QED  BY <1>2, <1>3

\* A start is taken: its run is listed and opened, or one is awaited.
LEMMA TakeStartGood ==
  ASSUME NEW p, PageOK(p), NEW q, AskOK(q), q.kind = "start"
  PROVE  /\ Goods(p, TakeStart(p, q)) /\ Pressed(p, TakeStart(p, q))
         /\ Chained(q, TakeStart(p, q))
<1> DEFINE asks == Refreshes(p, NoRun, "start")
<1>0. p \in Page /\ p.held \in Held  BY DEF PageOK, Page, Held
<1>1. q.chain = "start" /\ q.run = NoRun  BY DEF AskOK
<1>2. /\ asks \in SUBSET Request /\ IsFiniteSet(asks)
      /\ \A a \in asks : SentBy(p, a) /\ a.chain = q.chain /\ a.run = q.run
  BY <1>0, <1>1, RefreshesOK
<1> HIDE DEF asks
<1>3. CASE q.data.named = NoRun
  <2> DEFINE h == [p.held EXCEPT !.awaiting = TRUE]
             d == [p EXCEPT !.held = h]
  <2>1. TakeStart(p, q) = And(Then(d, {}), asks)
    <3>1. [p EXCEPT !.held.awaiting = TRUE] = d  BY <1>0 DEF Page, Held
    <3> QED  BY <1>3, <3>1 DEF TakeStart, And, Then, asks
  <2>2. h \in Held  BY <1>0 DEF Held
  <2>3. /\ h.view = p.held.view /\ h.board = p.held.board /\ h.listed = p.held.listed
        /\ h.report = p.held.report /\ p.held.report >= p.held.report
        /\ h.from = p.held.from /\ h.starting = p.held.starting
        /\ h.cancelling = p.held.cancelling
    BY <1>0 DEF Held
  <2> HIDE DEF h
  <2>4. Goods(p, Then(d, {})) /\ Pressed(p, Then(d, {}))  BY <2>2, <2>3, HoldGood DEF PageOK
  <2> HIDE DEF d
  <2>5. Chained(q, And(Then(d, {}), asks))  BY <1>2 DEF Chained, And, Then
  <2> QED  BY <1>2, <2>1, <2>4, <2>5, AlsoAsks
<1>4. CASE q.data.named # NoRun
  <2> DEFINE r == q.data.named
             mine == p.held.mine \cup {r}
             listed == [p.held.listed EXCEPT ![r] = q.data.status]
             h == [p.held EXCEPT !.mine = mine, !.listed = listed]
             d == [p EXCEPT !.held = h]
             e == OpenRunView(Prune(d), r)
  <2>1. r \in RunId /\ Born(r) /\ q.data.status \in Statuses
    BY <1>4 DEF AskOK, Request, Answer
  <2>2. TakeStart(p, q) = And(e, asks)
    <3>1. [p EXCEPT !.held.mine = @ \cup {r}, !.held.listed[r] = q.data.status] = d
      BY <1>0, <2>1 DEF Page, Held
    <3> QED  BY <1>4, <3>1 DEF TakeStart, asks
  <2>3. mine \in SUBSET RunId /\ listed \in [RunId -> Statuses]
        /\ \A s \in RunId : listed[s] # Nowhere => Born(s)
    BY <1>0, <2>1 DEF Held, PageOK
  <2> HIDE DEF mine, listed
  <2>4. h \in Held  BY <1>0, <2>3 DEF Held
  <2>5. /\ h.view = p.held.view /\ h.board = p.held.board /\ h.listed = listed
        /\ h.report = p.held.report /\ p.held.report >= p.held.report
        /\ h.from = p.held.from /\ h.starting = p.held.starting
        /\ h.cancelling = p.held.cancelling
    BY <1>0 DEF Held
  <2> HIDE DEF h, r
  <2>6. PageOK(d) /\ Goods(p, Then(d, {})) /\ Pressed(p, Then(d, {}))
    BY <2>3, <2>4, <2>5, HoldGood DEF PageOK
  <2> HIDE DEF d
  <2>7. PageOK(Prune(d)) /\ Goods(d, Then(Prune(d), {})) /\ Pressed(d, Then(Prune(d), {}))
    BY <2>6, PruneGood, EditGood
  <2>8. Goods(p, Then(Prune(d), {})) /\ Pressed(p, Then(Prune(d), {}))
    BY <2>6, <2>7, AndGood DEF Then
  <2>9. Goods(Prune(d), e) /\ Pressed(Prune(d), e) /\ Quiet(e)
    BY <2>1, <2>7, OpenRunViewGood, QuietView
  <2>10. e = [page |-> e.page, asks |-> e.asks]  BY DEF OpenRunView, And, Then
  <2> HIDE DEF e
  <2>11. Goods(p, e) /\ Pressed(p, e)
    <3>1. Goods(p, [page |-> e.page, asks |-> {} \cup e.asks])
          /\ Pressed(p, [page |-> e.page, asks |-> {} \cup e.asks])
      BY <2>8, <2>9, AndGood DEF Then, PageOK
    <3> QED  BY <2>10, <3>1
  <2>12. Chained(q, And(e, asks))  BY <1>2, <2>9 DEF Chained, Quiet, And, Then
  <2> QED  BY <1>2, <2>2, <2>11, <2>12, AlsoAsks
<1> QED  BY <1>3, <1>4

\* A cancel is taken: what shows the run is refreshed.
LEMMA TakeCancelGood ==
  ASSUME NEW p, PageOK(p), NEW q, AskOK(q), q.kind = "cancel"
  PROVE  /\ Goods(p, TakeCancel(p, q)) /\ Pressed(p, TakeCancel(p, q))
         /\ Chained(q, TakeCancel(p, q))
<1> DEFINE some == Refreshes(p, q.run, "cancel")
           a == Send(p, "detail", q.run, "cancel")
           asks == some \cup IF p.held.view = q.run THEN {a} ELSE {}
<1>0. p \in Page  BY DEF PageOK
<1>1. q.chain = "cancel" /\ q.run \in RunId /\ Born(q.run)  BY DEF AskOK, Request
<1>2. /\ some \in SUBSET Request /\ IsFiniteSet(some)
      /\ \A x \in some : SentBy(p, x) /\ x.chain = q.chain /\ x.run = q.run
  <2>1. ASSUME NEW r \in RunId, Born(r)
        PROVE  /\ Refreshes(p, r, "cancel") \in SUBSET Request
               /\ IsFiniteSet(Refreshes(p, r, "cancel"))
               /\ \A x \in Refreshes(p, r, "cancel") :
                    SentBy(p, x) /\ x.chain = "cancel" /\ x.run = r
    BY <1>0, <2>1, RefreshesOK
  <2> QED  BY <1>1, <2>1
<1>3. SentBy(p, a) /\ a.chain = "cancel" /\ a.run = q.run /\ a \in Request
  BY <1>0, <1>1, SendOK, SendType, RunsAreNumbers DEF Kinds, Chains
<1>4. TakeCancel(p, q) = And(Then(p, {}), asks)  BY DEF TakeCancel, And, Then
<1> HIDE DEF some, a
<1>5. IsFiniteSet(asks)
  <2>1. IsFiniteSet({a}) /\ IsFiniteSet({})  BY FS_Singleton, FS_EmptySet
  <2> QED  BY <1>2, <2>1, FS_Union
<1>6. asks \in SUBSET Request /\ \A x \in asks : SentBy(p, x) /\ x.chain = q.chain /\ x.run = q.run
  BY <1>1, <1>2, <1>3
<1> HIDE DEF asks
<1>7. Goods(p, Then(p, {})) /\ Pressed(p, Then(p, {}))  BY NoAsk
<1>8. Chained(q, And(Then(p, {}), asks))  BY <1>6 DEF Chained, And, Then
<1> QED  BY <1>4, <1>5, <1>6, <1>7, <1>8, AlsoAsks

\* Whatever the answer, the page goes on and the requests are q's or nobody's.
LEMMA TakeGood ==
  ASSUME NEW p, PageOK(p), NEW q, AskOK(q), q.kind \notin {"logout", "session"}
  PROVE  Goods(p, Take(p, q)) /\ Pressed(p, Take(p, q)) /\ Chained(q, Take(p, q))
<1> DEFINE n == IF q.kind = "runs" THEN p.failures + 1 ELSE p.failures
           d == [p EXCEPT !.failures = n]
<1>0. p \in Page /\ p.held \in Held  BY DEF PageOK, Page, Held
<1>1. q.kind \in Kinds  BY DEF AskOK, Request
<1>2. \A x : x.asks = {} \/ Quiet(x) => Chained(q, x)  BY DEF Chained, Quiet
<1>3. CASE q.kind = "cancel"  BY <1>3, TakeCancelGood DEF Take
<1>4. CASE q.kind = "logs"  BY <1>2, <1>4, TakeLogsGood DEF Take
<1>5. CASE q.kind = "results"  BY <1>2, <1>5, TakeResultsGood DEF Take
<1>6. CASE q.kind \notin {"cancel", "logs", "results"} /\ q.ok = "fail"
  <2>1. Take(p, q) = Then(d, {})  BY <1>6 DEF Take
  <2>2. n \in Nat  BY <1>0 DEF Page
  <2> HIDE DEF n
  <2>3. d \in Page  BY <1>0, <2>2 DEF Page
  <2>4. /\ d.screen = p.screen /\ d.leaving = p.leaving /\ d.epoch = p.epoch /\ d.tab = p.tab
        /\ d.me = p.me /\ d.hidden = p.hidden /\ d.held = p.held /\ d.ticket = p.ticket
        /\ d.timer = p.timer /\ p.held.report >= p.held.report
    BY <1>0 DEF Page, Held
  <2> HIDE DEF d
  <2>5. PageOK(d) /\ Stays(p, d)  BY <2>3, <2>4 DEF PageOK, Stays
  <2> QED  BY <1>2, <2>1, <2>5, EditGood DEF Then
<1>7. CASE q.kind = "runs" /\ q.ok # "fail"
  <2>1. Take(p, q) = TakeRuns(p, q)  BY <1>7 DEF Take
  <2> QED  BY <1>2, <2>1, TakeRunsGood
<1>8. CASE q.kind = "dashboard" /\ q.ok # "fail"
  <2>1. Take(p, q) = TakeBoard(p, q)  BY <1>8 DEF Take
  <2> QED  BY <1>2, <2>1, TakeBoardGood
<1>9. CASE q.kind = "detail" /\ q.ok # "fail"
  <2>1. Take(p, q) = TakeDetail(p, q)  BY <1>9 DEF Take
  <2> QED  BY <1>2, <1>9, <2>1, TakeDetailGood
<1>10. CASE q.kind = "report" /\ q.ok # "fail"
  <2>1. Take(p, q) = TakeReport(p, q)  BY <1>10 DEF Take
  <2> QED  BY <1>2, <2>1, TakeReportGood
<1>11. CASE q.kind = "start" /\ q.ok # "fail"
  <2>1. Take(p, q) = TakeStart(p, q)  BY <1>11 DEF Take
  <2> QED  BY <1>11, <2>1, TakeStartGood
<1> QED  BY <1>1, <1>3, <1>4, <1>5, <1>6, <1>7, <1>8, <1>9, <1>10, <1>11 DEF Kinds

\* The answer to q is taken: p goes on, and what it shows may be of q's session.
Taken(p, q, d) ==
  /\ PageOK(d.page)
  /\ d.asks \in SUBSET Request /\ IsFiniteSet(d.asks) /\ \A a \in d.asks : SentBy(p, a)
  /\ d.page.screen = p.screen /\ d.page.leaving = p.leaving /\ d.page.epoch = p.epoch
  /\ d.page.me = p.me /\ d.page.hidden = p.hidden
  /\ d.page.held.from \subseteq p.held.from \cup {q.session}
  /\ d.page.held.report >= p.held.report
  /\ Chained(q, d)

\* A button is released only when nothing else of q's chain is under way.
Alone(q, others, d) == \A o \in others \cup d.asks : ~InChain(q, o)
Loosed(p, q, others, d) ==
  /\ \/ d.page.held.starting = p.held.starting
     \/ q.chain = "start" /\ Alone(q, others, d)
  /\ \/ d.page.held.cancelling = p.held.cancelling
     \/ /\ q.chain = "cancel" /\ Alone(q, others, d)
        /\ d.page.held.cancelling = p.held.cancelling \ {q.run}

LEMMA NotedGood ==
  ASSUME NEW p, PageOK(p), NEW q, AskOK(q), NEW d, Goods(p, d), Pressed(p, d), Chained(q, d)
  PROVE  Taken(p, q, Noted(d, q)) /\ Pressed(p, Noted(d, q))
<1>1. CASE q.ok = "ok" /\ q.kind \in Shows
  <2> DEFINE h == [d.page.held EXCEPT !.from = @ \cup {q.session}]
             e == [d.page EXCEPT !.held = h]
  <2>1. d.page \in Page /\ d.page.held \in Held /\ q.session \in Nat
    BY DEF Goods, PageOK, Page, Held, AskOK, Request
  <2>2. Noted(d, q).page = e /\ Noted(d, q).asks = d.asks
    <3>1. Noted(d, q) = [d EXCEPT !.page.held.from = @ \cup {q.session}]  BY <1>1 DEF Noted
    <3> QED  BY <2>1, <3>1 DEF Page, Held
  <2>3. h \in Held  BY <2>1 DEF Held
  <2>4. /\ h.view = d.page.held.view /\ h.board = d.page.held.board
        /\ h.listed = d.page.held.listed /\ h.report = d.page.held.report
        /\ h.from = d.page.held.from \cup {q.session}
        /\ h.starting = d.page.held.starting /\ h.cancelling = d.page.held.cancelling
    BY <2>1 DEF Held
  <2> HIDE DEF h
  <2>5. e \in Page  BY <2>1, <2>3 DEF Page
  <2>6. /\ e.screen = d.page.screen /\ e.leaving = d.page.leaving /\ e.ticket = d.page.ticket
        /\ e.hidden = d.page.hidden /\ e.timer = d.page.timer /\ e.tab = d.page.tab
        /\ e.epoch = d.page.epoch /\ e.me = d.page.me /\ e.held = h
    BY <2>1 DEF Page
  <2> HIDE DEF e
  <2>7. PageOK(e)  BY <2>4, <2>5, <2>6 DEF PageOK, Goods
  <2>8. Chained(q, Noted(d, q))  BY <2>2 DEF Chained
  <2> QED  BY <2>2, <2>4, <2>6, <2>7, <2>8 DEF Goods, Taken, Pressed
<1>2. CASE ~(q.ok = "ok" /\ q.kind \in Shows)
  BY <1>2 DEF Noted, Goods, Taken
<1> QED  BY <1>1, <1>2

LEMMA GoesGood ==
  ASSUME NEW p, PageOK(p), NEW q, AskOK(q), ~Stale(p, q), NEW others,
         NEW d, Taken(p, q, d), Pressed(p, d)
  PROVE  Taken(p, q, Goes(d, q, others)) /\ Loosed(p, q, others, Goes(d, q, others))
<1> DEFINE waits == (\E o \in others : InChain(q, o)) \/ (\E o \in d.asks : InChain(q, o))
           h == [d.page.held EXCEPT
                   !.starting = IF q.chain = "start" THEN FALSE ELSE @,
                   !.cancelling = IF q.chain = "start" THEN @ ELSE @ \ {q.run}]
           e == [d.page EXCEPT !.held = h]
           shown == IF q.chain = "start" THEN e ELSE Prune(e)
<1>0. d.page \in Page /\ d.page.held \in Held /\ PageOK(d.page)
  BY DEF Taken, PageOK, Page, Held
<1>1. CASE q.chain = "poll"
  <2>1. Goes(d, q, others) = Then(SchedulePolling(d.page), d.asks)  BY <1>1 DEF Goes
  <2>2. Goods(d.page, Then(SchedulePolling(d.page), {}))
        /\ Pressed(d.page, Then(SchedulePolling(d.page), {}))
    BY <1>0, ScheduleGood
  <2>3. SchedulePolling(d.page).held = d.page.held  BY <1>0 DEF SchedulePolling, Page
  <2> QED  BY <2>1, <2>2, <2>3 DEF Goods, Pressed, Taken, Loosed, Then, Chained
<1>2. CASE q.chain \in {"start", "cancel"} /\ ~waits
  <2>1. Goes(d, q, others) = Then(SchedulePolling(shown), d.asks)
    <3>1. Releases(d.page, q)  BY DEF Releases, Stale, Taken
    <3>2. CASE q.chain = "start"
      <4>1. [d.page EXCEPT !.held.starting = FALSE] = e
        BY ZenonT(60), <1>0, <3>2 DEF Page, Held
      <4> QED  BY <1>2, <3>1, <3>2, <4>1 DEF Goes, Loose
    <3>3. CASE q.chain # "start"
      <4>1. [d.page EXCEPT !.held.cancelling = @ \ {q.run}] = e
        BY ZenonT(60), <1>0, <3>3 DEF Page, Held
      <4> QED  BY <1>2, <3>1, <3>3, <4>1 DEF Goes, Loose
    <3> QED  BY <3>2, <3>3
  <2>2. h \in Held  BY <1>0 DEF Held
  <2>3. /\ h.view = d.page.held.view /\ h.board = d.page.held.board
        /\ h.listed = d.page.held.listed /\ h.report = d.page.held.report
        /\ h.from = d.page.held.from
        /\ h.starting = IF q.chain = "start" THEN FALSE ELSE d.page.held.starting
        /\ h.cancelling = IF q.chain = "start" THEN d.page.held.cancelling
                          ELSE d.page.held.cancelling \ {q.run}
    BY <1>0 DEF Held
  <2> HIDE DEF h
  <2>4. e \in Page  BY <1>0, <2>2 DEF Page
  <2>5. /\ e.screen = d.page.screen /\ e.leaving = d.page.leaving /\ e.ticket = d.page.ticket
        /\ e.hidden = d.page.hidden /\ e.timer = d.page.timer /\ e.tab = d.page.tab
        /\ e.epoch = d.page.epoch /\ e.me = d.page.me /\ e.held = h
    BY <1>0 DEF Page
  <2> HIDE DEF e
  <2>6. PageOK(e)  BY <1>0, <2>3, <2>4, <2>5 DEF PageOK
  <2>7. PageOK(shown) /\ Stays(e, shown)
    <3>1. PageOK(Prune(e)) /\ Stays(e, Prune(e))  BY <2>6, PruneGood
    <3>2. Stays(e, e)  BY <2>6 DEF Stays, PageOK, Page, Held
    <3> QED  BY <2>6, <3>1, <3>2
  <2> HIDE DEF shown
  <2>8. Goods(shown, Then(SchedulePolling(shown), {}))
        /\ Pressed(shown, Then(SchedulePolling(shown), {}))
    BY <2>7, ScheduleGood
  <2>9. PICK x : x = SchedulePolling(shown)  OBVIOUS
  <2>10. /\ PageOK(x) /\ x.screen = d.page.screen /\ x.leaving = d.page.leaving
         /\ x.epoch = d.page.epoch /\ x.me = d.page.me /\ x.hidden = d.page.hidden
         /\ x.held.from = d.page.held.from
    BY <2>3, <2>5, <2>7, <2>8, <2>9 DEF Goods, Stays, Then
  <2>11. x.held.report >= p.held.report
    <3>1. x.held.report >= shown.held.report  BY <2>8, <2>9 DEF Goods, Then
    <3>2. shown.held.report >= d.page.held.report
      BY <2>3, <2>5, <2>7 DEF Stays
    <3>3. d.page.held.report >= p.held.report  BY DEF Taken
    <3>4. /\ x.held.report \in Nat /\ shown.held.report \in Nat
          /\ d.page.held.report \in Nat /\ p.held.report \in Nat
      BY <1>0, <2>7, <2>10 DEF PageOK, Page, Held
    <3> QED  BY <3>1, <3>2, <3>3, <3>4
  <2>12. /\ x.held.starting = h.starting /\ x.held.cancelling = h.cancelling
    BY <2>5, <2>7, <2>8, <2>9 DEF Pressed, Stays, Then
  <2>13. Taken(p, q, Then(x, d.asks))
    BY <2>10, <2>11 DEF Taken, Then, Chained
  <2>14. Loosed(p, q, others, Then(x, d.asks))
    BY <1>2, <2>3, <2>12 DEF Pressed, Loosed, Alone, Then
  <2> QED  BY <2>1, <2>9, <2>13, <2>14
<1>3. CASE q.chain # "poll" /\ ~(q.chain \in {"start", "cancel"} /\ ~waits)
  <2>1. Goes(d, q, others) = d  BY <1>3 DEF Goes
  <2> QED  BY <2>1 DEF Pressed, Loosed
<1> QED  BY <1>1, <1>2, <1>3

\* Nothing is held after signing out.
LEMMA FreshType ==
  /\ Fresh \in Held
  /\ Fresh.view = NoRun /\ Fresh.from = {} /\ Fresh.report = 0 /\ ~Fresh.starting
  /\ Fresh.cancelling = {} /\ ~Fresh.awaiting /\ Fresh.loaded = {}
  /\ \A r \in RunId : Fresh.listed[r] = Nowhere /\ Fresh.board[r] = Nowhere
                      /\ Fresh.detail[r] = Nowhere
<1>1. NoLogs \in Logs  BY DEF NoLogs, Logs, Texts, Nowhere
<1>2. [r \in RunId |-> NoLogs] \in [RunId -> Logs]  BY <1>1
<1>3. None \in [RunId -> Statuses] /\ None \in [RunId -> Texts \cup {"loading", "failed"}]
  BY DEF None, Statuses, Texts, Nowhere
<1>4. Fresh \in Held  BY <1>2, <1>3 DEF Fresh, Held
<1> QED  BY <1>4 DEF Fresh, None

\* The page after its session was lost, or after it heard that it signed out.
Cleared(p, d) ==
  /\ PageOK(d) /\ d.held = Fresh /\ d.epoch = p.epoch + 1 /\ ~d.timer
  /\ d.hidden = p.hidden /\ d.tab = p.tab /\ d.stored = p.stored

LEMMA ResetGood ==
  ASSUME NEW p, PageOK(p)
  PROVE  /\ Cleared(p, ShowAuth(Reset(p))) /\ ShowAuth(Reset(p)).screen = "auth"
         /\ ShowAuth(Reset(p)).leaving = "no" /\ ShowAuth(Reset(p)).me = p.me
         /\ \A n \in Nat : LET out == [Reset(p) EXCEPT !.leaving = "told", !.me = n] IN
              Cleared(p, out) /\ out.leaving = "told" /\ out.screen = p.screen /\ out.me = n
<1> DEFINE a == ShowAuth(Reset(p))
           c == Reset(p)
<1>0. p \in Page /\ p.epoch + 1 \in Nat /\ Fresh \in Held  BY FreshType DEF PageOK, Page
<1>4. /\ c \in Page /\ c.held = Fresh /\ c.epoch = p.epoch + 1 /\ ~c.timer
      /\ c.screen = p.screen /\ c.hidden = p.hidden /\ c.tab = p.tab /\ c.stored = p.stored
      /\ c.leaving = p.leaving /\ c.me = p.me /\ c.ticket = p.ticket /\ p.ticket >= 0
  <2>1. c = [p EXCEPT !.timer = FALSE, !.epoch = p.epoch + 1, !.held = Fresh]  BY DEF Reset
  <2> HIDE DEF c
  <2>2. c \in Page  BY <1>0, <2>1 DEF Page
  <2>3. /\ c.held = Fresh /\ c.epoch = p.epoch + 1 /\ c.timer = FALSE
        /\ c.screen = p.screen /\ c.hidden = p.hidden /\ c.tab = p.tab /\ c.stored = p.stored
        /\ c.leaving = p.leaving /\ c.me = p.me /\ c.ticket = p.ticket
    BY <1>0, <2>1 DEF Page
  <2>4. p.ticket >= 0  BY <1>0 DEF Page
  <2> QED  BY <2>2, <2>3, <2>4
<1> HIDE DEF c
<1>1. /\ a \in Page /\ a.held = Fresh /\ a.epoch = p.epoch + 1 /\ ~a.timer /\ a.screen = "auth"
      /\ a.hidden = p.hidden /\ a.tab = p.tab /\ a.stored = p.stored /\ a.leaving = "no"
      /\ a.me = p.me /\ a.ticket = p.ticket /\ a.ticket >= 0
  <2>1. a = ShowAuth(c)  BY DEF c
  <2> HIDE DEF a
  <2> QED  BY <1>4, <2>1 DEF ShowAuth, Page
<1>2. Cleared(p, a)
  <2> HIDE DEF a
  <2> QED  BY <1>1, FreshType DEF Cleared, PageOK
<1>3. ASSUME NEW n \in Nat
      PROVE  LET out == [Reset(p) EXCEPT !.leaving = "told", !.me = n] IN
              Cleared(p, out) /\ out.leaving = "told" /\ out.screen = p.screen /\ out.me = n
  <2> DEFINE b == [Reset(p) EXCEPT !.leaving = "told", !.me = n]
  <2>1. /\ b \in Page /\ b.held = Fresh /\ b.epoch = p.epoch + 1 /\ ~b.timer
        /\ b.screen = p.screen /\ b.hidden = p.hidden /\ b.tab = p.tab /\ b.stored = p.stored
        /\ b.leaving = "told" /\ b.me = n /\ b.ticket = p.ticket /\ b.ticket >= 0
    <3>1. b = [c EXCEPT !.leaving = "told", !.me = n]  BY DEF c
    <3> HIDE DEF b
    <3> QED  BY <1>4, <3>1 DEF Page
  <2> HIDE DEF b
  <2>2. Cleared(p, b)  BY <2>1, FreshType DEF Cleared, PageOK
  <2> QED  BY <2>1, <2>2 DEF b
<1> QED  BY <1>1, <1>2, <1>3

\* Signing out: told, the page asks who is signed in, and on the answer shows
\* the sign-in screen.
LEMMA LeaveGood ==
  ASSUME NEW p, PageOK(p), NEW q, AskOK(q), q.kind \in {"logout", "session"},
         NEW d, d = Leave(p, q)
  PROVE  \/ /\ q.kind = "logout" /\ Cleared(p, d.page) /\ d.page.leaving = "told"
            /\ d.page.screen = p.screen /\ d.page.me \in {0, p.me}
            /\ \E a : d.asks = {a} /\ Sent(d.page, a) /\ a.kind = "session" /\ a.chain = "none"
         \/ /\ q.kind = "session" /\ PageOK(d.page) /\ d.page.held = p.held
            /\ d.page.epoch = p.epoch /\ ~d.page.timer /\ d.page.hidden = p.hidden
            /\ d.page.tab = p.tab /\ d.page.me = p.me
            /\ d.page.leaving = "no" /\ d.page.screen = "auth" /\ d.asks = {}
<1>0. p \in Page /\ p.me \in Nat /\ p.held \in Held  BY DEF PageOK, Page
<1>1. CASE q.kind = "logout"
  <2> DEFINE n == IF q.ok = "ok" THEN 0 ELSE p.me
             out == [Reset(p) EXCEPT !.leaving = "told", !.me = n]
             a == Send(out, "session", NoRun, "none")
  <2>1. d.page = out /\ d.asks = {a}
    <3>1. Reset(p).me = p.me  BY <1>0 DEF Reset, Page
    <3>2. [Reset(p) EXCEPT !.leaving = "told", !.me = IF q.ok = "ok" THEN 0 ELSE @] = out
      BY <3>1
    <3> QED  BY <1>1, <3>2 DEF Leave, Then
  <2>2. n \in Nat /\ n \in {0, p.me}  BY <1>0
  <2> HIDE DEF n
  <2>3. Cleared(p, out) /\ out.leaving = "told" /\ out.screen = p.screen /\ out.me = n
    BY ZenonT(60), <2>2, ResetGood
  <2> HIDE DEF out
  <2>4. Sent(out, a) /\ a.kind = "session" /\ a.chain = "none"
    BY SMTT(60), <2>3, SendOK, SendType DEF Cleared, PageOK, Kinds, Chains
  <2> QED  BY <1>1, <2>1, <2>2, <2>3, <2>4
<1>2. CASE q.kind = "session"
  <2> DEFINE b == ShowAuth(p)
  <2>1. d.page = b /\ d.asks = {}  BY <1>2 DEF Leave, Then
  <2>2. /\ b \in Page /\ b.held = p.held /\ b.epoch = p.epoch /\ ~b.timer /\ b.hidden = p.hidden
        /\ b.tab = p.tab /\ b.me = p.me /\ b.leaving = "no" /\ b.screen = "auth"
        /\ b.ticket = p.ticket
    BY <1>0 DEF ShowAuth, Page
  <2> HIDE DEF b
  <2>3. PageOK(b)  BY <2>2 DEF PageOK
  <2> QED  BY <1>2, <2>1, <2>2, <2>3
<1> QED  BY <1>1, <1>2

\* Any other answer: the session is lost, or it is put aside, or it is taken.
LEMMA LandedGood ==
  ASSUME NEW p, PageOK(p), NEW q, AskOK(q), q.kind \notin {"logout", "session"}, NEW others,
         NEW d, d = Landed(p, q, others)
  PROVE  \/ /\ q.ok = "gone" /\ p.screen = "runner" /\ Cleared(p, d.page) /\ d.asks = {}
            /\ d.page.screen = "auth" /\ d.page.leaving = "no" /\ d.page.me = p.me
         \/ /\ Stale(p, q) \/ q.ok = "gone"
            /\ Goods(p, d) /\ Pressed(p, d) /\ d.asks = {}
            /\ d.page = IF q.chain = "poll" THEN SchedulePolling(p) ELSE p
         \/ /\ ~Stale(p, q) /\ q.ok # "gone" /\ Taken(p, q, d) /\ Loosed(p, q, others, d)
            /\ d = Goes(Noted(Take(p, q), q), q, others)
<1>1. CASE q.ok = "gone" /\ p.screen = "runner"
  <2> DEFINE b == ShowAuth(Reset(p))
  <2>1. Cleared(p, b) /\ b.screen = "auth" /\ b.leaving = "no" /\ b.me = p.me  BY ResetGood
  <2>2. d = Goes(Then(b, {}), q, others)  BY <1>1 DEF Landed, LoseSession
  <2> HIDE DEF b
  <2>3. b \in Page /\ ~PollingWanted(b)  BY <2>1 DEF Cleared, PageOK, PollingWanted
  <2>4. SchedulePolling(b) = b
    <3>1. PollingWanted(b) = b.timer
      <4>1. b.timer = FALSE  BY <2>1, <2>3 DEF Cleared, Page
      <4>2. PollingWanted(b) = FALSE  BY <2>1 DEF PollingWanted
      <4> QED  BY <4>1, <4>2
    <3>2. [b EXCEPT !.timer = b.timer] = b  BY <2>3 DEF Page
    <3> QED  BY <3>1, <3>2 DEF SchedulePolling
  <2>5. ~Releases(b, q)  BY <2>1 DEF Releases, Stale
  <2>6. d = Then(b, {})  BY <2>2, <2>4, <2>5 DEF Goes, Then
  <2> QED  BY <1>1, <2>1, <2>6 DEF Then
<1>2. CASE (Stale(p, q) \/ q.ok = "gone") /\ ~(q.ok = "gone" /\ p.screen = "runner")
  <2>1. Stale(p, q)  BY <1>2 DEF Stale, PageOK, Page
  <2>2. d = Goes(Then(p, {}), q, others)  BY <1>2, <2>1 DEF Landed, LoseSession
  <2>3. ~Releases(p, q)  BY <2>1 DEF Releases
  <2>4. d = Then(IF q.chain = "poll" THEN SchedulePolling(p) ELSE p, {})
    BY <2>2, <2>3 DEF Goes, Then
  <2>5. Goods(p, Then(p, {})) /\ Pressed(p, Then(p, {}))  BY NoAsk
  <2>6. Goods(p, Then(SchedulePolling(p), {})) /\ Pressed(p, Then(SchedulePolling(p), {}))
    BY ScheduleGood
  <2>7. Goods(p, d) /\ Pressed(p, d)  BY <2>4, <2>5, <2>6
  <2>8. d.asks = {} /\ d.page = IF q.chain = "poll" THEN SchedulePolling(p) ELSE p
    BY <2>4 DEF Then
  <2> QED  BY <1>2, <2>7, <2>8
<1>3. CASE ~Stale(p, q) /\ q.ok # "gone"
  <2>1. d = Goes(Noted(Take(p, q), q), q, others)  BY <1>3 DEF Landed
  <2>2. Goods(p, Take(p, q)) /\ Pressed(p, Take(p, q)) /\ Chained(q, Take(p, q))  BY TakeGood
  <2>3. Taken(p, q, Noted(Take(p, q), q)) /\ Pressed(p, Noted(Take(p, q), q))
    BY <2>2, NotedGood
  <2> QED  BY <1>3, <2>1, <2>3, GoesGood
<1> QED  BY <1>1, <1>2, <1>3

-----------------------------------------------------------------------------
(* The runs and their dispatches.                                          *)

\* What any step leaves of the runs.
Kept ==
  /\ RunsTypeOK' /\ clock <= clock'
  /\ \A r \in RunId : Born(r) =>
       /\ Born(r)' /\ runs'[r].flow = runs[r].flow /\ runs'[r].by = runs[r].by
       /\ runs'[r].dispatch = runs[r].dispatch /\ runs'[r].born = runs[r].born
       /\ Over(runs[r]) => runs'[r] = runs[r]

\* The dispatches are numbered, and there is a run for each.
NumbersOK ==
  /\ Dispatched \in Nat /\ Dispatched <= Cardinality(RunId)
  /\ \A r \in RunId : Born(r) => runs[r].dispatch <= Dispatched
  /\ \A d \in accepted : d.dispatch <= Dispatched

\* No new dispatch makes a run that a request looks for, and what becomes a run
\* was dispatched before.
Traced ==
  /\ Dispatched <= Dispatched'
  /\ \A r \in RunId : Born(r)' /\ ~Born(r) =>
       \E d \in accepted : /\ runs'[r].dispatch = d.dispatch /\ runs'[r].flow = d.flow
                           /\ runs'[r].by = d.by /\ runs'[r].born >= clock
  /\ \A d \in accepted' : d \in accepted \/ d.dispatch > Dispatched

LEMMA BornIsRun ==
  ASSUME RunsTypeOK
  PROVE  /\ \A r \in RunId : Born(r) => runs[r] \in Run
         /\ \A run \in Run : run # Unborn
BY DEF RunsTypeOK, Born, Run, Unborn, Stages

LEMMA DispatchedType ==
  ASSUME RunsTypeOK
  PROVE  /\ Dispatched \in Nat /\ IsFiniteSet({r \in RunId : Born(r)})
         /\ Cardinality({r \in RunId : Born(r)}) \in Nat /\ Cardinality(accepted) \in Nat
<1> DEFINE B == {r \in RunId : Born(r)}
<1>1. IsFiniteSet(B)
  <2>1. B \subseteq RunId  OBVIOUS
  <2> HIDE DEF B
  <2> QED  BY <2>1, RunsAreNumbers, FS_Subset
<1> HIDE DEF B
<1>2. Cardinality(B) \in Nat /\ Cardinality(accepted) \in Nat
  BY <1>1, FS_CardinalityType DEF RunsTypeOK
<1> QED  BY <1>1, <1>2 DEF Dispatched, B

\* Nothing happens to the runs.
LEMMA RunsIdle ==
  ASSUME RunsTypeOK, NumbersOK, UNCHANGED runVars
  PROVE  Kept /\ NumbersOK' /\ Traced
<1>1. Kept  BY DEF Kept, RunsTypeOK, runVars, Born
<1>2. Dispatched' = Dispatched  BY DEF Dispatched, runVars, Born
<1>3. NumbersOK'  BY <1>2 DEF NumbersOK, runVars, Born
<1>4. Traced  BY <1>2 DEF NumbersOK, Traced, runVars, Born
<1> QED  BY <1>1, <1>3, <1>4

\* A run that is not over changes its stage.
LEMMA StageKeeps ==
  ASSUME RunsTypeOK, NumbersOK, NEW r \in RunId, Born(r), ~Over(runs[r]),
         NEW stage \in Stages, runs' = [runs EXCEPT ![r].stage = stage],
         UNCHANGED <<accepted, clock>>
  PROVE  Kept /\ NumbersOK' /\ Traced
<1> DEFINE run == [runs[r] EXCEPT !.stage = stage]
<1>1. runs[r] \in Run /\ \A x \in Run : x # Unborn  BY BornIsRun
<1>2. /\ run \in Run /\ run.flow = runs[r].flow /\ run.by = runs[r].by
      /\ run.dispatch = runs[r].dispatch /\ run.born = runs[r].born
  BY <1>1 DEF Run
<1>3. runs \in [RunId -> Run \cup {Unborn}]  BY DEF RunsTypeOK
<1>4. runs' = [runs EXCEPT ![r] = run]  BY <1>3
<1> HIDE DEF run
<1>5. /\ runs' \in [RunId -> Run \cup {Unborn}] /\ runs'[r] = run
      /\ \A s \in RunId : s # r => runs'[s] = runs[s]
  BY <1>2, <1>3, <1>4
<1>6. RunsTypeOK'  BY <1>5 DEF RunsTypeOK
<1>7. \A s \in RunId : Born(s)' <=> Born(s)  BY <1>1, <1>2, <1>5 DEF Born
<1>8. Dispatched' = Dispatched
  <2>1. {s \in RunId : Born(s)'} = {s \in RunId : Born(s)}  BY <1>7
  <2> QED  BY <2>1 DEF Dispatched
<1>9. Kept
  <2>1. clock <= clock'  BY DEF RunsTypeOK
  <2> QED  BY <1>2, <1>5, <1>6, <1>7, <2>1 DEF Kept
<1>10. NumbersOK'  BY <1>2, <1>5, <1>7, <1>8 DEF NumbersOK
<1>11. Traced  BY <1>7, <1>8 DEF NumbersOK, Traced
<1> QED  BY <1>9, <1>10, <1>11

\* Another dispatch is taken.
LEMMA DispatchKeeps ==
  ASSUME RunsTypeOK, NumbersOK, NEW flow \in Flows, NEW by \in People,
         Dispatched < Cardinality(RunId),
         accepted' = accepted \cup {[flow |-> flow, by |-> by, dispatch |-> Dispatched + 1]},
         UNCHANGED <<runs, clock>>
  PROVE  Kept /\ NumbersOK' /\ Traced /\ Dispatched' = Dispatched + 1
<1> DEFINE n == Dispatched
           x == [flow |-> flow, by |-> by, dispatch |-> n + 1]
<1>1. n \in Nat /\ Cardinality(RunId) \in Nat  BY RunsAreNumbers, FS_CardinalityType DEF NumbersOK
<1>2. x \notin accepted
  <2>1. \A d \in accepted : d.dispatch <= n  BY DEF NumbersOK
  <2>2. x.dispatch = n + 1  OBVIOUS
  <2> HIDE DEF n, x
  <2> QED  BY <1>1, <2>1, <2>2
<1>3. x \in Dispatch  BY <1>1 DEF Dispatch
<1>4. accepted' = accepted \cup {x} /\ x.dispatch = n + 1  OBVIOUS
<1>5. IsFiniteSet(accepted')
      /\ Cardinality(accepted') = Cardinality(accepted) + 1
  BY <1>2, <1>4, FS_AddElement DEF RunsTypeOK
<1>6. RunsTypeOK' /\ clock <= clock'  BY <1>3, <1>4, <1>5 DEF RunsTypeOK
<1>7. Dispatched' = n + 1
  <2>1. {r \in RunId : Born(r)'} = {r \in RunId : Born(r)}  BY DEF Born
  <2>2. Cardinality({r \in RunId : Born(r)}) \in Nat /\ Cardinality(accepted) \in Nat
    BY DispatchedType
  <2> DEFINE b == Cardinality({r \in RunId : Born(r)})
  <2>3. Dispatched' = b + Cardinality(accepted')  BY <2>1 DEF Dispatched
  <2>4. n = b + Cardinality(accepted)  BY DEF Dispatched
  <2> HIDE DEF n, b
  <2> QED  BY <1>5, <2>2, <2>3, <2>4 DEF b
<1>8. Kept  BY <1>6 DEF Kept, Born
<1> HIDE DEF x
<1>9. NumbersOK' /\ Traced
  <2>1. /\ Dispatched = n /\ n < Cardinality(RunId)
        /\ \A r \in RunId : Born(r) => runs[r].dispatch <= n
        /\ \A d \in accepted : d.dispatch <= n
    BY DEF NumbersOK
  <2>2. \A r \in RunId : Born(r) => runs[r].dispatch \in Nat  BY BornIsRun DEF Run
  <2>3. \A d \in accepted : d.dispatch \in Nat  BY DEF RunsTypeOK, Dispatch
  <2>4. \A r \in RunId : Born(r)' <=> Born(r)  BY DEF Born
  <2> HIDE DEF n
  <2>5. NumbersOK'
    <3>1. \A r \in RunId : Born(r) => runs[r].dispatch <= n + 1  BY <1>1, <2>1, <2>2
    <3>2. \A d \in accepted : d.dispatch <= n + 1  BY <1>1, <2>1, <2>3
    <3>3. n + 1 \in Nat /\ n + 1 <= Cardinality(RunId) /\ n + 1 <= n + 1  BY <1>1, <2>1
    <3> QED  BY <1>4, <1>7, <2>4, <3>1, <3>2, <3>3 DEF NumbersOK
  <2>6. Traced
    <3>1. n <= n + 1 /\ n + 1 > n  BY <1>1
    <3> QED  BY <1>4, <1>7, <2>1, <2>4, <3>1 DEF Traced
  <2> QED  BY <2>5, <2>6
<1> QED  BY <1>7, <1>8, <1>9

\* A dispatch becomes a run: there is a number left for it.
LEMMA CreateKeeps ==
  ASSUME RunsTypeOK, NumbersOK, Create
  PROVE  Kept /\ NumbersOK' /\ Traced
<1> DEFINE B == {s \in RunId : Born(s)}
           rest == {s \in RunId : ~Born(s)}
           r == Min(rest)
<1>1. PICK d \in accepted, e \in Endings :
        /\ runs' = [runs EXCEPT ![r] = [flow |-> d.flow, by |-> d.by, dispatch |-> d.dispatch,
                                        born |-> clock, ending |-> e, stage |-> "live"]]
        /\ accepted' = accepted \ {d}
        /\ clock' = clock
  BY DEF Create
<1> DEFINE run == [flow |-> d.flow, by |-> d.by, dispatch |-> d.dispatch,
                   born |-> clock, ending |-> e, stage |-> "live"]
<1>2. IsFiniteSet(B) /\ Cardinality(B) \in Nat /\ Cardinality(accepted) \in Nat
      /\ Dispatched = Cardinality(B) + Cardinality(accepted)
  BY DispatchedType DEF Dispatched
<1>3. IsFiniteSet(accepted \ {d}) /\ Cardinality(accepted \ {d}) = Cardinality(accepted) - 1
      /\ Cardinality(accepted) > 0
  <2>1. IsFiniteSet(accepted)  BY DEF RunsTypeOK
  <2>2. IsFiniteSet(accepted \ {d}) /\ Cardinality(accepted \ {d}) = Cardinality(accepted) - 1
    BY <2>1, FS_RemoveElement
  <2>3. Cardinality(accepted \ {d}) \in Nat  BY <2>2, FS_CardinalityType
  <2> QED  BY <1>2, <2>2, <2>3
<1>4. rest # {}
  <2> SUFFICES ASSUME rest = {} PROVE FALSE  OBVIOUS
  <2>1. B = RunId  OBVIOUS
  <2>2. Dispatched <= Cardinality(RunId)  BY DEF NumbersOK
  <2> HIDE DEF B
  <2> QED  BY <1>2, <1>3, <2>1, <2>2
<1>5. r \in RunId /\ ~Born(r)
  <2>1. rest \in SUBSET Nat  BY RunsAreNumbers
  <2>2. r \in rest
    <3> HIDE DEF rest
    <3> QED  BY <1>4, <2>1, MinIn
  <2> HIDE DEF r
  <2> QED  BY <2>2
<1>6. run \in Run /\ run.flow = d.flow /\ run.by = d.by /\ run.dispatch = d.dispatch
      /\ run.born = clock /\ d.dispatch \in Nat
  <2>1. d \in Dispatch /\ clock \in 0..MaxTime  BY DEF RunsTypeOK
  <2>2. e \in {"pass", "fail", "infra"}  BY RunsAreNumbers
  <2> QED  BY <2>1, <2>2 DEF Run, Dispatch, Stages
<1>7. runs' = [runs EXCEPT ![r] = run]  BY <1>1
<1> HIDE DEF run, r, rest
<1>8. /\ runs' \in [RunId -> Run \cup {Unborn}] /\ runs'[r] = run
      /\ \A s \in RunId : s # r => runs'[s] = runs[s]
  BY <1>5, <1>6, <1>7 DEF RunsTypeOK
<1>9. RunsTypeOK' /\ clock <= clock'  BY <1>1, <1>3, <1>8 DEF RunsTypeOK
<1>10. run # Unborn  BY <1>6, BornIsRun
<1>11. \A s \in RunId : Born(s)' <=> (Born(s) \/ s = r)  BY <1>8, <1>10 DEF Born
<1>12. Dispatched' = Dispatched
  <2>1. {s \in RunId : Born(s)'} = B \cup {r}  BY <1>5, <1>11
  <2>2. Cardinality(B \cup {r}) = Cardinality(B) + 1
    <3>1. r \notin B  BY <1>5
    <3> HIDE DEF B
    <3> QED  BY <1>2, <3>1, FS_AddElement
  <2> HIDE DEF B
  <2>3. Dispatched' = Cardinality(B \cup {r}) + Cardinality(accepted \ {d})
    BY <1>1, <2>1 DEF Dispatched
  <2> QED  BY <1>2, <1>3, <2>2, <2>3
<1>13. Kept  BY <1>5, <1>8, <1>9, <1>11 DEF Kept
<1>14. NumbersOK'
  <2>1. \A s \in RunId : Born(s)' => runs'[s].dispatch <= Dispatched
    BY <1>6, <1>8, <1>11 DEF NumbersOK
  <2> QED  BY <1>1, <1>12, <2>1 DEF NumbersOK
<1>15. Traced
  <2>1. clock >= clock  BY DEF RunsTypeOK
  <2>2. Dispatched <= Dispatched  BY DEF NumbersOK
  <2> QED  BY <1>1, <1>6, <1>8, <1>11, <1>12, <2>1, <2>2 DEF Traced
<1> QED  BY <1>13, <1>14, <1>15

\* Time passes.
LEMMA TimeKeeps ==
  ASSUME RunsTypeOK, NumbersOK, TimePasses
  PROVE  Kept /\ NumbersOK' /\ Traced
<1>1. clock' \in 0..MaxTime /\ clock <= clock' /\ runs' = runs /\ accepted' = accepted
  BY RunsAreNumbers DEF TimePasses, RunsTypeOK
<1>2. Kept  BY <1>1 DEF Kept, RunsTypeOK, Born
<1>3. Dispatched' = Dispatched  BY <1>1 DEF Dispatched, Born
<1>4. NumbersOK'  BY <1>1, <1>3 DEF NumbersOK, Born
<1>5. Traced  BY <1>1, <1>3 DEF NumbersOK, Traced, Born
<1> QED  BY <1>2, <1>4, <1>5

-----------------------------------------------------------------------------
(* The inductive invariant, request by request.                            *)

VData(run, data) ==
  /\ data.status = "completed" => Over(run) /\ data.conclusion = Conclusion(run)
  /\ data.jobs # {} => Over(run) /\ data.jobs = Jobs(run)
Verdict(q) == q.kind = "detail" => VData(runs[q.run], q.data)

Looks(q) ==
  /\ q.dispatch <= Dispatched
  /\ q.at = "looking" =>
       /\ q.kind = "start" /\ q.dispatch > 0 /\ q.since <= clock
       /\ \A d \in accepted : d.dispatch = q.dispatch => Ours(d)
       /\ \A r \in RunId : Born(r) /\ runs[r].dispatch = q.dispatch =>
            Ours(runs[r]) /\ runs[r].born >= q.since

Locks(p, q) ==
  q.epoch = p.epoch =>
    /\ q.chain = "start" => p.held.starting
    /\ q.chain = "cancel" => q.run \in p.held.cancelling

\* What a request is worth by itself.
Sound(q) == AskOK(q) /\ Verdict(q) /\ Looks(q)
Apart(W) == \A a, b \in W : a.dispatch = b.dispatch /\ a.dispatch > 0 => a = b

PInv ==
  /\ RunsTypeOK /\ NumbersOK
  /\ issued \in 0..MaxSessions /\ live \subseteq 1..issued /\ faults \in 0..MaxFaults
  /\ PageOK(page) /\ page.me <= issued
  /\ IsFiniteSet(wire) /\ Apart(wire)
  /\ \A q \in wire : Sound(q) /\ q.session <= issued /\ q.epoch <= page.epoch /\ Locks(page, q)

\* It is the invariant of RunnerPage, sorted otherwise.
LEMMA SortedOtherwise == PInv <=> PageInv
<1>1. ASSUME PInv PROVE PageInv
  <2>1. ServerTypeOK  BY <1>1 DEF PInv, ServerTypeOK, Sound, AskOK
  <2>2. page \in Page /\ TypeOK  BY <1>1, <2>1 DEF PInv, TypeOK, PageOK
  <2>3. KnownRuns  BY <1>1 DEF PInv, KnownRuns, PageOK, Sound, AskOK, OnRunner
  <2>4. VerdictInv  BY <1>1 DEF PInv, VerdictInv, Sound, Verdict, VData
  <2>5. ChainInv  BY <1>1 DEF PInv, ChainInv, Sound, AskOK, PageOK
  <2>6. DispatchInv
    <3>1. \A q, a \in wire : a.dispatch = q.dispatch /\ q.dispatch > 0 => a = q
      BY <1>1 DEF PInv, Apart
    <3> QED  BY <1>1, <3>1 DEF PInv, DispatchInv, NumbersOK, Sound, Looks
  <2>7. ButtonsInv  BY <1>1 DEF PInv, ButtonsInv, Locks
  <2> QED  BY <2>2, <2>3, <2>4, <2>5, <2>6, <2>7 DEF PageInv
<1>2. ASSUME PageInv PROVE PInv
  <2>1. RunsTypeOK /\ NumbersOK
    BY <1>2, DispatchedType DEF PageInv, TypeOK, DispatchInv, NumbersOK
  <2>2. issued \in 0..MaxSessions /\ live \subseteq 1..issued /\ faults \in 0..MaxFaults
        /\ IsFiniteSet(wire) /\ page.me <= issued
    BY <1>2 DEF PageInv, TypeOK, ServerTypeOK
  <2>3. PageOK(page)  BY <1>2 DEF PageInv, TypeOK, KnownRuns, ChainInv, PageOK, OnRunner
  <2>4. Apart(wire)
    <3>1. \A q \in wire : \A a \in wire : a.dispatch = q.dispatch /\ q.dispatch > 0 => a = q
      BY <1>2 DEF PageInv, DispatchInv
    <3> QED  BY <3>1 DEF Apart
  <2>5. ASSUME NEW q \in wire
        PROVE  Sound(q) /\ q.session <= issued /\ q.epoch <= page.epoch /\ Locks(page, q)
    <3>1. AskOK(q) /\ q.session <= issued /\ q.epoch <= page.epoch
      BY <1>2 DEF PageInv, TypeOK, ServerTypeOK, KnownRuns, ChainInv, AskOK
    <3>2. Verdict(q)  BY <1>2 DEF PageInv, VerdictInv, Verdict, VData
    <3>3. Looks(q)  BY <1>2 DEF PageInv, DispatchInv, Looks
    <3>4. Locks(page, q)  BY <1>2 DEF PageInv, ButtonsInv, Locks
    <3> QED  BY <3>1, <3>2, <3>3, <3>4 DEF Sound
  <2> QED  BY <2>1, <2>2, <2>3, <2>4, <2>5 DEF PInv
<1> QED  BY <1>1, <1>2

\* What is sound and what is shown stay so.
LEMMA SoundKeeps ==
  ASSUME RunsTypeOK, NumbersOK, Kept, NumbersOK', Traced, NEW q, Sound(q)
  PROVE  Sound(q)'
<1>1. AskOK(q)'
  <2>1. q.run \in RunId \cup {NoRun} /\ q.data.named \in RunId \cup {NoRun} /\ AskOK(q)
    BY DEF Sound, AskOK, Request, Answer
  <2> QED  BY <2>1 DEF AskOK, Kept
<1>2. Verdict(q)'
  <2>1. ASSUME q.kind = "detail"
        PROVE  VData(runs'[q.run], q.data)
    <3>1. q.run \in RunId /\ Born(q.run)  BY <2>1 DEF Sound, AskOK, Request
    <3>2. Over(runs[q.run]) => runs'[q.run] = runs[q.run]  BY <3>1 DEF Kept
    <3>3. VData(runs[q.run], q.data)  BY <2>1 DEF Sound, Verdict
    <3> QED  BY <3>2, <3>3 DEF VData
  <2> QED  BY <2>1 DEF Verdict
<1>3. Looks(q)'
  <2>1. q \in Request /\ q.dispatch \in Nat /\ q.since \in 0..MaxTime
        /\ q.dispatch <= Dispatched /\ Dispatched \in Nat /\ Dispatched' \in Nat
        /\ Dispatched <= Dispatched'
    BY DEF Sound, AskOK, Request, Looks, NumbersOK, Traced
  <2>2. q.dispatch <= Dispatched'  BY <2>1
  <2>3. ASSUME q.at = "looking"
        PROVE  /\ q.kind = "start" /\ q.dispatch > 0 /\ q.since <= clock'
               /\ \A d \in accepted' : d.dispatch = q.dispatch => Ours(d)
               /\ \A r \in RunId : Born(r)' /\ runs'[r].dispatch = q.dispatch =>
                    Ours(runs'[r]) /\ runs'[r].born >= q.since
    <3>1. /\ q.kind = "start" /\ q.dispatch > 0 /\ q.since <= clock
          /\ \A d \in accepted : d.dispatch = q.dispatch => Ours(d)
          /\ \A r \in RunId : Born(r) /\ runs[r].dispatch = q.dispatch =>
               Ours(runs[r]) /\ runs[r].born >= q.since
      BY <2>3 DEF Sound, Looks
    <3>2. q.since <= clock'  BY <2>1, <3>1 DEF Kept, RunsTypeOK
    <3>3. ASSUME NEW d \in accepted', d.dispatch = q.dispatch  PROVE Ours(d)
      <4>1. ~(d.dispatch > Dispatched)  BY <2>1, <3>3
      <4> QED  BY <3>1, <3>3, <4>1 DEF Traced
    <3>4. ASSUME NEW r \in RunId, Born(r)', runs'[r].dispatch = q.dispatch
          PROVE  Ours(runs'[r]) /\ runs'[r].born >= q.since
      <4>1. CASE Born(r)
        BY <3>1, <3>4, <4>1 DEF Kept, Ours
      <4>2. CASE ~Born(r)
        <5>1. PICK d \in accepted : /\ runs'[r].dispatch = d.dispatch /\ runs'[r].flow = d.flow
                                    /\ runs'[r].by = d.by /\ runs'[r].born >= clock
          BY <3>4, <4>2 DEF Traced
        <5>2. Ours(runs'[r])  BY <3>1, <3>4, <5>1 DEF Ours
        <5>3. runs'[r] \in Run  BY <3>4 DEF Kept, RunsTypeOK, Born
        <5>4. runs'[r].born \in 0..MaxTime /\ clock \in 0..MaxTime
          BY <5>3 DEF Run, RunsTypeOK
        <5>5. runs'[r].born >= q.since  BY <2>1, <3>1, <5>1, <5>4
        <5> QED  BY <5>2, <5>5
      <4> QED  BY <4>1, <4>2
    <3> QED  BY <3>1, <3>2, <3>3, <3>4
  <2> QED  BY <2>2, <2>3 DEF Looks, Ours
<1> QED  BY <1>1, <1>2, <1>3 DEF Sound

LEMMA PageKeeps ==
  ASSUME Kept, NEW p, PageOK(p)
  PROVE  PageOK(p)'
<1>1. p.held.view \in RunId \cup {NoRun}  BY DEF PageOK, Page, Held
<1> QED  BY <1>1 DEF PageOK, Kept

\* What is newly sent is sound.
LEMMA SentIsSound ==
  ASSUME NumbersOK, NEW p, NEW a, Sent(p, a)
  PROVE  Sound(a)
<1>1. Verdict(a)  BY DEF SentBy, Sent, Verdict, VData, NoData, Nowhere
<1>2. Looks(a)  BY DEF SentBy, Sent, Looks, NumbersOK
<1> QED  BY <1>1, <1>2 DEF SentBy, Sent, Sound

\* A request and its copy are equally sound and locked.
LEMMA SameIsSound ==
  ASSUME NEW a, a \in Request, NEW q, Same(a, q), Sound(q)
  PROVE  Sound(a) /\ \A p : Locks(p, q) => Locks(p, a)
<1>1. AskOK(a)  BY DEF Same, Sound, AskOK
<1>2. Verdict(a)  BY DEF Same, Sound, Verdict
<1>3. Looks(a)  BY DEF Same, Sound, Looks
<1>4. \A p : Locks(p, q) => Locks(p, a)  BY DEF Same, Locks
<1> QED  BY <1>1, <1>2, <1>3, <1>4 DEF Sound

\* What is on the wire next was there or is sent, and all of that is.
Sends(others, asks) ==
  /\ \A x \in wire' : x \in others \/ \E a \in asks : Same(x, a)
  /\ others \subseteq wire' /\ \A a \in asks : \E x \in wire' : Same(x, a)

\* A step of the page.
LEMMA PageStep ==
  ASSUME PInv, UNCHANGED <<runVars, faults>>, NEW others \in SUBSET wire, NEW d,
         page' = d.page, wire' = Put(others, d.asks), PageOK(d.page),
         page.epoch <= d.page.epoch, d.page.me <= issued',
         issued <= issued', issued' \in 0..MaxSessions, live' \subseteq 1..issued',
         d.asks \in SUBSET Request, IsFiniteSet(d.asks),
         NEW p, \A a \in d.asks : Sent(p, a),
         p.epoch \in Nat, p.epoch <= d.page.epoch, p.me \in Nat, p.me <= issued',
         \A q \in others : Locks(d.page, q), \A a \in d.asks : Locks(d.page, a)
  PROVE  PInv' /\ Sends(others, d.asks)
<1>1. others \in SUBSET Request /\ IsFiniteSet(others)
  BY FS_Subset DEF PInv, Sound, AskOK
<1>2. wire' \in SUBSET Request /\ IsFiniteSet(wire') /\ Sends(others, d.asks)
  BY <1>1, PutType DEF Sends
<1>3. Kept /\ NumbersOK' /\ Traced
  <2>1. UNCHANGED runVars  OBVIOUS
  <2> QED  BY <2>1, RunsIdle DEF PInv
<1>4. ASSUME NEW x \in wire'
      PROVE  /\ Sound(x) /\ x.session <= issued' /\ x.epoch <= d.page.epoch /\ Locks(d.page, x)
             /\ x \in others \/ x.dispatch = 0
  <2>1. CASE x \in others
    <3>1. x \in Request /\ Sound(x) /\ x.session <= issued /\ x.epoch <= page.epoch
      BY <2>1 DEF PInv, Sound, AskOK
    <3>2. x.session \in Nat /\ issued \in Nat /\ issued' \in Nat /\ x.epoch \in Nat
          /\ page.epoch \in Nat /\ d.page.epoch \in Nat
      BY <3>1 DEF Request, PInv, PageOK, Page
    <3> QED  BY <2>1, <3>1, <3>2
  <2>2. ASSUME NEW a \in d.asks, Same(x, a)
        PROVE  /\ Sound(x) /\ x.session <= issued' /\ x.epoch <= d.page.epoch
               /\ Locks(d.page, x) /\ x.dispatch = 0
    <3>1. Sound(a)  BY SentIsSound DEF PInv
    <3>2. a.session = p.me /\ a.epoch = p.epoch /\ a.dispatch = 0  BY DEF Sent
    <3> QED  BY <1>2, <2>2, <3>1, <3>2, SameIsSound DEF Same
  <2> QED  BY <1>2, <2>1, <2>2 DEF Sends
<1>5. Apart(wire')
  <2> SUFFICES ASSUME NEW x \in wire', NEW y \in wire', x.dispatch = y.dispatch, x.dispatch > 0
               PROVE  x = y
    BY DEF Apart
  <2>1. x \in others /\ y \in others  BY <1>4
  <2> QED  BY <2>1 DEF PInv, Apart
<1>6. \A x \in wire' : Sound(x)'  BY <1>3, <1>4, SoundKeeps DEF PInv
<1>7. PageOK(d.page)'  BY <1>3, PageKeeps
<1> HIDE DEF Sound, PageOK, Locks
<1>8. PageOK(page)' /\ \A x \in wire' : Locks(page, x)'
  BY <1>4, <1>7 DEF PageOK, Locks
<1>9. RunsTypeOK'  BY <1>3 DEF Kept
<1>10. faults' \in 0..MaxFaults  BY DEF PInv
<1> QED  BY <1>2, <1>3, <1>4, <1>5, <1>6, <1>8, <1>9, <1>10 DEF PInv

\* c goes on from q.
From(q, c) ==
  /\ c \in Request /\ c.kind = q.kind /\ c.session = q.session /\ c.epoch = q.epoch
  /\ c.chain = q.chain /\ c.run = q.run

\* The page is not told, and every request is there or goes on.
Passed ==
  /\ UNCHANGED <<page, issued>>
  /\ \A x \in wire' : \E q \in wire : From(q, x)
  /\ \A q \in wire : \E x \in wire' : From(q, x)

\* A step of the server, or of what is around it: one request becomes another.
LEMMA WireStep ==
  ASSUME PInv, Kept, NumbersOK', Traced, NEW q \in wire, NEW c,
         wire' = Put(wire \ {q}, {c}), Sound(c)', From(q, c),
         c.dispatch = q.dispatch \/ c.dispatch > Dispatched,
         UNCHANGED <<page, issued>>, live' \subseteq live, faults' \in 0..MaxFaults
  PROVE  PInv' /\ Passed
<1> DEFINE others == wire \ {q}
<1>1. others \in SUBSET Request /\ IsFiniteSet(others) /\ {c} \in SUBSET Request /\ IsFiniteSet({c})
      /\ q \in Request
  BY FS_Subset, FS_Singleton DEF PInv, Sound, AskOK, From
<1>2. /\ wire' \in SUBSET Request /\ IsFiniteSet(wire')
      /\ \A x \in wire' : x \in others \/ x = Copied(others, c)
      /\ Same(Copied(others, c), c) /\ Copied(others, c) \in Request
  <2>1. wire' \in SUBSET Request /\ IsFiniteSet(wire')
    <3> HIDE DEF others
    <3> QED  BY <1>1, PutType DEF others
  <2>2. Same(Copied(others, c), c) /\ Copied(others, c) \in Request  BY <1>1, CopyIsSame
  <2> QED  BY <2>1, <2>2 DEF Put
<1>0. PICK e : e = Copied(others, c)  OBVIOUS
<1>3. e.session = q.session /\ e.epoch = q.epoch /\ e.chain = q.chain /\ e.run = q.run
      /\ e.dispatch = c.dispatch /\ e.kind = q.kind
  BY <1>0, <1>2 DEF Same, From
<1>4. Sound(e)'
  <2>1. e \in Request /\ Same(e, c)  BY <1>0, <1>2
  <2>2. AskOK(e)'  BY <2>1 DEF Same, Sound, AskOK
  <2>3. Verdict(e)'  BY <2>1 DEF Same, Sound, Verdict
  <2>4. Looks(e)'  BY <2>1 DEF Same, Sound, Looks
  <2> QED  BY <2>2, <2>3, <2>4 DEF Sound
<1>5. ASSUME NEW x \in wire'
      PROVE  Sound(x)' /\ x.session <= issued' /\ x.epoch <= page'.epoch /\ Locks(page, x)'
  <2>1. CASE x \in others
    <3>1. Sound(x) /\ x.session <= issued /\ x.epoch <= page.epoch /\ Locks(page, x)
      BY <2>1 DEF PInv
    <3>2. Sound(x)'  BY <3>1, SoundKeeps DEF PInv
    <3> QED  BY <3>1, <3>2 DEF Locks
  <2>2. CASE x = e
    <3>1. q.session <= issued /\ q.epoch <= page.epoch /\ Locks(page, q)  BY DEF PInv
    <3> QED  BY <1>3, <1>4, <2>2, <3>1 DEF Locks
  <2> QED  BY <1>0, <1>2, <2>1, <2>2
<1>6. Apart(wire')
  <2> SUFFICES ASSUME NEW x \in wire', NEW y \in wire', x.dispatch = y.dispatch, x.dispatch > 0,
                      x # y
               PROVE  FALSE
    BY DEF Apart
  <2>1. \A z \in others : z \in wire /\ z # q /\ z.dispatch <= Dispatched /\ z.dispatch \in Nat
    BY DEF PInv, Sound, Looks, AskOK, Request
  <2>2. \A z \in others : z.dispatch > 0 => z.dispatch # e.dispatch
    <3>1. TAKE z \in others
    <3>2. HAVE z.dispatch > 0
    <3>3. CASE c.dispatch = q.dispatch  BY <1>3, <2>1, <3>2, <3>3 DEF PInv, Apart
    <3>4. CASE c.dispatch > Dispatched
      <4>1. Dispatched \in Nat /\ c.dispatch \in Nat  BY <1>1 DEF PInv, NumbersOK, Request, From
      <4> QED  BY <1>3, <2>1, <3>4, <4>1
    <3> QED  BY <3>3, <3>4
  <2>3. x \in others /\ y \in others  BY <1>0, <1>2, <2>2
  <2> QED  BY <2>1, <2>3 DEF PInv, Apart
<1>7. PageOK(page)'
  <2>1. PageOK(page)  BY DEF PInv
  <2> QED  BY <2>1 DEF PageOK, Kept, Page, Held
<1>8. RunsTypeOK' /\ live' \subseteq 1..issued' /\ issued' \in 0..MaxSessions
      /\ page'.me <= issued'
  BY DEF PInv, Kept
<1>9. Passed
  <2>1. \A x \in wire : x \in Request /\ From(x, x)  BY DEF PInv, Sound, AskOK, From
  <2>2. others \subseteq wire' /\ e \in wire' /\ e \in Request  BY <1>0, <1>2 DEF Put
  <2>3. From(q, e)  BY <1>3, <2>2 DEF From
  <2> QED  BY <1>0, <1>2, <2>1, <2>2, <2>3 DEF Passed
<1> QED  BY <1>2, <1>5, <1>6, <1>7, <1>8, <1>9 DEF PInv

-----------------------------------------------------------------------------
(* What the server does.                                                   *)

LEMMA QuietServe ==
  ASSUME PInv, UNCHANGED runVars, NEW q \in wire, NEW c, Becomes(q, c), Sound(c), From(q, c),
         c.dispatch = q.dispatch, UNCHANGED <<page, issued>>, live' \subseteq live,
         faults' \in 0..MaxFaults
  PROVE  PInv' /\ Passed
<1>1. Kept /\ NumbersOK' /\ Traced  BY RunsIdle DEF PInv
<1>2. Sound(c)'  BY <1>1, SoundKeeps DEF PInv
<1> QED  BY <1>1, <1>2, WireStep DEF Becomes, From

\* An answer with what is so is sound.
AnswerOK(q, data) ==
  /\ data \in Answer /\ \A r \in RunId : data.list[r] # Nowhere => Born(r)
  /\ data.named # NoRun => Born(data.named)
  /\ q.kind = "detail" => VData(runs[q.run], data)

Onward(q, c) == Sound(c) /\ From(q, c) /\ c.dispatch = q.dispatch
LEMMA AnswerSound ==
  ASSUME NEW q, Sound(q), NEW ok \in {Nowhere, "ok", "fail", "gone"}, NEW data, AnswerOK(q, data)
  PROVE  /\ Onward(q, [q EXCEPT !.at = "answered", !.ok = ok, !.data = data])
         /\ Onward(q, [q EXCEPT !.at = "found", !.data = data])
<1>1. ASSUME NEW c, \/ c = [q EXCEPT !.at = "answered", !.ok = ok, !.data = data]
                    \/ c = [q EXCEPT !.at = "found", !.data = data]
      PROVE  Onward(q, c)
  <2>1. /\ c \in Request /\ c.kind = q.kind /\ c.session = q.session /\ c.epoch = q.epoch
        /\ c.chain = q.chain /\ c.run = q.run /\ c.dispatch = q.dispatch /\ c.data = data
        /\ c.at # "looking"
    BY ZenonT(60), <1>1 DEF Sound, AskOK, Request, AnswerOK
  <2>2. AskOK(c)  BY <2>1 DEF Sound, AskOK, AnswerOK
  <2>3. Verdict(c)  BY <2>1 DEF Verdict, AnswerOK
  <2>4. Looks(c)  BY <2>1 DEF Sound, Looks
  <2> QED  BY <2>1, <2>2, <2>3, <2>4 DEF Sound, From, Onward
<1> QED  BY <1>1

\* No answer, or only words.
LEMMA WordsOK ==
  ASSUME NEW q
  PROVE  AnswerOK(q, NoData) /\ \A text \in Texts : AnswerOK(q, Says(text))
<1>1. /\ NoData \in Answer /\ \A r \in RunId : NoData.list[r] = Nowhere
      /\ NoData.named = NoRun /\ NoData.status = Nowhere /\ NoData.jobs = {}
  BY NoDataType DEF NoData, None
<1>2. AnswerOK(q, NoData)  BY <1>1 DEF AnswerOK, VData, Nowhere
<1>3. ASSUME NEW text \in Texts  PROVE AnswerOK(q, Says(text))
  <2>1. /\ Says(text) \in Answer /\ Says(text).list = NoData.list
        /\ Says(text).named = NoRun /\ Says(text).status = Nowhere /\ Says(text).jobs = {}
    BY <1>1 DEF Says, Answer
  <2> QED  BY <1>1, <2>1 DEF AnswerOK, VData, Nowhere
<1> QED  BY <1>2, <1>3

\* What GitHub says of a run.
LEMMA RunTypes ==
  ASSUME NEW run \in Run
  PROVE  /\ Status(run) \in Statuses /\ (Status(run) = "completed" <=> Over(run))
         /\ Conclusion(run) \in {Nowhere, "success", "failure", "cancelled"}
         /\ Jobs(run) \in SUBSET ({"plan", "tests", "report"}
                                    \X {"success", "failure", "skipped", "cancelled"})
BY DEF Run, Stages, Status, Over, Conclusion, Jobs, Statuses, Nowhere

LEMMA RefuseOK ==
  ASSUME PInv, NEW q \in wire, Refuse(q), UNCHANGED page
  PROVE  PInv' /\ Passed
<1> DEFINE c == [q EXCEPT !.at = "answered", !.ok = "gone", !.data = NoData]
<1>1. Sound(q) /\ faults' \in 0..MaxFaults  BY DEF PInv, Refuse
<1>2. Onward(q, c)  BY <1>1, WordsOK, AnswerSound
<1>3. Becomes(q, c) /\ UNCHANGED runVars /\ live' \subseteq live /\ UNCHANGED issued
  BY DEF Refuse, Reply
<1> HIDE DEF c
<1> QED  BY <1>1, <1>2, <1>3, QuietServe DEF Onward

LEMMA FarewellOK ==
  ASSUME PInv, NEW q \in wire, Farewell(q), UNCHANGED page
  PROVE  PInv' /\ Passed
<1> DEFINE c == [q EXCEPT !.at = "answered", !.ok = "ok", !.data = NoData]
<1>1. Sound(q) /\ faults' \in 0..MaxFaults  BY DEF PInv, Farewell
<1>2. Onward(q, c)  BY <1>1, WordsOK, AnswerSound
<1>3. Becomes(q, c) /\ UNCHANGED runVars /\ live' \subseteq live /\ UNCHANGED issued
  BY DEF Farewell, Reply
<1> HIDE DEF c
<1> QED  BY <1>1, <1>2, <1>3, QuietServe DEF Onward

LEMMA ReadListOK ==
  ASSUME PInv, NEW q \in wire, ReadList(q), UNCHANGED page
  PROVE  PInv' /\ Passed
<1> DEFINE data == [NoData EXCEPT !.list = Listing]
           c == [q EXCEPT !.at = "answered", !.ok = "ok", !.data = data]
<1>1. Sound(q) /\ faults' \in 0..MaxFaults  BY DEF PInv, ReadList
<1>2. AnswerOK(q, data)
  <2>1. Listing \in [RunId -> Statuses]
    <3>1. \A r \in RunId : Born(r) => Status(runs[r]) \in Statuses
      BY BornIsRun, RunTypes DEF PInv
    <3> QED  BY <3>1 DEF Listing, Statuses
  <2>2. data \in Answer /\ data.list = Listing /\ data.named = NoRun
    BY <2>1, NoDataType DEF Answer, NoData
  <2>3. q.kind # "detail"  BY DEF ReadList, Serves
  <2> HIDE DEF data
  <2> QED  BY <2>2, <2>3 DEF AnswerOK, Listing
<1> HIDE DEF data
<1>3. Onward(q, c)  BY <1>1, <1>2, AnswerSound
<1>4. Becomes(q, c) /\ UNCHANGED runVars /\ live' \subseteq live /\ UNCHANGED issued
  BY DEF ReadList, Reply, data
<1> HIDE DEF c
<1> QED  BY <1>1, <1>3, <1>4, QuietServe DEF Onward

LEMMA FindRunOK ==
  ASSUME PInv, NEW q \in wire, FindRun(q), UNCHANGED page
  PROVE  PInv' /\ Passed
<1> DEFINE run == runs[q.run]
           seen == [NoData EXCEPT !.status = Status(run), !.conclusion = Conclusion(run)]
           b == [q EXCEPT !.at = "answered", !.ok = "ok", !.data = Says("unfinished")]
           c == [q EXCEPT !.at = "answered", !.ok = "fail", !.data = NoData]
           d == [q EXCEPT !.at = "found", !.data = seen]
<1>1. Sound(q) /\ faults' \in 0..MaxFaults  BY DEF PInv, FindRun
<1>2. run \in Run
  <2>1. q.run \in RunId /\ Born(q.run)  BY <1>1 DEF FindRun, Serves, Sound, AskOK, Request
  <2> QED  BY <2>1, BornIsRun DEF PInv
<1>3. AnswerOK(q, seen)
  <2>1. /\ Status(run) \in Statuses /\ (Status(run) = "completed" <=> Over(run))
        /\ Conclusion(run) \in {Nowhere, "success", "failure", "cancelled"}
    BY <1>2, RunTypes
  <2>2. /\ seen \in Answer /\ seen.status = Status(run) /\ seen.conclusion = Conclusion(run)
        /\ seen.jobs = {} /\ seen.named = NoRun /\ \A r \in RunId : seen.list[r] = Nowhere
    BY <2>1, NoDataType DEF Answer, NoData, None
  <2> HIDE DEF seen
  <2> QED  BY <2>1, <2>2 DEF AnswerOK, VData
<1>4. \/ Becomes(q, b) \/ Becomes(q, c) \/ Becomes(q, d)
  BY DEF FindRun, Reply
<1>5. UNCHANGED runVars /\ live' \subseteq live /\ UNCHANGED issued  BY DEF FindRun
<1> HIDE DEF seen
<1>6. /\ Onward(q, b)
      /\ Onward(q, c)
  <2>1. "unfinished" \in Texts  BY DEF Texts
  <2> QED  BY <1>1, <2>1, WordsOK, AnswerSound
<1>7. Onward(q, d)  BY <1>1, <1>3, AnswerSound
<1> HIDE DEF b, c, d
<1> QED  BY <1>1, <1>4, <1>5, <1>6, <1>7, QuietServe DEF Onward

LEMMA ReadJobsOK ==
  ASSUME PInv, NEW q \in wire, ReadJobs(q), UNCHANGED page
  PROVE  PInv' /\ Passed
<1> DEFINE run == runs[q.run]
           jobs == IF Over(run) THEN Jobs(run) ELSE {}
           data == [q.data EXCEPT !.jobs = jobs]
           c == [q EXCEPT !.at = "answered", !.ok = "ok", !.data = data]
<1>1. Sound(q) /\ faults' \in 0..MaxFaults /\ q.kind = "detail"
  BY DEF PInv, ReadJobs, Serves
<1>2. run \in Run
  <2>1. q.run \in RunId /\ Born(q.run)  BY <1>1 DEF Sound, AskOK, Request
  <2> QED  BY <2>1, BornIsRun DEF PInv
<1>3. AnswerOK(q, data)
  <2>1. jobs \in SUBSET ({"plan", "tests", "report"}
                           \X {"success", "failure", "skipped", "cancelled"})
        /\ (jobs # {} => Over(run) /\ jobs = Jobs(run))
    BY <1>2, RunTypes
  <2>2. q.data \in Answer  BY <1>1 DEF Sound, AskOK, Request
  <2> HIDE DEF jobs
  <2>3. /\ data \in Answer /\ data.jobs = jobs /\ data.list = q.data.list
        /\ data.named = q.data.named /\ data.status = q.data.status
        /\ data.conclusion = q.data.conclusion
    BY <2>1, <2>2 DEF Answer
  <2> HIDE DEF data
  <2>4. VData(run, q.data)  BY <1>1 DEF Sound, Verdict
  <2>5. VData(run, data)  BY <2>1, <2>3, <2>4 DEF VData
  <2> QED  BY <1>1, <2>3, <2>5 DEF AnswerOK, Sound, AskOK
<1>4. Becomes(q, c) /\ UNCHANGED runVars /\ live' \subseteq live /\ UNCHANGED issued
  BY DEF ReadJobs, Reply
<1> HIDE DEF data
<1>5. Onward(q, c)  BY <1>1, <1>3, AnswerSound
<1> HIDE DEF c
<1> QED  BY <1>1, <1>4, <1>5, QuietServe DEF Onward

\* The log text and the results are words.
LEMMA ReadTextOK ==
  ASSUME PInv, NEW q \in wire, ReadLogs(q) \/ ReadResults(q), UNCHANGED page
  PROVE  PInv' /\ Passed
<1>1. PICK text \in Texts : Reply(q, "ok", Says(text))
  BY DEF ReadLogs, ReadResults, Texts
<1> DEFINE c == [q EXCEPT !.at = "answered", !.ok = "ok", !.data = Says(text)]
<1>2. Sound(q) /\ faults' \in 0..MaxFaults  BY DEF PInv, ReadLogs, ReadResults
<1>3. Onward(q, c)  BY <1>2, WordsOK, AnswerSound
<1>4. Becomes(q, c) /\ UNCHANGED runVars /\ live' \subseteq live /\ UNCHANGED issued
  BY <1>1 DEF ReadLogs, ReadResults, Reply
<1> HIDE DEF c
<1> QED  BY <1>2, <1>3, <1>4, QuietServe DEF Onward

LEMMA PostCancelOK ==
  ASSUME PInv, NEW q \in wire, PostCancel(q), UNCHANGED page
  PROVE  PInv' /\ Passed
<1> DEFINE b == [q EXCEPT !.at = "answered", !.ok = "fail", !.data = NoData]
           c == [q EXCEPT !.at = "answered", !.ok = "ok", !.data = NoData]
<1>1. Sound(q) /\ faults' \in 0..MaxFaults /\ UNCHANGED issued /\ live' \subseteq live
  BY DEF PInv, PostCancel
<1>2. q.run \in RunId /\ Born(q.run)
  BY <1>1 DEF PostCancel, Serves, Sound, AskOK, Request
<1>3. /\ Onward(q, b)
      /\ Onward(q, c)
  BY <1>1, WordsOK, AnswerSound
<1>4. CASE Over(runs[q.run])
  <2>1. Becomes(q, b) /\ UNCHANGED runVars  BY <1>4 DEF PostCancel, Reply, runVars
  <2> HIDE DEF b
  <2> QED  BY <1>1, <1>3, <2>1, QuietServe DEF Onward
<1>5. CASE ~Over(runs[q.run])
  <2>1. /\ Becomes(q, c) /\ runs' = [runs EXCEPT ![q.run].stage = "cancelled"]
        /\ UNCHANGED <<accepted, clock>>
    BY <1>5 DEF PostCancel, Reply
  <2>2. Kept /\ NumbersOK' /\ Traced
    <3>1. "cancelled" \in Stages  BY DEF Stages
    <3> QED  BY <1>2, <1>5, <2>1, <3>1, StageKeeps DEF PInv
  <2> HIDE DEF c
  <2>3. Sound(c)'  BY <1>3, <2>2, SoundKeeps DEF PInv, Onward
  <2> QED  BY <1>1, <1>3, <2>1, <2>2, <2>3, WireStep DEF Becomes, From, Onward
<1> QED  BY <1>4, <1>5

\* The run that a start is matched with is in the window, and titled for it if
\* one in the window is.
LEMMA MatchIn ==
  ASSUME NEW q, InWindow(q) # {}, NEW r, r = Match(InWindow(q), Titled(MyFlow, Me))
  PROVE  /\ r \in InWindow(q) /\ r \in RunId /\ Born(r)
         /\ InWindow(q) \cap Titled(MyFlow, Me) # {} => r \in Titled(MyFlow, Me)
<1> DEFINE W == InWindow(q)
           T == W \cap Titled(MyFlow, Me)
<1>1. W \subseteq RunId /\ \A s \in W : Born(s)  BY DEF InWindow
<1>2. W \in SUBSET Nat /\ T \in SUBSET Nat /\ IsFiniteSet(W) /\ IsFiniteSet(T) /\ T \subseteq W
  <2> HIDE DEF W
  <2>1. T \subseteq W /\ W \in SUBSET Nat  BY <1>1, RunsAreNumbers
  <2>2. IsFiniteSet(W)  BY <1>1, RunsAreNumbers, FS_Subset
  <2>3. IsFiniteSet(T)
    <3> HIDE DEF T
    <3> QED  BY <2>1, <2>2, FS_Subset
  <2> QED  BY <2>1, <2>2, <2>3
<1>3. r = IF T # {} THEN Max(T) ELSE Max(W)  BY DEF Match
<1>4. W # {}  OBVIOUS
<1>5. r \in W /\ (T # {} => r \in T)
  <2> HIDE DEF W, T
  <2>1. T # {} => Max(T) \in T  BY <1>2, MaxIn
  <2>2. Max(W) \in W  BY <1>2, <1>4, MaxIn
  <2> QED  BY <1>2, <1>3, <2>1, <2>2
<1> QED  BY <1>1, <1>5

LEMMA TriesSound ==
  ASSUME NEW q, Sound(q)
  PROVE  Onward(q, [q EXCEPT !.tries = @ + 1])
<1> DEFINE c == [q EXCEPT !.tries = @ + 1]
<1>1. /\ c \in Request /\ c.kind = q.kind /\ c.session = q.session /\ c.epoch = q.epoch
      /\ c.chain = q.chain /\ c.run = q.run /\ c.dispatch = q.dispatch /\ c.data = q.data
      /\ c.at = q.at /\ c.since = q.since
  BY DEF Sound, AskOK, Request
<1> HIDE DEF c
<1>2. AskOK(c)  BY <1>1 DEF Sound, AskOK
<1>3. Verdict(c)  BY <1>1 DEF Sound, Verdict
<1>4. Looks(c)  BY <1>1 DEF Sound, Looks
<1> QED  BY <1>1, <1>2, <1>3, <1>4 DEF Sound, From, Onward, c

LEMMA LookOK ==
  ASSUME PInv, NEW q \in wire, Look(q, MyFlow, Me), UNCHANGED page
  PROVE  PInv' /\ Passed
<1> DEFINE r == Match(InWindow(q), Titled(MyFlow, Me))
           data == [NoData EXCEPT !.named = r, !.status = Status(runs[r])]
           b == [q EXCEPT !.at = "answered", !.ok = "ok", !.data = NoData]
           c == [q EXCEPT !.tries = @ + 1]
           d == [q EXCEPT !.at = "answered", !.ok = "ok", !.data = data]
<1>1. Sound(q) /\ faults' \in 0..MaxFaults /\ UNCHANGED <<runVars, issued>> /\ live' \subseteq live
      /\ q.kind = "start"
  BY DEF PInv, Look, Serves
<1>2. Onward(q, b) /\ Onward(q, c)  BY <1>1, WordsOK, AnswerSound, TriesSound
<1>3. Becomes(q, b) \/ Becomes(q, c) \/ (InWindow(q) # {} /\ Becomes(q, d))
  BY DEF Look, Reply
<1>4. CASE InWindow(q) # {}
  <2>1. r \in RunId /\ Born(r)  BY <1>4, MatchIn
  <2> HIDE DEF r
  <2>2. Status(runs[r]) \in Statuses  BY <2>1, BornIsRun, RunTypes DEF PInv
  <2>3. AnswerOK(q, data)
    <3>1. data \in Answer /\ data.named = r /\ \A s \in RunId : data.list[s] = Nowhere
      BY <2>1, <2>2, NoDataType DEF Answer, NoData, None
    <3> HIDE DEF data
    <3> QED  BY <1>1, <2>1, <3>1 DEF AnswerOK
  <2> HIDE DEF data
  <2>4. Onward(q, d)  BY <1>1, <2>3, AnswerSound
  <2> HIDE DEF b, c, d
  <2> QED  BY <1>1, <1>2, <1>3, <2>4, QuietServe DEF Onward
<1>5. CASE InWindow(q) = {}
  <2> HIDE DEF b, c, d
  <2> QED  BY <1>1, <1>2, <1>3, <1>5, QuietServe DEF Onward
<1> QED  BY <1>4, <1>5

LEMMA FailsOK ==
  ASSUME PInv, NEW q \in wire, Fails(q), UNCHANGED page
  PROVE  PInv' /\ Passed
<1> DEFINE b == [q EXCEPT !.at = "answered", !.ok = "fail", !.data = NoData]
           c == [q EXCEPT !.tries = @ + 1]
           d == [q EXCEPT !.at = "answered", !.ok = "ok", !.data = q.data]
<1>1. Sound(q) /\ faults' \in 0..MaxFaults /\ UNCHANGED <<runVars, issued>> /\ live' \subseteq live
  BY DispatchAssumption DEF PInv, Fails
<1>2. Onward(q, b) /\ Onward(q, c)  BY <1>1, WordsOK, AnswerSound, TriesSound
<1>3. AnswerOK(q, q.data)  BY <1>1 DEF Sound, AskOK, Request, Verdict, AnswerOK
<1>4. Onward(q, d)  BY <1>1, <1>3, AnswerSound
<1>5. Becomes(q, b) \/ Becomes(q, c) \/ Becomes(q, d)  BY DEF Fails, Reply
<1> HIDE DEF b, c, d
<1> QED  BY <1>1, <1>2, <1>4, <1>5, QuietServe DEF Onward

LEMMA PostDispatchOK ==
  ASSUME PInv, NEW q \in wire, PostDispatch(q, MyFlow, Me), UNCHANGED page
  PROVE  PInv' /\ Passed
<1> DEFINE n == Dispatched + 1
           c == [q EXCEPT !.at = "looking", !.since = clock, !.dispatch = n]
           x == [flow |-> MyFlow, by |-> Me, dispatch |-> n]
<1>1. Sound(q) /\ UNCHANGED <<runs, clock, issued, live, faults>> /\ q.kind = "start"
      /\ Dispatched < Cardinality(RunId) /\ accepted' = accepted \cup {x} /\ Becomes(q, c)
  BY DEF PInv, PostDispatch, Serves
<1>2. Kept /\ NumbersOK' /\ Traced /\ Dispatched' = n
  BY <1>1, PageAssumption, DispatchKeeps DEF PInv
<1>3. n \in Nat /\ n > 0 /\ n > Dispatched /\ Dispatched \in Nat  BY DEF PInv, NumbersOK
<1>4. clock \in 0..MaxTime /\ clock <= clock  BY DEF PInv, RunsTypeOK
<1>5. /\ x.flow = MyFlow /\ x.by = Me /\ x.dispatch = n  OBVIOUS
<1> HIDE DEF n, x
<1>6. /\ c \in Request /\ c.kind = q.kind /\ c.session = q.session /\ c.epoch = q.epoch
      /\ c.chain = q.chain /\ c.run = q.run /\ c.dispatch = n /\ c.data = q.data
      /\ c.at = "looking" /\ c.since = clock
  BY <1>1, <1>3, <1>4 DEF Sound, AskOK, Request
<1> HIDE DEF c
<1>0. PICK e : e = c  OBVIOUS
<1>7. AskOK(e)'
  <2>1. AskOK(e)  BY <1>0, <1>1, <1>6 DEF Sound, AskOK
  <2> QED  BY <1>1, <2>1 DEF AskOK, Born
<1>8. Verdict(e)'  BY <1>0, <1>1, <1>6 DEF Verdict
<1>9. Looks(e)'
  <2>1. e.dispatch = n /\ e.since = clock /\ e.kind = "start"  BY <1>0, <1>1, <1>6
  <2>2. \A d \in accepted' : d.dispatch = n => Ours(d)
    <3> SUFFICES ASSUME NEW d \in accepted, d.dispatch = n PROVE FALSE
      BY <1>1, <1>5 DEF Ours
    <3>1. d.dispatch <= Dispatched  BY DEF PInv, NumbersOK
    <3> QED  BY <1>3, <3>1
  <2>3. \A r \in RunId : Born(r)' => runs'[r].dispatch # n
    <3> SUFFICES ASSUME NEW r \in RunId, Born(r), runs[r].dispatch = n PROVE FALSE
      BY <1>1 DEF Born
    <3>1. runs[r].dispatch <= Dispatched  BY DEF PInv, NumbersOK
    <3> QED  BY <1>3, <3>1
  <2>4. n <= Dispatched' /\ n > 0 /\ clock <= clock'  BY <1>1, <1>2, <1>3, <1>4
  <2> QED  BY <2>1, <2>2, <2>3, <2>4 DEF Looks, Ours
<1>10. Sound(e)'  BY <1>7, <1>8, <1>9 DEF Sound
<1>11. faults' \in 0..MaxFaults /\ live' \subseteq live /\ UNCHANGED <<page, issued>>
  BY <1>1 DEF PInv
<1> QED  BY <1>0, <1>1, <1>2, <1>3, <1>6, <1>10, <1>11, WireStep DEF Becomes, From

LEMMA ServeOK ==
  ASSUME PInv, NEW q \in wire, Serve(q, MyFlow, Me), UNCHANGED page
  PROVE  PInv' /\ Passed
BY RefuseOK, ReadListOK, FindRunOK, ReadJobsOK, ReadTextOK, PostCancelOK, PostDispatchOK,
   LookOK, FarewellOK DEF Serve

\* What changes the runs and the sessions, and nothing on the page or the wire.
LEMMA WorldStep ==
  ASSUME PInv, Kept, NumbersOK', Traced, UNCHANGED <<page, wire, issued>>,
         live' \subseteq live, faults' = faults
  PROVE  PInv' /\ Passed
<1>1. \A q \in wire : Sound(q)'  BY SoundKeeps DEF PInv
<1>2. PageOK(page)'
  <2>1. PageOK(page)  BY DEF PInv
  <2> QED  BY <2>1 DEF PageOK, Kept, Page, Held
<1>3. \A q \in wire : Locks(page, q)'  BY DEF PInv, Locks
<1>4. Apart(wire')  BY DEF PInv, Apart
<1>5. Passed
  <2>1. \A x \in wire : From(x, x)  BY DEF PInv, Sound, AskOK, From
  <2> QED  BY <2>1 DEF Passed
<1> QED  BY <1>1, <1>2, <1>3, <1>4, <1>5 DEF PInv, Kept

-----------------------------------------------------------------------------
(* What the page does.                                                     *)

\* What most steps of the page leave as it is, and what they send.
Calm ==
  /\ page'.screen = page.screen /\ page'.epoch = page.epoch /\ page'.me = page.me
  /\ page'.held.from = page.held.from /\ page'.held.report >= page.held.report
  /\ \A x \in wire' : x \in wire \/ (/\ x.kind # "session" /\ x.session = page.me
                                     /\ x.epoch = page.epoch)

\* A handler that leaves the buttons alone, and asks nothing they wait for.
LEMMA QuietlyDoes ==
  ASSUME PInv, NEW others \in SUBSET wire, NEW p, p.epoch = page.epoch, p.me = page.me,
         p.screen = page.screen, p.held = page.held,
         NEW d, Goods(p, d), Pressed(p, d), Quiet(d), Does(others, d)
  PROVE  PInv' /\ Calm /\ Sends(others, d.asks)
<1>1. /\ page.epoch \in Nat /\ page.me \in Nat /\ page.me <= issued
      /\ issued \in Nat /\ issued \in 0..MaxSessions /\ live \subseteq 1..issued
  BY DEF PInv, PageOK, Page
<1>2. /\ page' = d.page /\ wire' = Put(others, d.asks) /\ UNCHANGED <<runVars, faults>>
      /\ issued' = issued /\ live' = live
  BY DEF Does
<1>3. /\ PageOK(d.page) /\ d.page.epoch = page.epoch /\ d.page.me = page.me
      /\ d.page.screen = page.screen /\ d.page.held.from = page.held.from
      /\ d.page.held.report >= page.held.report
      /\ d.asks \in SUBSET Request /\ IsFiniteSet(d.asks) /\ \A a \in d.asks : SentBy(p, a)
  BY DEF Goods
<1>4. \A q \in others : Locks(d.page, q)  BY <1>3 DEF PInv, Locks, Pressed
<1>5. \A a \in d.asks : Locks(d.page, a)  BY DEF Quiet, Locks
<1>6. page.epoch <= page.epoch /\ issued <= issued  BY <1>1
<1>7. \A a \in d.asks : Sent(p, a)  BY <1>3 DEF SentBy
<1>8. PInv' /\ Sends(others, d.asks)
  BY <1>1, <1>2, <1>3, <1>4, <1>5, <1>6, <1>7, PageStep
<1>9. \A x \in wire' : x \in wire \/ (/\ x.kind # "session" /\ x.session = page.me
                                      /\ x.epoch = page.epoch)
  BY <1>3, <1>8 DEF Sends, Same, SentBy, Sent
<1> QED  BY <1>2, <1>3, <1>8, <1>9 DEF Calm

LEMMA QuietDoes ==
  ASSUME PInv, NEW others \in SUBSET wire, NEW d, Goods(page, d), Pressed(page, d), Quiet(d),
         Does(others, d)
  PROVE  PInv' /\ Calm
BY QuietlyDoes

\* The page alone changes.
LEMMA EditStep ==
  ASSUME PInv, NEW d, page' = d, PageOK(d), d.epoch = page.epoch, d.me = page.me,
         d.screen = page.screen, d.held.from = page.held.from,
         d.held.report = page.held.report,
         d.held.starting = page.held.starting, d.held.cancelling = page.held.cancelling,
         UNCHANGED <<runVars, serverVars>>
  PROVE  PInv' /\ Calm
<1> DEFINE e == Then(d, {})
<1>1. /\ PageOK(page) /\ page.epoch \in Nat /\ page.me \in Nat /\ page.me <= issued
      /\ issued \in Nat /\ issued \in 0..MaxSessions /\ live \subseteq 1..issued
      /\ page.held.report >= page.held.report
  BY DEF PInv, PageOK, Page, Held
<1>2. /\ e.page = d /\ e.asks = {} /\ wire' = wire /\ issued' = issued /\ live' = live
      /\ faults' = faults /\ UNCHANGED runVars
  BY DEF Then, serverVars
<1>3. Put(wire, {}) = wire  BY DEF Put
<1> HIDE DEF e
<1>4. \A q \in wire : Locks(d, q)  BY DEF PInv, Locks
<1>5. page.epoch <= page.epoch /\ issued <= issued  BY <1>1
<1>6. IsFiniteSet({})  BY FS_EmptySet
<1>7. PInv'  BY <1>1, <1>2, <1>3, <1>4, <1>5, <1>6, PageStep
<1> QED  BY <1>1, <1>2, <1>7 DEF Calm

\* The buttons that q's answer releases are no longer waited for, and the others
\* are still locked.
LEMMA TakenLocks ==
  ASSUME PInv, NEW q \in wire, ~Stale(page, q), NEW d, Taken(page, q, d),
         Loosed(page, q, wire \ {q}, d)
  PROVE  /\ \A x \in wire \ {q} : Locks(d.page, x)
         /\ \A a \in d.asks : Locks(d.page, a)
<1>1. q.epoch = page.epoch /\ d.page.epoch = page.epoch /\ AskOK(q) /\ Locks(page, q)
  BY DEF Stale, Taken, PInv, Sound
<1>2. ASSUME NEW x, AskOK(x), x.epoch = page.epoch, Locks(page, x),
             Alone(q, wire \ {q}, d) => ~InChain(q, x)
      PROVE  Locks(d.page, x)
  <2>1. ASSUME x.chain = "start" PROVE d.page.held.starting
    <3>1. page.held.starting  BY <1>2, <2>1 DEF Locks
    <3>2. q.chain = "start" => InChain(q, x)  BY <1>1, <1>2, <2>1 DEF InChain, AskOK
    <3> QED  BY <1>2, <3>1, <3>2 DEF Loosed
  <2>2. ASSUME x.chain = "cancel" PROVE x.run \in d.page.held.cancelling
    <3>1. x.run \in page.held.cancelling  BY <1>2, <2>2 DEF Locks
    <3>2. q.chain = "cancel" /\ x.run = q.run => InChain(q, x)  BY <1>1, <1>2, <2>2 DEF InChain
    <3> QED  BY <1>2, <3>1, <3>2 DEF Loosed
  <2> QED  BY <2>1, <2>2 DEF Locks
<1>3. ASSUME NEW x \in wire \ {q}  PROVE Locks(d.page, x)
  <2>1. AskOK(x) /\ Locks(page, x)  BY DEF PInv, Sound
  <2>2. Alone(q, wire \ {q}, d) => ~InChain(q, x)  BY DEF Alone
  <2>3. CASE x.epoch = page.epoch  BY <1>2, <2>1, <2>2, <2>3
  <2>4. CASE x.epoch # page.epoch  BY <1>1, <2>4 DEF Locks
  <2> QED  BY <2>3, <2>4
<1>4. ASSUME NEW a \in d.asks  PROVE Locks(d.page, a)
  <2>1. AskOK(a) /\ a.epoch = page.epoch  BY DEF Taken, SentBy, Sent
  <2>2. Alone(q, wire \ {q}, d) => ~InChain(q, a)  BY DEF Alone
  <2>3. CASE a.chain \in {"none", "poll"}  BY <2>3 DEF Locks
  <2>4. CASE a.chain = q.chain /\ a.run = q.run
    <3>1. Locks(page, a)  BY <1>1, <2>1, <2>4 DEF Locks
    <3> QED  BY <1>2, <2>1, <2>2, <3>1
  <2> QED  BY <2>3, <2>4 DEF Taken, Chained
<1> QED  BY <1>3, <1>4

\* An answer reaches the page.
LEMMA LandOK ==
  ASSUME PInv, NEW q \in wire, Land(q)
  PROVE  LET d == Landed(page, q, wire \ {q}) IN
           PInv' /\ page' = d.page /\ UNCHANGED issued /\ Sends(wire \ {q}, d.asks)
<1> DEFINE others == wire \ {q}
<1>0. PICK d : d = Landed(page, q, others)  OBVIOUS
<1> SUFFICES PInv' /\ page' = d.page /\ UNCHANGED issued /\ Sends(others, d.asks)
  BY <1>0
<1>1. /\ PageOK(page) /\ page.epoch \in Nat /\ page.me \in Nat /\ page.me <= issued
      /\ issued \in Nat /\ issued \in 0..MaxSessions /\ live \subseteq 1..issued /\ 0 <= issued
      /\ page.epoch <= page.epoch + 1 /\ page.epoch <= page.epoch /\ issued <= issued
  BY DEF PInv, PageOK, Page
<1>2. Does(others, d)  BY <1>0 DEF Land
<1>3. /\ page' = d.page /\ wire' = Put(others, d.asks) /\ UNCHANGED <<runVars, faults>>
      /\ issued' = issued /\ live' = live
  BY <1>2 DEF Does
<1>4. AskOK(q) /\ \A x \in others : x.epoch \in Nat /\ x.epoch <= page.epoch
  BY DEF PInv, Sound, AskOK, Request
<1>5. \A x \in others : x.epoch # page.epoch + 1  BY <1>1, <1>4
<1>6. CASE q.kind \in {"logout", "session"}
  <2>1. d = Leave(page, q)  BY <1>0, <1>6 DEF Landed
  <2>2. CASE q.kind = "logout"
    <3>1. /\ Cleared(page, d.page) /\ d.page.me \in {0, page.me}
      BY <1>1, <1>4, <1>6, <2>1, <2>2, LeaveGood
    <3>2. PICK a : d.asks = {a} /\ Sent(d.page, a) /\ a.kind = "session" /\ a.chain = "none"
      BY <1>1, <1>4, <1>6, <2>1, <2>2, LeaveGood
    <3>3. /\ d.page.epoch = page.epoch + 1 /\ d.page.me \in Nat /\ d.page.me <= issued
          /\ page.epoch + 1 \in Nat /\ page.epoch + 1 <= page.epoch + 1
      BY <1>1, <3>1 DEF Cleared, PageOK, Page
    <3>4. \A x \in others : Locks(d.page, x)  BY <1>5, <3>3 DEF Locks
    <3>5. \A x \in d.asks : Locks(d.page, x)  BY <3>2 DEF Locks
    <3>6. d.asks \in SUBSET Request /\ IsFiniteSet(d.asks)
      BY <3>2, FS_Singleton DEF SentBy, Sent, AskOK
    <3>7. PageOK(d.page)  BY <3>1 DEF Cleared
    <3>8. others \in SUBSET wire /\ \A x \in d.asks : Sent(d.page, x)  BY <3>2
    <3> HIDE DEF others
    <3> QED  BY <1>1, <1>3, <3>3, <3>4, <3>5, <3>6, <3>7, <3>8, PageStep
  <2>3. CASE q.kind = "session"
    <3>1. /\ PageOK(d.page) /\ d.page.held = page.held /\ d.page.epoch = page.epoch
          /\ d.page.me = page.me /\ d.asks = {}
      BY <1>1, <1>4, <1>6, <2>1, <2>3, LeaveGood
    <3>2. \A x \in others : Locks(d.page, x)  BY <3>1 DEF PInv, Locks
    <3>3. d.asks \in SUBSET Request /\ IsFiniteSet(d.asks)  BY <3>1, FS_EmptySet
    <3>4. others \in SUBSET wire  OBVIOUS
    <3>5. (\A x \in d.asks : Sent(page, x)) /\ (\A x \in d.asks : Locks(d.page, x))  BY <3>1
    <3> HIDE DEF others
    <3> QED  BY <1>1, <1>3, <3>1, <3>2, <3>3, <3>4, <3>5, PageStep
  <2> QED  BY <1>6, <2>2, <2>3
<1>7. CASE q.kind \notin {"logout", "session"}
  <2>1. CASE /\ Cleared(page, d.page) /\ d.asks = {} /\ d.page.me = page.me
    <3>1. d.page.epoch = page.epoch + 1 /\ PageOK(d.page)  BY <2>1 DEF Cleared
    <3>2. \A x \in others : Locks(d.page, x)  BY <1>5, <3>1 DEF Locks
    <3>3. d.asks \in SUBSET Request /\ IsFiniteSet(d.asks)  BY <2>1, FS_EmptySet
    <3>4. others \in SUBSET wire  OBVIOUS
    <3>5. (\A x \in d.asks : Sent(page, x)) /\ (\A x \in d.asks : Locks(d.page, x))  BY <2>1
    <3> HIDE DEF others
    <3> QED  BY <1>1, <1>3, <2>1, <3>1, <3>2, <3>3, <3>4, <3>5, PageStep
  <2>2. CASE Goods(page, d) /\ Pressed(page, d) /\ d.asks = {}
    <3>1. Quiet(d) /\ others \in SUBSET wire  BY <2>2 DEF Quiet
    <3> HIDE DEF others
    <3> QED  BY <1>2, <1>3, <2>2, <3>1, QuietlyDoes
  <2>3. CASE ~Stale(page, q) /\ Taken(page, q, d) /\ Loosed(page, q, others, d)
    <3>1. /\ \A x \in others : Locks(d.page, x)
          /\ \A a \in d.asks : Locks(d.page, a)
      BY <2>3, TakenLocks
    <3>2. /\ PageOK(d.page) /\ d.page.epoch = page.epoch /\ d.page.me = page.me
          /\ d.asks \in SUBSET Request /\ IsFiniteSet(d.asks) /\ \A a \in d.asks : SentBy(page, a)
      BY <2>3 DEF Taken
    <3>4. \A a \in d.asks : Sent(page, a)  BY <3>2 DEF SentBy
    <3>3. others \in SUBSET wire  OBVIOUS
    <3> HIDE DEF others
    <3> QED  BY <1>1, <1>3, <3>1, <3>2, <3>3, <3>4, PageStep
  <2> QED  BY <1>0, <1>1, <1>4, <1>7, <2>1, <2>2, <2>3, LandedGood
<1> QED  BY <1>6, <1>7

LEMMA AwaitEndsOK ==
  ASSUME PInv, AwaitEnds
  PROVE  PInv' /\ Calm
<1> DEFINE h == [page.held EXCEPT !.awaiting = FALSE]
           d == [page EXCEPT !.held = h]
<1>0. PageOK(page) /\ page \in Page /\ page.held \in Held  BY DEF PInv, PageOK, Page, Held
<1>1. page' = d
  <2>1. [page EXCEPT !.held.awaiting = FALSE] = d  BY <1>0 DEF Page, Held
  <2> QED  BY <2>1 DEF AwaitEnds
<1>2. /\ h \in Held /\ h.view = page.held.view /\ h.from = page.held.from
      /\ h.listed = page.held.listed /\ h.board = page.held.board /\ h.report = page.held.report
      /\ h.starting = page.held.starting /\ h.cancelling = page.held.cancelling
      /\ page.held.report >= page.held.report
  <2>1. h \in Held  BY <1>0 DEF Held
  <2>2. page.held.report >= page.held.report  BY <1>0 DEF Held
  <2> QED  BY <1>0, <2>1, <2>2 DEF Held
<1> HIDE DEF h
<1>3. PageOK(d)  BY <1>0, <1>2, HoldGood DEF PageOK
<1>4. d.held = h /\ d.epoch = page.epoch /\ d.me = page.me /\ d.screen = page.screen
  BY <1>0 DEF Page
<1>5. UNCHANGED <<runVars, serverVars>>  BY DEF AwaitEnds
<1> HIDE DEF d
<1> QED  BY <1>1, <1>2, <1>3, <1>4, <1>5, EditStep

\* The page as the timer, the Refresh buttons and coming back leave it.
LEMMA CountersGood ==
  ASSUME NEW p, PageOK(p), NEW d \in Page, d.timer => p.timer, d.screen = p.screen,
         d.leaving = p.leaving, d.epoch = p.epoch, d.me = p.me, d.tab = p.tab,
         d.hidden = p.hidden, d.held = p.held, d.ticket = p.ticket
  PROVE  Goods(p, Then(d, {})) /\ Pressed(p, Then(d, {})) /\ PageOK(d)
<1>1. p.held.report >= p.held.report  BY DEF PageOK, Page, Held
<1>2. PageOK(d) /\ Stays(p, d)  BY <1>1 DEF PageOK, Stays
<1> QED  BY <1>2, EditGood

\* Then it asks one thing, which no button waits for.
LEMMA ThenAsks ==
  ASSUME NEW p, PageOK(p), NEW d, Goods(p, Then(d, {})), Pressed(p, Then(d, {})),
         NEW a, SentBy(d, a), a.chain \in {"none", "poll"}
  PROVE  Goods(p, Then(d, {a})) /\ Pressed(p, Then(d, {a})) /\ Quiet(Then(d, {a}))
<1>1. a \in Request /\ IsFiniteSet({a})  BY FS_Singleton DEF SentBy, Sent, AskOK
<1>2. SentBy(p, a)  BY DEF SentBy, Sent, Goods, Then
<1> QED  BY <1>1, <1>2 DEF Goods, Pressed, Quiet, Then

LEMMA TickOK ==
  ASSUME PInv, Tick
  PROVE  PInv' /\ Calm
<1>1. PICK p : p = [page EXCEPT !.timer = FALSE, !.cycles = Min({@ + 1, MaxPollCycles})]
  OBVIOUS
<1>2. PICK a : a = CASE p.tab = "view" -> Send(p, "detail", p.held.view, "poll")
                     [] p.tab = "dashboard" -> Send(p, "dashboard", NoRun, "poll")
                     [] OTHER -> Send(p, "runs", NoRun, "poll")
  OBVIOUS
<1>3. Does(wire, Then(p, {a})) /\ page.timer  BY <1>1, <1>2 DEF Tick
<1>4. PageOK(page) /\ page \in Page  BY DEF PInv, PageOK
<1>5. Min({page.cycles + 1, MaxPollCycles}) \in 0..MaxPollCycles
  <2>1. page.cycles \in 0..MaxPollCycles /\ MaxPollCycles \in Nat  BY <1>4, PageAssumption DEF Page
  <2> DEFINE S == {page.cycles + 1, MaxPollCycles}
  <2>2. S \in SUBSET Nat /\ S # {} /\ MaxPollCycles \in S  BY <2>1
  <2> HIDE DEF S
  <2>3. Min(S) \in Nat /\ Min(S) <= MaxPollCycles  BY <2>2, MinIn
  <2> QED  BY <2>1, <2>3 DEF S
<1>6. PICK n \in 0..MaxPollCycles : p = [page EXCEPT !.timer = FALSE, !.cycles = n]
  BY <1>1, <1>5
<1>7. /\ Goods(page, Then(p, {})) /\ Pressed(page, Then(p, {})) /\ PageOK(p)
      /\ p.tab = page.tab /\ p.held = page.held
  <2>1. /\ p \in Page /\ ~p.timer /\ p.screen = page.screen /\ p.leaving = page.leaving
        /\ p.epoch = page.epoch /\ p.me = page.me /\ p.tab = page.tab /\ p.hidden = page.hidden
        /\ p.held = page.held /\ p.ticket = page.ticket
    BY <1>4, <1>6 DEF Page
  <2> QED  BY <1>4, <2>1, CountersGood
<1>8. SentBy(p, a) /\ a.chain = "poll"
  <2>1. p \in Page  BY <1>7 DEF PageOK
  <2>2. CASE p.tab = "view"
    <3>1. p.held.view # NoRun  BY <1>3, <1>4, <1>7, <2>2 DEF PageOK
    <3>2. p.held.view \in RunId /\ Born(p.held.view)  BY <1>7, <2>1, <3>1 DEF PageOK, Page, Held
    <3>3. a = Send(p, "detail", p.held.view, "poll")  BY <1>2, <2>2
    <3> QED  BY <2>1, <3>1, <3>2, <3>3, SendOK, SendType DEF Kinds, Chains
  <2>3. CASE p.tab # "view"
    <3>1. \/ a = Send(p, "dashboard", NoRun, "poll") \/ a = Send(p, "runs", NoRun, "poll")
      BY <1>2, <2>3
    <3> QED  BY <2>1, <3>1, SendOK, SendType DEF Kinds, Chains
  <2> QED  BY <2>2, <2>3
<1>9. Goods(page, Then(p, {a})) /\ Pressed(page, Then(p, {a})) /\ Quiet(Then(p, {a}))
  BY <1>4, <1>7, <1>8, ThenAsks
<1> QED  BY <1>3, <1>9, QuietDoes

\* Signing in closes the run page that was left, and opens the tab it was on.
LEMMA SignInOK ==
  ASSUME PInv, SignIn
  PROVE  /\ PInv' /\ page'.screen = "runner" /\ page'.epoch = page.epoch
         /\ page'.me = issued + 1 /\ issued' = issued + 1
         /\ page'.held.from = page.held.from /\ page'.held.report >= page.held.report
         /\ \A x \in wire' : x \in wire \/ (x.kind # "session" /\ x.session = issued + 1)
<1>1. PICK p : p = [page EXCEPT !.screen = "runner", !.me = issued + 1,
                                !.failures = 0, !.cycles = 0]
  OBVIOUS
<1>2. PICK t : t = p.stored  OBVIOUS
<1>3. PICK o : o = [p EXCEPT !.tab = t]  OBVIOUS
<1>4. PICK d : d = SetTab(p, t)  OBVIOUS
<1>5. /\ page.screen = "auth" /\ issued < MaxSessions /\ issued' = issued + 1
      /\ live' = live \cup {issued + 1} /\ page' = d.page /\ wire' = Put(wire, d.asks)
      /\ UNCHANGED <<runVars, faults>>
  BY <1>1, <1>2, <1>4 DEF SignIn
<1>6. /\ PageOK(page) /\ page \in Page /\ page.epoch \in Nat /\ issued \in 0..MaxSessions
      /\ live \subseteq 1..issued /\ page.held \in Held
  BY DEF PInv, PageOK, Page
<1>7. issued + 1 \in Nat /\ issued <= issued + 1 /\ issued + 1 \in 0..MaxSessions
      /\ live \cup {issued + 1} \subseteq 1..(issued + 1)
  BY <1>5, <1>6, DispatchAssumption
<1>8. /\ p \in Page /\ p.screen = "runner" /\ p.me = issued + 1 /\ p.epoch = page.epoch
      /\ p.hidden = page.hidden /\ p.timer = page.timer /\ p.held = page.held
      /\ p.ticket = page.ticket /\ p.leaving = page.leaving /\ t \in Tabs
  <2>1. 0 \in 0..MaxPollCycles  BY PageAssumption
  <2> QED  BY <1>1, <1>2, <1>6, <1>7, <2>1 DEF Page
<1>9. /\ o \in Page /\ o.screen = "runner" /\ o.me = issued + 1 /\ o.epoch = page.epoch
      /\ o.hidden = page.hidden /\ o.timer = page.timer /\ o.held = page.held
      /\ o.ticket = page.ticket /\ o.leaving = page.leaving /\ o.tab = t
  BY <1>3, <1>8 DEF Page
<1>10. PageOK(o)
  <2>1. ~page.timer  BY <1>5, <1>6 DEF PageOK
  <2>2. t # "view"  BY <1>8 DEF Tabs
  <2> QED  BY <1>6, <1>9, <2>1, <2>2 DEF PageOK
<1>11. d = SetTab(o, t)
  <2>1. [o EXCEPT !.tab = t, !.stored = t, !.held.view = NoRun]
          = [p EXCEPT !.tab = t, !.stored = t, !.held.view = NoRun]
    BY <1>3, <1>8 DEF Page
  <2> QED  BY <1>4, <2>1 DEF SetTab
<1>12. Goods(o, d) /\ Pressed(o, d) /\ Quiet(d)  BY <1>8, <1>10, <1>11, SetTabGood, QuietTab
<1>13. /\ PageOK(d.page) /\ d.page.epoch = page.epoch /\ d.page.me = issued + 1
       /\ d.asks \in SUBSET Request /\ IsFiniteSet(d.asks) /\ \A a \in d.asks : SentBy(o, a)
       /\ d.page.held.starting = page.held.starting
       /\ d.page.held.cancelling = page.held.cancelling
  BY <1>9, <1>12 DEF Goods, Pressed
<1>14. \A q \in wire : Locks(d.page, q)  BY <1>13 DEF PInv, Locks
<1>15. \A a \in d.asks : Locks(d.page, a)  BY <1>12 DEF Quiet, Locks
<1>16. page.epoch <= page.epoch /\ issued + 1 <= issued + 1  BY <1>6, <1>7
<1>17. \A a \in d.asks : Sent(o, a)  BY <1>13 DEF SentBy
<1>18. PInv' /\ Sends(wire, d.asks)
  BY <1>5, <1>6, <1>7, <1>9, <1>13, <1>14, <1>15, <1>16, <1>17, PageStep
<1>19. \A x \in wire' : x \in wire \/ (x.kind # "session" /\ x.session = issued + 1)
  BY <1>9, <1>13, <1>18 DEF Sends, Same, SentBy, Sent
<1>20. /\ page'.screen = "runner" /\ page'.held.from = page.held.from
       /\ page'.held.report >= page.held.report
  BY <1>5, <1>9, <1>12 DEF Goods
<1> QED  BY <1>5, <1>13, <1>18, <1>19, <1>20

LEMMA OpensOK ==
  ASSUME PInv, (\E t \in Tabs : OpensTab(t)) \/ (\E r \in RunId : OpensRun(r))
  PROVE  PInv' /\ Calm
<1>1. PageOK(page)  BY DEF PInv
<1>2. ASSUME NEW t \in Tabs, OpensTab(t)  PROVE PInv' /\ Calm
  <2>1. /\ Goods(page, SetTab(page, t)) /\ Pressed(page, SetTab(page, t))
        /\ Quiet(SetTab(page, t)) /\ Does(wire, SetTab(page, t))
    BY <1>1, <1>2, SetTabGood, QuietTab DEF OpensTab
  <2> QED  BY <2>1, QuietDoes
<1>3. ASSUME NEW r \in RunId, OpensRun(r)  PROVE PInv' /\ Calm
  <2>1. Born(r)  BY <1>1, <1>3 DEF OpensRun, Visible, PageOK
  <2>2. /\ Goods(page, OpenRunView(page, r)) /\ Pressed(page, OpenRunView(page, r))
        /\ Quiet(OpenRunView(page, r)) /\ Does(wire, OpenRunView(page, r))
    BY <1>1, <1>3, <2>1, OpenRunViewGood, QuietView DEF OpensRun
  <2> QED  BY <2>2, QuietDoes
<1> QED  BY <1>2, <1>3

\* Start and Cancel lock their button with the request.
LEMMA PressesOK ==
  ASSUME PInv, Starts \/ \E r \in RunId : Cancels(r)
  PROVE  PInv' /\ Calm
<1>0. PageOK(page) /\ page \in Page /\ page.held \in Held  BY DEF PInv, PageOK, Page, Held
<1>1. /\ page.epoch \in Nat /\ page.me \in Nat /\ page.me <= issued /\ page.epoch <= page.epoch
      /\ issued \in Nat /\ issued \in 0..MaxSessions /\ live \subseteq 1..issued /\ issued <= issued
      /\ page.held.report >= page.held.report
  BY DEF PInv, PageOK, Page, Held
<1>2. ASSUME NEW h \in Held, h.view = page.held.view, h.from = page.held.from,
             h.listed = page.held.listed, h.board = page.held.board,
             h.report = page.held.report,
             NEW d, d = [page EXCEPT !.held = h], NEW a, SentBy(d, a), Locks(d, a),
             \A q \in wire : Locks(page, q) => Locks(d, q),
             Does(wire, Then(d, {a}))
      PROVE  PInv' /\ Calm
  <2>1. d \in Page  BY <1>0, <1>2 DEF Page
  <2>2. /\ d.screen = page.screen /\ d.leaving = page.leaving /\ d.epoch = page.epoch
        /\ d.me = page.me /\ d.tab = page.tab /\ d.hidden = page.hidden /\ d.held = h
        /\ d.ticket = page.ticket /\ d.timer = page.timer
    BY <1>0, <1>2 DEF Page
  <2>3. PageOK(d)  BY <1>0, <1>2, <2>1, <2>2 DEF PageOK
  <2>4. \A q \in wire : Locks(d, q)  BY <1>2 DEF PInv
  <2>5. {a} \in SUBSET Request /\ IsFiniteSet({a}) /\ \A x \in {a} : SentBy(d, x) /\ Locks(d, x)
    BY <1>2, FS_Singleton DEF SentBy, Sent, AskOK
  <2> DEFINE e == Then(d, {a})
  <2>6. /\ e.page = d /\ e.asks = {a} /\ page' = e.page /\ wire' = Put(wire, e.asks)
        /\ UNCHANGED <<runVars, faults>> /\ issued' = issued /\ live' = live
    BY <1>2 DEF Does, Then
  <2> HIDE DEF e
  <2>7. \A x \in {a} : Sent(d, x)  BY <2>5 DEF SentBy
  <2>8. PInv' /\ Sends(wire, {a})
    BY ZenonT(60), <1>1, <2>2, <2>3, <2>4, <2>5, <2>6, <2>7, PageStep
  <2>9. \A x \in wire' : x \in wire \/ (/\ x.kind # "session" /\ x.session = page.me
                                        /\ x.epoch = page.epoch)
    BY <2>2, <2>5, <2>8 DEF Sends, Same, SentBy, Sent
  <2> QED  BY <1>1, <1>2, <2>2, <2>6, <2>8, <2>9 DEF Calm
<1>3. ASSUME Starts PROVE PInv' /\ Calm
  <2>1. PICK h : h = [page.held EXCEPT !.starting = TRUE]  OBVIOUS
  <2>2. PICK d : d = [page EXCEPT !.held = h]  OBVIOUS
  <2>3. PICK a : a = Send(d, "start", NoRun, "start")  OBVIOUS
  <2>4. Does(wire, Then(d, {a}))
    <3>1. [page EXCEPT !.held.starting = TRUE] = d  BY <1>0, <2>1, <2>2 DEF Page, Held
    <3> QED  BY <1>3, <2>3, <3>1 DEF Starts
  <2>5. /\ h \in Held /\ h.view = page.held.view /\ h.from = page.held.from
        /\ h.listed = page.held.listed /\ h.board = page.held.board
        /\ h.report = page.held.report /\ h.starting /\ h.cancelling = page.held.cancelling
    BY <1>0, <2>1 DEF Held
  <2>6. d \in Page /\ d.held = h /\ d.epoch = page.epoch  BY <1>0, <2>2, <2>5 DEF Page
  <2>7. SentBy(d, a) /\ a.chain = "start"  BY <2>3, <2>6, SendOK, SendType DEF Kinds, Chains
  <2>8. Locks(d, a) /\ \A q \in wire : Locks(page, q) => Locks(d, q)
    BY <2>5, <2>6, <2>7 DEF Locks
  <2> QED  BY <1>2, <2>2, <2>4, <2>5, <2>7, <2>8
<1>4. ASSUME NEW r \in RunId, Cancels(r) PROVE PInv' /\ Calm
  <2>1. PICK h : h = [page.held EXCEPT !.cancelling = @ \cup {r}]  OBVIOUS
  <2>2. PICK d : d = [page EXCEPT !.held = h]  OBVIOUS
  <2>3. PICK a : a = Send(d, "cancel", r, "cancel")  OBVIOUS
  <2>4. Does(wire, Then(d, {a}))
    <3>1. [page EXCEPT !.held.cancelling = @ \cup {r}] = d  BY <1>0, <2>1, <2>2 DEF Page, Held
    <3> QED  BY <1>4, <2>3, <3>1 DEF Cancels
  <2>5. /\ h \in Held /\ h.view = page.held.view /\ h.from = page.held.from
        /\ h.listed = page.held.listed /\ h.board = page.held.board
        /\ h.report = page.held.report /\ h.starting = page.held.starting
        /\ h.cancelling = page.held.cancelling \cup {r}
    BY <1>0, <2>1 DEF Held
  <2>6. d \in Page /\ d.held = h /\ d.epoch = page.epoch  BY <1>0, <2>2, <2>5 DEF Page
  <2>7. Born(r) /\ r # NoRun
    BY <1>0, <1>4, RunsAreNumbers DEF Cancels, Visible, Active, Nowhere, PageOK
  <2>8. SentBy(d, a) /\ a.chain = "cancel" /\ a.run = r
    BY <2>3, <2>6, <2>7, SendOK, SendType DEF Kinds, Chains
  <2>9. Locks(d, a) /\ \A q \in wire : Locks(page, q) => Locks(d, q)
    BY <2>5, <2>6, <2>8 DEF Locks
  <2> QED  BY <1>2, <2>2, <2>4, <2>5, <2>8, <2>9
<1> QED  BY <1>3, <1>4

LEMMA RefreshedOK ==
  ASSUME PInv, Refreshed
  PROVE  PInv' /\ Calm
<1>0. PageOK(page) /\ page \in Page /\ page.held \in Held  BY DEF PInv, PageOK, Page, Held
<1>1. PICK p : p = [page EXCEPT !.cycles = 0, !.failures = 0]  OBVIOUS
<1>2. /\ p \in Page /\ p.timer = page.timer /\ p.screen = page.screen
      /\ p.leaving = page.leaving /\ p.epoch = page.epoch /\ p.me = page.me /\ p.tab = page.tab
      /\ p.hidden = page.hidden /\ p.held = page.held /\ p.ticket = page.ticket
  <2>1. 0 \in 0..MaxPollCycles  BY PageAssumption
  <2> QED  BY <1>0, <1>1, <2>1 DEF Page
<1>3. Goods(page, Then(p, {})) /\ Pressed(page, Then(p, {})) /\ PageOK(p)
  BY <1>0, <1>2, CountersGood
<1>4. PICK a : a = Send(p, "runs", NoRun, "poll")  OBVIOUS
<1>5. PICK b : b = Send(page, "dashboard", NoRun, "none")  OBVIOUS
<1>6. SentBy(p, a) /\ a.chain = "poll" /\ SentBy(page, b) /\ b.chain = "none"
  BY <1>0, <1>2, <1>4, <1>5, SendOK, SendType DEF Kinds, Chains
<1>7. ASSUME NEW d, Goods(page, d), Pressed(page, d), Quiet(d), Does(wire, d)
      PROVE  PInv' /\ Calm
  BY <1>7, QuietDoes
<1>8. CASE page.tab = "history"
  <2>1. Does(wire, Then(p, {a}))  BY <1>1, <1>4, <1>8 DEF Refreshed
  <2>2. Goods(page, Then(p, {a})) /\ Pressed(page, Then(p, {a})) /\ Quiet(Then(p, {a}))
    BY <1>0, <1>3, <1>6, ThenAsks
  <2> QED  BY <1>7, <2>1, <2>2
<1>9. CASE page.tab = "dashboard"
  <2>1. Does(wire, Then(page, {b}))  BY <1>5, <1>9 DEF Refreshed
  <2>2. Goods(page, Then(page, {b})) /\ Pressed(page, Then(page, {b})) /\ Quiet(Then(page, {b}))
    BY <1>0, <1>6, NoAsk, ThenAsks
  <2> QED  BY <1>7, <2>1, <2>2
<1>10. CASE page.tab = "view"
  <2>1. page.held.view \in RunId /\ Born(page.held.view)
    BY <1>0, <1>10 DEF Refreshed, OnRunner, PageOK, Page, Held
  <2>2. Does(wire, LoadLogs(page, page.held.view))  BY <1>10 DEF Refreshed
  <2> QED  BY <1>0, <1>7, <2>1, <2>2, LoadLogsGood, QuietLoads
<1>11. CASE page.tab = "reports"
  <2>1. Does(wire, LoadReport(page))  BY <1>11 DEF Refreshed
  <2> QED  BY <1>0, <1>7, <2>1, LoadReportGood, QuietLoads
<1>12. CASE page.tab \notin {"history", "dashboard", "view", "reports"}
  <2>1. Does(wire, Then(page, {}))  BY <1>12 DEF Refreshed
  <2>2. Quiet(Then(page, {}))  BY DEF Quiet, Then
  <2> QED  BY <1>0, <1>7, <2>1, <2>2, NoAsk
<1> QED  BY <1>8, <1>9, <1>10, <1>11, <1>12

LEMMA HidesOK ==
  ASSUME PInv, Hides
  PROVE  PInv' /\ Calm
<1>0. PageOK(page) /\ page \in Page  BY DEF PInv, PageOK
<1>1. PICK d : d = [page EXCEPT !.hidden = TRUE, !.timer = FALSE]  OBVIOUS
<1>2. /\ d \in Page /\ ~d.timer /\ d.screen = page.screen
      /\ d.leaving = page.leaving /\ d.epoch = page.epoch /\ d.me = page.me /\ d.tab = page.tab
      /\ d.held = page.held /\ d.ticket = page.ticket
  BY <1>0, <1>1 DEF Page
<1>3. PageOK(d)  BY <1>0, <1>2 DEF PageOK
<1>4. page' = d /\ UNCHANGED <<runVars, serverVars>>  BY <1>1 DEF Hides
<1> QED  BY <1>2, <1>3, <1>4, EditStep

LEMMA ComesBackOK ==
  ASSUME PInv, ComesBack
  PROVE  PInv' /\ Calm
<1>0. PageOK(page) /\ page \in Page /\ page.held \in Held  BY DEF PInv, PageOK, Page, Held
<1>1. PICK p : p = [page EXCEPT !.hidden = FALSE]  OBVIOUS
<1>2. PICK f : f = [p EXCEPT !.cycles = 0, !.failures = 0]  OBVIOUS
<1>3. /\ p \in Page /\ p.timer = page.timer /\ p.screen = page.screen
      /\ p.leaving = page.leaving /\ p.epoch = page.epoch /\ p.me = page.me /\ p.tab = page.tab
      /\ ~p.hidden /\ p.held = page.held /\ p.ticket = page.ticket
  BY <1>0, <1>1 DEF Page
<1>4. /\ f \in Page /\ f.timer = p.timer /\ f.screen = p.screen
      /\ f.leaving = p.leaving /\ f.epoch = p.epoch /\ f.me = p.me /\ f.tab = p.tab
      /\ ~f.hidden /\ f.held = p.held /\ f.ticket = p.ticket
  <2>1. 0 \in 0..MaxPollCycles  BY PageAssumption
  <2> QED  BY <1>2, <1>3, <2>1 DEF Page
<1>5. PageOK(p) /\ PageOK(f)  BY <1>0, <1>3, <1>4 DEF PageOK
<1>6. ASSUME NEW x \in {p, f}, NEW d, Goods(x, d), Pressed(x, d), Quiet(d), Does(wire, d)
      PROVE  PInv' /\ Calm
  BY <1>3, <1>4, <1>6, QuietlyDoes
<1>7. PICK a : a = Send(f, "dashboard", NoRun, "poll")  OBVIOUS
<1>8. PICK b : b = Send(f, "runs", NoRun, "poll")  OBVIOUS
<1>9. SentBy(f, a) /\ a.chain = "poll" /\ SentBy(f, b) /\ b.chain = "poll"
  BY <1>4, <1>7, <1>8, SendOK, SendType DEF Kinds, Chains
<1>10. \/ Does(wire, Then(p, {})) \/ Does(wire, Then(f, {a})) \/ Does(wire, Then(f, {b}))
       \/ Does(wire, Then(SchedulePolling(f), {}))
  BY <1>1, <1>2, <1>7, <1>8 DEF ComesBack
<1>11. Goods(p, Then(p, {})) /\ Pressed(p, Then(p, {})) /\ Quiet(Then(p, {}))
  BY <1>5, NoAsk DEF Quiet, Then
<1>12. /\ Goods(f, Then(f, {a})) /\ Pressed(f, Then(f, {a})) /\ Quiet(Then(f, {a}))
       /\ Goods(f, Then(f, {b})) /\ Pressed(f, Then(f, {b})) /\ Quiet(Then(f, {b}))
  BY <1>5, <1>9, NoAsk, ThenAsks
<1>13. /\ Goods(f, Then(SchedulePolling(f), {})) /\ Pressed(f, Then(SchedulePolling(f), {}))
       /\ Quiet(Then(SchedulePolling(f), {}))
  BY <1>5, ScheduleGood DEF Quiet, Then
<1> QED  BY <1>6, <1>10, <1>11, <1>12, <1>13

LEMMA SignsOutOK ==
  ASSUME PInv, SignsOut
  PROVE  PInv' /\ Calm
<1>0. PageOK(page) /\ page \in Page  BY DEF PInv, PageOK
<1>1. PICK d : d = [page EXCEPT !.timer = FALSE, !.leaving = "asked"]  OBVIOUS
<1>2. PICK a : a = Send(d, "logout", NoRun, "none")  OBVIOUS
<1>3. /\ d \in Page /\ ~d.timer /\ d.screen = page.screen /\ d.hidden = page.hidden
      /\ d.leaving = "asked" /\ d.epoch = page.epoch /\ d.me = page.me /\ d.tab = page.tab
      /\ d.held = page.held /\ d.ticket = page.ticket
  BY <1>0, <1>1 DEF Page
<1>4. PageOK(d)  BY <1>0, <1>3 DEF SignsOut, OnRunner, PageOK
<1>5. SentBy(d, a) /\ a.chain = "none"  BY <1>2, <1>3, SendOK, SendType DEF Kinds, Chains
<1>6. Goods(d, Then(d, {a})) /\ Pressed(d, Then(d, {a})) /\ Quiet(Then(d, {a}))
  BY <1>4, <1>5, NoAsk, ThenAsks
<1>7. Does(wire, Then(d, {a}))  BY <1>1, <1>2 DEF SignsOut
<1> QED  BY <1>3, <1>6, <1>7, QuietlyDoes

-----------------------------------------------------------------------------
(* The inductive invariant.                                                *)

\* What nobody at the page does.
LEMMA AroundOK ==
  ASSUME PInv,
         \/ UNCHANGED vars
         \/ (\E n \in live : EndSession(n)) /\ UNCHANGED page
         \/ TimePasses /\ UNCHANGED <<serverVars, page>>
         \/ \E flow \in Flows, by \in People : ColleagueStarts(flow, by) /\ UNCHANGED page
         \/ RunsStep /\ UNCHANGED <<serverVars, page>>
  PROVE  PInv' /\ Passed
<1>0. RunsTypeOK /\ NumbersOK  BY DEF PInv
<1>1. CASE UNCHANGED vars \/ ((\E n \in live : EndSession(n)) /\ UNCHANGED page)
  <2>1. /\ UNCHANGED runVars /\ UNCHANGED <<page, wire, issued>>
        /\ live' \subseteq live /\ faults' = faults
    BY <1>1 DEF vars, serverVars, EndSession
  <2>2. Kept /\ NumbersOK' /\ Traced  BY <1>0, <2>1, RunsIdle
  <2> QED  BY <2>1, <2>2, WorldStep
<1>2. ASSUME UNCHANGED <<serverVars, page>>, Kept, NumbersOK', Traced
      PROVE  PInv' /\ Passed
  <2>1. UNCHANGED <<page, wire, issued>> /\ live' \subseteq live /\ faults' = faults
    BY <1>2 DEF serverVars
  <2> QED  BY <1>2, <2>1, WorldStep
<1>3. CASE TimePasses /\ UNCHANGED <<serverVars, page>>
  BY <1>0, <1>2, <1>3, TimeKeeps
<1>4. ASSUME NEW flow \in Flows, NEW by \in People, ColleagueStarts(flow, by), UNCHANGED page
      PROVE  PInv' /\ Passed
  <2>1. Kept /\ NumbersOK' /\ Traced  BY <1>0, <1>4, DispatchKeeps DEF ColleagueStarts
  <2> QED  BY <1>2, <1>4, <2>1 DEF ColleagueStarts
<1>5. CASE RunsStep /\ UNCHANGED <<serverVars, page>>
  <2>1. CASE Create  BY <1>0, <1>2, <1>5, <2>1, CreateKeeps
  <2>2. ASSUME NEW r \in RunId, Ends(r)  PROVE Kept /\ NumbersOK' /\ Traced
    <3>1. "done" \in Stages  BY DEF Stages
    <3> QED  BY <1>0, <2>2, <3>1, StageKeeps DEF Ends
  <2> QED  BY <1>2, <1>5, <2>1, <2>2 DEF RunsStep
<1> QED  BY <1>1, <1>3, <1>4, <1>5

\* What is done at the page, signing in and the answers aside.
Deed ==
  \/ (\E t \in Tabs : OpensTab(t)) \/ (\E r \in RunId : OpensRun(r))
  \/ Starts \/ (\E r \in RunId : Cancels(r)) \/ Refreshed \/ Hides \/ ComesBack \/ SignsOut
  \/ Tick \/ AwaitEnds

\* A step is one of these, and keeps the invariant.
LEMMA StepOK ==
  ASSUME PInv, [Next]_vars
  PROVE  /\ PInv'
         /\ Passed \/ (\E q \in wire : Land(q)) \/ SignIn \/ (Deed /\ Calm)
<1>1. CASE UNCHANGED vars  BY <1>1, AroundOK
<1>2. CASE Act
  <2>1. PICK act : Deeds(act)  BY <1>2 DEF Act
  <2>2. CASE SignIn  BY <2>2, SignInOK
  <2>3. CASE Deed  BY <2>3, OpensOK, PressesOK, RefreshedOK, HidesOK, ComesBackOK, SignsOutOK,
                     TickOK, AwaitEndsOK DEF Deed
  <2>4. CASE (\E n \in live : EndSession(n)) /\ UNCHANGED page  BY <2>4, AroundOK
  <2>5. CASE TimePasses /\ UNCHANGED <<serverVars, page>>  BY <2>5, AroundOK
  <2>6. CASE \E flow \in Flows, by \in People : ColleagueStarts(flow, by) /\ UNCHANGED page
    BY <2>6, AroundOK
  <2> QED  BY <2>1, <2>2, <2>3, <2>4, <2>5, <2>6 DEF Deeds, Deed
<1>3. CASE Tick \/ AwaitEnds  BY <1>3, TickOK, AwaitEndsOK DEF Deed
<1>4. ASSUME NEW q \in wire, Land(q)  PROVE PInv'  BY <1>4, LandOK
<1>5. ASSUME NEW q \in wire, ServerStep(q) \/ (Fails(q) /\ UNCHANGED <<page, todo>>)
      PROVE  PInv' /\ Passed
  BY <1>5, ServeOK, FailsOK DEF ServerStep
<1>6. CASE RunsStep /\ UNCHANGED <<serverVars, page, todo>>
  <2>1. RunsStep /\ UNCHANGED <<serverVars, page>>  BY <1>6
  <2> QED  BY <2>1, AroundOK
<1> QED  BY <1>1, <1>2, <1>3, <1>4, <1>5, <1>6 DEF Next

LEMMA InitOK ==
  ASSUME Init
  PROVE  PInv
<1>1. PICK scene \in Scenes : /\ RunsInit(scene.runs) /\ ServerInit(scene.faults)
                              /\ page = [NewPage EXCEPT !.stored = scene.tab]
  BY DEF Init
<1>2. /\ scene.tab \in Tabs /\ scene.faults \in 0..MaxFaults
      /\ scene.runs \in [RunId -> {run \in Run : run.dispatch = 0} \cup {Unborn}]
  BY PageAssumption
<1>3. /\ runs = scene.runs /\ accepted = {} /\ clock = 1 /\ wire = {} /\ issued = 0 /\ live = {}
      /\ faults = scene.faults
  BY <1>1 DEF RunsInit, ServerInit
<1>4. RunsTypeOK
  <2>1. clock \in 0..MaxTime  BY <1>3, RunsAreNumbers
  <2> QED  BY <1>2, <1>3, <2>1, FS_EmptySet DEF RunsTypeOK
<1>5. NumbersOK
  <2> DEFINE B == {r \in RunId : Born(r)}
  <2>1. B \subseteq RunId  OBVIOUS
  <2>2. /\ Cardinality(B) \in Nat /\ Dispatched \in Nat
        /\ Dispatched = Cardinality(B) + Cardinality(accepted)
    BY <1>4, DispatchedType DEF Dispatched
  <2> HIDE DEF B
  <2>3. Cardinality(B) <= Cardinality(RunId)  BY <2>1, RunsAreNumbers, FS_Subset
  <2>4. Dispatched = Cardinality(B)  BY <1>3, <2>2, FS_EmptySet
  <2>5. \A r \in RunId : Born(r) => runs[r].dispatch <= Dispatched
    <3>1. \A r \in RunId : Born(r) => runs[r].dispatch = 0  BY <1>2, <1>3 DEF Born
    <3> QED  BY <2>2, <3>1
  <2> QED  BY <1>3, <2>2, <2>3, <2>4, <2>5 DEF NumbersOK
<1>6. PageOK(page) /\ page.me = 0
  <2>0. 0 \in 0..MaxPollCycles  BY PageAssumption
  <2>1. NewPage \in Page  BY <2>0, FreshType DEF NewPage, Page, Tabs
  <2>2. /\ page \in Page /\ ~page.timer /\ page.held = Fresh /\ page.tab = "dashboard"
        /\ page.ticket = 0 /\ page.me = 0
    BY <1>1, <1>2, <2>1 DEF NewPage, Page
  <2> QED  BY <2>2, FreshType DEF PageOK
<1>7. issued \in 0..MaxSessions  BY <1>3, DispatchAssumption
<1> QED  BY <1>2, <1>3, <1>4, <1>5, <1>6, <1>7, FS_EmptySet DEF PInv, Apart

\* Everything on the wire and on the page is accounted for: the runs asked of,
\* what was read of them, the dispatches made and the buttons locked.
THEOREM PageInductive == Spec => []PageInv
<1>1. Init => PageInv  BY InitOK, SortedOtherwise
<1>2. PageInv /\ [Next]_vars => PageInv'
  <2> SUFFICES ASSUME PageInv, [Next]_vars PROVE PageInv'  OBVIOUS
  <2>1. PInv  BY SortedOtherwise
  <2>2. PInv'  BY <2>1, StepOK
  <2> QED  BY <2>2, SortedOtherwise, PTL
<1> QED  BY <1>1, <1>2, PTL DEF Spec

THEOREM TypeCorrect == Spec => []TypeOK
<1>1. PageInv => TypeOK  BY DEF PageInv
<1> QED  BY <1>1, PageInductive, PTL

-----------------------------------------------------------------------------
(* What is shown of the runs, and what is locked.                          *)

\* Whenever the run and its jobs were read, the verdict is the run's own.
LEMMA VerdictsFollow ==
  ASSUME PageInv
  PROVE  VerdictsAreTrue
<1> SUFFICES ASSUME NEW q \in wire, q.kind = "detail", q.data.jobs # {},
                    q.data.status = "completed", NEW run, run = runs[q.run]
             PROVE  OutcomeOf(q.data.status, q.data.conclusion, q.data.jobs) =
                      IF run.stage = "cancelled" THEN "cancelled"
                      ELSE [pass |-> "passed", fail |-> "failed", infra |-> "infra"][run.ending]
  BY DEF VerdictsAreTrue
<1>1. q.data.jobs = Jobs(run) /\ q.data.conclusion = Conclusion(run) /\ Over(run)
  BY DEF PageInv, VerdictInv
<1>2. run \in Run
  <2>1. q.run \in RunId /\ Born(q.run)
    BY DEF PageInv, KnownRuns, TypeOK, ServerTypeOK, Request
  <2> QED  BY <2>1, BornIsRun DEF PageInv, TypeOK
<1>3. run.stage \in {"done", "cancelled"} /\ run.ending \in {"pass", "fail", "infra"}
  BY <1>1, <1>2 DEF Run, Stages, Over
<1>4. CASE run.stage = "cancelled"
  BY <1>1, <1>3, <1>4 DEF Conclusion, OutcomeOf, Classify
<1>5. CASE run.stage = "done" /\ run.ending = "pass"
  BY <1>1, <1>3, <1>5 DEF Conclusion, OutcomeOf, Classify
<1>6. CASE run.stage = "done" /\ run.ending = "fail"
  <2>1. <<"tests", "failure">> \in Jobs(run)  BY <1>6 DEF Jobs
  <2> QED  BY <1>1, <1>3, <1>6, <2>1 DEF Conclusion, OutcomeOf, Classify, Refine
<1>7. CASE run.stage = "done" /\ run.ending = "infra"
  <2>1. <<"tests", "failure">> \notin Jobs(run)  BY <1>7 DEF Jobs
  <2> QED  BY <1>1, <1>3, <1>7, <2>1 DEF Conclusion, OutcomeOf, Classify, Refine
<1> QED  BY <1>3, <1>4, <1>5, <1>6, <1>7

\* getRun reads the run and its jobs at two moments, and still blames the tests
\* exactly when a test failed.
THEOREM Verdicts == Spec => []VerdictsAreTrue
BY VerdictsFollow, PageInductive, PTL

\* No answer to an older session, and none that others wait with, unlocks a
\* button whose request is under way.
THEOREM Buttons == Spec => []ButtonsHold
<1>1. PageInv => ButtonsHold  BY DEF PageInv, ButtonsInv, ButtonsHold, Current
<1> QED  BY <1>1, PageInductive, PTL

-----------------------------------------------------------------------------
(* What was asked for is what comes.                                       *)

\* Only the server's next look, or one that fails, takes a start that looks for
\* its run off the wire.
LEMMA OnlyLooked ==
  ASSUME PInv, [Next]_vars, NEW q \in wire, q.at = "looking", q \notin wire'
  PROVE  Look(q, MyFlow, Me) \/ Fails(q)
<1>1. \A W, asks : W \subseteq Put(W, asks)  BY DEF Put
<1>2. ~(UNCHANGED serverVars) /\ ~(\E d : Does(wire, d))
  BY <1>1 DEF serverVars, Does
<1>3. ~(Tick \/ AwaitEnds \/ UNCHANGED vars \/ (RunsStep /\ UNCHANGED serverVars))
  BY <1>2 DEF Tick, AwaitEnds, vars, serverVars
<1>4. ~Act
  <2> SUFFICES ASSUME NEW act, Deeds(act) PROVE FALSE  BY DEF Act
  <2>1. ~SignIn  BY <1>1 DEF SignIn
  <2>2. ~((\E t \in Tabs : OpensTab(t)) \/ (\E r \in RunId : OpensRun(r)) \/ Starts
          \/ (\E r \in RunId : Cancels(r)))
    BY <1>2 DEF OpensTab, OpensRun, Starts, Cancels
  <2>3. ~(Refreshed \/ Hides \/ ComesBack \/ SignsOut)
    BY <1>2 DEF Refreshed, Hides, ComesBack, SignsOut, serverVars
  <2>4. ~((\E n \in live : EndSession(n)) \/ (TimePasses /\ UNCHANGED <<serverVars, page>>)
          \/ (\E flow \in Flows, by \in People : ColleagueStarts(flow, by)))
    BY <1>2 DEF EndSession, ColleagueStarts, serverVars
  <2> QED  BY <2>1, <2>2, <2>3, <2>4 DEF Deeds
<1>5. ASSUME NEW p \in wire, Land(p)  PROVE FALSE
  <2>1. p # q  BY <1>5 DEF Land
  <2> QED  BY <1>1, <1>5, <2>1 DEF Land, Does
<1>6. ASSUME NEW p \in wire, \E c : Becomes(p, c)  PROVE p = q
  BY <1>1, <1>6 DEF Becomes
<1>7. ASSUME NEW p \in wire, Serve(p, MyFlow, Me)  PROVE p = q /\ Look(q, MyFlow, Me)
  <2>1. \E c : Becomes(p, c)
    BY <1>7 DEF Serve, Refuse, ReadList, FindRun, ReadJobs, ReadLogs, ReadResults, PostCancel,
                PostDispatch, Look, Farewell, Reply
  <2>2. p = q  BY <1>6, <2>1
  <2> QED  BY <1>7, <2>2 DEF Serve, Refuse, ReadList, FindRun, ReadJobs, ReadLogs, ReadResults,
                             PostCancel, PostDispatch, Farewell, Serves
<1>8. ASSUME NEW p \in wire, Fails(p)  PROVE p = q /\ Fails(q)
  <2>1. \E c : Becomes(p, c)  BY <1>8 DEF Fails, Reply
  <2> QED  BY <1>6, <1>8, <2>1
<1> QED  BY <1>3, <1>4, <1>5, <1>7, <1>8 DEF Next, ServerStep

\* A run that is this dispatch's is in the window and titled for it, so that the
\* one chosen is titled for it too.
LEMMA OwnRunStep ==
  ASSUME PInv, [Next]_vars, NEW q \in wire, q.at = "looking", q \notin wire',
         NEW a \in wire', a.dispatch = q.dispatch, a.at = "answered", a.data.named # NoRun
  PROVE  /\ runs[a.data.named].born >= q.since - Skew
         /\ (\E o \in RunId : Born(o) /\ runs[o].dispatch = q.dispatch)
              => a.data.named \in Titled(MyFlow, Me)
<1> DEFINE others == wire \ {q}
           r == Match(InWindow(q), Titled(MyFlow, Me))
           data == [NoData EXCEPT !.named = r, !.status = Status(runs[r])]
           b == [q EXCEPT !.at = "answered", !.ok = "ok", !.data = NoData]
           c == [q EXCEPT !.tries = @ + 1]
           d == [q EXCEPT !.at = "answered", !.ok = "ok", !.data = data]
<1>1. Look(q, MyFlow, Me) \/ Fails(q)  BY OnlyLooked
<1>2. Becomes(q, b) \/ Becomes(q, c) \/ (InWindow(q) # {} /\ Becomes(q, d))
  BY <1>1 DEF Look, Fails, Reply
<1>3. /\ q \in Request /\ others \in SUBSET Request /\ IsFiniteSet(others) /\ q.since \in 0..MaxTime
      /\ q.dispatch > 0 /\ Looks(q)
  BY FS_Subset DEF PInv, Sound, AskOK, Looks, Request
<1>4. a \notin others  BY <1>3 DEF PInv, Apart
<1>5. ASSUME NEW x \in Request, Becomes(q, x)  PROVE Same(a, x)
  <2>1. a = Copied(others, x)  BY <1>4, <1>5 DEF Becomes, Put
  <2> HIDE DEF others
  <2> QED  BY <1>3, <2>1, CopyIsSame
<1>6. ~Becomes(q, b)
  <2>1. b \in Request /\ b.data.named = NoRun  BY <1>3, NoDataType DEF Request, NoData
  <2> HIDE DEF b
  <2> QED  BY <1>5, <2>1 DEF Same
<1>7. ~Becomes(q, c)
  <2>1. c \in Request /\ c.at = "looking"  BY <1>3 DEF Request
  <2> HIDE DEF c
  <2> QED  BY <1>5, <2>1 DEF Same
<1>8. InWindow(q) # {} /\ Becomes(q, d)  BY <1>2, <1>6, <1>7
<1>9. /\ r \in InWindow(q) /\ r \in RunId /\ Born(r)
      /\ InWindow(q) \cap Titled(MyFlow, Me) # {} => r \in Titled(MyFlow, Me)
  BY <1>8, MatchIn
<1> HIDE DEF r
<1>10. a.data.named = r
  <2>1. Status(runs[r]) \in Statuses  BY <1>9, BornIsRun, RunTypes DEF PInv
  <2>2. data \in Answer /\ data.named = r  BY <1>9, <2>1, NoDataType DEF Answer, NoData
  <2> HIDE DEF data
  <2>3. d \in Request /\ d.data.named = r  BY <1>3, <2>2 DEF Request
  <2> HIDE DEF d
  <2> QED  BY <1>5, <1>8, <2>3 DEF Same
<1>11. ASSUME NEW o \in RunId, Born(o), runs[o].dispatch = q.dispatch
       PROVE  o \in InWindow(q) \cap Titled(MyFlow, Me)
  <2>1. Ours(runs[o]) /\ runs[o].born >= q.since  BY <1>3, <1>11 DEF Looks
  <2>2. runs[o].born \in Nat /\ Skew \in Nat
    BY <1>11, BornIsRun, DispatchAssumption DEF PInv, Run
  <2>3. runs[o].born >= q.since - Skew  BY <1>3, <2>1, <2>2
  <2> QED  BY <1>11, <2>1, <2>3 DEF InWindow, Titled, Ours
<1> QED  BY <1>9, <1>10, <1>11 DEF InWindow

\* A start names no run from before its dispatch, and once its own run is there
\* one titled for the same flow and person.
THEOREM StartsNameTheirOwn == Spec => OwnRunFirst
<1> DEFINE Step ==
      \A q \in wire : q.at = "looking" /\ q \notin wire' =>
        \A a \in wire' : a.dispatch = q.dispatch /\ a.at = "answered" /\ a.data.named # NoRun =>
          /\ runs[a.data.named].born >= q.since - Skew
          /\ (\E o \in RunId : Born(o) /\ runs[o].dispatch = q.dispatch)
               => a.data.named \in Titled(MyFlow, Me)
<1>1. PageInv /\ [Next]_vars => Step
  <2> SUFFICES ASSUME PageInv, [Next]_vars PROVE Step  OBVIOUS
  <2>1. PInv  BY SortedOtherwise
  <2> QED  BY <2>1, OwnRunStep
<1>2. Step => [Step]_vars  OBVIOUS
<1> QED  BY <1>1, <1>2, PageInductive, PTL DEF Spec, OwnRunFirst

\* An answer leaves the report, or shows the latest asked for, or all is dropped.
LEMMA ReportStep ==
  ASSUME PInv, [Next]_vars, page'.epoch = page.epoch
  PROVE  page'.held.report >= page.held.report
<1>0. PageOK(page) /\ page.epoch \in Nat /\ page.held.report >= page.held.report
  BY DEF PInv, PageOK, Page, Held
<1>1. CASE Passed  BY <1>0, <1>1 DEF Passed
<1>2. CASE SignIn  BY <1>2, SignInOK
<1>3. CASE Calm  BY <1>3 DEF Calm
<1>4. ASSUME NEW q \in wire, Land(q)  PROVE page'.held.report >= page.held.report
  <2> DEFINE d == Landed(page, q, wire \ {q})
  <2>1. page' = d.page /\ AskOK(q)  BY <1>4, LandOK DEF PInv, Sound
  <2>2. ~Cleared(page, d.page)
    <3> HIDE DEF d
    <3>1. page.epoch # page.epoch + 1  BY <1>0
    <3> QED  BY <2>1, <3>1 DEF Cleared
  <2>3. CASE q.kind \in {"logout", "session"}
    <3>1. d = Leave(page, q)  BY <2>3 DEF Landed
    <3> HIDE DEF d
    <3>2. d.page.held = page.held  BY <1>0, <2>1, <2>2, <2>3, <3>1, LeaveGood
    <3> QED  BY <1>0, <2>1, <3>2
  <2>4. CASE q.kind \notin {"logout", "session"}
    <3>1. PICK e : e = d  OBVIOUS
    <3>2. Goods(page, e) \/ Taken(page, q, e)  BY <1>0, <2>1, <2>2, <2>4, <3>1, LandedGood
    <3> QED  BY <2>1, <3>1, <3>2 DEF Goods, Taken
  <2> QED  BY <2>3, <2>4
<1> QED  BY <1>1, <1>2, <1>3, <1>4, StepOK

\* The report on screen is never replaced by the answer to an older choice.
THEOREM LatestReport == Spec => LatestChoiceStays
<1> DEFINE Step == page'.epoch = page.epoch => page'.held.report >= page.held.report
<1>1. PageInv /\ [Next]_vars => Step
  <2> SUFFICES ASSUME PageInv, [Next]_vars PROVE Step  OBVIOUS
  <2>1. PInv  BY SortedOtherwise
  <2> QED  BY <2>1, ReportStep
<1>2. Step => [Step]_vars  OBVIOUS
<1> QED  BY <1>1, <1>2, PageInductive, PTL DEF Spec, LatestChoiceStays

THEOREM Answers == Spec => OwnAnswers
BY StartsNameTheirOwn, LatestReport DEF OwnAnswers

-----------------------------------------------------------------------------
(* Nothing of another's.                                                   *)

\* Nothing is polled for a page that holds nothing.
LEMMA FreshIsIdle ==
  ASSUME NEW p, p.held = Fresh
  PROVE  ~PollingWanted(p)
<1>1. \A r \in RunId : ~Active(Fresh.listed[r]) /\ ~Active(Fresh.board[r])
  BY FreshType DEF Active, Nowhere
<1>2. CountActive(Fresh.listed) = 0 /\ CountActive(Fresh.board) = 0
  <2>1. {r \in RunId : Active(Fresh.listed[r])} = {} /\ {r \in RunId : Active(Fresh.board[r])} = {}
    BY <1>1
  <2> QED  BY <2>1, FS_EmptySet DEF CountActive
<1>3. ActiveRunCount(p) = 0  BY <1>2 DEF ActiveRunCount
<1> QED  BY <1>3, FreshType DEF PollingWanted

\* Nobody does anything at a page that has been left but sign in, hide it or
\* come back to it.
LEMMA LeftIsStill ==
  ASSUME PInv, page.held = Fresh, ~page.timer, page.screen = "auth" \/ page.leaving = "told",
         Leaving => page'.hidden = page.hidden, Leaving \/ page.screen = "auth", Deed
  PROVE  /\ ~Leaving /\ page.screen = "auth" /\ wire' = wire
         /\ page'.held = Fresh /\ ~page'.timer
<1>0. page \in Page  BY DEF PInv, PageOK
<1>1. Hides \/ ComesBack
  <2>1. ~OnRunner /\ ~Tick /\ ~AwaitEnds  BY FreshType DEF OnRunner, Tick, AwaitEnds
  <2> QED  BY <2>1 DEF Deed, OpensTab, OpensRun, Starts, Cancels, Refreshed, SignsOut
<1>2. CASE Hides
  <2>1. page' = [page EXCEPT !.hidden = TRUE, !.timer = FALSE] /\ ~page.hidden /\ wire' = wire
    BY <1>2 DEF Hides, serverVars
  <2>2. page'.hidden /\ ~page'.timer /\ page'.held = Fresh  BY <1>0, <2>1 DEF Page
  <2> QED  BY <2>1, <2>2
<1>3. CASE ComesBack
  <2>1. PICK p : p = [page EXCEPT !.hidden = FALSE]  OBVIOUS
  <2>2. PICK f : f = [p EXCEPT !.cycles = 0, !.failures = 0]  OBVIOUS
  <2>3. ~p.hidden /\ ~f.hidden /\ ~SchedulePolling(f).hidden
        /\ p.held = Fresh /\ p.timer = page.timer /\ p.screen = page.screen
    BY <1>0, <2>1, <2>2 DEF Page, SchedulePolling
  <2>4. page' \in {p, f, SchedulePolling(f)} /\ page.hidden
    BY <1>3, <2>1, <2>2 DEF ComesBack, Does, Then
  <2>5. ~Leaving /\ page.screen = "auth"  BY <2>3, <2>4
  <2>6. Does(wire, Then(p, {}))  BY <1>3, <2>1, <2>3, <2>5 DEF ComesBack
  <2>7. page' = p /\ wire' = wire  BY <2>6 DEF Does, Then, Put
  <2> QED  BY <2>3, <2>5, <2>7
<1> QED  BY <1>1, <1>2, <1>3

\* The answer to a request.
LEMMA OwnLand ==
  ASSUME PInv, OwnInv, NEW q \in wire, Land(q)
  PROVE  OwnInv'
<1>0. PICK d : d = Landed(page, q, wire \ {q})  OBVIOUS
<1>1. /\ PageOK(page) /\ AskOK(q) /\ page' = d.page /\ Sends(wire \ {q}, d.asks)
      /\ page.epoch \in Nat
  BY <1>0, LandOK DEF PInv, Sound, PageOK, Page
<1>2. \A x \in wire : x.epoch \in Nat /\ x.epoch <= page.epoch  BY DEF PInv, Sound, AskOK, Request
<1>3. \A x \in wire : x.epoch # page.epoch + 1  BY <1>1, <1>2
<1>4. CASE q.kind = "logout"
  <2>1. d = Leave(page, q)  BY <1>0, <1>4 DEF Landed
  <2>2. PICK a : d.asks = {a} /\ Sent(d.page, a) /\ a.kind = "session"
    BY <1>1, <1>4, <2>1, LeaveGood
  <2>3. Cleared(page, d.page) /\ d.page.leaving = "told"  BY <1>1, <1>4, <2>1, LeaveGood
  <2>4. Leaving'  BY <1>1, <2>2 DEF Leaving, Sends, Same
  <2>5. \A x \in wire' : x.epoch = page'.epoch => x.kind = "session"
    BY <1>1, <1>3, <2>2, <2>3 DEF Sends, Same, Cleared
  <2> QED  BY <1>1, <2>3, <2>4, <2>5 DEF OwnInv, Cleared
<1>5. CASE q.kind = "session"
  <2>1. d = Leave(page, q)  BY <1>0, <1>5 DEF Landed
  <2>2. /\ d.page.held = page.held /\ d.page.epoch = page.epoch /\ ~d.page.timer
        /\ d.page.screen = "auth" /\ d.asks = {}
    BY <1>1, <1>5, <2>1, LeaveGood
  <2>3. Leaving  BY <1>5 DEF Leaving
  <2>4. \A x \in wire' : x \in wire  BY <1>1, <2>2 DEF Sends
  <2> QED  BY <1>1, <2>2, <2>3, <2>4 DEF OwnInv
<1>6. CASE q.kind \notin {"logout", "session"}
  <2>1. CASE Cleared(page, d.page) /\ d.asks = {} /\ d.page.screen = "auth"
    <3>1. \A x \in wire' : x \in wire  BY <1>1, <2>1 DEF Sends
    <3> QED  BY <1>1, <1>3, <2>1, <3>1 DEF OwnInv, Cleared
  <2>2. CASE /\ Goods(page, d) /\ d.asks = {}
             /\ d.page = IF q.chain = "poll" THEN SchedulePolling(page) ELSE page
    <3>1. \A x \in wire' : x \in wire  BY <1>1, <2>2 DEF Sends
    <3>2. Leaving' <=> Leaving  BY <1>1, <1>6, <2>2 DEF Sends, Leaving
    <3>3. /\ d.page.held = page.held
          /\ page.held = Fresh /\ ~page.timer => ~d.page.timer
      BY <1>1, <2>2, FreshIsIdle DEF SchedulePolling, PageOK, Page
    <3> QED  BY <1>1, <2>2, <3>1, <3>2, <3>3 DEF OwnInv, Goods
  <2>3. CASE ~Stale(page, q) /\ Taken(page, q, d)
    <3>1. page.screen = "runner" /\ ~Leaving /\ page.held.from \subseteq {page.me}
          /\ q.session = page.me
      BY <1>6, <2>3 DEF OwnInv, Stale
    <3>2. \A x \in wire' : (x \in wire \/ x.session = page.me) /\ x.kind # "session"
      BY <1>1, <2>3, <3>1 DEF Sends, Same, Taken, SentBy, Sent, Leaving
    <3>3. ~Leaving'  BY <3>2 DEF Leaving
    <3>4. page'.screen = "runner" /\ page'.me = page.me /\ page'.epoch = page.epoch
          /\ page'.held.from \subseteq {page.me}
      BY <1>1, <2>3, <3>1 DEF Taken
    <3> QED  BY <3>1, <3>2, <3>3, <3>4 DEF OwnInv
  <2> QED  BY <1>0, <1>1, <1>6, <2>1, <2>2, <2>3, LandedGood
<1> QED  BY <1>4, <1>5, <1>6

LEMMA OwnStep ==
  ASSUME PInv, OwnInv, [Next]_vars, Leaving => UNCHANGED <<page.hidden, issued>>
  PROVE  OwnInv'
<1>0. page.screen \in {"auth", "runner"} /\ issued \in Nat  BY DEF PInv, PageOK, Page
<1>1. CASE Passed
  <2>1. /\ page' = page
        /\ \A x \in wire' : \E q \in wire :
             x.kind = q.kind /\ x.epoch = q.epoch /\ x.session = q.session
        /\ \A q \in wire : \E x \in wire' : x.kind = q.kind
    BY <1>1 DEF Passed, From
  <2>2. Leaving' <=> Leaving  BY <2>1 DEF Leaving
  <2> QED  BY <2>1, <2>2 DEF OwnInv
<1>2. CASE SignIn
  <2>1. /\ page'.screen = "runner" /\ page'.epoch = page.epoch /\ page'.me = issued + 1
        /\ issued' = issued + 1 /\ page'.held.from = page.held.from
        /\ \A x \in wire' : x \in wire \/ (x.kind # "session" /\ x.session = issued + 1)
    BY <1>2, SignInOK
  <2>2. ~Leaving /\ page.screen = "auth"
    <3>1. issued' # issued  BY <1>0, <2>1
    <3> QED  BY <1>2, <3>1 DEF SignIn
  <2>3. page.held = Fresh /\ \A x \in wire : x.epoch # page.epoch  BY <2>2 DEF OwnInv, Leaving
  <2>4. ~Leaving'  BY <2>1, <2>2 DEF Leaving
  <2>5. page'.held.from = {}  BY <2>1, <2>3, FreshType
  <2> QED  BY <2>1, <2>3, <2>4, <2>5 DEF OwnInv
<1>3. CASE Deed /\ Calm
  <2>1. CASE page.screen = "auth" \/ Leaving
    <3>1. /\ ~Leaving /\ page.screen = "auth" /\ wire' = wire
          /\ page'.held = Fresh /\ ~page'.timer
      BY <1>3, <2>1, LeftIsStill DEF OwnInv
    <3> QED  BY <1>3, <2>1, <3>1 DEF OwnInv, Calm
  <2>2. CASE ~(page.screen = "auth" \/ Leaving)
    <3>1. ~Leaving'  BY <1>3, <2>2 DEF Calm, Leaving
    <3> QED  BY <1>3, <2>2, <3>1 DEF OwnInv, Calm
  <2> QED  BY <2>1, <2>2
<1>4. ASSUME NEW q \in wire, Land(q)  PROVE OwnInv'  BY <1>4, OwnLand
<1> QED  BY <1>1, <1>2, <1>3, <1>4, StepOK

\* What the page shows is so: the verdicts are the runs' own, and as long as
\* nobody shows the page again or signs in between the answer to a sign-out and
\* the sign-in screen, nothing of the one who left is shown to the next.
THEOREM ShownIsSo == Spec /\ Settles => []ShowsWhatIsSo
<1> DEFINE Settled == Leaving => UNCHANGED <<page.hidden, issued>>
<1>1. Init => OwnInv
  <2> SUFFICES ASSUME Init PROVE OwnInv  OBVIOUS
  <2>1. PICK scene \in Scenes : /\ ServerInit(scene.faults)
                                /\ page = [NewPage EXCEPT !.stored = scene.tab]
    BY DEF Init
  <2>2. page.screen = "auth" /\ page.held = Fresh /\ ~page.timer  BY <2>1 DEF NewPage
  <2>3. wire = {}  BY <2>1 DEF ServerInit
  <2> QED  BY <2>2, <2>3 DEF OwnInv
<1>2. PageInv /\ OwnInv /\ [Next]_vars /\ [Settled]_vars => OwnInv'
  <2> SUFFICES ASSUME PageInv, OwnInv, [Next]_vars, [Settled]_vars PROVE OwnInv'  OBVIOUS
  <2>1. PInv  BY SortedOtherwise
  <2>2. Settled  BY DEF vars, serverVars
  <2> QED  BY <2>1, <2>2, OwnStep
<1>3. PageInv /\ OwnInv => ShowsWhatIsSo
  <2> SUFFICES ASSUME PageInv, OwnInv PROVE ShowsWhatIsSo  OBVIOUS
  <2>1. NothingOfAnother  BY FreshType DEF OwnInv, NothingOfAnother
  <2> QED  BY <2>1, VerdictsFollow DEF ShowsWhatIsSo
<1> QED  BY <1>1, <1>2, <1>3, PageInductive, PTL DEF Spec, Settles

-----------------------------------------------------------------------------
(* The run in front is polled.                                             *)

\* What polls goes on, or the timer is set, for a page with these requests.
Carries(p, q) == q.chain = "poll" \/ (q.chain # "none" /\ q.epoch = p.epoch)
Polled(p, W) ==
  p.tab = "view" /\ PollingWanted(p) /\ p.leaving = "no" =>
    p.timer \/ \E q \in W : Carries(p, q)

\* What e asks of polling p asks too.
Alike(p, e) ==
  /\ e.tab = p.tab /\ e.timer = p.timer /\ e.held.view = p.held.view
  /\ e.held.detail = p.held.detail
  /\ e.failures < MaxPollFailures => p.failures < MaxPollFailures
InPlace(p, e) ==
  e.screen = p.screen /\ e.leaving = p.leaving /\ e.epoch = p.epoch /\ e.hidden = p.hidden

LEMMA StaysPolled ==
  ASSUME NEW p, NEW e, Alike(p, e), InPlace(p, e), NEW V, NEW W, Polled(p, V),
         \A q \in V : Carries(p, q) => \E x \in W : Carries(e, x)
  PROVE  Polled(e, W)
<1> SUFFICES ASSUME e.tab = "view", PollingWanted(e), e.leaving = "no", ~e.timer
             PROVE  \E q \in W : Carries(e, q)
  BY DEF Polled
<1>1. p.tab = "view" /\ PollingWanted(p) /\ p.leaving = "no" /\ ~p.timer
  BY DEF Alike, InPlace, PollingWanted
<1> QED  BY <1>1 DEF Polled

LEMMA ScheduledIsPolled ==
  ASSUME NEW p \in Page, NEW W
  PROVE  Polled(SchedulePolling(p), W)
<1> DEFINE e == SchedulePolling(p)
<1>1. /\ e.timer = PollingWanted(p) /\ e.screen = p.screen /\ e.hidden = p.hidden
      /\ e.failures = p.failures /\ e.tab = p.tab /\ e.held = p.held
  BY DEF SchedulePolling, Page
<1> HIDE DEF e
<1>2. e.tab = "view" /\ PollingWanted(e) => PollingWanted(p)  BY <1>1 DEF PollingWanted
<1> QED  BY <1>1, <1>2 DEF Polled, e

\* A request that carries polling carries it on the wire.
LEMMA SentCarries ==
  ASSUME PInv, NEW asks, NEW a \in asks, a \in Request, wire' = Put(wire, asks),
         a.chain = "poll" \/ (a.chain # "none" /\ a.epoch = page'.epoch)
  PROVE  WatchInv'
<1>1. Same(Copied(wire, a), a)
  <2>1. wire \in SUBSET Request /\ IsFiniteSet(wire)  BY DEF PInv, Sound, AskOK
  <2> QED  BY <2>1, CopyIsSame
<1>2. Copied(wire, a) \in wire'  BY DEF Put
<1> HIDE DEF PInv
<1> QED  BY <1>1, <1>2 DEF Same, WatchInv

LEMMA TabIsSet ==
  ASSUME NEW p \in Page, NEW t \in Tabs
  PROVE  SetTab(p, t).page.tab # "view"
<1> DEFINE q == [p EXCEPT !.tab = t, !.stored = t, !.held.view = NoRun]
           d == SchedulePolling(q)
<1>1. d.tab = t /\ d \in Page
  <2>1. p.held \in Held  BY DEF Page
  <2>2. q.tab = t /\ q \in Page  BY <2>1 DEF Page, Held
  <2> HIDE DEF q
  <2>3. PollingWanted(q) \in BOOLEAN  BY DEF PollingWanted
  <2> QED  BY <2>2, <2>3 DEF SchedulePolling, Page
<1>2. SetTab(p, t) = EnsureTabData(d, t)  BY DEF SetTab
<1>3. EnsureTabData(d, t).page = d \/ EnsureTabData(d, t).page = [d EXCEPT !.ticket = @ + 1]
  <2> HIDE DEF d
  <2> QED  BY DEF EnsureTabData, LoadReport, Then
<1> HIDE DEF d
<1>4. EnsureTabData(d, t).page.tab = t  BY <1>1, <1>3 DEF Page
<1> QED  BY <1>2, <1>4 DEF Tabs

\* The answers that nothing waits with leave the run in front as it is.
LEMMA AloneIsAlike ==
  ASSUME NEW p, PageOK(p), NEW q, AskOK(q), q.chain = "none", q.kind \notin {"logout", "session"},
         p.failures < MaxPollFailures
  PROVE  Alike(p, Noted(Take(p, q), q).page)
<1>0. /\ p \in Page /\ p.held \in Held /\ p.failures \in Nat /\ MaxPollFailures \in Nat
      /\ q.kind \in {"runs", "dashboard", "logs", "results", "report"}
  BY PageAssumption DEF PageOK, Page, AskOK, Request, Kinds
<1>1. PICK d : d = Take(p, q)  OBVIOUS
<1>2. PICK e : e = d.page  OBVIOUS
<1>3. e \in Page /\ Alike(p, e)
  <2>0. e \in Page  BY <1>1, <1>2, TakeGood DEF Goods, PageOK
  <2>1. CASE q.kind = "runs" /\ q.ok # "fail"
    <3> DEFINE on == p.held.awaiting /\ CountActive(q.data.list) = 0
               x == [p EXCEPT !.held.listed = q.data.list, !.failures = 0,
                              !.held.loaded = @ \cup {"history"}, !.held.awaiting = on]
    <3>1. e = Prune(x)  BY <1>1, <1>2, <2>1 DEF Take, TakeRuns, Then
    <3>2. on \in BOOLEAN  BY <1>0 DEF Held
    <3> HIDE DEF on
    <3>3. q.data.list \in [RunId -> Statuses]  BY DEF AskOK, Request, Answer
    <3>4. /\ x.tab = p.tab /\ x.timer = p.timer /\ x.held.view = p.held.view
          /\ x.held.detail = p.held.detail /\ x.failures = 0 /\ x \in Page /\ x.held \in Held
      BY <1>0, <3>2, <3>3 DEF Page, Held, Tabs
    <3> HIDE DEF x
    <3>5. /\ e.tab = x.tab /\ e.timer = x.timer /\ e.held.view = x.held.view
          /\ e.held.detail = x.held.detail /\ e.failures = 0
      BY <3>1, <3>4 DEF Prune, Page, Held
    <3> QED  BY <2>0, <3>4, <3>5 DEF Alike
  <2>2. CASE q.kind = "dashboard" /\ q.ok # "fail"
    <3>1. e = [p EXCEPT !.held.board = q.data.list, !.held.loaded = @ \cup {"dashboard"}]
      BY <1>1, <1>2, <2>2 DEF Take, TakeBoard, Then
    <3> QED  BY <1>0, <2>0, <3>1 DEF Alike, Page, Held
  <2>3. CASE q.kind = "logs"
    <3>1. \/ e = p
          \/ \E y : e = [p EXCEPT !.held.logs[q.run] = y]
      BY <1>1, <1>2, <2>3 DEF Take, TakeLogs, Then
    <3> QED  BY <1>0, <2>0, <3>1 DEF Alike, Page, Held
  <2>4. CASE q.kind = "results"
    <3>1. PICK y : e = [p EXCEPT !.held.results[q.run] = y]
      BY <1>1, <1>2, <2>4 DEF Take, TakeResults, Then
    <3> QED  BY <1>0, <2>0, <3>1 DEF Alike, Page, Held
  <2>5. CASE q.kind = "report" /\ q.ok # "fail"
    <3>1. \/ e = p
          \/ e = [p EXCEPT !.held.report = q.mark, !.held.loaded = @ \cup {"reports"}]
      BY <1>1, <1>2, <2>5 DEF Take, TakeReport, Then
    <3>2. CASE e = p  BY <2>0, <3>2 DEF Alike
    <3>3. CASE e = [p EXCEPT !.held.report = q.mark, !.held.loaded = @ \cup {"reports"}]
      <4>1. /\ e.tab = p.tab /\ e.timer = p.timer /\ e.held.view = p.held.view
            /\ e.held.detail = p.held.detail
        BY <1>0, <3>3 DEF Page, Held
      <4> QED  BY <2>0, <4>1 DEF Alike
    <3> QED  BY <3>1, <3>2, <3>3
  <2>6. CASE q.kind \in {"runs", "dashboard", "report"} /\ q.ok = "fail"
    <3> DEFINE n == IF q.kind = "runs" THEN p.failures + 1 ELSE p.failures
    <3>1. e = [p EXCEPT !.failures = n]  BY <1>1, <1>2, <2>6 DEF Take, Then
    <3> HIDE DEF n
    <3> QED  BY <1>0, <2>0, <3>1 DEF Alike, Page
  <2> QED  BY <1>0, <2>1, <2>2, <2>3, <2>4, <2>5, <2>6
<1>4. Noted(d, q).page = e \/ Noted(d, q).page = [e EXCEPT !.held.from = @ \cup {q.session}]
  <2>1. d.page = e /\ d = [page |-> d.page, asks |-> d.asks]
    <3>1. d = [page |-> d.page, asks |-> d.asks]
      BY <1>0, <1>1 DEF Take, TakeRuns, TakeBoard, TakeLogs, TakeResults, TakeReport, Then
    <3> QED  BY <1>2, <3>1
  <2>2. Noted(d, q) = d \/ Noted(d, q) = [d EXCEPT !.page.held.from = @ \cup {q.session}]
    BY DEF Noted
  <2> QED  BY <2>1, <2>2
<1>5. Alike(p, Noted(d, q).page)  BY <1>3, <1>4 DEF Alike, Page, Held
<1> QED  BY <1>1, <1>5

\* An answer that polling waited with sets the timer, or leaves another that it
\* waits with; any other leaves the run in front as it is.
LEMMA WatchLand ==
  ASSUME PInv, WatchInv, page.failures < MaxPollFailures, NEW q \in wire, Land(q)
  PROVE  WatchInv'
<1> DEFINE others == wire \ {q}
<1>0. PICK d : d = Landed(page, q, others)  OBVIOUS
<1>1. /\ PageOK(page) /\ page \in Page /\ AskOK(q) /\ page' = d.page /\ Sends(others, d.asks)
      /\ others \subseteq wire' /\ Polled(page, wire)
  BY <1>0, LandOK DEF PInv, Sound, PageOK, WatchInv, Polled, Carries, Sends
<1> SUFFICES Polled(d.page, wire')  BY <1>1 DEF WatchInv, Polled, Carries
<1>2. CASE q.kind \in {"logout", "session"}
  <2>1. d = Leave(page, q)  BY <1>0, <1>2 DEF Landed
  <2>2. d.page.leaving = "told" \/ d.page.screen = "auth"  BY <1>1, <1>2, <2>1, LeaveGood
  <2> QED  BY <2>2 DEF Polled, PollingWanted
<1>3. CASE d.page.screen = "auth"  BY <1>3 DEF Polled, PollingWanted
<1>4. CASE /\ Stale(page, q) \/ q.ok = "gone"
           /\ d.page = IF q.chain = "poll" THEN SchedulePolling(page) ELSE page
  <2>1. CASE q.chain = "poll"  BY <1>1, <1>4, <2>1, ScheduledIsPolled
  <2>2. CASE q.chain # "poll" /\ page.screen = "runner"
    <3>1. ~Carries(page, q) \/ q.ok = "gone"  BY <1>4, <2>2 DEF Stale, Carries
    <3>2. q.kind \notin {"logout", "session"} /\ q.ok = "gone" => d.page.screen = "auth"
      <4> SUFFICES ASSUME q.kind \notin {"logout", "session"}, q.ok = "gone"
                   PROVE  d.page.screen = "auth"
        OBVIOUS
      <4>1. ~Stale(page, q) \/ Stale(page, q)  OBVIOUS
      <4>2. LoseSession(page) = ShowAuth(Reset(page))  BY <2>2 DEF LoseSession
      <4>3. ShowAuth(Reset(page)).screen = "auth"  BY <1>1, ResetGood
      <4>4. d = Goes(Then(ShowAuth(Reset(page)), {}), q, others)  BY <1>0, <4>2 DEF Landed
      <4>5. ~Releases(ShowAuth(Reset(page)), q)  BY <4>3 DEF Releases, Stale
      <4> QED  BY <2>2, <4>3, <4>4, <4>5 DEF Goes, Then
    <3>3. CASE ~Carries(page, q)
      <4>1. \A x \in wire : Carries(page, x) => x \in wire'  BY <1>1, <3>3
      <4> QED  BY <1>1, <1>4, <2>2, <4>1 DEF Polled
    <3> QED  BY <1>2, <1>3, <3>1, <3>2, <3>3
  <2>3. CASE q.chain # "poll" /\ page.screen # "runner"
    BY <1>4, <2>3 DEF Polled, PollingWanted
  <2> QED  BY <2>1, <2>2, <2>3
<1>5. CASE ~Stale(page, q) /\ q.kind \notin {"logout", "session"}
           /\ d = Goes(Noted(Take(page, q), q), q, others)
  <2>1. PICK n : n = Noted(Take(page, q), q)  OBVIOUS
  <2>2. Taken(page, q, n)  BY <1>1, <1>5, <2>1, TakeGood, NotedGood
  <2>3. /\ n.page \in Page /\ n.page.held \in Held /\ InPlace(page, n.page)
        /\ q.epoch = n.page.epoch /\ n.page.screen = "runner"
    BY <1>5, <2>2 DEF Taken, InPlace, PageOK, Page, Stale
  <2>4. d = Goes(n, q, others)  BY <1>5, <2>1
  <2>5. CASE q.chain = "poll"
    <3>1. d.page = SchedulePolling(n.page)  BY <2>4, <2>5 DEF Goes, Then
    <3> QED  BY <2>3, <3>1, ScheduledIsPolled
  <2>6. CASE q.chain \in {"start", "cancel"} /\ \E o \in others \cup n.asks : InChain(q, o)
    <3>1. d = n  BY <2>4, <2>6 DEF Goes
    <3>2. PICK o \in others \cup n.asks : InChain(q, o)  BY <2>6
    <3>3. Carries(n.page, o)  BY <2>3, <2>6, <3>2 DEF InChain, Carries
    <3>4. \E x \in wire' : Carries(n.page, x)
      BY <1>1, <3>1, <3>2, <3>3 DEF Sends, Same, Carries
    <3> QED  BY <3>1, <3>4 DEF Polled
  <2>7. CASE q.chain \in {"start", "cancel"} /\ ~\E o \in others \cup n.asks : InChain(q, o)
    <3>1. Releases(n.page, q)  BY <2>3 DEF Releases, Stale
    <3>2. d.page = SchedulePolling(Loose(n.page, q))  BY <2>4, <2>7, <3>1 DEF Goes, Then
    <3>3. Loose(n.page, q) \in Page
      <4>1. [n.page EXCEPT !.held.starting = FALSE] \in Page  BY <2>3 DEF Page, Held
      <4>2. PICK x : x = [n.page EXCEPT !.held.cancelling = @ \ {q.run}]  OBVIOUS
      <4>3. x \in Page /\ PageOK(x)
        <5>1. PageOK(n.page)  BY <2>2 DEF Taken
        <5>2. x \in Page  BY <2>3, <4>2 DEF Page, Held
        <5>3. /\ x.screen = n.page.screen /\ x.leaving = n.page.leaving
              /\ x.ticket = n.page.ticket /\ x.hidden = n.page.hidden
              /\ x.timer = n.page.timer /\ x.tab = n.page.tab /\ x.epoch = n.page.epoch
              /\ x.me = n.page.me /\ x.held.view = n.page.held.view
              /\ x.held.board = n.page.held.board /\ x.held.listed = n.page.held.listed
              /\ x.held.report = n.page.held.report
          BY <2>3, <4>2 DEF Page, Held
        <5> QED  BY <5>1, <5>2, <5>3 DEF PageOK
      <4>4. Prune(x) \in Page  BY <4>3, PruneGood DEF PageOK
      <4> QED  BY <4>1, <4>2, <4>4 DEF Loose
    <3> QED  BY <3>2, <3>3, ScheduledIsPolled
  <2>8. CASE q.chain = "none"
    <3>1. d = n  BY <2>4, <2>8 DEF Goes
    <3>2. Alike(page, n.page)  BY <1>1, <1>5, <2>1, <2>8, AloneIsAlike
    <3>3. \A x \in wire : Carries(page, x) => x \in wire' /\ Carries(n.page, x)
      BY <1>1, <2>3, <2>8 DEF Carries, InPlace
    <3> QED  BY <1>1, <2>3, <3>1, <3>2, <3>3, StaysPolled
  <2>9. q.chain \in {"none", "poll", "start", "cancel"}  BY <1>1 DEF AskOK, Request, Chains
  <2> QED  BY <2>5, <2>6, <2>7, <2>8, <2>9
<1> QED  BY <1>0, <1>1, <1>2, <1>3, <1>4, <1>5, LandedGood

\* A page that polling is not wanted of needs none.
LEMMA IdleIsPolled ==
  ASSUME page'.tab # "view" \/ page'.hidden \/ page'.leaving # "no" \/ page'.screen # "runner"
  PROVE  WatchInv'
BY DEF WatchInv, PollingWanted

\* Nothing done at the page leaves the run in front without polling.
LEMMA WatchDeed ==
  ASSUME PInv, WatchInv, page.failures < MaxPollFailures, Deed
  PROVE  WatchInv'
<1>0. PageOK(page) /\ page \in Page /\ page.held \in Held /\ Polled(page, wire)
  BY DEF PInv, PageOK, Page, WatchInv, Polled, Carries
<1>1. ASSUME NEW t \in Tabs, OpensTab(t)  PROVE WatchInv'
  <2>1. page' = SetTab(page, t).page  BY <1>1 DEF OpensTab, Does
  <2> QED  BY <1>0, <2>1, TabIsSet, IdleIsPolled
<1>2. ASSUME NEW r \in RunId, OpensRun(r)  PROVE WatchInv'
  <2>1. Born(r) /\ r # NoRun
    BY <1>0, <1>2, RunsAreNumbers DEF OpensRun, Visible, PageOK
  <2>2. PICK d : d = OpenRunView(page, r)  OBVIOUS
  <2>3. page' = d.page /\ wire' = Put(wire, d.asks)  BY <1>2, <2>2 DEF OpensRun, Does
  <2>4. PICK a : a = Send(page, "detail", r, "poll")  OBVIOUS
  <2>5. a \in Request /\ a.chain = "poll"  BY <1>0, <2>4, SendType DEF Kinds, Chains
  <2>6. a \in d.asks  BY <2>2, <2>4 DEF OpenRunView, And, Then
  <2> QED  BY <2>3, <2>5, <2>6, SentCarries
<1>3. CASE Starts
  <2>1. PICK p : p = [page EXCEPT !.held.starting = TRUE]  OBVIOUS
  <2>2. PICK a : a = Send(p, "start", NoRun, "start")  OBVIOUS
  <2>3. page' = p /\ wire' = Put(wire, {a})  BY <1>3, <2>1, <2>2 DEF Starts, Does, Then
  <2>4. p \in Page  BY <1>0, <2>1 DEF Page, Held
  <2>5. a \in Request /\ a.chain = "start" /\ a.epoch = p.epoch
    BY <2>2, <2>4, SendType DEF Kinds, Chains
  <2> QED  BY <2>3, <2>5, SentCarries
<1>4. ASSUME NEW r \in RunId, Cancels(r)  PROVE WatchInv'
  <2>1. PICK p : p = [page EXCEPT !.held.cancelling = @ \cup {r}]  OBVIOUS
  <2>2. PICK a : a = Send(p, "cancel", r, "cancel")  OBVIOUS
  <2>3. page' = p /\ wire' = Put(wire, {a})  BY <1>4, <2>1, <2>2 DEF Cancels, Does, Then
  <2>4. p \in Page  BY <1>0, <2>1 DEF Page, Held
  <2>5. a \in Request /\ a.chain = "cancel" /\ a.epoch = p.epoch
    BY <2>2, <2>4, SendType DEF Kinds, Chains
  <2> QED  BY <2>3, <2>5, SentCarries
<1>5. CASE Refreshed /\ page.tab = "view"
  <2>1. PICK d : d = LoadLogs(page, page.held.view)  OBVIOUS
  <2>2. page' = d.page /\ wire' = Put(wire, d.asks)  BY <1>5, <2>1 DEF Refreshed, Does
  <2>3. \/ d.page = page \/ d.page = [page EXCEPT !.held.logs[page.held.view].loading = TRUE]
    BY <2>1 DEF LoadLogs, Then
  <2>4. Alike(page, d.page) /\ InPlace(page, d.page)
    BY <1>0, <2>3 DEF Alike, InPlace, Page, Held
  <2>5. \A q \in wire : Carries(page, q) => q \in wire' /\ Carries(d.page, q)
    BY <2>2, <2>4 DEF Put, Carries, InPlace
  <2>6. Polled(d.page, wire')  BY <1>0, <2>4, <2>5, StaysPolled
  <2> QED  BY <2>2, <2>6 DEF Polled, Carries, WatchInv
<1>6. CASE Refreshed /\ page.tab # "view"
  <2>1. PICK p : p = [page EXCEPT !.cycles = 0, !.failures = 0]  OBVIOUS
  <2>2. p.tab = page.tab  BY <1>0, <2>1 DEF Page
  <2>3. page' = p \/ page' = page \/ page' = [page EXCEPT !.ticket = @ + 1]
    BY <1>6, <2>1 DEF Refreshed, Does, LoadReport, Then
  <2>4. page'.tab = page.tab  BY <1>0, <2>2, <2>3 DEF Page
  <2> QED  BY <1>6, <2>4, IdleIsPolled
<1>7. CASE Hides
  <2>1. page'.hidden  BY <1>0, <1>7 DEF Hides, Page
  <2> QED  BY <2>1, IdleIsPolled
<1>8. CASE ComesBack
  <2>1. PICK p : p = [page EXCEPT !.hidden = FALSE]  OBVIOUS
  <2>2. PICK f : f = [p EXCEPT !.cycles = 0, !.failures = 0]  OBVIOUS
  <2>3. p.tab = page.tab /\ p.screen = page.screen /\ p \in Page  BY <1>0, <2>1 DEF Page
  <2>4. f.tab = page.tab /\ f \in Page
    <3>1. 0 \in 0..MaxPollCycles  BY PageAssumption
    <3> QED  BY <2>2, <2>3, <3>1 DEF Page
  <2>5. \/ page' = p /\ p.screen # "runner"
        \/ page' = f /\ f.tab \in {"dashboard", "history"}
        \/ page' = SchedulePolling(f)
    BY <1>8, <2>1, <2>2, <2>3, <2>4 DEF ComesBack, Does, Then
  <2>6. CASE page' = p /\ p.screen # "runner"  BY <2>6, IdleIsPolled
  <2>7. CASE page' = f /\ f.tab \in {"dashboard", "history"}  BY <2>7, IdleIsPolled
  <2>8. CASE page' = SchedulePolling(f)
    <3>1. Polled(SchedulePolling(f), wire')  BY <2>4, ScheduledIsPolled
    <3> QED  BY <2>8, <3>1 DEF Polled, Carries, WatchInv
  <2> QED  BY <2>5, <2>6, <2>7, <2>8
<1>9. CASE SignsOut
  <2>1. page'.leaving = "asked"  BY <1>0, <1>9 DEF SignsOut, Does, Then, Page
  <2> QED  BY <2>1, IdleIsPolled
<1>10. CASE Tick /\ page.tab = "view"
  <2>1. PICK p : p = [page EXCEPT !.timer = FALSE, !.cycles = Min({@ + 1, MaxPollCycles})]
    OBVIOUS
  <2>2. PICK a : a = Send(p, "detail", p.held.view, "poll")  OBVIOUS
  <2>3. p.tab = page.tab /\ p.held = page.held /\ p.epoch = page.epoch /\ p.me = page.me
    BY <1>0, <2>1 DEF Page
  <2>4. page' = p /\ wire' = Put(wire, {a})
    BY <1>10, <2>1, <2>2, <2>3 DEF Tick, Does, Then
  <2>5. a = Send(page, "detail", page.held.view, "poll")  BY <2>2, <2>3 DEF Send
  <2>6. page.held.view \in RunId \cup {NoRun}  BY <1>0 DEF Held
  <2>7. a \in Request /\ a.chain = "poll"  BY <1>0, <2>5, <2>6, SendType DEF Kinds, Chains
  <2> QED  BY <2>4, <2>7, SentCarries
<1>11. CASE Tick /\ page.tab # "view"
  <2>1. page'.tab = page.tab  BY <1>0, <1>11 DEF Tick, Does, Then, Page
  <2> QED  BY <1>11, <2>1, IdleIsPolled
<1>12. CASE AwaitEnds
  <2>1. page' = [page EXCEPT !.held.awaiting = FALSE] /\ wire' = wire
    BY <1>12 DEF AwaitEnds, serverVars
  <2>2. PICK d : d = [page EXCEPT !.held.awaiting = FALSE]  OBVIOUS
  <2>3. Alike(page, d) /\ InPlace(page, d)  BY <1>0, <2>2 DEF Alike, InPlace, Page, Held
  <2>4. \A q \in wire : Carries(page, q) => q \in wire' /\ Carries(d, q)
    BY <2>1, <2>3 DEF Carries, InPlace
  <2>5. Polled(d, wire')  BY <1>0, <2>3, <2>4, StaysPolled
  <2> QED  BY <2>1, <2>2, <2>5 DEF Polled, Carries, WatchInv
<1> QED  BY <1>1, <1>2, <1>3, <1>4, <1>5, <1>6, <1>7, <1>8, <1>9, <1>10, <1>11, <1>12 DEF Deed

LEMMA WatchStep ==
  ASSUME PInv, WatchInv, page.failures < MaxPollFailures, [Next]_vars
  PROVE  WatchInv'
<1>1. CASE Passed
  <2>1. page' = page /\ \A q \in wire : \E x \in wire' : x.chain = q.chain /\ x.epoch = q.epoch
    BY <1>1 DEF Passed, From
  <2> QED  BY <2>1 DEF WatchInv
<1>2. CASE SignIn
  <2>1. PICK p : p = [page EXCEPT !.screen = "runner", !.me = issued + 1,
                                  !.failures = 0, !.cycles = 0]
    OBVIOUS
  <2>2. page' = SetTab(p, p.stored).page  BY <1>2, <2>1 DEF SignIn
  <2>3. p \in Page
    <3>1. 0 \in 0..MaxPollCycles /\ issued + 1 \in Nat /\ page \in Page
      BY PageAssumption DEF PInv, PageOK, Page
    <3> QED  BY <2>1, <3>1 DEF Page
  <2>4. p.stored \in Tabs  BY <2>3 DEF Page
  <2> QED  BY <2>2, <2>3, <2>4, TabIsSet, IdleIsPolled
<1>3. CASE Deed  BY <1>3, WatchDeed
<1>4. ASSUME NEW q \in wire, Land(q)  PROVE WatchInv'  BY <1>4, WatchLand
<1> QED  BY <1>1, <1>2, <1>3, <1>4, StepOK

\* While the page has not given up after one failure too many, its buttons hold
\* what is under way, and the run in front is polled as long as it is live.
THEOREM KeptUp == Spec /\ [](page.failures < MaxPollFailures) => []KeepsUp
<1>1. Init => WatchInv
  <2> SUFFICES ASSUME Init PROVE WatchInv  OBVIOUS
  <2>1. page.screen = "auth"  BY DEF Init, NewPage
  <2> QED  BY <2>1 DEF WatchInv, PollingWanted
<1>2. PageInv /\ WatchInv /\ page.failures < MaxPollFailures /\ [Next]_vars => WatchInv'
  <2> SUFFICES ASSUME PageInv, WatchInv, page.failures < MaxPollFailures, [Next]_vars
               PROVE  WatchInv'
    OBVIOUS
  <2>1. PInv  BY SortedOtherwise
  <2> QED  BY <2>1, WatchStep
<1>3. PageInv /\ WatchInv => KeepsUp
  BY DEF PageInv, ButtonsInv, ButtonsHold, Current, WatchInv, WatchedIsPolled, KeepsUp
<1> QED  BY <1>1, <1>2, <1>3, PageInductive, PTL DEF Spec
=============================================================================
