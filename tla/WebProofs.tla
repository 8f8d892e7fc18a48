------------------------------ MODULE WebProofs -------------------------------
(***************************************************************************)
(* Theorems about the web front end and the demo site, for any number of   *)
(* presses, sign-ins, visitors and requests.                               *)
(***************************************************************************)
EXTENDS MCWeb, FiniteSetTheorems, TLAPS

-----------------------------------------------------------------------------
(* The payments that are checked first.                                    *)

\* A call moves on and nothing else changes.
LEMMA ClickGoes ==
  ASSUME FormInv, NEW c \in Click, NEW at \in {"paid", "refused", "cut", "refreshing", "over"},
         click[c].at \notin {"idle", "over"},
         at \in {"paid", "refreshing"} => \E p \in paid : p.key = click[c].key,
         click' = [click EXCEPT ![c].at = at], cut' \in 0..MaxCut,
         UNCHANGED <<form, reviews, review, watched, receipt, paid>>
  PROVE  FormInv'
<1>1. /\ \A d \in Click : d # c => click'[d] = click[d]
      /\ click'[c].review = click[c].review /\ click'[c].key = click[c].key
      /\ click'[c].here = click[c].here /\ click'[c].at = at
      /\ click' \in [Click -> Clicks]
  BY DEF FormInv, FormTypeOK, Clicks
<1>2. FormTypeOK'  BY <1>1 DEF FormInv, FormTypeOK
<1>3. KeysNameReviews'  BY <1>1 DEF FormInv, KeysNameReviews
<1>4. AnsweredIsPaid'  BY <1>1 DEF FormInv, AnsweredIsPaid
<1>5. OneUnderWay'  BY <1>1 DEF FormInv, OneUnderWay
<1>6. PaidAsReviewed'  BY DEF FormInv, PaidAsReviewed
<1> QED  BY <1>2, <1>3, <1>4, <1>5, <1>6 DEF FormInv

LEMMA ConfirmKeeps ==
  ASSUME FormInv, NEW c \in Click, Confirm(c)  PROVE FormInv'
<1> DEFINE new == [review |-> review, key |-> KeyOf(c), at |-> "sent", here |-> TRUE]
<1>0. /\ review \in 1..reviews /\ reviews \in 0..MaxReview /\ MaxReview \in Nat /\ c \in Nat
      /\ review \in 0..MaxReview
  BY FormAssumption DEF FormInv, FormTypeOK, FormAssumption, Confirm, None
<1>1. KeyOf(c) \in Nat /\ (~form.double => KeyOf(c) = review)
  BY <1>0 DEF KeyOf
<1>2. new \in Clicks
  BY <1>0, <1>1 DEF Clicks
<1>3. new.review = review /\ new.key = KeyOf(c) /\ new.at = "sent" /\ new.here
  OBVIOUS
<1> HIDE DEF new
<1>4. /\ click' = [click EXCEPT ![c] = new] /\ watched' = c
      /\ UNCHANGED <<form, reviews, review, receipt, paid, cut>>
      /\ receipt = {} /\ (form.double \/ ~UnderWay)
  BY DEF Confirm, new
<1>5. /\ \A d \in Click : d # c => click'[d] = click[d]
      /\ click'[c] = new /\ click' \in [Click -> Clicks]
  BY <1>2, <1>4 DEF FormInv, FormTypeOK
<1>6. FormTypeOK'  BY <1>4, <1>5 DEF FormInv, FormTypeOK
<1>7. KeysNameReviews'  BY <1>0, <1>1, <1>3, <1>4, <1>5 DEF FormInv, KeysNameReviews
<1>8. AnsweredIsPaid'  BY <1>3, <1>4, <1>5 DEF FormInv, AnsweredIsPaid
<1>9. OneUnderWay'
  <2>1. ASSUME ~form.double, form.kind # "request", NEW d \in Click, d # c,
               click[d].here, click[d].at \notin {"idle", "over"}
        PROVE  FALSE
    <3>1. watched = d  BY <2>1 DEF FormInv, OneUnderWay
    <3>2. d # None  BY FormAssumption DEF FormAssumption, None
    <3>3. click[d].at \in {"sent", "paid", "refused", "cut", "refreshing"}
      BY <2>1 DEF FormInv, FormTypeOK, Clicks
    <3> QED  BY <1>4, <2>1, <3>1, <3>2, <3>3 DEF UnderWay
  <2> QED  BY <1>3, <1>4, <1>5, <2>1 DEF OneUnderWay
<1>10. PaidAsReviewed'  BY <1>4 DEF FormInv, PaidAsReviewed
<1> QED  BY <1>6, <1>7, <1>8, <1>9, <1>10 DEF FormInv

LEMMA PaysKeeps ==
  ASSUME FormInv, NEW c \in Click, Pays(c)  PROVE FormInv'
<1> DEFINE before == \E p \in paid : p.key = click[c].key
           closed == form.kind = "request" /\ paid # {}
           new == [key |-> click[c].key, review |-> click[c].review]
           at == IF closed /\ ~before THEN "refused" ELSE "paid"
<1>1. /\ click[c] \in Clicks /\ click[c].at = "sent"
      /\ click[c].review \in 1..reviews /\ reviews \in 0..MaxReview /\ MaxReview \in Nat
      /\ ~form.double => click[c].key = click[c].review
  BY FormAssumption DEF FormInv, FormTypeOK, KeysNameReviews, FormAssumption, Pays
<1>2. /\ paid' = IF before \/ closed THEN paid ELSE paid \cup {new}
      /\ click' = [click EXCEPT ![c].at = at]
      /\ UNCHANGED <<form, reviews, review, watched, receipt, cut>>
  BY DEF Pays
<1>3. new \in [key : Nat, review : 1..MaxReview]
  BY <1>1 DEF Clicks
<1>4. new.key = click[c].key /\ new.review = click[c].review  OBVIOUS
<1>5. paid \subseteq paid' /\ paid' \subseteq [key : Nat, review : 1..MaxReview]
  BY <1>2, <1>3 DEF FormInv, FormTypeOK
<1>6. at = "paid" => \E p \in paid' : p.key = click[c].key
  BY <1>2, <1>4
<1>7. form.kind = "request" => \A p, q \in paid' : p = q
  BY <1>2 DEF FormInv, AnsweredIsPaid
<1>8. ~form.double => \A p \in paid' : p.key = p.review
  BY <1>1, <1>2, <1>4 DEF FormInv, KeysNameReviews
<1>9. at \in {"paid", "refused"}  OBVIOUS
<1>10. ~form.double => \A p, q \in paid' : p.review = q.review => p = q
  BY <1>5, <1>8
<1> HIDE DEF new, before, closed, at
<1>11. /\ \A d \in Click : d # c => click'[d] = click[d]
       /\ click'[c].review = click[c].review /\ click'[c].key = click[c].key
       /\ click'[c].here = click[c].here /\ click'[c].at = at
       /\ click' \in [Click -> Clicks]
  BY <1>2, <1>9 DEF FormInv, FormTypeOK, Clicks
<1>12. FormTypeOK'  BY <1>2, <1>5, <1>11 DEF FormInv, FormTypeOK
<1>13. KeysNameReviews'  BY <1>1, <1>2, <1>8, <1>11 DEF FormInv, KeysNameReviews
<1>14. AnsweredIsPaid'  BY <1>2, <1>5, <1>6, <1>7, <1>9, <1>11 DEF FormInv, AnsweredIsPaid
<1>15. OneUnderWay'  BY <1>1, <1>2, <1>11 DEF FormInv, OneUnderWay
<1>16. PaidAsReviewed'  BY <1>2, <1>5, <1>7, <1>10 DEF FormInv, PaidAsReviewed
<1> QED  BY <1>12, <1>13, <1>14, <1>15, <1>16 DEF FormInv

LEMMA ReceiptKeeps ==
  ASSUME FormInv, NEW c \in Click, Receipt(c)  PROVE FormInv'
<1> DEFINE new == [payment |-> click[c].review, says |-> review]
<1>1. /\ click[c] \in Clicks /\ click[c].at \in {"paid", "refreshing"}
      /\ click[c].review \in 1..reviews /\ reviews \in 0..MaxReview /\ MaxReview \in Nat
      /\ click[c].review \in 1..MaxReview /\ review \in 0..MaxReview
      /\ ~form.double => click[c].key = click[c].review
  BY FormAssumption DEF FormInv, FormTypeOK, KeysNameReviews, FormAssumption, Receipt
<1>2. /\ click' = [click EXCEPT ![c].at = "over"]
      /\ UNCHANGED <<form, reviews, watched, paid, cut>>
  BY DEF Receipt
<1>3. /\ \A d \in Click : d # c => click'[d] = click[d]
      /\ click'[c].review = click[c].review /\ click'[c].key = click[c].key
      /\ click'[c].here = click[c].here /\ click'[c].at = "over"
      /\ click' \in [Click -> Clicks]
  BY <1>2 DEF FormInv, FormTypeOK, Clicks
<1>4. new \in [payment : 1..MaxReview, says : 0..MaxReview]  BY <1>1
<1>5. new.payment = click[c].review /\ new.says = review  OBVIOUS
<1> HIDE DEF new
<1>6. KeysNameReviews'
  <2>1. \A d \in Click : click[d].at # "idle" =>
          click[d].review \in 1..reviews /\ (~form.double => click[d].key = click[d].review)
    BY DEF FormInv, KeysNameReviews
  <2>2. click[c].at # "idle"  BY <1>1
  <2> QED  BY <1>2, <1>3, <2>1, <2>2 DEF FormInv, KeysNameReviews
<1>7. CASE UNCHANGED <<review, receipt>>
  <2>1. FormTypeOK'  BY <1>2, <1>3, <1>7 DEF FormInv, FormTypeOK
  <2>2. AnsweredIsPaid'  BY <1>2, <1>3, <1>7 DEF FormInv, AnsweredIsPaid
  <2>3. OneUnderWay'  BY <1>2, <1>3, <1>7 DEF FormInv, OneUnderWay
  <2>4. PaidAsReviewed'  BY <1>2, <1>7 DEF FormInv, PaidAsReviewed
  <2> QED  BY <1>6, <2>1, <2>2, <2>3, <2>4 DEF FormInv
<1>8. CASE form.kind = "request" /\ review' = None /\ UNCHANGED receipt
  <2>1. FormTypeOK'  BY <1>1, <1>2, <1>3, <1>8 DEF FormInv, FormTypeOK, None
  <2>2. AnsweredIsPaid'  BY <1>2, <1>3, <1>8 DEF FormInv, AnsweredIsPaid
  <2>3. OneUnderWay'  BY <1>2, <1>8 DEF OneUnderWay
  <2>4. PaidAsReviewed'  BY <1>2, <1>8 DEF FormInv, PaidAsReviewed
  <2> QED  BY <1>6, <2>1, <2>2, <2>3, <2>4 DEF FormInv
<1>9. CASE /\ click[c].here /\ form.kind # "request" /\ UNCHANGED review
           /\ receipt = {} /\ receipt' = {new}
  <2>1. FormTypeOK'  BY <1>2, <1>3, <1>4, <1>9 DEF FormInv, FormTypeOK
  <2>2. AnsweredIsPaid'  BY <1>2, <1>3, <1>9 DEF FormInv, AnsweredIsPaid
  <2>3. ~form.double => watched = c /\ review = click[c].review
    BY <1>1, <1>9 DEF FormInv, OneUnderWay
  <2>4. OneUnderWay'
    BY <1>2, <1>3, <1>9, <2>3 DEF FormInv, OneUnderWay
  <2>5. ~form.double => \E p \in paid : p.review = click[c].review
    BY <1>1 DEF FormInv, AnsweredIsPaid, KeysNameReviews
  <2>6. PaidAsReviewed'  BY <1>2, <1>5, <1>9, <2>3, <2>5 DEF FormInv, PaidAsReviewed
  <2> QED  BY <1>6, <2>1, <2>2, <2>4, <2>6 DEF FormInv
<1> QED  BY <1>1, <1>7, <1>8, <1>9 DEF Receipt, new, Clicks

\* What the customer does without a call.
LEMMA PageKeeps ==
  ASSUME FormInv, ToReview \/ Back \/ CloseDialog \/ StartOver \/ Leave  PROVE FormInv'
<1>0. reviews \in Nat /\ MaxReview \in Nat /\ reviews <= MaxReview /\ review \in 0..reviews
  BY FormAssumption DEF FormInv, FormTypeOK, FormAssumption
<1>1. CASE ToReview
  <2>1. FormTypeOK'  BY <1>0, <1>1 DEF FormInv, FormTypeOK, ToReview, None
  <2>2. KeysNameReviews'
    <3>1. 1..reviews \subseteq 1..reviews'  BY <1>0, <1>1 DEF ToReview
    <3> QED  BY <1>1, <3>1 DEF FormInv, KeysNameReviews, ToReview
  <2>3. AnsweredIsPaid'  BY <1>1 DEF FormInv, AnsweredIsPaid, ToReview
  <2>4. OneUnderWay'
    <3>1. ASSUME ~form.double, form.kind # "request", NEW c \in Click,
                 click[c].here, click[c].at \notin {"idle", "over"}
          PROVE  FALSE
      <4>1. review = click[c].review  BY <3>1 DEF FormInv, OneUnderWay
      <4>2. click[c].review \in 1..reviews  BY <3>1 DEF FormInv, KeysNameReviews
      <4> QED  BY <1>0, <1>1, <4>1, <4>2 DEF ToReview, None
    <3> QED  BY <1>1, <3>1 DEF OneUnderWay, ToReview
  <2>5. PaidAsReviewed'  BY <1>1 DEF FormInv, PaidAsReviewed, ToReview
  <2> QED  BY <2>1, <2>2, <2>3, <2>4, <2>5 DEF FormInv
<1>2. CASE Back
  <2>1. FormTypeOK'  BY <1>0, <1>2 DEF FormInv, FormTypeOK, Back, None
  <2>2. KeysNameReviews'  BY <1>2 DEF FormInv, KeysNameReviews, Back
  <2>3. AnsweredIsPaid'  BY <1>2 DEF FormInv, AnsweredIsPaid, Back
  <2>4. OneUnderWay'
    <3>1. ASSUME ~form.double, form.kind # "request", NEW c \in Click,
                 click[c].here, click[c].at \notin {"idle", "over"}
          PROVE  FALSE
      <4>1. watched = c  BY <3>1 DEF FormInv, OneUnderWay
      <4>2. c # None  BY FormAssumption DEF FormAssumption, None
      <4>3. click[c].at \in {"sent", "paid", "refused", "cut", "refreshing"}
        BY <3>1 DEF FormInv, FormTypeOK, Clicks
      <4> QED  BY <1>2, <4>1, <4>2, <4>3 DEF Back, UnderWay
    <3> QED  BY <1>2, <3>1 DEF OneUnderWay, Back
  <2>5. PaidAsReviewed'  BY <1>2 DEF FormInv, PaidAsReviewed, Back
  <2> QED  BY <2>1, <2>2, <2>3, <2>4, <2>5 DEF FormInv
<1>3. CASE CloseDialog
  <2>1. FormTypeOK'  BY <1>0, <1>3 DEF FormInv, FormTypeOK, CloseDialog, None
  <2> QED
    BY <1>3, <2>1
    DEF FormInv, KeysNameReviews, AnsweredIsPaid, OneUnderWay, PaidAsReviewed, CloseDialog
<1>4. CASE StartOver
  <2>1. FormTypeOK'  BY <1>0, <1>4 DEF FormInv, FormTypeOK, StartOver, None
  <2> QED
    BY <1>4, <2>1
    DEF FormInv, KeysNameReviews, AnsweredIsPaid, OneUnderWay, PaidAsReviewed, StartOver
<1>5. CASE Leave
  <2>1. /\ \A c \in Click : /\ click'[c].review = click[c].review
                            /\ click'[c].key = click[c].key
                            /\ click'[c].at = click[c].at /\ ~click'[c].here
        /\ click' \in [Click -> Clicks]
    BY <1>5 DEF FormInv, FormTypeOK, Clicks, Leave
  <2>2. review' = None /\ receipt' = {} /\ watched' = None /\ UNCHANGED <<form, reviews, paid, cut>>
    BY <1>5 DEF Leave
  <2>3. FormTypeOK'  BY <1>0, <2>1, <2>2 DEF FormInv, FormTypeOK, None
  <2>4. KeysNameReviews'  BY <2>1, <2>2 DEF FormInv, KeysNameReviews
  <2>5. AnsweredIsPaid'  BY <2>1, <2>2 DEF FormInv, AnsweredIsPaid
  <2>6. OneUnderWay'  BY <2>1 DEF OneUnderWay
  <2>7. PaidAsReviewed'  BY <2>2 DEF FormInv, PaidAsReviewed
  <2> QED  BY <2>3, <2>4, <2>5, <2>6, <2>7 DEF FormInv
<1> QED  BY <1>1, <1>2, <1>3, <1>4, <1>5

LEMMA FormStarts == FormIdle => FormInv
<1> SUFFICES ASSUME FormIdle PROVE FormInv  OBVIOUS
<1>1. /\ form \in Form /\ reviews = 0 /\ review = 0 /\ watched = 0 /\ receipt = {}
      /\ click = [c \in Click |-> NoClick] /\ paid = {} /\ cut = 0
  BY DEF FormIdle, None
<1>2. \A c \in Click : click[c].at = "idle"  BY <1>1 DEF NoClick
<1>3. NoClick \in Clicks  BY FormAssumption DEF FormAssumption, NoClick, Clicks, None
<1>4. FormTypeOK
  BY <1>1, <1>3, FormAssumption DEF FormTypeOK, FormAssumption, None
<1> QED
  BY <1>1, <1>2, <1>4
  DEF FormInv, KeysNameReviews, AnsweredIsPaid, OneUnderWay, PaidAsReviewed

LEMMA FormKeeps == FormInv /\ [FormNext]_formVars => FormInv'
<1> SUFFICES ASSUME FormInv, [FormNext]_formVars PROVE FormInv'  OBVIOUS
<1>0. cut \in 0..MaxCut /\ MaxCut \in Nat
  BY FormAssumption DEF FormInv, FormTypeOK, FormAssumption
<1>1. ASSUME NEW c \in Click, Refuses(c)  PROVE FormInv'
  BY <1>0, <1>1, ClickGoes DEF Refuses
<1>2. ASSUME NEW c \in Click, CutOff(c)  PROVE FormInv'
  <2>1. cut' \in 0..MaxCut  BY <1>0, <1>2 DEF CutOff
  <2> QED  BY <1>2, <2>1, ClickGoes DEF CutOff
<1>3. ASSUME NEW c \in Click, Refreshes(c)  PROVE FormInv'
  <2>1. \E p \in paid : p.key = click[c].key
    BY <1>3 DEF FormInv, AnsweredIsPaid, Refreshes
  <2> QED  BY <1>0, <1>3, <2>1, ClickGoes DEF Refreshes
<1>4. ASSUME NEW c \in Click, ShowsWhy(c)  PROVE FormInv'
  BY <1>0, <1>4, ClickGoes DEF ShowsWhy
<1>5. CASE UNCHANGED formVars
  BY <1>5
  DEF formVars, FormInv, FormTypeOK, KeysNameReviews, AnsweredIsPaid, OneUnderWay, PaidAsReviewed
<1> QED
  BY <1>1, <1>2, <1>3, <1>4, <1>5, PageKeeps, ConfirmKeeps, PaysKeeps, ReceiptKeeps DEF FormNext

-----------------------------------------------------------------------------
(* The queries of the cache.                                               *)

\* A query keeps what it holds while it is asked, marked, put or aged, and how.
LEMMA AskedShape ==
  ASSUME NEW data, NoData \in data, NEW q \in QueryOf(data), NEW r \in BOOLEAN
  PROVE  LET a == Asked(q, r)
         IN  /\ a \in QueryOf(data) /\ a.fetch = "sent" /\ ~a.behind /\ a.answer = NoData
             /\ a.held = q.held /\ a.old = q.old /\ a.failed = q.failed /\ a.raced = q.raced
             /\ a.again = r
BY DEF Asked, QueryOf

LEMMA AgedShape ==
  ASSUME NEW data, NEW q \in QueryOf(data)
  PROVE  LET a == Aged(q)
         IN  /\ a \in QueryOf(data) /\ a.old = Has(q) /\ a.held = q.held /\ a.fetch = q.fetch
             /\ a.answer = q.answer /\ a.behind = q.behind /\ a.failed = q.failed
             /\ a.raced = q.raced /\ a.again = q.again
BY DEF Aged, QueryOf, Has

LEMMA OpenedShape ==
  ASSUME NEW data, NoData \in data, NEW q \in QueryOf(data), NEW r \in BOOLEAN
  PROVE  LET o == Opened(q, r)
         IN  /\ o \in QueryOf(data) /\ o.held = q.held /\ o.old = q.old
             /\ o.failed = q.failed /\ o.raced = q.raced
             /\ \/ o = q /\ ~(Idle(q) /\ (~Has(q) \/ q.old))
                \/ /\ Idle(q) /\ (~Has(q) \/ q.old)
                   /\ o.fetch = "sent" /\ ~o.behind /\ o.answer = NoData
<1>1. CASE Idle(q) /\ (~Has(q) \/ q.old)
  <2>1. Opened(q, r) = Asked(q, r)  BY <1>1 DEF Opened
  <2> QED  BY <1>1, <2>1 DEF Asked, QueryOf
<1>2. CASE ~(Idle(q) /\ (~Has(q) \/ q.old))
  <2>1. Opened(q, r) = q  BY <1>2 DEF Opened
  <2> QED  BY <1>2, <2>1
<1> QED  BY <1>1, <1>2

LEMMA MarkedShape ==
  ASSUME NEW data, NoData \in data, NEW q \in QueryOf(data), NEW on \in BOOLEAN, NEW r \in BOOLEAN
  PROVE  LET m == Marked(q, on, r)
         IN  /\ m \in QueryOf(data) /\ m.held = q.held /\ m.old = Has(q)
             /\ m.failed = q.failed /\ m.raced = q.raced
             /\ \/ /\ on /\ (Idle(q) \/ Has(q))
                   /\ m.fetch = "sent" /\ ~m.behind /\ m.answer = NoData
                \/ /\ ~(on /\ (Idle(q) \/ Has(q)))
                   /\ m.fetch = q.fetch /\ m.behind = ~Idle(q) /\ m.answer = q.answer
<1> DEFINE old == [q EXCEPT !.old = Has(q)]
<1>1. /\ old \in QueryOf(data) /\ old.held = q.held /\ old.old = Has(q) /\ old.fetch = q.fetch
      /\ old.failed = q.failed /\ old.raced = q.raced /\ old.answer = q.answer
  BY DEF QueryOf, Has
<1>2. Marked(q, on, r) = IF on /\ (Idle(q) \/ Has(q)) THEN Asked(old, r)
                         ELSE [old EXCEPT !.behind = ~Idle(q)]
  BY DEF Marked
<1> HIDE DEF old
<1>3. CASE on /\ (Idle(q) \/ Has(q))
  <2>1. Marked(q, on, r) = Asked(old, r)  BY <1>2, <1>3
  <2> QED  BY ZenonT(60), <1>1, <1>3, <2>1 DEF Asked, QueryOf
<1>4. CASE ~(on /\ (Idle(q) \/ Has(q)))
  <2> DEFINE m == [old EXCEPT !.behind = ~Idle(q)]
  <2>1. Marked(q, on, r) = m  BY <1>2, <1>4
  <2>2. /\ m \in QueryOf(data) /\ m.held = old.held /\ m.old = old.old /\ m.fetch = old.fetch
        /\ m.failed = old.failed /\ m.raced = old.raced /\ m.answer = old.answer
        /\ m.behind = ~Idle(q)
    BY <1>1 DEF QueryOf, Idle
  <2> HIDE DEF m
  <2> QED  BY <1>1, <1>4, <2>1, <2>2
<1> QED  BY <1>3, <1>4

LEMMA PutShape ==
  ASSUME NEW data, NEW q \in QueryOf(data), NEW new \in data, NEW late \in BOOLEAN
  PROVE  LET p == Put(q, new, late)
         IN  /\ p \in QueryOf(data) /\ p.held = new /\ ~p.old /\ ~p.failed /\ p.raced = late
             /\ p.behind = ~Idle(q) /\ p.fetch = q.fetch /\ p.answer = q.answer
BY DEF Put, QueryOf, Idle

LEMMA AnsweredShape ==
  ASSUME NEW data, NEW q \in QueryOf(data), NEW new \in data
  PROVE  LET a == Answered(q, new)
         IN  /\ a \in QueryOf(data) /\ a.fetch = "answered" /\ a.answer = new /\ a.held = q.held
             /\ a.old = q.old /\ a.behind = q.behind /\ a.failed = q.failed /\ a.raced = q.raced
BY DEF Answered, QueryOf

LEMMA LandedShape ==
  ASSUME NEW data, NoData \in data, NEW q \in QueryOf(data)
  PROVE  LET l == Landed(q)
         IN  /\ l \in QueryOf(data) /\ l.fetch = "none" /\ l.answer = NoData /\ l.held = q.answer
             /\ ~l.old /\ ~l.behind /\ ~l.failed /\ l.raced = q.behind
BY DEF Landed, Empty, QueryOf

LEMMA FailedShape ==
  ASSUME NEW data, NoData \in data, NEW q \in QueryOf(data)
  PROVE  LET f == Failed(q)
         IN  /\ f \in QueryOf(data) /\ f.held = q.held /\ f.answer = NoData /\ f.raced = q.raced
             /\ \/ /\ q.again /\ f.fetch = "sent" /\ f.behind = q.behind
                   /\ f.old = q.old /\ f.failed = q.failed
                \/ /\ ~q.again /\ f.fetch = "none" /\ ~f.behind /\ f.failed /\ f.old = Has(q)
<1>1. CASE q.again
  <2> DEFINE a == Asked(q, FALSE)
             f == [a EXCEPT !.behind = q.behind]
  <2>1. Failed(q) = f  BY <1>1 DEF Failed
  <2>2. /\ a \in QueryOf(data) /\ a.fetch = "sent" /\ a.answer = NoData /\ a.held = q.held
        /\ a.old = q.old /\ a.failed = q.failed /\ a.raced = q.raced
    BY AskedShape
  <2> HIDE DEF a
  <2>3. /\ f \in QueryOf(data) /\ f.fetch = a.fetch /\ f.answer = a.answer /\ f.held = a.held
        /\ f.old = a.old /\ f.failed = a.failed /\ f.raced = a.raced /\ f.behind = q.behind
    BY <2>2 DEF QueryOf
  <2> HIDE DEF f
  <2> QED  BY <1>1, <2>1, <2>2, <2>3
<1>2. CASE ~q.again
  <2> DEFINE f == [q EXCEPT !.fetch = "none", !.answer = NoData, !.behind = FALSE,
                            !.failed = TRUE, !.old = Has(q)]
  <2>1. Failed(q) = f  BY <1>2 DEF Failed
  <2>2. /\ f \in QueryOf(data) /\ f.fetch = "none" /\ f.answer = NoData /\ f.held = q.held
        /\ ~f.behind /\ f.failed /\ f.raced = q.raced /\ f.old = Has(q)
    BY DEF QueryOf, Has
  <2> HIDE DEF f
  <2> QED  BY <1>2, <2>1, <2>2
<1> QED  BY <1>1, <1>2
-----------------------------------------------------------------------------
(* Customers who share a browser.                                          *)

MeData == Person \cup {NoData, Nobody}
MineData == Person \cup {NoData}

LEMMA SessionTypes ==
  ASSUME SessionTypeOK
  PROVE  /\ me \in QueryOf(MeData) /\ me.held # NoData /\ NoData \in MeData
         /\ mine \in QueryOf(MineData) /\ NoData \in MineData
         /\ me.held \in Person \cup {Nobody} /\ mine.held \in Person \cup {NoData}
         /\ me.fetch \in {"none", "sent", "answered"} /\ mine.fetch \in {"none", "sent", "answered"}
         /\ me.raced \in BOOLEAN /\ me.behind \in BOOLEAN /\ mine.raced \in BOOLEAN
         /\ mine.behind \in BOOLEAN /\ mine.old \in BOOLEAN /\ mine.failed \in BOOLEAN
         /\ User = me.held
BY DEF SessionTypeOK, MeData, MineData, QueryOf, Has, User

\* A token is one person's.
LEMMA IsOfOne ==
  ASSUME TokensAreTheirs, NEW t, NEW p, NEW q, IsOf(t, p), IsOf(t, q)  PROVE p = q
BY DEF TokensAreTheirs, IsOf, NoCookie

LEMMA IsOfNobody ==
  ASSUME TokensAreTheirs, NEW p  PROVE IsOf(NoCookie, p) <=> p = Nobody
BY DEF TokensAreTheirs, IsOf, NoCookie

\* While the calls keep their tokens, tokens are whose they were.
LEMMA IsOfKept ==
  ASSUME \A s \in Sign : /\ sign'[s].token = sign[s].token
                         /\ sign[s].token # NoCookie => sign'[s].who = sign[s].who
  PROVE  \A t, p : IsOf(t, p)' <=> IsOf(t, p)
BY DEF IsOf

PageVars == <<screen, me, mine, sentWith>>

\* A step of a call and of the server leaves what the page has as right as it was.
LEMMA CallsKeep ==
  ASSUME SessionInv, SessionTypeOK', UNCHANGED <<PageVars, cookie>>,
         \A t, p : IsOf(t, p) => IsOf(t, p)',
         \A t \in 0..issued : \A p : IsOf(t, p)' => IsOf(t, p),
         \A p : Right(p) => Right(p)', Right(owner[cookie])',
         \A s \in Sign : sign'[s].kind = "out" /\ sign'[s].at = "failed" => stayed'
  PROVE  MeIsRight' /\ MineIsMine'
<1>1. MeIsRight'  BY DEF SessionInv, MeIsRight, PageVars, Idle
<1>2. \A p : Mine(p) => Mine(p)'  BY DEF Mine, PageVars
<1>3. sentWith.mine \in 0..issued  BY DEF SessionInv, SessionTypeOK
<1>4. MineIsMine'  BY <1>2, <1>3 DEF SessionInv, MineIsMine, PageVars, Idle, Has, Shown, UserIn
<1> QED  BY <1>1, <1>4

\* A call is sent.
LEMMA SendsKeeps ==
  ASSUME SessionInv, NEW s \in Sign, NEW kind \in {"in", "out", "end"}, NEW who \in Person \cup {Nobody},
         kind = "in" <=> who \in Person, Sends(s, kind, who)
  PROVE  SessionInv'
<1> DEFINE new == [kind |-> kind, who |-> who, at |-> "sent", with |-> cookie, token |-> NoCookie]
<1>1. /\ sign[s] = NoSign /\ sign' = [sign EXCEPT ![s] = new]
      /\ UNCHANGED <<screen, cookie, owner, issued, me, mine, sentWith, missed, stayed>>
  BY DEF Sends
<1>2. /\ new.kind = kind /\ new.who = who /\ new.at = "sent" /\ new.with = cookie
      /\ new.token = NoCookie
  OBVIOUS
<1>3. /\ sign[s].token = NoCookie /\ sign[s].at = "idle" /\ sign[s].kind = "none"
  BY <1>1 DEF NoSign
<1>4. 0..issued \subseteq Token /\ issued \in Nat
  BY SessionAssumption, FS_CardinalityType DEF SessionInv, SessionTypeOK, SessionAssumption, Token, NoCookie
<1>5. new \in Signs
  <2>1. cookie \in Token /\ NoCookie \in Token  BY <1>4 DEF SessionInv, SessionTypeOK, NoCookie
  <2> QED  BY <2>1 DEF Signs
<1> HIDE DEF new
<1>6. /\ \A r \in Sign : r # s => sign'[r] = sign[r]
      /\ sign'[s] = new /\ sign' \in [Sign -> Signs]
  BY <1>1, <1>5 DEF SessionInv, SessionTypeOK
<1>7. SessionTypeOK'  BY <1>1, <1>6 DEF SessionInv, SessionTypeOK
<1>8. \A t, p : IsOf(t, p)' <=> IsOf(t, p)  BY <1>2, <1>3, <1>6, IsOfKept
<1>9. \A p : Right(p) => Right(p)'
  BY <1>1, <1>3, <1>6, <1>8 DEF Right, Ending
<1>10. TokensAreTheirs'
  <2>1. \A r \in Sign : sign'[r].token = sign[r].token
    BY <1>2, <1>3, <1>6
  <2>2. issued' = 1 + Cardinality({r \in Sign : sign'[r].token # NoCookie})
    <3>1. {r \in Sign : sign'[r].token # NoCookie} = {r \in Sign : sign[r].token # NoCookie}
      BY <2>1
    <3> QED  BY <1>1, <3>1 DEF SessionInv, TokensAreTheirs
  <2>3. \A r \in Sign : sign[r].with \in 0..issued  BY DEF SessionInv, TokensAreTheirs
  <2>4. cookie \in 0..issued  BY DEF SessionInv, SessionTypeOK
  <2>5. \A r \in Sign : sign[r].kind = "in" /\ sign[r].at = "handled" => sign[r].token # cookie
    BY DEF SessionInv, TokensAreTheirs
  <2>6. \A r \in Sign :
          /\ sign'[r].token # NoCookie =>
               /\ sign'[r].kind = "in" /\ sign'[r].at \in {"handled", "failed", "over"}
               /\ sign'[r].token \in 2..issued
          /\ sign'[r].kind = "in" <=> sign'[r].who \in Person
          /\ sign'[r].kind = "none" => sign'[r].at = "idle"
          /\ sign'[r].with \in 0..issued
    BY <1>2, <1>6, <2>3, <2>4 DEF SessionInv, TokensAreTheirs
  <2>7. \A r \in Sign : sign'[r].kind = "in" /\ sign'[r].at = "handled" =>
          /\ sign'[r].token \notin {NoCookie, cookie}
          /\ owner[sign'[r].token] = sign'[r].who
          /\ \A q \in Sign : sign'[q].with # sign'[r].token
    BY <1>2, <1>6, <2>5 DEF SessionInv, TokensAreTheirs
  <2>8. \A r, q \in Sign : sign'[r].token = sign'[q].token /\ sign'[r].token # NoCookie => r = q
    BY <2>1 DEF SessionInv, TokensAreTheirs
  <2>9. \A t \in Token : owner[t] # Nobody => IsOf(t, owner[t])'
    BY <1>1, <1>8 DEF SessionInv, TokensAreTheirs
  <2> QED  BY <1>1, <2>2, <2>6, <2>7, <2>8, <2>9 DEF TokensAreTheirs
<1>11. Right(owner[cookie])'  BY <1>1, <1>9 DEF SessionInv, MeIsRight
<1>12. \A r \in Sign : sign'[r].kind = "out" /\ sign'[r].at = "failed" => stayed'
  BY <1>1, <1>2, <1>6 DEF SessionInv, MeIsRight
<1>13. MeIsRight' /\ MineIsMine'
  BY <1>1, <1>7, <1>8, <1>9, <1>11, <1>12, CallsKeep DEF PageVars
<1> QED  BY <1>7, <1>10, <1>13 DEF SessionInv
\* The server handles a call: a session more, or one that is over.
LEMMA HandledKeeps ==
  ASSUME SessionInv, NEW s \in Sign, Handled(s)  PROVE SessionInv'
<1>0. /\ sign[s].at = "sent" /\ sign[s] \in Signs /\ sign[s].token = NoCookie
      /\ sign[s].with \in 0..issued /\ sign[s].with \in Token
      /\ cookie \in 0..issued /\ issued \in Nat
      /\ UNCHANGED <<screen, cookie, me, mine, sentWith, missed, stayed>>
  BY SMTT(60), SessionAssumption, FS_CardinalityType
  DEF SessionInv, SessionTypeOK, TokensAreTheirs, Handled, Signs, SessionAssumption, Token, NoCookie
<1> DEFINE held == {r \in Sign : sign[r].token # NoCookie}
<1>n. PICK n : n = issued + 1  OBVIOUS
<1>1. CASE sign[s].kind = "in"
  <2>1. /\ issued' = n /\ owner' = [owner EXCEPT ![n] = sign[s].who]
        /\ sign' = [sign EXCEPT ![s].at = "handled", ![s].token = n]
    BY <1>1, <1>n DEF Handled
  <2>2. n \in Token
    <3>1. IsFiniteSet(Sign) /\ held \subseteq Sign /\ s \notin held
      BY <1>0, SessionAssumption DEF SessionAssumption
    <3>2. IsFiniteSet(held) /\ Cardinality(held) \in Nat /\ Cardinality(Sign) \in Nat
      BY <3>1, FS_Subset, FS_CardinalityType
    <3>3. Cardinality(held \cup {s}) = Cardinality(held) + 1
      BY <3>1, <3>2, FS_AddElement
    <3>4. Cardinality(held \cup {s}) <= Cardinality(Sign)
      <4>1. held \cup {s} \subseteq Sign  BY <3>1
      <4> QED  BY <3>1, <4>1, FS_Subset
    <3>5. issued = 1 + Cardinality(held)  BY DEF SessionInv, TokensAreTheirs
    <3> HIDE DEF held
    <3> QED  BY <1>n, <3>2, <3>3, <3>4, <3>5 DEF Token
  <2>n. n # NoCookie
    BY <1>0, <1>n DEF NoCookie
  <2>4. /\ \A r \in Sign : r # s => sign'[r] = sign[r]
        /\ sign'[s].kind = "in" /\ sign'[s].at = "handled" /\ sign'[s].token = n
        /\ sign'[s].who = sign[s].who /\ sign'[s].with = sign[s].with
        /\ sign' \in [Sign -> Signs]
    <3> DEFINE f == [sign EXCEPT ![s].at = "handled"]
    <3>1. /\ f \in [Sign -> Signs] /\ \A r \in Sign : r # s => f[r] = sign[r]
          /\ f[s].kind = "in" /\ f[s].at = "handled" /\ f[s].who = sign[s].who
          /\ f[s].with = sign[s].with
      BY <1>1 DEF SessionInv, SessionTypeOK, Signs
    <3>2. sign' = [f EXCEPT ![s].token = n]  BY <2>1
    <3> HIDE DEF f
    <3> QED  BY <2>2, <3>1, <3>2 DEF Signs
  <2>3. issued' = 1 + Cardinality({r \in Sign : sign'[r].token # NoCookie})
    <3>1. {r \in Sign : sign'[r].token # NoCookie} = held \cup {s}
      BY <1>0, <2>4, <2>n DEF NoCookie
    <3>2. IsFiniteSet(held) /\ s \notin held
      <4>1. held \subseteq Sign  OBVIOUS
      <4> QED  BY <1>0, <4>1, FS_Subset, SessionAssumption DEF SessionAssumption
    <3>3. Cardinality(held \cup {s}) = Cardinality(held) + 1 /\ Cardinality(held) \in Nat
      BY <3>2, FS_AddElement, FS_CardinalityType
    <3>4. issued = 1 + Cardinality(held)  BY DEF SessionInv, TokensAreTheirs
    <3>5. Cardinality({r \in Sign : sign'[r].token # NoCookie}) = Cardinality(held \cup {s})
      BY <3>1
    <3> HIDE DEF held
    <3> QED  BY <1>n, <2>1, <3>3, <3>4, <3>5
  <2> HIDE DEF held
  <2>5. /\ n \notin 0..issued /\ n \notin {NoCookie, 1} /\ n \in 2..n /\ 0..issued \subseteq 0..n
        /\ 2..issued \subseteq 2..n /\ 0..issued \subseteq Token
    <3>1. issued \in Nat /\ issued >= 1 /\ n = issued + 1
      BY <1>0, <1>n DEF SessionInv, SessionTypeOK, NoCookie
    <3>2. n <= Cardinality(Sign) + 1 /\ Cardinality(Sign) \in Nat
      BY <2>2, SessionAssumption, FS_CardinalityType DEF Token, SessionAssumption
    <3> QED  BY <3>1, <3>2 DEF NoCookie, Token
  <2>6. /\ \A t \in Token : t # n => owner'[t] = owner[t]
        /\ owner'[n] = sign[s].who /\ owner' \in [Token -> Person \cup {Nobody}]
    BY <1>0, <2>1, <2>2 DEF SessionInv, SessionTypeOK, Signs
  <2>7. SessionTypeOK'
    BY <1>0, <2>1, <2>2, <2>4, <2>5, <2>6 DEF SessionInv, SessionTypeOK
  <2>8. \A t, p : IsOf(t, p) => IsOf(t, p)'
    BY <1>0, <2>4 DEF IsOf
  <2>9. \A t \in 0..issued : \A p : IsOf(t, p)' => IsOf(t, p)
    BY <2>4, <2>5 DEF IsOf
  <2>10. \A p : Right(p) => Right(p)'
    BY <1>0, <1>1, <2>4, <2>8 DEF Right, Ending
  <2>11. \A r \in Sign : sign[r].token # n /\ sign[r].with # n
    BY <2>5 DEF SessionInv, TokensAreTheirs, NoCookie
  <2>12. TokensAreTheirs'
    <3>1. \A r \in Sign :
            /\ sign'[r].token # NoCookie =>
                 /\ sign'[r].kind = "in" /\ sign'[r].at \in {"handled", "failed", "over"}
                 /\ sign'[r].token \in 2..n
            /\ sign'[r].kind = "in" <=> sign'[r].who \in Person
            /\ sign'[r].kind = "none" => sign'[r].at = "idle"
            /\ sign'[r].with \in 0..n
      BY <1>1, <2>4, <2>5 DEF SessionInv, TokensAreTheirs
    <3>2. \A q \in Sign : sign'[q].with = sign[q].with  BY <2>4
    <3>3. \A r \in Sign : sign'[r].kind = "in" /\ sign'[r].at = "handled" =>
            /\ sign'[r].token \notin {NoCookie, cookie}
            /\ owner'[sign'[r].token] = sign'[r].who
            /\ \A q \in Sign : sign'[q].with # sign'[r].token
      <4>1. ASSUME NEW r \in Sign, r # s, sign'[r].kind = "in", sign'[r].at = "handled"
            PROVE  /\ sign[r].token \notin {NoCookie, cookie} /\ sign[r].token \in Token
                   /\ owner[sign[r].token] = sign[r].who /\ sign[r].token # n
                   /\ \A q \in Sign : sign[q].with # sign[r].token
        BY <2>4, <2>11, <4>1 DEF SessionInv, TokensAreTheirs, SessionTypeOK, Signs
      <4>2. cookie # n  BY <1>0, <2>5
      <4>3. ASSUME NEW r \in Sign, r # s, sign'[r].kind = "in", sign'[r].at = "handled"
            PROVE  /\ sign'[r].token \notin {NoCookie, cookie}
                   /\ owner'[sign'[r].token] = sign'[r].who
                   /\ \A q \in Sign : sign'[q].with # sign'[r].token
        <5>1. sign'[r] = sign[r]  BY <2>4, <4>3
        <5> QED  BY <2>6, <3>2, <4>1, <4>3, <5>1
      <4>4. /\ sign'[s].token \notin {NoCookie, cookie}
            /\ owner'[sign'[s].token] = sign'[s].who
            /\ \A q \in Sign : sign'[q].with # sign'[s].token
        BY <2>4, <2>5, <2>6, <2>11, <3>2, <4>2
      <4> QED  BY <4>3, <4>4
    <3>4. \A r, q \in Sign : sign'[r].token = sign'[q].token /\ sign'[r].token # NoCookie => r = q
      BY <2>4, <2>11 DEF SessionInv, TokensAreTheirs
    <3>5. \A t \in Token : owner'[t] # Nobody => IsOf(t, owner[t])'
      <4>1. SUFFICES ASSUME NEW t \in Token, owner'[t] # Nobody  PROVE IsOf(t, owner[t])'
        OBVIOUS
      <4>2. PICK p : p = owner'[t]  OBVIOUS
      <4>3. CASE t = n
        <5>1. sign'[s].token = t /\ sign'[s].who = p /\ t # NoCookie
          BY <2>4, <2>5, <2>6, <4>2, <4>3
        <5> QED  BY <4>2, <5>1 DEF IsOf
      <4>4. CASE t # n
        <5>1. p = owner[t] /\ p # Nobody  BY <2>6, <4>1, <4>2, <4>4
        <5>2. IsOf(t, p)'  BY <2>8, <5>1 DEF SessionInv, TokensAreTheirs
        <5> QED  BY <4>2, <5>2 DEF IsOf
      <4> QED  BY <4>3, <4>4
    <3> QED  BY <1>0, <2>1, <2>3, <3>1, <3>3, <3>4, <3>5 DEF TokensAreTheirs
  <2>13. Right(owner[cookie])'
    <3>1. owner'[cookie] = owner[cookie]  BY <1>0, <2>5, <2>6
    <3>2. PICK p : p = owner[cookie]  OBVIOUS
    <3>3. Right(p)  BY <3>2 DEF SessionInv, MeIsRight
    <3>4. Right(p)'  BY <2>10, <3>3
    <3> QED  BY <1>0, <3>1, <3>2, <3>4
  <2>14. \A r \in Sign : sign'[r].kind = "out" /\ sign'[r].at = "failed" => stayed'
    BY <1>0, <2>4 DEF SessionInv, MeIsRight
  <2>15. MeIsRight' /\ MineIsMine'
    BY <1>0, <2>7, <2>8, <2>9, <2>10, <2>13, <2>14, CallsKeep DEF PageVars
  <2> QED  BY <2>7, <2>12, <2>15 DEF SessionInv
<1>2. CASE sign[s].kind # "in"
  <2> DEFINE at == IF sign[s].kind = "end" /\ owner[sign[s].with] = Nobody THEN "failed" ELSE "handled"
  <2>0. sign[s].kind # "none"  BY <1>0 DEF SessionInv, TokensAreTheirs
  <2>1. /\ owner' = [owner EXCEPT ![sign[s].with] = Nobody] /\ issued' = issued
        /\ sign' = [sign EXCEPT ![s].at = at]
    BY <1>2 DEF Handled
  <2>2. at \in {"failed", "handled"} /\ (at = "failed" => sign[s].kind = "end" /\ owner[sign[s].with] = Nobody)
    OBVIOUS
  <2> HIDE DEF at
  <2>3. /\ \A r \in Sign : r # s => sign'[r] = sign[r]
        /\ sign'[s].kind = sign[s].kind /\ sign'[s].at = at /\ sign'[s].token = NoCookie
        /\ sign'[s].who = sign[s].who /\ sign'[s].with = sign[s].with
        /\ sign' \in [Sign -> Signs]
    BY <1>0, <2>1, <2>2 DEF SessionInv, SessionTypeOK, Signs
  <2>4. /\ \A t \in Token : t # sign[s].with => owner'[t] = owner[t]
        /\ owner'[sign[s].with] = Nobody /\ owner' \in [Token -> Person \cup {Nobody}]
    BY <1>0, <2>1 DEF SessionInv, SessionTypeOK
  <2>5. SessionTypeOK'
    BY <1>0, <2>1, <2>3, <2>4 DEF SessionInv, SessionTypeOK
  <2>6. \A r \in Sign : sign'[r].token = sign[r].token /\ sign'[r].who = sign[r].who
                        /\ sign'[r].with = sign[r].with /\ sign'[r].kind = sign[r].kind
    BY <1>0, <2>3
  <2>7. \A t, p : IsOf(t, p)' <=> IsOf(t, p)  BY <2>6, IsOfKept
  <2>8. \A p : Right(p) => Right(p)'
    BY <1>0, <2>3, <2>7 DEF Right, Ending
  <2>9. TokensAreTheirs'
    <3>1. issued' = 1 + Cardinality({r \in Sign : sign'[r].token # NoCookie})
      <4>1. {r \in Sign : sign'[r].token # NoCookie} = held  BY <2>6
      <4> QED  BY <2>1, <4>1 DEF SessionInv, TokensAreTheirs
    <3> HIDE DEF held
    <3>2. \A r \in Sign :
            /\ sign'[r].token # NoCookie =>
                 /\ sign'[r].kind = "in" /\ sign'[r].at \in {"handled", "failed", "over"}
                 /\ sign'[r].token \in 2..issued
            /\ sign'[r].kind = "in" <=> sign'[r].who \in Person
            /\ sign'[r].kind = "none" => sign'[r].at = "idle"
            /\ sign'[r].with \in 0..issued
      BY <1>0, <2>3, <2>6 DEF SessionInv, TokensAreTheirs
    <3>3. ASSUME NEW r \in Sign, sign'[r].kind = "in", sign'[r].at = "handled"
          PROVE  /\ sign'[r].token \notin {NoCookie, cookie}
                 /\ owner'[sign'[r].token] = sign'[r].who
                 /\ \A q \in Sign : sign'[q].with # sign'[r].token
      <4>1. sign[r].kind = "in" /\ sign'[r] = sign[r]  BY <1>2, <2>3, <3>3
      <4>2. /\ sign[r].token \notin {NoCookie, cookie} /\ sign[r].token \in Token
            /\ owner[sign[r].token] = sign[r].who
            /\ \A q \in Sign : sign[q].with # sign[r].token
        BY <3>3, <4>1 DEF SessionInv, TokensAreTheirs, SessionTypeOK, Signs
      <4> QED  BY <2>4, <2>6, <4>1, <4>2
    <3>4. \A r, q \in Sign : sign'[r].token = sign'[q].token /\ sign'[r].token # NoCookie => r = q
      BY <2>6 DEF SessionInv, TokensAreTheirs
    <3>5. \A t \in Token : owner'[t] # Nobody => IsOf(t, owner[t])'
      <4>1. SUFFICES ASSUME NEW t \in Token, owner'[t] # Nobody  PROVE IsOf(t, owner[t])'
        OBVIOUS
      <4>2. PICK p : p = owner'[t]  OBVIOUS
      <4>3. p = owner[t] /\ p # Nobody  BY <2>4, <4>1, <4>2
      <4>4. IsOf(t, p)'  BY <2>7, <4>3 DEF SessionInv, TokensAreTheirs
      <4> QED  BY <4>2, <4>4 DEF IsOf
    <3> QED  BY <1>0, <2>1, <3>1, <3>2, <3>3, <3>4, <3>5 DEF TokensAreTheirs
  <2>10. Right(owner[cookie])'
    <3>0. cookie \in Token
      BY <1>0, SessionAssumption, FS_CardinalityType
      DEF SessionInv, SessionTypeOK, SessionAssumption, Token
    <3>1. CASE owner'[cookie] = owner[cookie]
      <4>1. PICK p : p = owner[cookie]  OBVIOUS
      <4>2. Right(p)'  BY <2>8, <4>1 DEF SessionInv, MeIsRight
      <4> QED  BY <1>0, <3>1, <4>1, <4>2
    <3>2. CASE cookie = sign[s].with /\ at = "handled"
      <4>1. owner'[cookie'] = Nobody  BY <1>0, <2>4, <3>2
      <4>2. sign[s].kind \in {"out", "end"}
        BY <1>0, <1>2, <2>0 DEF Signs
      <4>3. Ending'  BY <1>0, <2>3, <3>2, <4>2 DEF Ending
      <4> QED  BY <4>1, <4>3 DEF Right
    <3>3. CASE cookie = sign[s].with /\ at = "failed"
      <4>1. owner'[cookie] = owner[cookie]  BY <2>2, <2>4, <3>3
      <4> QED  BY <3>1, <4>1
    <3> QED  BY <2>2, <2>4, <3>0, <3>1, <3>2, <3>3
  <2>11. \A r \in Sign : sign'[r].kind = "out" /\ sign'[r].at = "failed" => stayed'
    BY <1>0, <2>2, <2>3 DEF SessionInv, MeIsRight
  <2>12. MeIsRight' /\ MineIsMine'
    BY <1>0, <2>1, <2>5, <2>7, <2>8, <2>10, <2>11, CallsKeep DEF PageVars
  <2> QED  BY <2>5, <2>9, <2>12 DEF SessionInv
<1> QED  BY <1>1, <1>2
\* A call that goes on to its next place keeps what it asked for and its token.
LEMMA AtChanges ==
  ASSUME SessionInv, NEW s \in Sign, NEW at \in {"failed", "over"}, sign[s].at # "idle",
         sign' = [sign EXCEPT ![s].at = at], UNCHANGED <<owner, issued>>,
         cookie' \in {cookie, NoCookie, sign[s].token}
  PROVE  /\ sign' \in [Sign -> Signs] /\ \A r \in Sign : r # s => sign'[r] = sign[r]
         /\ sign'[s].at = at /\ sign'[s].kind = sign[s].kind /\ sign'[s].with = sign[s].with
         /\ \A t, p : IsOf(t, p)' <=> IsOf(t, p)
         /\ cookie' \in 0..issued /\ TokensAreTheirs'
<1>1. /\ sign' \in [Sign -> Signs] /\ \A r \in Sign : r # s => sign'[r] = sign[r]
      /\ sign'[s].at = at /\ sign'[s].kind = sign[s].kind /\ sign'[s].with = sign[s].with
      /\ sign'[s].token = sign[s].token /\ sign'[s].who = sign[s].who
  BY DEF SessionInv, SessionTypeOK, Signs
<1>2. \A r \in Sign : /\ sign'[r].token = sign[r].token /\ sign'[r].who = sign[r].who
                      /\ sign'[r].with = sign[r].with /\ sign'[r].kind = sign[r].kind
  BY <1>1
<1>3. \A t, p : IsOf(t, p)' <=> IsOf(t, p)  BY <1>2, IsOfKept
<1>4. issued' = 1 + Cardinality({r \in Sign : sign'[r].token # NoCookie})
  <2>1. {r \in Sign : sign'[r].token # NoCookie} = {r \in Sign : sign[r].token # NoCookie}
    BY <1>2
  <2> QED  BY <2>1 DEF SessionInv, TokensAreTheirs
<1>5. \A r \in Sign :
        /\ sign'[r].token # NoCookie =>
             /\ sign'[r].kind = "in" /\ sign'[r].at \in {"handled", "failed", "over"}
             /\ sign'[r].token \in 2..issued
        /\ sign'[r].kind = "in" <=> sign'[r].who \in Person
        /\ sign'[r].kind = "none" => sign'[r].at = "idle"
        /\ sign'[r].with \in 0..issued
  BY <1>1, <1>2 DEF SessionInv, TokensAreTheirs
<1>6. \A r, q \in Sign : sign'[r].token = sign'[q].token /\ sign'[r].token # NoCookie => r = q
  BY <1>2 DEF SessionInv, TokensAreTheirs
<1>7. ASSUME NEW r \in Sign, sign'[r].kind = "in", sign'[r].at = "handled"
      PROVE  /\ sign'[r].token \notin {NoCookie, cookie'}
             /\ owner[sign'[r].token] = sign'[r].who
             /\ \A q \in Sign : sign'[q].with # sign'[r].token
  <2>1. r # s /\ sign'[r] = sign[r]  BY <1>1, <1>7
  <2>2. sign[r].token \notin {NoCookie, cookie}  BY <1>7, <2>1 DEF SessionInv, TokensAreTheirs
  <2>3. sign[r].token # sign[s].token  BY <2>1, <2>2 DEF SessionInv, TokensAreTheirs
  <2> QED  BY <1>2, <1>7, <2>1, <2>2, <2>3 DEF SessionInv, TokensAreTheirs
<1>8. \A t \in Token : owner[t] # Nobody => IsOf(t, owner[t])'
  <2>1. SUFFICES ASSUME NEW t \in Token, owner[t] # Nobody  PROVE IsOf(t, owner[t])'
    OBVIOUS
  <2>2. PICK p : p = owner[t]  OBVIOUS
  <2>3. IsOf(t, p)'  BY <1>3, <2>1, <2>2 DEF SessionInv, TokensAreTheirs
  <2> QED  BY <2>2, <2>3 DEF IsOf
<1>9. TokensAreTheirs'  BY <1>4, <1>5, <1>6, <1>7, <1>8 DEF TokensAreTheirs
<1>10. cookie' \in 0..issued
  <2>1. issued \in Nat /\ NoCookie \in 0..issued
    BY SessionAssumption, FS_CardinalityType
    DEF SessionInv, SessionTypeOK, Token, NoCookie, SessionAssumption
  <2>2. sign[s].token \in 0..issued  BY <2>1 DEF SessionInv, TokensAreTheirs
  <2> QED  BY <2>1, <2>2 DEF SessionInv, SessionTypeOK
<1> QED  BY <1>1, <1>3, <1>9, <1>10

\* A call is lost either way.
LEMMA NotReachedKeeps ==
  ASSUME SessionInv, NEW s \in Sign, NotReached(s)  PROVE SessionInv'
<1>1. /\ sign[s].at \in {"sent", "handled"} /\ missed < MaxMissed /\ missed' = missed + 1
      /\ stayed' = (stayed \/ sign[s].kind = "out" \/ (sign[s].kind = "end" /\ sign[s].at = "handled"))
      /\ sign' = [sign EXCEPT ![s].at = "failed"]
      /\ UNCHANGED <<screen, cookie, owner, issued, me, mine, sentWith>>
  BY DEF NotReached
<1>2. /\ sign' \in [Sign -> Signs] /\ \A r \in Sign : r # s => sign'[r] = sign[r]
      /\ sign'[s].at = "failed" /\ sign'[s].kind = sign[s].kind /\ sign'[s].with = sign[s].with
      /\ \A t, p : IsOf(t, p)' <=> IsOf(t, p)
      /\ TokensAreTheirs'
  <2>1. sign[s].at # "idle" /\ cookie' = cookie  BY <1>1
  <2> QED  BY <1>1, <2>1, AtChanges
<1>3. SessionTypeOK'
  <2>1. missed' \in 0..MaxMissed  BY <1>1, SessionAssumption DEF SessionInv, SessionTypeOK, SessionAssumption
  <2>2. stayed' \in BOOLEAN  BY <1>1 DEF SessionInv, SessionTypeOK
  <2> QED  BY <1>1, <1>2, <2>1, <2>2 DEF SessionInv, SessionTypeOK
<1>4. Ending => Ending'  BY <1>1, <1>2 DEF Ending
<1>5. \A p : Right(p) => Right(p)'  BY <1>1, <1>2, <1>4 DEF Right
<1>6. Right(owner[cookie])'  BY <1>1, <1>5 DEF SessionInv, MeIsRight
<1>7. \A r \in Sign : sign'[r].kind = "out" /\ sign'[r].at = "failed" => stayed'
  BY <1>1, <1>2 DEF SessionInv, MeIsRight
<1>8. MeIsRight' /\ MineIsMine'
  BY <1>1, <1>2, <1>3, <1>5, <1>6, <1>7, CallsKeep DEF PageVars
<1> QED  BY <1>2, <1>3, <1>8 DEF SessionInv

\* A call that failed is over.
LEMMA FailsKeeps ==
  ASSUME SessionInv, NEW s \in Sign, Fails(s)  PROVE SessionInv'
<1>1. /\ sign[s].kind \in {"in", "end"} /\ sign[s].at = "failed"
      /\ sign' = [sign EXCEPT ![s].at = "over"]
      /\ UNCHANGED <<screen, cookie, owner, issued, me, mine, sentWith, missed, stayed>>
  BY DEF Fails
<1>2. /\ sign' \in [Sign -> Signs] /\ \A r \in Sign : r # s => sign'[r] = sign[r]
      /\ sign'[s].at = "over" /\ sign'[s].kind = sign[s].kind /\ sign'[s].with = sign[s].with
      /\ \A t, p : IsOf(t, p)' <=> IsOf(t, p)
      /\ TokensAreTheirs'
  <2>1. sign[s].at # "idle" /\ cookie' = cookie  BY <1>1
  <2> QED  BY <1>1, <2>1, AtChanges
<1>3. SessionTypeOK'  BY <1>1, <1>2 DEF SessionInv, SessionTypeOK
<1>4. Ending => Ending'  BY <1>1, <1>2 DEF Ending
<1>5. \A p : Right(p) => Right(p)'  BY <1>1, <1>2, <1>4 DEF Right
<1>6. Right(owner[cookie])'  BY <1>1, <1>5 DEF SessionInv, MeIsRight
<1>7. \A r \in Sign : sign'[r].kind = "out" /\ sign'[r].at = "failed" => stayed'
  BY <1>1, <1>2 DEF SessionInv, MeIsRight
<1>8. MeIsRight' /\ MineIsMine'
  BY <1>1, <1>2, <1>3, <1>5, <1>6, <1>7, CallsKeep DEF PageVars
<1> QED  BY <1>2, <1>3, <1>8 DEF SessionInv
\* The server knows nobody without a cookie.
LEMMA NobodyWithoutACookie ==
  ASSUME SessionInv  PROVE owner[NoCookie] = Nobody
<1>1. NoCookie \in Token
  BY SessionAssumption, FS_CardinalityType DEF Token, NoCookie, SessionAssumption
<1>2. owner[NoCookie] # Nobody => IsOf(NoCookie, owner[NoCookie])
  BY <1>1 DEF SessionInv, TokensAreTheirs
<1> QED  BY <1>2, IsOfNobody DEF SessionInv

\* The account is set where no page shows what is asked for somebody.
LEMMA SetAccountKeeps ==
  ASSUME SessionInv, NEW who \in Person \cup {Nobody}, NEW scr, scr = "other" \/ who = Nobody,
         SetAccount(who, scr, cookie'), screen' = scr, UNCHANGED <<owner, issued>>,
         cookie' \in 0..issued, \A t, p : IsOf(t, p)' <=> IsOf(t, p),
         Right(who)', Right(owner[cookie])',
         \A s \in Sign : sign'[s].kind = "out" /\ sign'[s].at = "failed" => stayed'
  PROVE  /\ me' \in QueryOf(MeData) /\ Has(me)' /\ mine' \in QueryOf(MineData)
         /\ sentWith' \in [me : 0..issued, mine : 0..issued]
         /\ MeIsRight' /\ MineIsMine'
<1> DEFINE onScreen == Shown(screen, me)
           m == Marked(mine, onScreen, TRUE)
<1>1. /\ me \in QueryOf(MeData) /\ mine \in QueryOf(MineData) /\ who \in MeData /\ who # NoData
      /\ NoData \in MineData /\ me.fetch \in {"none", "sent", "answered"}
      /\ mine.fetch \in {"none", "sent", "answered"}
  BY SessionTypes DEF SessionInv, MeData, NoData, Nobody, Person
<1>2. me' = Put(me, who, FALSE)  BY DEF SetAccount
<1>3. /\ me' \in QueryOf(MeData) /\ me'.held = who /\ ~me'.raced
      /\ me'.behind = ~Idle(me) /\ me'.fetch = me.fetch /\ me'.answer = me.answer
  <2>1. PICK late \in BOOLEAN : late = FALSE  OBVIOUS
  <2>2. me' = Put(me, who, late)  BY <1>2, <2>1
  <2>3. /\ me' \in QueryOf(MeData) /\ me'.held = who /\ me'.raced = late
        /\ me'.behind = ~Idle(me) /\ me'.fetch = me.fetch /\ me'.answer = me.answer
    BY <1>1, <2>2, PutShape
  <2> QED  BY <2>1, <2>3
<1>4. ~Shown(scr, me')  BY <1>3 DEF Shown, UserIn
<1>5. onScreen \in BOOLEAN  BY DEF Shown
<1>6. /\ m \in QueryOf(MineData) /\ m.held = mine.held /\ m.old = Has(mine)
      /\ m.failed = mine.failed /\ m.raced = mine.raced
      /\ \/ /\ onScreen /\ (Idle(mine) \/ Has(mine))
            /\ m.fetch = "sent" /\ ~m.behind /\ m.answer = NoData
         \/ /\ ~(onScreen /\ (Idle(mine) \/ Has(mine)))
            /\ m.fetch = mine.fetch /\ m.behind = ~Idle(mine) /\ m.answer = mine.answer
  BY <1>1, <1>5, MarkedShape
<1>7. Opens(scr, me', m, onScreen /\ Has(mine), cookie')  BY DEF SetAccount
<1> HIDE DEF m, onScreen
<1>8. /\ mine' = m
      /\ sentWith' = [me |-> sentWith.me,
                      mine |-> IF m.fetch = "sent" /\ ((onScreen /\ Has(mine)) \/ mine.fetch # "sent")
                               THEN cookie' ELSE sentWith.mine]
  <2>1. sentWith' = [me |-> IF me'.fetch = "sent" /\ me.fetch # "sent" THEN cookie' ELSE sentWith.me,
                     mine |-> IF m.fetch = "sent" /\ ((onScreen /\ Has(mine)) \/ mine.fetch # "sent")
                              THEN cookie' ELSE sentWith.mine]
        /\ mine' = m
    BY <1>4, <1>7 DEF Opens
  <2>2. ~(me'.fetch = "sent" /\ me.fetch # "sent")  BY <1>3
  <2> QED  BY <2>1, <2>2
<1>9. sentWith' \in [me : 0..issued, mine : 0..issued]
  BY <1>8 DEF SessionInv, SessionTypeOK
<1>10. Has(me)'  BY <1>1, <1>3 DEF Has
<1>11. MeIsRight'
  <2>1. Right(me.held)'
    <3>1. me'.held = who  BY <1>3
    <3> QED  BY <3>1 DEF Right, IsOf, Ending
  <2>2. ~(~Idle(me) /\ ~me.behind)'  BY <1>3 DEF Idle
  <2>3. (me.fetch = "answered" => me.answer # NoData)'
    BY <1>3 DEF SessionInv, MeIsRight
  <2>4. me.fetch' = "answered" => me.behind'  BY <1>3 DEF Idle
  <2> QED  BY <2>1, <2>2, <2>3, <2>4 DEF MeIsRight
<1>12. MineIsMine'
  <2>1. ASSUME ~Idle(mine)', ~mine'.behind  PROVE sentWith'.mine = cookie' /\ mine'.fetch = "sent"
    <3>1. onScreen /\ (Idle(mine) \/ Has(mine)) /\ m.fetch = "sent"
      BY <1>6, <1>8, <2>1 DEF Idle
    <3>2. Has(mine) \/ mine.fetch # "sent"  BY <3>1 DEF Idle
    <3> QED  BY <1>8, <3>1, <3>2
  <2>2. ASSUME ~Idle(mine)', ~mine'.behind, NEW p \in Person, IsOf(sentWith.mine, p)'
        PROVE  Mine(p)'
    <3>1. sentWith'.mine = cookie'  BY <2>1, <2>2
    <3>2. IsOf(cookie, p)'  BY <2>2, <3>1 DEF IsOf
    <3> QED  BY <3>2 DEF Mine
  <2>3. (mine.fetch = "answered" => mine.answer # NoData)'
    BY <1>6, <1>8 DEF SessionInv, MineIsMine
  <2>4. ~(mine.fetch = "answered" /\ ~mine.behind)'
    <3>1. mine'.fetch = "answered" => ~Idle(mine)'  BY DEF Idle
    <3> QED  BY <2>1, <3>1
  <2>5. ~(Has(mine) /\ ~mine.old)'  BY <1>6, <1>8 DEF Has
  <2>6. ~Shown(screen, me)'  BY <1>3 DEF Shown, UserIn
  <2> QED  BY <2>2, <2>3, <2>4, <2>5, <2>6 DEF MineIsMine
<1> QED  BY <1>3, <1>6, <1>8, <1>9, <1>10, <1>11, <1>12

\* Somebody has signed in.
LEMMA LandsInKeeps ==
  ASSUME SessionInv, NEW s \in Sign, LandsIn(s)  PROVE SessionInv'
<1>1. /\ sign[s].kind = "in" /\ sign[s].at = "handled" /\ cookie' = sign[s].token /\ screen' = "other"
      /\ SetAccount(sign[s].who, "other", cookie') /\ sign' = [sign EXCEPT ![s].at = "over"]
      /\ UNCHANGED <<owner, issued, missed, stayed>>
  BY DEF LandsIn
<1>2. /\ sign' \in [Sign -> Signs] /\ \A r \in Sign : r # s => sign'[r] = sign[r]
      /\ sign'[s].at = "over" /\ \A t, p : IsOf(t, p)' <=> IsOf(t, p)
      /\ cookie' \in 0..issued /\ TokensAreTheirs'
  BY <1>1, AtChanges
<1>3. /\ sign[s].who \in Person /\ sign[s].token # NoCookie /\ owner[sign[s].token] = sign[s].who
  BY <1>1 DEF SessionInv, TokensAreTheirs
<1>4. PICK who \in Person : who = sign[s].who  BY <1>3
<1>5. IsOf(sign[s].token, who)  BY <1>3, <1>4 DEF IsOf
<1>6. IsOf(cookie, who)'
  <2>1. PICK t : t = cookie'  OBVIOUS
  <2>2. IsOf(t, who)'  BY <1>1, <1>2, <1>5, <2>1
  <2> QED  BY <2>1, <2>2 DEF IsOf
<1>7. Right(who)'  BY <1>6 DEF Right
<1>8. owner'[cookie'] = who  BY <1>1, <1>3, <1>4
<1>9. Right(owner[cookie])'  BY <1>7, <1>8 DEF Right, IsOf, Ending
<1>10. \A r \in Sign : sign'[r].kind = "out" /\ sign'[r].at = "failed" => stayed'
  BY <1>1, <1>2 DEF SessionInv, MeIsRight
<1>11. /\ me' \in QueryOf(MeData) /\ Has(me)' /\ mine' \in QueryOf(MineData)
       /\ sentWith' \in [me : 0..issued, mine : 0..issued]
       /\ MeIsRight' /\ MineIsMine'
  BY <1>1, <1>2, <1>4, <1>7, <1>9, <1>10, SetAccountKeeps
<1>12. SessionTypeOK'
  BY <1>1, <1>2, <1>11 DEF SessionInv, SessionTypeOK, MeData, MineData
<1> QED  BY <1>2, <1>11, <1>12 DEF SessionInv

\* Somebody has signed out, or could not.
LEMMA LandsOutKeeps ==
  ASSUME SessionInv, NEW s \in Sign, LandsOut(s)  PROVE SessionInv'
<1>1. /\ sign[s].kind = "out" /\ sign[s].at \in {"handled", "failed"}
      /\ cookie' = IF sign[s].at = "handled" THEN NoCookie ELSE cookie
      /\ SetAccount(Nobody, screen, cookie') /\ sign' = [sign EXCEPT ![s].at = "over"]
      /\ UNCHANGED <<screen, owner, issued, missed, stayed>>
  BY DEF LandsOut
<1>2. /\ sign' \in [Sign -> Signs] /\ \A r \in Sign : r # s => sign'[r] = sign[r]
      /\ sign'[s].at = "over" /\ \A t, p : IsOf(t, p)' <=> IsOf(t, p)
      /\ cookie' \in 0..issued /\ TokensAreTheirs'
  BY <1>1, AtChanges
<1>3. Right(Nobody)' /\ Right(owner[cookie])'
  <2>1. CASE sign[s].at = "handled"
    <3>1. cookie' = NoCookie /\ owner'[cookie'] = Nobody  BY <1>1, <2>1, NobodyWithoutACookie
    <3>2. Right(Nobody)'  BY <3>1 DEF Right, IsOf
    <3> QED  BY <3>1, <3>2 DEF Right, IsOf, Ending
  <2>2. CASE sign[s].at = "failed"
    <3>1. cookie' = cookie /\ stayed'  BY <1>1, <2>2 DEF SessionInv, MeIsRight
    <3>2. PICK p : p = owner[cookie]  OBVIOUS
    <3>3. IsOf(cookie, p) \/ p = Nobody  BY <3>2 DEF SessionInv, MeIsRight, Right
    <3>4. IsOf(cookie, p)' \/ p = Nobody
      <4>1. PICK t : t = cookie  OBVIOUS
      <4>2. IsOf(t, p)' \/ p = Nobody  BY <1>2, <3>3, <4>1
      <4> QED  BY <3>1, <4>1, <4>2 DEF IsOf
    <3>5. Right(p)' /\ Right(Nobody)'  BY <3>1, <3>4 DEF Right, Ending
    <3>6. owner'[cookie'] = p  BY <1>1, <3>1, <3>2
    <3> QED  BY <3>5, <3>6 DEF Right, IsOf, Ending
  <2> QED  BY <1>1, <2>1, <2>2
<1>4. \A r \in Sign : sign'[r].kind = "out" /\ sign'[r].at = "failed" => stayed'
  BY <1>1, <1>2 DEF SessionInv, MeIsRight
<1>5. PICK scr : scr = screen  OBVIOUS
<1>6. /\ me' \in QueryOf(MeData) /\ Has(me)' /\ mine' \in QueryOf(MineData)
      /\ sentWith' \in [me : 0..issued, mine : 0..issued]
      /\ MeIsRight' /\ MineIsMine'
  BY <1>1, <1>2, <1>3, <1>4, <1>5, SetAccountKeeps
<1>7. SessionTypeOK'
  BY <1>1, <1>2, <1>6 DEF SessionInv, SessionTypeOK, MeData, MineData
<1> QED  BY <1>2, <1>6, <1>7 DEF SessionInv

\* The session of the device in hand is over.
LEMMA LandsEndKeeps ==
  ASSUME SessionInv, NEW s \in Sign, LandsEnd(s)  PROVE SessionInv'
<1>1. /\ sign[s].kind = "end" /\ sign[s].at = "handled" /\ cookie' = NoCookie
      /\ me' = Marked(me, TRUE, FALSE) /\ sentWith' = [sentWith EXCEPT !.me = NoCookie]
      /\ sign' = [sign EXCEPT ![s].at = "over"]
      /\ UNCHANGED <<screen, owner, issued, mine, missed, stayed>>
  BY DEF LandsEnd
<1>2. /\ sign' \in [Sign -> Signs] /\ \A r \in Sign : r # s => sign'[r] = sign[r]
      /\ sign'[s].at = "over" /\ \A t, p : IsOf(t, p)' <=> IsOf(t, p)
      /\ cookie' \in 0..issued /\ TokensAreTheirs'
  BY <1>1, AtChanges
<1>3. /\ me \in QueryOf(MeData) /\ NoData \in MeData /\ Has(me)
  BY SessionTypes DEF SessionInv, SessionTypeOK
<1>4. /\ me' \in QueryOf(MeData) /\ me'.held = me.held /\ me'.raced = me.raced
      /\ me'.fetch = "sent" /\ ~me'.behind /\ me'.answer = NoData
  BY <1>1, <1>3, MarkedShape
<1>5. sentWith'.me = NoCookie /\ sentWith'.mine = sentWith.mine
      /\ sentWith' \in [me : 0..issued, mine : 0..issued]
  BY <1>1, <1>2 DEF SessionInv, SessionTypeOK
<1>6. Has(me)'  BY <1>3, <1>4 DEF Has
<1>7. SessionTypeOK'
  BY <1>1, <1>2, <1>4, <1>5, <1>6 DEF SessionInv, SessionTypeOK, MeData
<1>8. MeIsRight'
  <2>1. owner'[cookie'] = Nobody  BY <1>1, NobodyWithoutACookie
  <2>2. Right(owner[cookie])'  BY <1>1, <2>1 DEF Right, IsOf
  <2>3. \A r \in Sign : sign'[r].kind = "out" /\ sign'[r].at = "failed" => stayed'
    BY <1>1, <1>2 DEF SessionInv, MeIsRight
  <2> QED  BY <1>1, <1>4, <1>5, <2>2, <2>3 DEF MeIsRight, Idle
<1>9. ASSUME NEW p, Mine(p)  PROVE Mine(p)'
  <2>1. CASE cookie = NoCookie /\ (me.raced \/ me.held \in {Nobody, p})
    BY <1>1, <1>4, <2>1 DEF Mine
  <2>2. CASE IsOf(cookie, p) /\ me.raced
    BY <1>1, <1>4, <2>2 DEF Mine
  <2>3. CASE IsOf(cookie, p) /\ Right(me.held)
    <3>1. me.held = p \/ me.held = Nobody  BY <2>3, IsOfOne DEF SessionInv, Right
    <3> QED  BY <1>1, <1>4, <3>1 DEF Mine
  <2>4. CASE IsOf(cookie, p) /\ cookie = NoCookie
    <3>1. p = Nobody  BY <2>4, IsOfNobody DEF SessionInv
    <3> QED  BY <1>1, <3>1 DEF Mine, IsOf
  <2> QED  BY <1>9, <2>1, <2>2, <2>3, <2>4 DEF Mine, SessionInv, MeIsRight
<1>10. MineIsMine'
  <2>1. ASSUME ~Idle(mine), ~mine.behind, NEW p \in Person, IsOf(sentWith.mine, p)'
        PROVE  Mine(p)'
    <3>1. PICK t : t = sentWith.mine  OBVIOUS
    <3>2. IsOf(t, p)'  BY <1>5, <2>1, <3>1 DEF IsOf
    <3>3. Mine(p)  BY <1>2, <2>1, <3>1, <3>2 DEF SessionInv, MineIsMine
    <3> QED  BY <1>9, <3>3
  <2>2. ASSUME NEW p, Mine(p), p = mine.answer  PROVE Mine(mine.answer)'
    BY <1>1, <1>9, <2>2 DEF Mine, IsOf
  <2>3. ASSUME NEW p, Mine(p), p = mine.held  PROVE Mine(mine.held)'
    BY <1>1, <1>9, <2>3 DEF Mine, IsOf
  <2>4. Shown(screen, me)' <=> Shown(screen, me)  BY <1>1, <1>3, <1>4, <1>6 DEF Shown, UserIn
  <2> QED  BY <1>1, <2>1, <2>2, <2>3, <2>4 DEF SessionInv, MineIsMine, Idle, Has
<1> QED  BY <1>2, <1>7, <1>8, <1>10 DEF SessionInv
\* What another page or another user brings on screen is asked with the cookie of now.
LEMMA OpensKeep ==
  ASSUME SessionInv, NEW scr, NEW q \in QueryOf(MineData), me' \in QueryOf(MeData),
         q.fetch = mine.fetch, q.behind = mine.behind, q.held = mine.held,
         q.answer = mine.answer, q.raced = mine.raced, q.failed = mine.failed,
         q = mine \/ (q.old = Has(mine) /\ scr # screen),
         Opens(scr, me', q, FALSE, cookie), screen' = scr,
         UNCHANGED <<cookie, owner, issued, sign>>,
         \A p : Mine(p) => Mine(p)'
  PROVE  /\ mine' \in QueryOf(MineData) /\ sentWith' \in [me : 0..issued, mine : 0..issued]
         /\ sentWith'.me = IF me'.fetch = "sent" /\ me.fetch # "sent" THEN cookie ELSE sentWith.me
         /\ MineIsMine'
<1> DEFINE cameUp == Shown(scr, me') /\ ~(Shown(screen, me) /\ scr = screen)
           opened == IF cameUp THEN Opened(q, TRUE) ELSE q
<1>1. /\ mine \in QueryOf(MineData) /\ NoData \in MineData /\ q.old \in BOOLEAN
      /\ mine.fetch \in {"none", "sent", "answered"} /\ mine.old \in BOOLEAN
  BY SessionTypes DEF SessionInv, QueryOf
<1>2. /\ mine' = opened
      /\ sentWith' = [me |-> IF me'.fetch = "sent" /\ me.fetch # "sent" THEN cookie ELSE sentWith.me,
                      mine |-> IF opened.fetch = "sent" /\ mine.fetch # "sent" THEN cookie
                               ELSE sentWith.mine]
  BY DEF Opens
<1>3. /\ opened \in QueryOf(MineData) /\ opened.held = q.held /\ opened.old = q.old
      /\ opened.failed = q.failed /\ opened.raced = q.raced
      /\ \/ opened = q /\ ~(cameUp /\ Idle(q) /\ (~Has(q) \/ q.old))
         \/ /\ cameUp /\ Idle(q)
            /\ opened.fetch = "sent" /\ ~opened.behind /\ opened.answer = NoData
  <2>1. CASE cameUp
    <3>1. PICK r \in BOOLEAN : r = TRUE  OBVIOUS
    <3>2. opened = Opened(q, r)  BY <2>1, <3>1
    <3> HIDE DEF opened, cameUp
    <3>3. /\ opened \in QueryOf(MineData) /\ opened.held = q.held /\ opened.old = q.old
          /\ opened.failed = q.failed /\ opened.raced = q.raced
          /\ \/ opened = q /\ ~(Idle(q) /\ (~Has(q) \/ q.old))
             \/ /\ Idle(q) /\ (~Has(q) \/ q.old)
                /\ opened.fetch = "sent" /\ ~opened.behind /\ opened.answer = NoData
      BY ZenonT(60), <1>1, <3>2, OpenedShape
    <3> QED  BY <2>1, <3>3
  <2>2. CASE ~cameUp
    <3>1. opened = q  BY <2>2
    <3> HIDE DEF opened, cameUp
    <3> QED  BY <2>2, <3>1
  <2> QED  BY <2>1, <2>2
<1>4. cookie \in 0..issued /\ sentWith \in [me : 0..issued, mine : 0..issued]
  BY DEF SessionInv, SessionTypeOK
<1>5. ~Shown(screen, me)' \/ cameUp \/ (Shown(screen, me) /\ scr = screen)
  <2>1. Shown(screen, me)' <=> Shown(scr, me')  BY DEF Shown, UserIn, Has
  <2> QED  BY <2>1
<1> HIDE DEF opened, cameUp
<1>6. sentWith' \in [me : 0..issued, mine : 0..issued]  BY <1>2, <1>4
<1>7. sentWith'.me = IF me'.fetch = "sent" /\ me.fetch # "sent" THEN cookie ELSE sentWith.me
  BY <1>2
<1>8. /\ \/ mine'.fetch = mine.fetch /\ mine'.behind = mine.behind /\ mine'.answer = mine.answer
            /\ sentWith'.mine = sentWith.mine
         \/ mine'.fetch = "sent" /\ sentWith'.mine = cookie /\ ~mine'.behind
      /\ mine'.held = mine.held /\ mine'.raced = mine.raced /\ mine'.failed = mine.failed
  <2>1. CASE opened = q  BY <1>2, <1>3, <2>1
  <2>2. CASE Idle(q) /\ opened.fetch = "sent" /\ ~opened.behind /\ opened.answer = NoData
    BY <1>2, <1>3, <2>2 DEF Idle
  <2> QED  BY <1>3, <2>1, <2>2
<1>9. \A t, p : IsOf(t, p)' <=> IsOf(t, p)  BY IsOfKept
<1>10. MineIsMine'
  <2>1. ASSUME ~Idle(mine)', ~mine'.behind, NEW p \in Person, IsOf(sentWith.mine, p)'
        PROVE  Mine(p)'
    <3>1. CASE sentWith'.mine = cookie
      <4>1. IsOf(cookie, p)'  BY <2>1, <3>1 DEF IsOf
      <4> QED  BY <4>1 DEF Mine
    <3>2. CASE mine'.fetch = mine.fetch /\ mine'.behind = mine.behind
               /\ sentWith'.mine = sentWith.mine
      <4>1. PICK t : t = sentWith.mine  OBVIOUS
      <4>2. IsOf(t, p)'  BY <2>1, <3>2, <4>1 DEF IsOf
      <4>3. Mine(p)  BY <1>9, <2>1, <3>2, <4>1, <4>2 DEF SessionInv, MineIsMine, Idle
      <4> QED  BY <4>3
    <3> QED  BY <1>8, <3>1, <3>2
  <2>2. (mine.fetch = "answered" => mine.answer # NoData)'
    BY <1>8 DEF SessionInv, MineIsMine
  <2>3. ASSUME mine'.fetch = "answered", ~mine'.behind  PROVE Mine(mine.answer)'
    <3>1. mine.fetch = "answered" /\ ~mine.behind /\ mine'.answer = mine.answer
      BY <1>8, <2>3
    <3>2. PICK p : p = mine.answer  OBVIOUS
    <3>3. Mine(p)'  BY <3>1, <3>2 DEF SessionInv, MineIsMine
    <3> QED  BY <3>1, <3>2, <3>3 DEF Mine, IsOf
  <2>4. ASSUME Has(mine)', ~mine'.old, ~mine'.raced, ~mine'.failed  PROVE Mine(mine.held)'
    <3>1. Has(mine) /\ ~mine.raced /\ ~mine.failed /\ mine'.held = mine.held
      BY <1>8, <2>4 DEF Has
    <3>2. ~mine.old  BY <1>2, <1>3, <2>4, <3>1
    <3>3. PICK p : p = mine.held  OBVIOUS
    <3>4. Mine(p)'  BY <3>1, <3>2, <3>3 DEF SessionInv, MineIsMine
    <3> QED  BY <3>1, <3>3, <3>4 DEF Mine, IsOf
  <2>5. ASSUME Shown(screen, me)', Idle(mine)', Has(mine)', mine'.old  PROVE mine'.failed
    <3>1. opened = q /\ ~(cameUp /\ Idle(q) /\ (~Has(q) \/ q.old))
      BY <1>2, <1>3, <2>5 DEF Idle
    <3>2. ~cameUp  BY <1>2, <2>5, <3>1 DEF Idle
    <3>3. Shown(screen, me) /\ q = mine  BY <1>5, <2>5, <3>2
    <3> QED  BY <1>2, <2>5, <3>1, <3>3 DEF SessionInv, MineIsMine, Idle, Has
  <2> QED  BY <2>1, <2>2, <2>3, <2>4, <2>5 DEF MineIsMine
<1> QED  BY <1>2, <1>3, <1>6, <1>7, <1>10

\* The look-up of who is signed in: a step of its own, or of a page that opens.
LEMMA LooksUpKeeps ==
  ASSUME SessionInv, UNCHANGED <<cookie, owner, issued, sign, stayed>>, me' \in QueryOf(MeData),
         me'.held = me.held, me'.raced = me.raced,
         \/ me'.fetch = me.fetch /\ me'.behind = me.behind /\ me'.answer = me.answer
            /\ sentWith'.me = sentWith.me
         \/ me'.fetch = "sent" /\ ~me'.behind /\ sentWith'.me = cookie
  PROVE  MeIsRight' /\ Has(me)' /\ \A p : Mine(p) => Mine(p)'
<1>1. \A t, p : IsOf(t, p)' <=> IsOf(t, p)  BY IsOfKept
<1>2. \A p : Right(p)' <=> Right(p)  BY <1>1 DEF Right, Ending, IsOf
<1>3. \A p : Mine(p) => Mine(p)'  BY <1>1 DEF Mine, IsOf
<1>4. Has(me)'  BY DEF SessionInv, SessionTypeOK, Has
<1>5. Right(owner[cookie])'
  <2>1. PICK p : p = owner[cookie]  OBVIOUS
  <2>2. Right(p)'  BY <1>2, <2>1 DEF SessionInv, MeIsRight
  <2> QED  BY <2>1, <2>2 DEF Right, IsOf, Ending
<1>6. ASSUME me'.fetch = "answered", ~me'.behind  PROVE Right(me.answer)'
  <2>1. PICK p : p = me.answer  OBVIOUS
  <2>2. me'.answer = p /\ Right(p)'  BY <1>2, <1>6, <2>1 DEF SessionInv, MeIsRight
  <2> QED  BY <2>2 DEF Right, IsOf, Ending
<1>7. me'.raced \/ Right(me.held)' \/ (cookie' = NoCookie /\ ~Idle(me)' /\ ~me'.behind)
  <2>1. CASE Right(me.held)
    <3>1. PICK p : p = me.held  OBVIOUS
    <3>2. Right(p)'  BY <1>2, <2>1, <3>1
    <3> QED  BY <3>1, <3>2 DEF Right, IsOf, Ending
  <2>2. CASE cookie = NoCookie /\ ~Idle(me) /\ ~me.behind
    BY <2>2 DEF Idle
  <2> QED  BY <2>1, <2>2 DEF SessionInv, MeIsRight
<1>8. /\ \A s \in Sign : sign'[s].kind = "out" /\ sign'[s].at = "failed" => stayed'
      /\ (~Idle(me) /\ ~me.behind => sentWith.me = cookie)'
      /\ (me.fetch = "answered" => me.answer # NoData)'
  BY DEF SessionInv, MeIsRight, Idle
<1> QED  BY <1>3, <1>4, <1>5, <1>6, <1>7, <1>8 DEF MeIsRight

\* Another page.
LEMMA GoesKeeps ==
  ASSUME SessionInv, NEW scr \in {"bank", "login", "other"}, Goes(scr)  PROVE SessionInv'
<1>1. PICK meAged \in BOOLEAN, mineAged \in BOOLEAN :
        /\ me' = Opened(IF meAged THEN Aged(me) ELSE me, FALSE)
        /\ Opens(scr, me', IF mineAged THEN Aged(mine) ELSE mine, FALSE, cookie)
  BY DEF Goes
<1>2. /\ scr # screen /\ screen' = scr /\ UNCHANGED <<cookie, owner, issued, sign, missed, stayed>>
  BY DEF Goes
<1>3. /\ me \in QueryOf(MeData) /\ NoData \in MeData /\ mine \in QueryOf(MineData)
  BY SessionTypes DEF SessionInv
<1> DEFINE a == IF meAged THEN Aged(me) ELSE me
           q == IF mineAged THEN Aged(mine) ELSE mine
<1>4. /\ a \in QueryOf(MeData) /\ a.held = me.held /\ a.fetch = me.fetch /\ a.behind = me.behind
      /\ a.answer = me.answer /\ a.raced = me.raced
  BY <1>3, AgedShape
<1>5. /\ q \in QueryOf(MineData) /\ q.fetch = mine.fetch /\ q.behind = mine.behind
      /\ q.held = mine.held /\ q.answer = mine.answer /\ q.raced = mine.raced
      /\ q.failed = mine.failed /\ (q = mine \/ q.old = Has(mine))
  BY <1>3, AgedShape
<1>6. me' = Opened(a, FALSE) /\ Opens(scr, me', q, FALSE, cookie)  BY <1>1
<1> HIDE DEF a, q
<1>7. /\ me' \in QueryOf(MeData) /\ me'.held = me.held /\ me'.raced = me.raced
      /\ \/ me' = a
         \/ me.fetch = "none" /\ me'.fetch = "sent" /\ ~me'.behind
  <2>1. PICK r \in BOOLEAN : r = FALSE  OBVIOUS
  <2>2. me' = Opened(a, r)  BY <1>6, <2>1
  <2>3. /\ me' \in QueryOf(MeData) /\ me'.held = a.held /\ me'.raced = a.raced
        /\ \/ me' = a
           \/ Idle(a) /\ me'.fetch = "sent" /\ ~me'.behind
    BY ZenonT(60), <1>3, <1>4, <2>2, OpenedShape
  <2> QED  BY <1>4, <2>3 DEF Idle
<1>8. sentWith'.me = IF me'.fetch = "sent" /\ me.fetch # "sent" THEN cookie ELSE sentWith.me
  BY <1>6 DEF Opens
<1>9. \/ me'.fetch = me.fetch /\ me'.behind = me.behind /\ me'.answer = me.answer
         /\ sentWith'.me = sentWith.me
      \/ me'.fetch = "sent" /\ ~me'.behind /\ sentWith'.me = cookie
  <2>1. CASE me' = a  BY <1>4, <1>8, <2>1
  <2>2. CASE me.fetch = "none" /\ me'.fetch = "sent" /\ ~me'.behind  BY <1>8, <2>2
  <2> QED  BY <1>7, <2>1, <2>2
<1>10. MeIsRight' /\ Has(me)' /\ \A p : Mine(p) => Mine(p)'
  BY <1>2, <1>7, <1>9, LooksUpKeeps
<1>11. /\ mine' \in QueryOf(MineData) /\ sentWith' \in [me : 0..issued, mine : 0..issued]
       /\ MineIsMine'
  BY <1>2, <1>5, <1>6, <1>7, <1>10, OpensKeep
<1>12. TokensAreTheirs'
  BY <1>2 DEF SessionInv, TokensAreTheirs, IsOf
<1>13. SessionTypeOK'
  BY <1>2, <1>7, <1>10, <1>11 DEF SessionInv, SessionTypeOK, MeData, MineData
<1> QED  BY <1>10, <1>11, <1>12, <1>13 DEF SessionInv
\* The server says who the cookie of the look-up is.
LEMMA AnswersMeKeeps ==
  ASSUME SessionInv, AnswersMe  PROVE SessionInv'
<1>1. /\ me.fetch = "sent" /\ me' = Answered(me, owner[sentWith.me])
      /\ UNCHANGED <<screen, cookie, owner, issued, mine, sentWith, sign, missed, stayed>>
  BY DEF AnswersMe
<1>2. /\ me \in QueryOf(MeData) /\ me.held # NoData /\ Has(me)
  BY SessionTypes DEF SessionInv, SessionTypeOK
<1>3. PICK who : who = owner[sentWith.me]  OBVIOUS
<1>4. who \in MeData /\ who # NoData
  <2>1. sentWith.me \in Token
    BY SessionAssumption, FS_CardinalityType
    DEF SessionInv, SessionTypeOK, SessionAssumption, Token, NoCookie
  <2> QED  BY <1>3, <2>1 DEF SessionInv, SessionTypeOK, MeData, NoData, Nobody, Person
<1>5. me' = Answered(me, who)  BY <1>1, <1>3
<1>6. /\ me' \in QueryOf(MeData) /\ me'.fetch = "answered" /\ me'.answer = who
      /\ me'.held = me.held /\ me'.old = me.old /\ me'.behind = me.behind
      /\ me'.failed = me.failed /\ me'.raced = me.raced
  BY <1>2, <1>4, <1>5, AnsweredShape
<1>7. \A t, p : IsOf(t, p)' <=> IsOf(t, p)  BY <1>1, IsOfKept
<1>8. \A p : Right(p)' <=> Right(p)  BY <1>1, <1>7 DEF Right, Ending, IsOf
<1>9. \A p : Mine(p) => Mine(p)'  BY <1>1, <1>6, <1>7 DEF Mine, IsOf
<1>10. Has(me)'  BY <1>2, <1>6 DEF Has
<1>11. TokensAreTheirs'  BY <1>1 DEF SessionInv, TokensAreTheirs, IsOf
<1>12. MeIsRight'
  <2>1. Right(owner[cookie])'
    <3>1. PICK p : p = owner[cookie]  OBVIOUS
    <3>2. Right(p)'  BY <1>8, <3>1 DEF SessionInv, MeIsRight
    <3> QED  BY <1>1, <3>1, <3>2 DEF Right, IsOf, Ending
  <2>2. ASSUME ~me'.behind  PROVE Right(me.answer)' /\ sentWith'.me = cookie'
    <3>1. sentWith.me = cookie  BY <1>1, <1>6, <2>2 DEF SessionInv, MeIsRight, Idle
    <3>2. Right(who)'  BY <1>3, <1>8, <3>1 DEF SessionInv, MeIsRight
    <3> QED  BY <1>1, <1>6, <3>1, <3>2 DEF Right, IsOf, Ending
  <2>3. me'.raced \/ Right(me.held)' \/ (cookie' = NoCookie /\ ~Idle(me)' /\ ~me'.behind)
    <3>1. CASE Right(me.held)
      <4>1. PICK p : p = me.held  OBVIOUS
      <4>2. Right(p)'  BY <1>8, <3>1, <4>1
      <4> QED  BY <1>6, <4>1, <4>2 DEF Right, IsOf, Ending
    <3>2. CASE cookie = NoCookie /\ ~Idle(me) /\ ~me.behind
      BY <1>1, <1>6, <3>2 DEF Idle
    <3> QED  BY <1>6, <3>1, <3>2 DEF SessionInv, MeIsRight
  <2>4. (me.fetch = "answered" => me.answer # NoData)'  BY <1>4, <1>6
  <2>5. \A s \in Sign : sign'[s].kind = "out" /\ sign'[s].at = "failed" => stayed'
    BY <1>1 DEF SessionInv, MeIsRight
  <2> QED  BY <2>1, <2>2, <2>3, <2>4, <2>5 DEF MeIsRight
<1>13. MineIsMine'
  <2>1. Shown(screen, me)' <=> Shown(screen, me)  BY <1>1, <1>2, <1>6, <1>10 DEF Shown, UserIn
  <2>2. \A p \in Person : IsOf(sentWith.mine, p)' => IsOf(sentWith.mine, p)  BY <1>1 DEF IsOf
  <2>3. Mine(mine.answer) => Mine(mine.answer)'
    <3>1. PICK p : p = mine.answer  OBVIOUS
    <3> QED  BY <1>1, <1>9, <3>1 DEF Mine, IsOf
  <2>4. Mine(mine.held) => Mine(mine.held)'
    <3>1. PICK p : p = mine.held  OBVIOUS
    <3> QED  BY <1>1, <1>9, <3>1 DEF Mine, IsOf
  <2> QED  BY <1>1, <1>9, <2>1, <2>2, <2>3, <2>4 DEF SessionInv, MineIsMine, Idle, Has
<1>14. SessionTypeOK'
  BY <1>1, <1>6, <1>10 DEF SessionInv, SessionTypeOK, MeData
<1> QED  BY <1>11, <1>12, <1>13, <1>14 DEF SessionInv

\* What the page has of who is signed in does not hang on mine.
LEMMA MineAlone ==
  ASSUME SessionInv,
         UNCHANGED <<screen, cookie, owner, issued, me, sentWith.me, sign, missed, stayed>>,
         mine' \in QueryOf(MineData), sentWith' \in [me : 0..issued, mine : 0..issued],
         MineIsMine'
  PROVE  SessionInv'
<1>1. SessionTypeOK'  BY DEF SessionInv, SessionTypeOK, MineData, Has
<1>2. TokensAreTheirs'  BY DEF SessionInv, TokensAreTheirs, IsOf
<1>3. MeIsRight'  BY DEF SessionInv, MeIsRight, Right, IsOf, Ending, Idle
<1> QED  BY <1>1, <1>2, <1>3 DEF SessionInv

\* The server answers with that person's data, or refuses.
LEMMA AnswersMineKeeps ==
  ASSUME SessionInv, AnswersMine  PROVE SessionInv'
<1>1. /\ mine.fetch = "sent"
      /\ UNCHANGED <<screen, cookie, owner, issued, me, sign, missed, stayed>>
  BY DEF AnswersMine
<1>2. /\ mine \in QueryOf(MineData) /\ NoData \in MineData
      /\ sentWith \in [me : 0..issued, mine : 0..issued] /\ cookie \in 0..issued
      /\ mine.old \in BOOLEAN /\ mine.failed \in BOOLEAN
  BY SessionTypes DEF SessionInv, SessionTypeOK
<1>3. \A t, p : IsOf(t, p)' <=> IsOf(t, p)  BY <1>1, IsOfKept
<1>4. \A p : Mine(p)' <=> Mine(p)  BY <1>1 DEF Mine, IsOf
<1>5. Shown(screen, me)' <=> Shown(screen, me)  BY <1>1 DEF Shown, UserIn, Has
<1>6. CASE owner[sentWith.mine] # Nobody
  <2>1. PICK p : p = owner[sentWith.mine]  OBVIOUS
  <2>2. sentWith.mine \in Token
    BY <1>2, SessionAssumption, FS_CardinalityType
    DEF SessionInv, SessionTypeOK, SessionAssumption, Token, NoCookie
  <2>3. p \in Person /\ p \in MineData /\ p # NoData /\ IsOf(sentWith.mine, p)
    BY <1>6, <2>1, <2>2
    DEF SessionInv, SessionTypeOK, TokensAreTheirs, MineData, Person, NoData
  <2>4. mine' = Answered(mine, p) /\ UNCHANGED sentWith  BY <1>6, <2>1 DEF AnswersMine
  <2>5. /\ mine' \in QueryOf(MineData) /\ mine'.fetch = "answered" /\ mine'.answer = p
        /\ mine'.held = mine.held /\ mine'.old = mine.old /\ mine'.behind = mine.behind
        /\ mine'.failed = mine.failed /\ mine'.raced = mine.raced
    BY <1>2, <2>3, <2>4, AnsweredShape
  <2>6. MineIsMine'
    <3>1. ASSUME ~mine'.behind, NEW r \in Person, IsOf(sentWith.mine, r)'  PROVE Mine(r)'
      <4>1. IsOf(sentWith.mine, r)  BY <1>1, <2>4, <3>1 DEF IsOf
      <4> QED  BY <1>1, <1>4, <2>5, <3>1, <4>1 DEF SessionInv, MineIsMine, Idle
    <3>2. ASSUME ~mine'.behind  PROVE Mine(mine.answer)'
      <4>1. Mine(p)  BY <1>1, <2>3, <2>5, <3>2 DEF SessionInv, MineIsMine, Idle
      <4>2. Mine(p)'  BY <1>4, <4>1
      <4> QED  BY <2>5, <4>2 DEF Mine, IsOf
    <3>3. ASSUME Has(mine)', ~mine'.old, ~mine'.raced, ~mine'.failed  PROVE Mine(mine.held)'
      <4>1. PICK r : r = mine.held  OBVIOUS
      <4>2. Mine(r)  BY <2>5, <3>3, <4>1 DEF SessionInv, MineIsMine, Has
      <4>3. Mine(r)'  BY <1>4, <4>2
      <4> QED  BY <2>5, <4>1, <4>3 DEF Mine, IsOf
    <3> QED  BY <2>3, <2>5, <3>1, <3>2, <3>3 DEF MineIsMine, Idle
  <2> QED  BY <1>1, <1>2, <2>4, <2>5, <2>6, MineAlone
<1>7. CASE owner[sentWith.mine] = Nobody
  <2>1. mine' = Failed(mine) /\ sentWith' = [sentWith EXCEPT !.mine = cookie]
    BY <1>7 DEF AnswersMine
  <2>2. /\ sentWith' \in [me : 0..issued, mine : 0..issued] /\ sentWith'.me = sentWith.me
        /\ sentWith'.mine = cookie
    BY <1>2, <2>1
  <2>3. /\ mine' \in QueryOf(MineData) /\ mine'.held = mine.held /\ mine'.answer = NoData
        /\ mine'.raced = mine.raced
        /\ \/ /\ mine'.fetch = "sent" /\ mine'.old = mine.old /\ mine'.failed = mine.failed
           \/ mine'.fetch = "none" /\ mine'.failed
    BY <1>2, <2>1, FailedShape
  <2>4. MineIsMine'
    <3>1. ASSUME NEW r \in Person, IsOf(sentWith.mine, r)'  PROVE Mine(r)'
      <4>1. IsOf(cookie, r)'  BY <1>1, <2>2, <3>1 DEF IsOf
      <4> QED  BY <4>1 DEF Mine
    <3>2. mine'.fetch # "answered"  BY <2>3
    <3>3. ASSUME Has(mine)', ~mine'.old, ~mine'.raced, ~mine'.failed  PROVE Mine(mine.held)'
      <4>1. PICK r : r = mine.held  OBVIOUS
      <4>2. ~mine.old /\ ~mine.raced /\ ~mine.failed /\ Has(mine)  BY <2>3, <3>3 DEF Has
      <4>3. Mine(r)'  BY <1>4, <4>1, <4>2 DEF SessionInv, MineIsMine
      <4> QED  BY <2>3, <4>1, <4>3 DEF Mine, IsOf
    <3>4. Idle(mine)' => mine'.failed  BY <2>3 DEF Idle
    <3> QED  BY <3>1, <3>2, <3>3, <3>4 DEF MineIsMine
  <2> QED  BY <1>1, <1>2, <2>2, <2>3, <2>4, MineAlone
<1> QED  BY <1>6, <1>7

\* The data lands.
LEMMA LandsMineKeeps ==
  ASSUME SessionInv, LandsMine  PROVE SessionInv'
<1>1. /\ mine.fetch = "answered" /\ mine' = Landed(mine)
      /\ UNCHANGED <<screen, cookie, owner, issued, me, sentWith, sign, missed, stayed>>
  BY DEF LandsMine
<1>2. /\ mine \in QueryOf(MineData) /\ NoData \in MineData /\ mine.behind \in BOOLEAN
      /\ sentWith \in [me : 0..issued, mine : 0..issued]
  BY SessionTypes DEF SessionInv, SessionTypeOK
<1>3. /\ mine' \in QueryOf(MineData) /\ mine'.fetch = "none" /\ mine'.held = mine.answer
      /\ ~mine'.old /\ mine'.raced = mine.behind
  BY <1>1, <1>2, LandedShape
<1>4. ASSUME ~mine'.raced  PROVE Mine(mine.held)'
  <2>1. PICK p : p = mine.answer  OBVIOUS
  <2>2. Mine(p)  BY <1>1, <1>3, <1>4, <2>1 DEF SessionInv, MineIsMine
  <2>3. Mine(p)'  BY <1>1, <2>2 DEF Mine, IsOf
  <2> QED  BY <1>3, <2>1, <2>3 DEF Mine, IsOf
<1>5. MineIsMine'  BY <1>3, <1>4 DEF MineIsMine, Idle
<1> QED  BY <1>1, <1>2, <1>3, <1>5, MineAlone

\* Who is signed in lands, and may bring mine on screen.
LEMMA LandsMeKeeps ==
  ASSUME SessionInv, LandsMe  PROVE SessionInv'
<1>1. /\ me.fetch = "answered" /\ me' = Landed(me) /\ Opens(screen, me', mine, FALSE, cookie)
      /\ UNCHANGED <<screen, cookie, owner, issued, sign, missed, stayed>>
  BY DEF LandsMe
<1>2. /\ me \in QueryOf(MeData) /\ NoData \in MeData /\ mine \in QueryOf(MineData)
      /\ me.behind \in BOOLEAN /\ me.answer # NoData
  BY <1>1, SessionTypes DEF SessionInv, MeIsRight
<1>3. /\ me' \in QueryOf(MeData) /\ me'.fetch = "none" /\ me'.held = me.answer
      /\ ~me'.behind /\ me'.raced = me.behind
  BY <1>1, <1>2, LandedShape
<1>4. \A t, p : IsOf(t, p)' <=> IsOf(t, p)  BY <1>1, IsOfKept
<1>5. \A p : Right(p)' <=> Right(p)  BY <1>1, <1>4 DEF Right, Ending, IsOf
<1>6. Has(me)'  BY <1>2, <1>3 DEF Has
<1>7. ASSUME NEW p, Mine(p)  PROVE Mine(p)'
  <2>1. CASE IsOf(cookie, p)  BY <1>1, <2>1 DEF Mine, IsOf
  <2>2. CASE cookie = NoCookie /\ me.behind  BY <1>1, <1>3, <2>2 DEF Mine
  <2>3. CASE cookie = NoCookie /\ ~me.behind
    <3>1. IsOf(NoCookie, me.answer) \/ me.answer = Nobody
      BY <1>1, <2>3 DEF SessionInv, MeIsRight, Right
    <3>2. me.answer = Nobody  BY <3>1, IsOfNobody DEF SessionInv
    <3> QED  BY <1>1, <1>3, <2>3, <3>2 DEF Mine
  <2> QED  BY <1>2, <1>7, <2>1, <2>2, <2>3 DEF Mine
<1>8. PICK scr : scr = screen  OBVIOUS
<1>9. /\ mine' \in QueryOf(MineData) /\ sentWith' \in [me : 0..issued, mine : 0..issued]
      /\ MineIsMine'
  BY <1>1, <1>2, <1>3, <1>7, <1>8, OpensKeep
<1>10. MeIsRight'
  <2>1. Right(owner[cookie])'
    <3>1. PICK p : p = owner[cookie]  OBVIOUS
    <3>2. Right(p)'  BY <1>5, <3>1 DEF SessionInv, MeIsRight
    <3> QED  BY <1>1, <3>1, <3>2 DEF Right, IsOf, Ending
  <2>2. me'.raced \/ Right(me.held)'
    <3>1. CASE ~me.behind
      <4>1. PICK p : p = me.answer  OBVIOUS
      <4>2. Right(p)'  BY <1>1, <1>5, <3>1, <4>1 DEF SessionInv, MeIsRight
      <4> QED  BY <1>3, <4>1, <4>2 DEF Right, IsOf, Ending
    <3> QED  BY <1>2, <1>3, <3>1
  <2>3. \A s \in Sign : sign'[s].kind = "out" /\ sign'[s].at = "failed" => stayed'
    BY <1>1 DEF SessionInv, MeIsRight
  <2> QED  BY <1>3, <2>1, <2>2, <2>3 DEF MeIsRight, Idle
<1>11. TokensAreTheirs'  BY <1>1 DEF SessionInv, TokensAreTheirs, IsOf
<1>12. SessionTypeOK'
  BY <1>1, <1>3, <1>6, <1>9 DEF SessionInv, SessionTypeOK, MeData, MineData
<1> QED  BY <1>9, <1>10, <1>11, <1>12 DEF SessionInv
\* At the start one customer is signed in, and nothing is on its way.
LEMMA SessionStarts ==
  ASSUME SessionIdle  PROVE SessionInv
<1>1. /\ screen = "other" /\ cookie = 1 /\ issued = 1
      /\ owner = [t \in Token |-> IF t = 1 THEN 1 ELSE Nobody]
      /\ me = [Empty EXCEPT !.held = 1] /\ mine = Empty
      /\ sentWith = [me |-> NoCookie, mine |-> NoCookie]
      /\ sign = [s \in Sign |-> NoSign] /\ missed = 0 /\ stayed = FALSE
  BY DEF SessionIdle
<1>2. Cardinality(Sign) \in Nat /\ MaxMissed \in Nat
  BY SessionAssumption, FS_CardinalityType DEF SessionAssumption
<1>3. {0, 1} \subseteq Token  BY <1>2 DEF Token
<1>4. /\ me.held = 1 /\ ~me.old /\ me.fetch = "none" /\ me.answer = NoData /\ ~me.again
      /\ ~me.behind /\ ~me.failed /\ ~me.raced /\ me \in QueryOf(Person \cup {NoData, Nobody})
  BY <1>1 DEF Empty, QueryOf, Person
<1>5. /\ mine.held = NoData /\ mine.fetch = "none" /\ mine \in QueryOf(Person \cup {NoData})
  BY <1>1 DEF Empty, QueryOf, Person
<1>6. NoSign \in Signs  BY <1>3 DEF NoSign, Signs, NoCookie
<1>7. \A s \in Sign : /\ sign[s].kind = "none" /\ sign[s].at = "idle" /\ sign[s].who = Nobody
                      /\ sign[s].with = NoCookie /\ sign[s].token = NoCookie
  BY <1>1 DEF NoSign
<1>8. SessionTypeOK
  <2>1. owner \in [Token -> Person \cup {Nobody}]  BY <1>1 DEF Person
  <2>2. sign \in [Sign -> Signs]  BY <1>1, <1>6
  <2>3. sentWith \in [me : 0..issued, mine : 0..issued]  BY <1>1 DEF NoCookie
  <2>4. Has(me)  BY <1>4 DEF Has, NoData
  <2>5. issued \in Token \ {NoCookie} /\ cookie \in 0..issued  BY <1>1, <1>3 DEF NoCookie
  <2>6. missed = 0 /\ stayed = FALSE /\ screen = "other"  BY <1>1
  <2>8. missed \in 0..MaxMissed  BY <1>2, <2>6
  <2>9. stayed \in BOOLEAN /\ screen \in {"bank", "login", "other"}  BY <2>6
  <2>7. me \in QueryOf(Person \cup {NoData, Nobody}) /\ mine \in QueryOf(Person \cup {NoData})
    BY <1>4, <1>5
  <2> QED  BY <2>1, <2>2, <2>3, <2>4, <2>5, <2>7, <2>8, <2>9 DEF SessionTypeOK
<1>9. IsOf(1, 1)  BY DEF IsOf
<1>10. TokensAreTheirs
  <2>1. {s \in Sign : sign[s].token # NoCookie} = {}  BY <1>7
  <2>2. issued = 1 + Cardinality({s \in Sign : sign[s].token # NoCookie})
    BY <1>1, <2>1, FS_EmptySet
  <2>3. \A t \in Token : owner[t] # Nobody => IsOf(t, owner[t])
    BY <1>1, <1>9
  <2> QED  BY <1>1, <1>7, <2>2, <2>3 DEF TokensAreTheirs, Nobody, Person, NoCookie
<1>11. MeIsRight
  <2>1. owner[cookie] = 1  BY <1>1, <1>3
  <2> QED  BY <1>1, <1>4, <1>7, <1>9, <2>1 DEF MeIsRight, Right, Idle
<1>12. MineIsMine  BY <1>5 DEF MineIsMine, Idle, Has
<1> QED  BY <1>8, <1>10, <1>11, <1>12 DEF SessionInv

\* Every step of the session keeps it.
LEMMA SessionKeeps ==
  ASSUME SessionInv, [SessionNext]_sessionVars  PROVE SessionInv'
<1>1. CASE \E scr \in {"bank", "login", "other"} : Goes(scr)  BY <1>1, GoesKeeps
<1>2. CASE \E s \in Sign : SignsOut(s) \/ EndsThis(s) \/ \E p \in Person : SignsIn(s, p)
  <2>1. PICK s \in Sign : SignsOut(s) \/ EndsThis(s) \/ \E p \in Person : SignsIn(s, p)  BY <1>2
  <2>2. Nobody \notin Person  BY DEF Nobody, Person
  <2>3. CASE SignsOut(s) \/ EndsThis(s)
    <3>1. PICK kind \in {"out", "end"}, who \in {Nobody} : Sends(s, kind, who)
      BY <2>3 DEF SignsOut, EndsThis
    <3>2. kind \in {"in", "out", "end"} /\ (kind = "in" <=> who \in Person)  BY <2>2, <3>1
    <3> QED  BY <3>1, <3>2, SendsKeeps
  <2>4. CASE \E p \in Person : SignsIn(s, p)
    <3>1. PICK kind \in {"in"}, who \in Person : Sends(s, kind, who)  BY <2>4 DEF SignsIn
    <3> QED  BY <3>1, SendsKeeps
  <2> QED  BY <2>1, <2>3, <2>4
<1>3. CASE \E s \in Sign : Handled(s) \/ NotReached(s) \/ LandsIn(s) \/ LandsOut(s) \/ LandsEnd(s) \/ Fails(s)
  BY <1>3, HandledKeeps, NotReachedKeeps, LandsInKeeps, LandsOutKeeps, LandsEndKeeps, FailsKeeps
<1>4. CASE AnswersMe \/ AnswersMine \/ LandsMe \/ LandsMine
  BY <1>4, AnswersMeKeeps, AnswersMineKeeps, LandsMeKeeps, LandsMineKeeps
<1>5. CASE UNCHANGED sessionVars
  <2>1. UNCHANGED <<screen, cookie, owner, issued, me, mine, sentWith, sign, missed, stayed>>
    BY <1>5 DEF sessionVars
  <2>2. SessionTypeOK'  BY <2>1 DEF SessionInv, SessionTypeOK, Has
  <2>3. TokensAreTheirs'  BY <2>1 DEF SessionInv, TokensAreTheirs, IsOf
  <2>4. MeIsRight'  BY <2>1 DEF SessionInv, MeIsRight, Right, IsOf, Ending, Idle
  <2>5. MineIsMine'
    BY <2>1 DEF SessionInv, MineIsMine, Mine, IsOf, Idle, Has, Shown, UserIn
  <2> QED  BY <2>2, <2>3, <2>4, <2>5 DEF SessionInv
<1> QED  BY <1>1, <1>2, <1>3, <1>4, <1>5 DEF SessionNext

\* A page shows the data of the person it says is signed in.
LEMMA NothingOfAnotherHolds ==
  ASSUME SessionInv  PROVE NothingOfAnother
<1>1. SUFFICES ASSUME Shown(screen, me), Idle(mine), Has(mine), ~mine.failed, ~mine.raced, ~me.raced
               PROVE  mine.held = User
  BY DEF NothingOfAnother
<1>2. User = me.held /\ me.held # Nobody /\ mine.held \in Person
  BY <1>1, SessionTypes DEF SessionInv, Shown, UserIn, User, Has
<1>3. mine.held # Nobody  BY <1>2 DEF Nobody, Person
<1>4. ~mine.old /\ Mine(mine.held)
  BY <1>1, SessionTypes DEF SessionInv, MineIsMine
<1>5. CASE IsOf(cookie, mine.held)
  <2>1. CASE Right(me.held)
    BY <1>2, <1>5, <2>1, IsOfOne DEF SessionInv, Right
  <2>2. CASE cookie = NoCookie
    BY <1>3, <1>5, <2>2, IsOfNobody DEF SessionInv
  <2> QED  BY <1>1, <2>1, <2>2 DEF SessionInv, MeIsRight
<1>6. CASE me.held \in {Nobody, mine.held}  BY <1>2, <1>6
<1> QED  BY <1>1, <1>4, <1>5, <1>6 DEF Mine

\* The page says who the cookie is.
LEMMA SaysWhoItIsHolds ==
  ASSUME SessionInv  PROVE SaysWhoItIs
<1>1. SUFFICES ASSUME Idle(me), ~me.raced, ~stayed,
                      \A s \in Sign : sign[s].at \in {"idle", "over"}
               PROVE  User = owner[cookie]
  BY DEF SaysWhoItIs
<1>2. ~Ending  BY <1>1 DEF Ending
<1>3. IsOf(cookie, owner[cookie])  BY <1>2 DEF SessionInv, MeIsRight, Right
<1>4. IsOf(cookie, me.held)  BY <1>1, <1>2 DEF SessionInv, MeIsRight, Right
<1>5. User = me.held  BY SessionTypes DEF SessionInv
<1> QED  BY <1>3, <1>4, <1>5, IsOfOne DEF SessionInv
-----------------------------------------------------------------------------
(* A tab and the query it follows.                                         *)

Held == 0..saved + 1

LEMMA AppTypes ==
  ASSUME AppInv
  PROVE  /\ query \in QueryOf(Held) /\ NoData \in Held /\ given.retries \in BOOLEAN
         /\ saved \in Nat /\ known \in 0..saved /\ known \in Nat
         /\ query.old \in BOOLEAN /\ query.behind \in BOOLEAN /\ query.failed \in BOOLEAN
         /\ query.raced \in BOOLEAN /\ OnScreenNow \in BOOLEAN
         /\ \A shown : On(address, shown) \in BOOLEAN
         /\ query.fetch \in {"none", "sent", "answered"}
         /\ query.held \in Held /\ query.answer \in Held
         /\ press \in [Press -> PressesOf(saved)]
<1>1. Cardinality(Press) \in Nat  BY AppAssumption, FS_CardinalityType DEF AppAssumption
<1>2. saved \in Nat /\ known \in 0..saved /\ known \in Nat  BY <1>1 DEF AppInv, AppTypeOK
<1>3. NoData \in Held  BY <1>2 DEF NoData, Held
<1>4. query \in QueryOf(Held)  BY DEF AppInv, AppTypeOK, Held
<1>5. /\ query.old \in BOOLEAN /\ query.behind \in BOOLEAN /\ query.failed \in BOOLEAN
      /\ query.raced \in BOOLEAN /\ query.fetch \in {"none", "sent", "answered"}
      /\ query.held \in Held /\ query.answer \in Held
  BY <1>4 DEF QueryOf
<1>6. /\ OnScreenNow \in BOOLEAN /\ given.retries \in BOOLEAN
      /\ press \in [Press -> PressesOf(saved)]
      /\ \A shown : On(address, shown) \in BOOLEAN
  BY DEF OnScreenNow, On, AppInv, AppTypeOK, IsScene
<1> QED  BY <1>2, <1>3, <1>4, <1>5, <1>6

\* The deed of a call that is under way is one of the scene's.
LEMMA DeedGiven ==
  ASSUME AppInv, NEW i \in Press, press[i].at # "idle"
  PROVE  /\ Deed(press[i].call) \in given.deeds
         /\ Len(Deed(press[i].call).marks) \in Nat /\ Deed(press[i].call).waits \in BOOLEAN
         /\ \/ given.key \in Deed(press[i].call).puts
            \/ \E k \in 1..Len(Deed(press[i].call).marks) : Marks(Deed(press[i].call).marks[k])
         /\ (\E e \in given.deeds : given.key \in e.puts) =>
              Len(Deed(press[i].call).marks) = 1 /\ ~Deed(press[i].call).waits
<1>1. \E d \in given.deeds : d.call = press[i].call  BY DEF AppInv, CallsAreGiven
<1>2. Deed(press[i].call) \in given.deeds  BY <1>1 DEF Deed
<1> QED  BY <1>2 DEF AppInv, AppTypeOK, IsScene, MarksAll, Marks

\* The query moves on without a call: what is held of the changes stays held.
LEMMA QueryMoves ==
  ASSUME AppInv, query' \in QueryOf(Held), UNCHANGED <<given, saved, known>>, lost' \in 0..MaxLost,
         address' \in Address, revealed' \in BOOLEAN,
         \A m \in 0..saved : Holds(query, m) => Holds(query, m)', NothingOldOnScreen',
         press' \in [Press -> PressesOf(saved)],
         \A i \in Press : /\ press'[i].at = press[i].at /\ press'[i].call = press[i].call
                          /\ press'[i].made = press[i].made /\ press'[i].stage = press[i].stage
  PROVE  AppInv'
<1>0. MarksAll(given)'  BY DEF AppInv
<1>1. AppTypeOK'  BY DEF AppInv, AppTypeOK, Held
<1>2. {i \in Press : press'[i].made > 0} = {i \in Press : press[i].made > 0}  OBVIOUS
<1>3. saved' = Cardinality({i \in Press : press'[i].made > 0})
  BY <1>2 DEF AppInv, CallsAreGiven
<1>4. CallsAreGiven'
  <2>1. \A i \in Press :
          /\ press'[i].at # "idle" => \E d \in given.deeds : d.call = press'[i].call
          /\ press'[i].call = "none" \/ press'[i].at = "sent" => press'[i].made = 0
          /\ press'[i].at \in {"made", "marking"} => press'[i].made > 0
          /\ press'[i].at \in {"sent", "made"} => press'[i].stage = 0
    BY DEF AppInv, CallsAreGiven
  <2> QED  BY <1>3, <2>1 DEF CallsAreGiven
<1>5. KnownIsHeld'
  <2>1. Holds(query, known)'  BY AppTypes DEF AppInv, KnownIsHeld, Holds
  <2>2. ASSUME NEW i \in Press, press'[i].at = "marking"
        PROVE  (/\ \A d \in given.deeds : given.key \notin d.puts
                /\ Reached(i) => Holds(query, press[i].made)
                /\ Reached(i) \/ \E k \in 1..Len(Deed(press[i].call).marks) :
                     k > press[i].stage /\ Marks(Deed(press[i].call).marks[k]))'
    <3>1. press[i].at = "marking" /\ press[i].made \in 0..saved
      BY <2>2, AppTypes DEF PressesOf
    <3>2. Deed(press[i].call)' = Deed(press[i].call)  BY DEF Deed
    <3>3. Reached(i)' <=> Reached(i)  BY <3>2 DEF Reached, Marks
    <3>4. PICK m : m = press[i].made  OBVIOUS
    <3>5. Reached(i) => Holds(query, m)  BY <3>1, <3>4 DEF AppInv, KnownIsHeld
    <3>6. Reached(i) => Holds(query, m)'  BY <3>1, <3>4, <3>5
    <3>7. Holds(query, m)' => Holds(query, press[i].made)'  BY <3>4 DEF Holds
    <3>8. /\ \A d \in given.deeds : given.key \notin d.puts
          /\ Reached(i) \/ \E k \in 1..Len(Deed(press[i].call).marks) :
               k > press[i].stage /\ Marks(Deed(press[i].call).marks[k])
      BY <3>1 DEF AppInv, KnownIsHeld
    <3>9. (\E k \in 1..Len(Deed(press[i].call).marks) :
             k > press[i].stage /\ Marks(Deed(press[i].call).marks[k]))
          => (\E k \in 1..Len(Deed(press[i].call).marks) :
                k > press[i].stage /\ Marks(Deed(press[i].call).marks[k]))'
      BY <3>2 DEF Marks
    <3> QED  BY <3>3, <3>6, <3>7, <3>8, <3>9
  <2> QED  BY <2>1, <2>2 DEF KnownIsHeld
<1> QED  BY <1>0, <1>1, <1>4, <1>5 DEF AppInv
\* What is held is held on while the query is asked or becomes old.
LEMMA HeldOn ==
  ASSUME query'.held = query.held, query'.failed = query.failed, query'.raced = query.raced,
         query'.old = query.old \/ query'.old = Has(query),
         \/ query'.fetch = "sent"
         \/ query'.fetch = query.fetch /\ query'.behind = query.behind /\ query'.answer = query.answer
  PROVE  \A m : Holds(query, m) => Holds(query, m)'
BY DEF Holds, Has

\* A page that shows it asks for what is old.
LEMMA OpenedIsNew ==
  ASSUME AppInv, NEW q \in QueryOf(Held), query' = Opened(q, given.retries),
         q.held = query.held, q.failed = query.failed, q.raced = query.raced,
         q.old = query.old \/ q.old = Has(query),
         q.fetch = query.fetch, q.behind = query.behind, q.answer = query.answer
  PROVE  /\ query' \in QueryOf(Held) /\ \A m : Holds(query, m) => Holds(query, m)'
         /\ ~(Idle(query) /\ Has(query) /\ query.old)'
<1>1. PICK r \in BOOLEAN : r = given.retries  BY AppTypes
<1>2. query' = Opened(q, r)  BY <1>1
<1>3. /\ query' \in QueryOf(Held) /\ query'.held = q.held /\ query'.old = q.old
      /\ query'.failed = q.failed /\ query'.raced = q.raced
      /\ \/ query' = q /\ ~(Idle(q) /\ (~Has(q) \/ q.old))
         \/ query'.fetch = "sent" /\ ~query'.behind /\ query'.answer = NoData
  <2>1. NoData \in Held /\ q \in QueryOf(Held)  BY AppTypes
  <2> QED  BY <1>2, <2>1, OpenedShape
<1>4. \/ query'.fetch = "sent"
      \/ query'.fetch = query.fetch /\ query'.behind = query.behind /\ query'.answer = query.answer
  BY <1>3
<1>5. \A m : Holds(query, m) => Holds(query, m)'  BY <1>3, <1>4, HeldOn
<1>6. ~(Idle(query) /\ Has(query) /\ query.old)'
  BY <1>3 DEF Idle, Has
<1> QED  BY <1>3, <1>5, <1>6

\* A call whose page is left, or that need not wait any more, is the same call.
LEMMA PressLeft ==
  ASSUME NEW most, NEW p \in PressesOf(most)
  PROVE  LET h == [p EXCEPT !.here = FALSE]
             w == [p EXCEPT !.waits = FALSE]
         IN  /\ h \in PressesOf(most) /\ h.at = p.at /\ h.call = p.call /\ h.made = p.made
             /\ h.stage = p.stage
             /\ w \in PressesOf(most) /\ w.at = p.at /\ w.call = p.call /\ w.made = p.made
             /\ w.stage = p.stage
<1> DEFINE h == [p EXCEPT !.here = FALSE]
           w == [p EXCEPT !.waits = FALSE]
<1>3. /\ h \in PressesOf(most) /\ h.at = p.at /\ h.call = p.call /\ h.made = p.made
      /\ h.stage = p.stage
  BY DEF PressesOf
<1>4. /\ w \in PressesOf(most) /\ w.at = p.at /\ w.call = p.call /\ w.made = p.made
      /\ w.stage = p.stage
  BY DEF PressesOf
<1> QED  BY <1>3, <1>4

LEMMA VisitKeeps ==
  ASSUME AppInv, NEW a \in given.at, Visit(a)  PROVE AppInv'
<1>1. /\ address' = a /\ revealed' = FALSE
      /\ press' = [i \in Press |-> [press[i] EXCEPT !.here = FALSE]]
      /\ UNCHANGED <<given, saved, known, lost>>
  BY DEF Visit
<1>2. PICK q \in {query, Aged(query)} :
        query' = IF On(a, FALSE) THEN Opened(q, given.retries) ELSE q
  BY DEF Visit
<1>3. /\ query \in QueryOf(Held) /\ press \in [Press -> PressesOf(saved)]  BY AppTypes
<1>4. /\ q \in QueryOf(Held) /\ q.held = query.held /\ q.failed = query.failed
      /\ q.raced = query.raced /\ q.fetch = query.fetch /\ q.behind = query.behind
      /\ q.answer = query.answer /\ (q.old = query.old \/ q.old = Has(query))
  BY <1>3, AgedShape
<1>5. /\ press' \in [Press -> PressesOf(saved)]
      /\ \A i \in Press : /\ press'[i].at = press[i].at /\ press'[i].call = press[i].call
                          /\ press'[i].made = press[i].made /\ press'[i].stage = press[i].stage
  <2>1. \A i \in Press : press[i] \in PressesOf(saved)  BY <1>3
  <2>2. ASSUME NEW i \in Press
        PROVE  /\ press'[i] \in PressesOf(saved)
               /\ press'[i].at = press[i].at /\ press'[i].call = press[i].call
               /\ press'[i].made = press[i].made /\ press'[i].stage = press[i].stage
    <3>1. press'[i] = [press[i] EXCEPT !.here = FALSE]  BY <1>1
    <3> QED  BY ZenonT(60), <2>1, <3>1, PressLeft
  <2> QED  BY <1>1, <2>2
<1>6. /\ query' \in QueryOf(Held) /\ \A m : Holds(query, m) => Holds(query, m)'
      /\ NothingOldOnScreen'
  <2>1. CASE On(a, FALSE)
    <3>1. query' = Opened(q, given.retries)  BY <1>2, <2>1
    <3>2. /\ query' \in QueryOf(Held) /\ \A m : Holds(query, m) => Holds(query, m)'
          /\ ~(Idle(query) /\ Has(query) /\ query.old)'
      BY <1>4, <3>1, OpenedIsNew
    <3> QED  BY <3>2 DEF NothingOldOnScreen
  <2>2. CASE ~On(a, FALSE)
    <3>1. query' = q  BY <1>2, <2>2
    <3>2. ~OnScreenNow'  BY <1>1, <2>2 DEF OnScreenNow, On, Followed
    <3>3. \A m : Holds(query, m) => Holds(query, m)'  BY <1>4, <3>1, HeldOn
    <3> QED  BY <1>4, <3>1, <3>2, <3>3 DEF NothingOldOnScreen
  <2> QED  BY <2>1, <2>2
<1>7. address' \in Address /\ revealed' \in BOOLEAN /\ lost' \in 0..MaxLost
  BY <1>1 DEF AppInv, AppTypeOK, IsScene
<1> QED  BY <1>1, <1>5, <1>6, <1>7, QueryMoves

\* What every step that leaves the calls alone needs.
LEMMA PressStays ==
  ASSUME AppInv, press' = press
  PROVE  /\ press' \in [Press -> PressesOf(saved)]
         /\ \A i \in Press : /\ press'[i].at = press[i].at /\ press'[i].call = press[i].call
                             /\ press'[i].made = press[i].made /\ press'[i].stage = press[i].stage
BY AppTypes

LEMMA RevealKeeps ==
  ASSUME AppInv, Reveal  PROVE AppInv'
<1>1. /\ revealed' = TRUE /\ query' = Opened(query, given.retries)
      /\ UNCHANGED <<given, address, press, saved, known, lost>>
  BY DEF Reveal
<1>2. /\ query' \in QueryOf(Held) /\ \A m : Holds(query, m) => Holds(query, m)'
      /\ ~(Idle(query) /\ Has(query) /\ query.old)'
  BY <1>1, AppTypes, OpenedIsNew
<1>3. NothingOldOnScreen'  BY <1>2 DEF NothingOldOnScreen
<1>4. address' \in Address /\ revealed' \in BOOLEAN /\ lost' \in 0..MaxLost
  BY <1>1 DEF AppInv, AppTypeOK
<1> QED  BY <1>1, <1>2, <1>3, <1>4, PressStays, QueryMoves

LEMMA PollKeeps ==
  ASSUME AppInv, Poll  PROVE AppInv'
<1>1. /\ query' = Asked(query, given.retries)
      /\ UNCHANGED <<given, address, revealed, press, saved, known, lost>>
  BY DEF Poll
<1>2. PICK r \in BOOLEAN : r = given.retries  BY AppTypes
<1>3. query' = Asked(query, r)  BY <1>1, <1>2
<1>4. /\ query' \in QueryOf(Held) /\ query'.fetch = "sent" /\ query'.held = query.held
      /\ query'.old = query.old /\ query'.failed = query.failed /\ query'.raced = query.raced
  <2>1. NoData \in Held /\ query \in QueryOf(Held)  BY AppTypes
  <2> QED  BY <1>3, <2>1, AskedShape
<1>5. \A m : Holds(query, m) => Holds(query, m)'  BY <1>4, HeldOn
<1>6. NothingOldOnScreen'  BY <1>4 DEF NothingOldOnScreen, Idle
<1>7. address' \in Address /\ revealed' \in BOOLEAN /\ lost' \in 0..MaxLost
  BY <1>1 DEF AppInv, AppTypeOK
<1> QED  BY <1>1, <1>4, <1>5, <1>6, <1>7, PressStays, QueryMoves

LEMMA AnswersKeeps ==
  ASSUME AppInv, Answers  PROVE AppInv'
<1>1. /\ query.fetch = "sent" /\ query' = Answered(query, saved + 1)
      /\ UNCHANGED <<given, address, revealed, press, saved, known, lost>>
  BY DEF Answers
<1>2. PICK new \in Held : new = saved + 1  BY AppTypes DEF Held
<1>3. query' = Answered(query, new)  BY <1>1, <1>2
<1>4. /\ query' \in QueryOf(Held) /\ query'.fetch = "answered" /\ query'.answer = new
      /\ query'.held = query.held /\ query'.old = query.old /\ query'.behind = query.behind
      /\ query'.failed = query.failed /\ query'.raced = query.raced
  <2>1. query \in QueryOf(Held)  BY AppTypes
  <2> QED  BY <1>3, <2>1, AnsweredShape
<1>5. \A m \in 0..saved : Holds(query, m) => Holds(query, m)'
  <2>1. \A m \in 0..saved : new > m  BY <1>2, AppTypes
  <2> QED  BY <1>4, <2>1 DEF Holds, Has
<1>6. NothingOldOnScreen'  BY <1>4 DEF NothingOldOnScreen, Idle
<1>7. address' \in Address /\ revealed' \in BOOLEAN /\ lost' \in 0..MaxLost
  BY <1>1 DEF AppInv, AppTypeOK
<1> QED  BY <1>1, <1>4, <1>5, <1>6, <1>7, PressStays, QueryMoves

\* Whoever waited goes on.
LEMMA FreedStays ==
  ASSUME AppInv, press' = Freed \/ press' = press
  PROVE  /\ press' \in [Press -> PressesOf(saved)]
         /\ \A i \in Press : /\ press'[i].at = press[i].at /\ press'[i].call = press[i].call
                             /\ press'[i].made = press[i].made /\ press'[i].stage = press[i].stage
<1>1. press \in [Press -> PressesOf(saved)]  BY AppTypes
<1>2. CASE press' = Freed
  <2>1. press' = [i \in Press |-> [press[i] EXCEPT !.waits = FALSE]]  BY <1>2 DEF Freed
  <2>2. \A i \in Press : press[i] \in PressesOf(saved)  BY <1>1
  <2>3. ASSUME NEW i \in Press
        PROVE  /\ press'[i] \in PressesOf(saved)
               /\ press'[i].at = press[i].at /\ press'[i].call = press[i].call
               /\ press'[i].made = press[i].made /\ press'[i].stage = press[i].stage
    <3>1. press'[i] = [press[i] EXCEPT !.waits = FALSE]  BY <2>1
    <3> QED  BY <2>2, <3>1, PressLeft
  <2> QED  BY <2>1, <2>3
<1> QED  BY <1>2, PressStays

LEMMA LandsKeeps ==
  ASSUME AppInv, Lands  PROVE AppInv'
<1>1. /\ query.fetch = "answered" /\ query' = Landed(query) /\ press' = Freed
      /\ UNCHANGED <<given, address, revealed, saved, known, lost>>
  BY DEF Lands
<1>2. /\ query' \in QueryOf(Held) /\ query'.fetch = "none" /\ query'.held = query.answer
      /\ ~query'.old /\ query'.raced = query.behind
  <2>1. NoData \in Held /\ query \in QueryOf(Held)  BY AppTypes
  <2> QED  BY <1>1, <2>1, LandedShape
<1>3. \A m \in 0..saved : Holds(query, m) => Holds(query, m)'
  BY <1>1, <1>2 DEF Holds
<1>4. NothingOldOnScreen'  BY <1>2 DEF NothingOldOnScreen
<1>5. address' \in Address /\ revealed' \in BOOLEAN /\ lost' \in 0..MaxLost
  BY <1>1 DEF AppInv, AppTypeOK
<1> QED  BY <1>1, <1>2, <1>3, <1>4, <1>5, FreedStays, QueryMoves

LEMMA MissesKeeps ==
  ASSUME AppInv, Misses  PROVE AppInv'
<1>1. /\ lost < MaxLost /\ lost' = lost + 1 /\ query' = Failed(query)
      /\ press' = Freed \/ press' = press
      /\ UNCHANGED <<given, address, revealed, saved, known>>
  BY DEF Misses
<1>2. /\ query' \in QueryOf(Held) /\ query'.held = query.held /\ query'.raced = query.raced
      /\ \/ /\ query'.fetch = "sent" /\ query'.old = query.old /\ query'.failed = query.failed
         \/ /\ query'.fetch = "none" /\ query'.failed
  <2>1. NoData \in Held /\ query \in QueryOf(Held)  BY AppTypes
  <2> QED  BY <1>1, <2>1, FailedShape
<1>3. \A m \in 0..saved : Holds(query, m) => Holds(query, m)'
  BY <1>2 DEF Holds, Has
<1>4. NothingOldOnScreen'  BY <1>2 DEF NothingOldOnScreen, Idle
<1>5. address' \in Address /\ revealed' \in BOOLEAN  BY <1>1 DEF AppInv, AppTypeOK
<1>6. lost' \in 0..MaxLost
  BY <1>1, AppAssumption DEF AppInv, AppTypeOK, AppAssumption
<1> QED  BY <1>1, <1>2, <1>3, <1>4, <1>5, <1>6, FreedStays, QueryMoves
\* A number that was in range stays in range.
LEMMA HeldMore ==
  ASSUME NEW n \in Nat, NEW m \in Nat, n <= m
  PROVE  /\ \A q : q \in QueryOf(0..n + 1) => q \in QueryOf(0..m + 1)
         /\ \A p : p \in PressesOf(n) => p \in PressesOf(m)
<1>1. 0..n + 1 \subseteq 0..m + 1 /\ 0..n \subseteq 0..m  OBVIOUS
<1> QED  BY <1>1 DEF QueryOf, PressesOf

\* A call moves on, and the query does not.
LEMMA CallMoves ==
  ASSUME AppInv, NEW i \in Press, NEW new \in PressesOf(saved'), press' = [press EXCEPT ![i] = new],
         UNCHANGED <<given, address, revealed, query, known>>, lost' \in 0..MaxLost,
         new.at # "idle" => \E d \in given.deeds : d.call = new.call,
         new.at # "marking", new.at \in {"sent", "made"} => new.stage = 0,
         new.at = "made" => new.made > 0,
         new.call = "none" \/ new.at = "sent" => new.made = 0,
         \/ saved' = saved /\ new.made = press[i].made
         \/ saved' = saved + 1 /\ press[i].made = 0 /\ new.made = saved + 1
  PROVE  AppInv'
<1>0. MarksAll(given)'  BY DEF AppInv
<1>1. saved \in Nat /\ known \in 0..saved /\ press \in [Press -> PressesOf(saved)]
  BY AppTypes
<1>2. saved' \in Nat /\ saved <= saved'  BY <1>1
<1>3. /\ \A j \in Press : j # i => press'[j] = press[j]
      /\ press'[i] = new
  BY <1>1
<1>4. press' \in [Press -> PressesOf(saved')]
  <2>1. \A j \in Press : press[j] \in PressesOf(saved')  BY <1>1, <1>2, HeldMore
  <2> QED  BY <1>1, <2>1
<1>5. saved' = Cardinality({j \in Press : press'[j].made > 0})
  <2> DEFINE made == {j \in Press : press[j].made > 0}
  <2>1. saved = Cardinality(made) /\ IsFiniteSet(made)
    <3>1. made \subseteq Press  OBVIOUS
    <3>2. IsFiniteSet(made)  BY <3>1, FS_Subset, AppAssumption DEF AppAssumption
    <3> QED  BY <3>2 DEF AppInv, CallsAreGiven
  <2>2. CASE saved' = saved /\ new.made = press[i].made
    <3>1. {j \in Press : press'[j].made > 0} = made  BY <1>3, <2>2
    <3> QED  BY <2>1, <2>2, <3>1
  <2>3. CASE saved' = saved + 1 /\ press[i].made = 0 /\ new.made = saved + 1
    <3>1. new.made > 0  BY <1>1, <2>3
    <3>2. {j \in Press : press'[j].made > 0} = made \cup {i}  BY <1>3, <3>1
    <3>3. i \notin made  BY <2>3
    <3>4. Cardinality({j \in Press : press'[j].made > 0}) = Cardinality(made \cup {i})  BY <3>2
    <3> HIDE DEF made
    <3>5. Cardinality(made \cup {i}) = Cardinality(made) + 1  BY <2>1, <3>3, FS_AddElement
    <3> QED  BY <2>1, <2>3, <3>4, <3>5
  <2> QED  BY <2>2, <2>3
<1>6. saved' \in 0..Cardinality(Press)
  <2>1. {j \in Press : press'[j].made > 0} \subseteq Press  OBVIOUS
  <2>2. Cardinality({j \in Press : press'[j].made > 0}) <= Cardinality(Press)
    BY <2>1, FS_Subset, AppAssumption DEF AppAssumption
  <2>3. Cardinality(Press) \in Nat  BY FS_CardinalityType, AppAssumption DEF AppAssumption
  <2> QED  BY <1>2, <1>5, <2>2, <2>3
<1>7. AppTypeOK'
  <2>1. query' \in QueryOf(0..saved' + 1)  BY <1>1, <1>2, HeldMore DEF AppInv, AppTypeOK
  <2>2. known' \in 0..saved'  BY <1>1, <1>2
  <2> QED  BY <1>4, <1>6, <2>1, <2>2 DEF AppInv, AppTypeOK
<1>8. CallsAreGiven'
  <2>1. ASSUME NEW j \in Press
        PROVE  /\ press'[j].at # "idle" => \E d \in given.deeds : d.call = press'[j].call
               /\ press'[j].call = "none" \/ press'[j].at = "sent" => press'[j].made = 0
               /\ press'[j].at \in {"made", "marking"} => press'[j].made > 0
               /\ press'[j].at \in {"sent", "made"} => press'[j].stage = 0
    BY <1>3 DEF AppInv, CallsAreGiven
  <2> QED  BY <1>5, <2>1 DEF CallsAreGiven
<1>9. KnownIsHeld'
  <2>1. Holds(query, known)'  BY DEF AppInv, KnownIsHeld, Holds
  <2>2. ASSUME NEW j \in Press, press'[j].at = "marking"
        PROVE  (/\ \A d \in given.deeds : given.key \notin d.puts
                /\ Reached(j) => Holds(query, press[j].made)
                /\ Reached(j) \/ \E k \in 1..Len(Deed(press[j].call).marks) :
                     k > press[j].stage /\ Marks(Deed(press[j].call).marks[k]))'
    <3>1. j # i /\ press'[j] = press[j]  BY <1>3, <2>2
    <3> QED  BY SMTT(60), <2>2, <3>1 DEF AppInv, KnownIsHeld, Reached, Holds, Deed, Marks
  <2> QED  BY <2>1, <2>2 DEF KnownIsHeld
<1>10. NothingOldOnScreen'
  BY DEF AppInv, NothingOldOnScreen, OnScreenNow, On, Followed
<1> QED  BY <1>0, <1>7, <1>8, <1>9, <1>10 DEF AppInv

LEMMA PressesKeeps ==
  ASSUME AppInv, NEW i \in Press, NEW e \in given.deeds, Presses(i, e.call)  PROVE AppInv'
<1> DEFINE new == [NoPress EXCEPT !.call = e.call, !.at = "sent", !.here = TRUE]
<1>1. /\ press[i].call = "none" /\ press' = [press EXCEPT ![i] = new]
      /\ UNCHANGED <<given, address, revealed, query, saved, known, lost>>
  BY DEF Presses
<1>2. e.call \in DOMAIN Calls \ {"none"} /\ saved \in Nat
  BY AppTypes DEF AppInv, AppTypeOK, IsScene
<1>3. /\ new.call = e.call /\ new.at = "sent" /\ new.made = 0 /\ new.stage = 0 /\ new \in PressesOf(saved)
  <2>1. 0 \in 0..saved  BY <1>2
  <2>2. NoPress \in PressesOf(saved) /\ NoPress.made = 0 /\ NoPress.stage = 0
    BY <2>1 DEF NoPress, PressesOf
  <2>3. e.call \in DOMAIN Calls \cup {"none"}  BY <1>2
  <2> QED  BY <2>2, <2>3 DEF PressesOf
<1> HIDE DEF new
<1>4. press[i].made = 0  BY <1>1 DEF AppInv, CallsAreGiven
<1>5. lost' \in 0..MaxLost  BY <1>1 DEF AppInv, AppTypeOK
<1>6. PICK n : n = new  OBVIOUS
<1> QED  BY <1>1, <1>3, <1>4, <1>5, <1>6, CallMoves

LEMMA MadeKeeps ==
  ASSUME AppInv, NEW i \in Press, Made(i)  PROVE AppInv'
<1> DEFINE f == [press[i] EXCEPT !.at = "made", !.made = saved + 1]
<1>1. /\ press[i].at = "sent" /\ saved' = saved + 1
      /\ press' = [press EXCEPT ![i].at = "made", ![i].made = saved + 1]
      /\ UNCHANGED <<given, address, revealed, query, known, lost>>
  BY DEF Made
<1>2. saved \in Nat /\ press \in [Press -> PressesOf(saved)] /\ press[i] \in PressesOf(saved')
      /\ press[i].made = 0 /\ press[i].stage = 0
  <2>1. saved \in Nat /\ press \in [Press -> PressesOf(saved)]  BY AppTypes
  <2>2. press[i] \in PressesOf(saved')  BY <1>1, <2>1, HeldMore
  <2> QED  BY <1>1, <2>1, <2>2 DEF AppInv, CallsAreGiven, PressesOf
<1>3. press' = [press EXCEPT ![i] = f]
  BY <1>1, <1>2
<1>4. /\ f \in PressesOf(saved') /\ f.at = "made" /\ f.made = saved + 1 /\ f.call = press[i].call
      /\ f.stage = press[i].stage
  BY <1>1, <1>2 DEF PressesOf
<1> HIDE DEF f
<1>5. PICK new : new = f  OBVIOUS
<1>6. \E d \in given.deeds : d.call = new.call  BY <1>1, <1>4, <1>5 DEF AppInv, CallsAreGiven
<1>7. lost' \in 0..MaxLost  BY <1>1 DEF AppInv, AppTypeOK
<1>8. new.call # "none"  BY <1>6 DEF AppInv, AppTypeOK, IsScene
<1>9. new.made > 0 /\ new.stage = 0  BY <1>2, <1>4, <1>5
<1> QED  BY <1>1, <1>2, <1>3, <1>4, <1>5, <1>6, <1>7, <1>8, <1>9, CallMoves

\* A call fails, or its button is free.
LEMMA CallFails ==
  ASSUME AppInv, NEW i \in Press, NEW at \in {"failed", "idle"}, press[i].at # "idle",
         press' = [press EXCEPT ![i].at = at],
         UNCHANGED <<given, address, revealed, query, saved, known>>, lost' \in 0..MaxLost
  PROVE  AppInv'
<1> DEFINE f == [press[i] EXCEPT !.at = at]
<1>1. saved \in Nat /\ press \in [Press -> PressesOf(saved)] /\ press[i] \in PressesOf(saved')
  BY AppTypes
<1>2. press' = [press EXCEPT ![i] = f]  BY <1>1
<1>3. f \in PressesOf(saved') /\ f.at = at /\ f.made = press[i].made /\ f.call = press[i].call
  BY <1>1 DEF PressesOf
<1> HIDE DEF f
<1>4. PICK new : new = f  OBVIOUS
<1>5. /\ \E d \in given.deeds : d.call = new.call
      /\ new.call = "none" => new.made = 0
  BY <1>3, <1>4 DEF AppInv, CallsAreGiven
<1> QED  BY <1>1, <1>2, <1>3, <1>4, <1>5, CallMoves
\* A query that is marked holds whatever was known, or does not count.
LEMMA MarkedHolds ==
  ASSUME AppInv
  PROVE  LET q == Marked(query, OnScreenNow, given.retries)
         IN  /\ q \in QueryOf(Held) /\ \A m : Holds(q, m)
             /\ OnScreenNow => ~(Idle(q) /\ Has(q) /\ q.old)
<1> DEFINE q == Marked(query, OnScreenNow, given.retries)
<1>1. /\ query \in QueryOf(Held) /\ NoData \in Held /\ OnScreenNow \in BOOLEAN
      /\ given.retries \in BOOLEAN
  BY AppTypes
<1>2. /\ q \in QueryOf(Held) /\ q.held = query.held /\ q.old = Has(query)
      /\ \/ /\ OnScreenNow /\ (Idle(query) \/ Has(query)) /\ q.fetch = "sent"
         \/ /\ ~(OnScreenNow /\ (Idle(query) \/ Has(query)))
            /\ q.fetch = query.fetch /\ q.behind = ~Idle(query)
  BY <1>1, MarkedShape
<1> HIDE DEF q
<1>3. \A m : Holds(q, m)  BY <1>2 DEF Holds, Has, Idle
<1>4. OnScreenNow => ~(Idle(q) /\ Has(q) /\ q.old)  BY <1>2 DEF Has, Idle
<1> QED  BY <1>2, <1>3, <1>4 DEF q

\* An answer that is put in its place holds the change it answers, or does not count.
LEMMA PutHolds ==
  ASSUME NEW q \in QueryOf(Held), saved \in Nat, known \in Nat, NEW made \in 0..saved
  PROVE  LET p == Put(q, made + 1, known > made)
         IN  /\ p \in QueryOf(Held) /\ ~p.old
             /\ Holds(p, known) /\ Holds(p, made)
<1> DEFINE p == Put(q, made + 1, known > made)
           late == known > made
<1>1. PICK new \in Held : new = made + 1  BY DEF Held
<1>2. late \in BOOLEAN  OBVIOUS
<1>3. p = Put(q, new, late)  BY <1>1
<1>0. late => known > made  OBVIOUS
<1>01. ~late => made >= known  OBVIOUS
<1> HIDE DEF late
<1>4. /\ p \in QueryOf(Held) /\ p.held = new /\ ~p.old /\ ~p.failed /\ p.raced = late
      /\ p.behind = ~Idle(q) /\ p.fetch = q.fetch
  BY <1>2, <1>3, PutShape
<1> HIDE DEF p
<1>5. ~(p.fetch = "answered" /\ ~p.behind)  BY <1>4 DEF Idle
<1>6. ~p.raced => new > known
  <2>1. ASSUME ~p.raced  PROVE ~late  BY <1>4, <2>1
  <2>2. ~late => new > known  BY <1>01, <1>1
  <2> QED  BY <2>1, <2>2
<1>7. new > made  BY <1>1
<1>8. p \in QueryOf(Held) /\ ~p.old /\ p.held > made /\ (~p.raced => p.held > known)
  BY <1>4, <1>6, <1>7
<1>9. Holds(p, known) /\ Holds(p, made)  BY <1>5, <1>8 DEF Holds
<1> QED  BY <1>8, <1>9 DEF p

\* A stage of a call that has come back.
LEMMA StageKeeps ==
  ASSUME AppInv, NEW i \in Press, NEW k \in Nat, Stage(i, k),
         UNCHANGED <<given, address, revealed, saved, lost>>,
         press[i].at \in {"made", "marking", "failed"}, k = press[i].stage + 1
  PROVE  AppInv'
<1>0. MarksAll(given)'  BY DEF AppInv
<1>d. PICK d : d = Deed(press[i].call)  OBVIOUS
<1> DEFINE hit == k <= Len(d.marks) /\ Marks(d.marks[k])
           q == IF hit THEN Marked(query, OnScreenNow, given.retries) ELSE query
           last == k >= Len(d.marks)
           told == press[i].made > 0 /\ press[i].at # "failed"
           waiting == d.waits /\ hit /\ OnScreenNow
           puts == k = 1 /\ given.key \in d.puts /\ told
           pressed == IF hit THEN Freed ELSE press
           over == [press[i] EXCEPT !.at = "idle", !.waits = FALSE]
           onward == [press[i] EXCEPT !.at = IF told THEN "marking" ELSE "failed",
                                      !.stage = k, !.waits = waiting]
<1>1. /\ query' = IF puts THEN Put(q, press[i].made + 1, known > press[i].made) ELSE q
      /\ press' = [pressed EXCEPT ![i] = IF last /\ ~waiting THEN over ELSE onward]
      /\ known' = IF last /\ ~waiting /\ told /\ press[i].made > known THEN press[i].made ELSE known
  BY <1>d DEF Stage
<1>2. /\ saved \in Nat /\ known \in 0..saved /\ known \in Nat /\ query \in QueryOf(Held)
      /\ press \in [Press -> PressesOf(saved)] /\ OnScreenNow \in BOOLEAN
  BY AppTypes
<1>3. press[i].made \in 0..saved /\ press[i].stage \in Nat  BY <1>2 DEF PressesOf
<1>4. /\ d \in given.deeds /\ Len(d.marks) \in Nat /\ d.waits \in BOOLEAN
      /\ given.key \in d.puts \/ \E n \in 1..Len(d.marks) : Marks(d.marks[n])
      /\ (\E e \in given.deeds : given.key \in e.puts) => Len(d.marks) = 1 /\ ~d.waits
  BY <1>d, DeedGiven
<1>5. /\ hit \in BOOLEAN /\ told \in BOOLEAN /\ waiting \in BOOLEAN /\ last \in BOOLEAN
      /\ puts \in BOOLEAN
  BY <1>4 DEF Marks, Reaches
<1>6. /\ q \in QueryOf(Held) /\ \A m : Holds(query, m) \/ hit => Holds(q, m)
      /\ OnScreenNow /\ Idle(q) /\ Has(q) /\ q.old => q.failed
  <2>1. CASE hit  BY <2>1, MarkedHolds
  <2>2. CASE ~hit  BY <1>2, <2>2 DEF AppInv, NothingOldOnScreen
  <2> QED  BY <2>1, <2>2
<1>7. /\ over \in PressesOf(saved) /\ over.at = "idle" /\ over.made = press[i].made
      /\ over.call = press[i].call
  BY <1>2 DEF PressesOf
<1>8. /\ onward \in PressesOf(saved) /\ onward.at = (IF told THEN "marking" ELSE "failed")
      /\ onward.made = press[i].made /\ onward.call = press[i].call /\ onward.stage = k
  BY <1>2, <1>5 DEF PressesOf
<1>9. /\ pressed \in [Press -> PressesOf(saved)]
      /\ \A j \in Press : /\ pressed[j].at = press[j].at /\ pressed[j].call = press[j].call
                          /\ pressed[j].made = press[j].made /\ pressed[j].stage = press[j].stage
  <2>1. \A j \in Press : press[j] \in PressesOf(saved)  BY <1>2
  <2>2. ASSUME NEW j \in Press
        PROVE  /\ pressed[j] \in PressesOf(saved)
               /\ pressed[j].at = press[j].at /\ pressed[j].call = press[j].call
               /\ pressed[j].made = press[j].made /\ pressed[j].stage = press[j].stage
    <3>1. CASE hit
      <4>1. pressed[j] = [press[j] EXCEPT !.waits = FALSE]  BY <3>1 DEF Freed
      <4> HIDE DEF pressed
      <4> QED  BY <2>1, <4>1, PressLeft
    <3>2. CASE ~hit
      <4>1. pressed = press  BY <3>2
      <4> QED  BY <2>1, <4>1
    <3> QED  BY <3>1, <3>2
  <2>3. pressed = [j \in Press |-> pressed[j]]
    <3>1. CASE hit  BY <3>1 DEF Freed
    <3>2. CASE ~hit  BY <1>2, <3>2
    <3> QED  BY <3>1, <3>2
  <2> HIDE DEF pressed
  <2> QED  BY <2>2, <2>3
<1> HIDE DEF q, over, onward, pressed
<1>10. /\ press' \in [Press -> PressesOf(saved)]
       /\ \A j \in Press : j # i => /\ press'[j].at = press[j].at /\ press'[j].call = press[j].call
                                    /\ press'[j].made = press[j].made
                                    /\ press'[j].stage = press[j].stage
       /\ press'[i] = IF last /\ ~waiting THEN over ELSE onward
  BY <1>1, <1>7, <1>8, <1>9
<1>11. press'[i].made = press[i].made /\ press'[i].call = press[i].call
  BY <1>7, <1>8, <1>10
<1>12. press'[i].at = "marking" => told /\ press'[i].stage = k /\ ~(last /\ ~waiting)
  BY <1>7, <1>8, <1>10
<1>13. press'[i].at \in {"idle", "marking", "failed"}
  BY <1>7, <1>8, <1>10
<1>14. query' \in QueryOf(Held) /\ (OnScreenNow /\ Idle(query') /\ Has(query') /\ query'.old => query'.failed)
  <2>1. CASE puts
    <3>1. PICK made \in 0..saved : made = press[i].made  BY <1>3
    <3>2. query' = Put(q, made + 1, known > made)  BY <1>1, <2>1, <3>1
    <3>3. query' \in QueryOf(Held) /\ ~query'.old  BY <1>2, <1>6, <3>2, PutHolds
    <3> QED  BY <3>3
  <2>2. CASE ~puts
    <3>1. query' = q  BY <1>1, <2>2
    <3> QED  BY <1>6, <3>1
  <2> QED  BY <1>5, <2>1, <2>2
<1>15. known' \in 0..saved
  BY <1>1, <1>2, <1>3
<1>16. AppTypeOK'
  BY <1>10, <1>14, <1>15 DEF AppInv, AppTypeOK, Held
<1>17. NothingOldOnScreen'
  BY <1>14 DEF NothingOldOnScreen, OnScreenNow, On, Followed
<1>18. CallsAreGiven'
  <2>1. {j \in Press : press'[j].made > 0} = {j \in Press : press[j].made > 0}
    BY <1>10, <1>11
  <2>2. saved' = Cardinality({j \in Press : press'[j].made > 0})
    BY <2>1 DEF AppInv, CallsAreGiven
  <2>3. ASSUME NEW j \in Press
        PROVE  /\ press'[j].at # "idle" => \E e \in given.deeds : e.call = press'[j].call
               /\ press'[j].call = "none" \/ press'[j].at = "sent" => press'[j].made = 0
               /\ press'[j].at \in {"made", "marking"} => press'[j].made > 0
               /\ press'[j].at \in {"sent", "made"} => press'[j].stage = 0
    <3>1. CASE j # i  BY <1>10, <3>1 DEF AppInv, CallsAreGiven
    <3>2. CASE j = i  BY <1>11, <1>12, <1>13, <3>2 DEF AppInv, CallsAreGiven
    <3> QED  BY <3>1, <3>2
  <2> QED  BY <2>2, <2>3 DEF CallsAreGiven
<1>19. press[i].at = "made" => k = 1  BY <1>3 DEF AppInv, CallsAreGiven
<1>20. press[i].at = "marking" =>
         /\ \A e \in given.deeds : given.key \notin e.puts
         /\ Reached(i) => Holds(query, press[i].made)
         /\ Reached(i) \/ \E n \in 1..Len(d.marks) : n > press[i].stage /\ Marks(d.marks[n])
  BY <1>d DEF AppInv, KnownIsHeld
<1>21. CASE puts
  <2>1. PICK made \in 0..saved : made = press[i].made  BY <1>3
  <2>2. query' = Put(q, made + 1, known > made)  BY <1>1, <1>21, <2>1
  <2>3. Holds(query', known) /\ Holds(query', made)  BY <1>2, <1>6, <2>2, PutHolds
  <2>4. Holds(query, known)'  BY <1>1, <2>1, <2>3 DEF Holds
  <2>5. last /\ ~waiting
    <3>1. k = 1 /\ given.key \in d.puts  BY <1>21
    <3>2. Len(d.marks) = 1 /\ ~d.waits  BY <1>4, <3>1
    <3> QED  BY <3>1, <3>2
  <2>6. press'[i].at # "marking"  BY <1>12, <2>5
  <2>7. \A j \in Press : press'[j].at # "marking"
    <3>1. \A j \in Press : press[j].at = "marking" => FALSE
      BY <1>4, <1>21 DEF AppInv, KnownIsHeld
    <3> QED  BY <1>10, <2>6, <3>1
  <2>8. KnownIsHeld'  BY <2>4, <2>7 DEF KnownIsHeld
  <2> QED  BY <1>0, <1>16, <1>17, <1>18, <2>8 DEF AppInv
<1>22. CASE ~puts
  <2>1. query' = q /\ \A m : Holds(query, m) \/ hit => Holds(query', m)
    BY <1>1, <1>6, <1>22
  <2>2. Holds(query', known)  BY <2>1 DEF AppInv, KnownIsHeld
  <2>3. told /\ (Reached(i) \/ hit) => Holds(query', press[i].made)
    <3>1. ASSUME told, Reached(i)  PROVE press[i].at = "marking" \/ hit
      <4>1. CASE press[i].at = "made"
        <5>1. press[i].stage = 0  BY <4>1 DEF AppInv, CallsAreGiven
        <5>2. ~Reached(i)  BY <5>1 DEF Reached
        <5> QED  BY <3>1, <5>2
      <4> QED  BY <3>1, <4>1
    <3> QED  BY <1>20, <2>1, <3>1
  <2>4. ASSUME last, ~waiting, told  PROVE Holds(query', press[i].made)
    <3>1. CASE press[i].at = "made"
      <4>1. k = 1  BY <1>19, <3>1
      <4>2. given.key \notin d.puts  BY <1>22, <2>4, <4>1
      <4>3. PICK n \in 1..Len(d.marks) : Marks(d.marks[n])  BY <1>4, <4>2
      <4>4. n = k /\ k <= Len(d.marks)  BY <1>4, <2>4, <4>1, <4>3
      <4> QED  BY <2>3, <2>4, <4>3, <4>4
    <3>2. CASE press[i].at = "marking"
      <4>1. CASE Reached(i)  BY <2>3, <2>4, <4>1
      <4>2. CASE ~Reached(i)
        <5>1. PICK n \in 1..Len(d.marks) : n > press[i].stage /\ Marks(d.marks[n])
          BY <1>20, <3>2, <4>2
        <5>2. n = k /\ k <= Len(d.marks)  BY <1>3, <1>4, <2>4, <5>1
        <5> QED  BY <2>3, <2>4, <5>1, <5>2
      <4> QED  BY <4>1, <4>2
    <3> QED  BY <2>4, <3>1, <3>2
  <2>5. Holds(query, known)'
    <3>1. CASE last /\ ~waiting /\ told /\ press[i].made > known
      <4>1. known' = press[i].made  BY <1>1, <3>1
      <4>2. Holds(query', press[i].made)  BY <2>4, <3>1
      <4> QED  BY <4>1, <4>2 DEF Holds
    <3>2. CASE ~(last /\ ~waiting /\ told /\ press[i].made > known)
      <4>1. known' = known  BY <1>1, <3>2
      <4> QED  BY <2>2, <4>1 DEF Holds
    <3> QED  BY <3>1, <3>2
  <2>6. ASSUME NEW j \in Press, press'[j].at = "marking"
        PROVE  (/\ \A e \in given.deeds : given.key \notin e.puts
                /\ Reached(j) => Holds(query, press[j].made)
                /\ Reached(j) \/ \E n \in 1..Len(Deed(press[j].call).marks) :
                     n > press[j].stage /\ Marks(Deed(press[j].call).marks[n]))'
    <3>1. CASE j # i
      <4>1. /\ press[j].at = "marking" /\ press'[j].call = press[j].call
            /\ press'[j].made = press[j].made /\ press'[j].stage = press[j].stage
        BY <1>10, <2>6, <3>1
      <4>2. Reached(j) => Holds(query', press[j].made)
        BY <2>1, <4>1 DEF AppInv, KnownIsHeld
      <4>3. Reached(j)' <=> Reached(j)  BY <4>1 DEF Reached, Deed, Marks
      <4>4. (Reached(j) => Holds(query, press[j].made))'
        BY <4>1, <4>2, <4>3 DEF Holds
      <4>5. (\A e \in given.deeds : given.key \notin e.puts)'
        BY <4>1 DEF AppInv, KnownIsHeld
      <4>6. (Reached(j) \/ \E n \in 1..Len(Deed(press[j].call).marks) :
               n > press[j].stage /\ Marks(Deed(press[j].call).marks[n]))'
        <5>1. Reached(j) \/ \E n \in 1..Len(Deed(press[j].call).marks) :
                n > press[j].stage /\ Marks(Deed(press[j].call).marks[n])
          BY <4>1 DEF AppInv, KnownIsHeld
        <5> QED  BY <4>1, <4>3, <5>1 DEF Deed, Marks
      <4> QED  BY <4>4, <4>5, <4>6
    <3>2. CASE j = i
      <4>1. told /\ press'[i].stage = k /\ ~(last /\ ~waiting)  BY <1>12, <2>6, <3>2
      <4>2. \A e \in given.deeds : given.key \notin e.puts
        <5>1. CASE press[i].at = "marking"  BY <1>20, <5>1
        <5>2. CASE press[i].at = "made"
          <6>1. k = 1  BY <1>19, <5>2
          <6>2. ASSUME Len(d.marks) = 1, ~d.waits  PROVE FALSE
            BY <4>1, <6>1, <6>2
          <6> QED  BY <1>4, <6>2
        <5> QED  BY <1>11, <4>1, <5>1, <5>2
      <4>3. PICK now \in BOOLEAN : now = Reached(i)'  BY DEF Reached
      <4>4. now = \E n \in 1..k : n <= Len(d.marks) /\ Marks(d.marks[n])
        BY <1>11, <1>d, <4>1, <4>3 DEF Reached, Deed, Marks
      <4>5. now => Reached(i) \/ hit
        <5>1. ASSUME NEW n \in 1..k, n <= Len(d.marks), Marks(d.marks[n])  PROVE Reached(i) \/ hit
          <6>1. CASE n = k  BY <5>1, <6>1
          <6>2. CASE n # k
            <7>1. n \in 1..press[i].stage  BY <1>3, <6>2
            <7> QED  BY <1>d, <5>1, <7>1 DEF Reached
          <6> QED  BY <6>1, <6>2
        <5> QED  BY <4>4, <5>1
      <4>6. now \/ \E n \in 1..Len(d.marks) : n > k /\ Marks(d.marks[n])
        <5>1. \/ Reached(i)
              \/ \E n \in 1..Len(d.marks) : n >= k /\ Marks(d.marks[n])
          <6>1. CASE press[i].at = "marking"  BY <1>3, <1>4, <1>20, <6>1
          <6>2. CASE press[i].at = "made"
            <7>1. k = 1  BY <1>19, <6>2
            <7> QED  BY <1>4, <4>2, <7>1
          <6> QED  BY <4>1, <6>1, <6>2
        <5>2. CASE Reached(i)
          <6>1. PICK n \in 1..press[i].stage : n <= Len(d.marks) /\ Marks(d.marks[n])
            BY <1>d, <5>2 DEF Reached
          <6>2. n \in 1..k  BY <1>3
          <6> QED  BY <4>4, <6>1, <6>2
        <5>3. CASE \E n \in 1..Len(d.marks) : n >= k /\ Marks(d.marks[n])
          <6>1. PICK n \in 1..Len(d.marks) : n >= k /\ Marks(d.marks[n])  BY <5>3
          <6>2. CASE n = k
            <7>1. n \in 1..k /\ n <= Len(d.marks)  BY <1>4, <6>2
            <7> QED  BY <4>4, <6>1, <7>1
          <6>3. CASE n > k  BY <6>1, <6>3
          <6> QED  BY <1>4, <6>1, <6>2, <6>3
        <5> QED  BY <5>1, <5>2, <5>3
      <4>7. (Reached(i) => Holds(query, press[i].made))'
        <5>1. now => Holds(query', press[i].made)  BY <2>3, <4>1, <4>5
        <5> QED  BY <1>11, <4>3, <5>1 DEF Holds
      <4>8. (Reached(i) \/ \E n \in 1..Len(Deed(press[i].call).marks) :
               n > press[i].stage /\ Marks(Deed(press[i].call).marks[n]))'
        <5>1. Deed(press[i].call)' = d  BY <1>11, <1>d DEF Deed
        <5> QED  BY <4>1, <4>3, <4>6, <5>1 DEF Marks
      <4>9. (\A e \in given.deeds : given.key \notin e.puts)'  BY <4>2
      <4> QED  BY <3>2, <4>7, <4>8, <4>9
    <3> QED  BY <3>1, <3>2
  <2>7. KnownIsHeld'  BY <2>5, <2>6 DEF KnownIsHeld
  <2> QED  BY <1>0, <1>16, <1>17, <1>18, <2>7 DEF AppInv
<1> QED  BY <1>5, <1>21, <1>22
LEMMA ReturnsKeeps ==
  ASSUME AppInv, NEW i \in Press, Returns(i)  PROVE AppInv'
<1>1. /\ press[i].stage = 0 /\ press[i].at \in {"made", "failed"} /\ Stage(i, 1)
      /\ UNCHANGED <<given, address, revealed, saved, lost>>
  BY DEF Returns
<1>2. 1 = press[i].stage + 1 /\ 1 \in Nat  BY <1>1
<1> QED  BY <1>1, <1>2, StageKeeps

LEMMA ProceedsKeeps ==
  ASSUME AppInv, NEW i \in Press, Proceeds(i)  PROVE AppInv'
<1>1. /\ press[i].at \in {"marking", "failed"} /\ Stage(i, press[i].stage + 1)
      /\ UNCHANGED <<given, address, revealed, saved, lost>>
  BY DEF Proceeds
<1>2. press[i] \in PressesOf(saved)  BY AppTypes
<1>3. press[i].stage \in Nat  BY <1>2 DEF PressesOf
<1>4. PICK k \in Nat : k = press[i].stage + 1  BY <1>3
<1>5. Stage(i, k)  BY <1>1, <1>4
<1> QED  BY <1>1, <1>4, <1>5, StageKeeps

LEMMA RefusedKeeps ==
  ASSUME AppInv, NEW i \in Press, Refused(i) \/ Lose(i) \/ Shows503(i)  PROVE AppInv'
<1>1. lost \in 0..MaxLost /\ MaxLost \in Nat
  BY AppAssumption DEF AppInv, AppTypeOK, AppAssumption
<1>2. CASE Refused(i)
  <2>1. /\ press[i].at # "idle" /\ press' = [press EXCEPT ![i].at = "failed"]
        /\ UNCHANGED <<given, address, revealed, query, saved, known, lost>>
    BY <1>2 DEF Refused
  <2> QED  BY <1>1, <2>1, CallFails
<1>3. CASE Lose(i)
  <2>1. /\ press[i].at # "idle" /\ press' = [press EXCEPT ![i].at = "failed"]
        /\ UNCHANGED <<given, address, revealed, query, saved, known>>
        /\ lost < MaxLost /\ lost' = lost + 1
    BY <1>3 DEF Lose
  <2>2. lost' \in 0..MaxLost  BY <1>1, <2>1
  <2> QED  BY <2>1, <2>2, CallFails
<1>4. CASE Shows503(i)
  <2>1. /\ press[i].at # "idle" /\ press' = [press EXCEPT ![i].at = "idle"]
        /\ UNCHANGED <<given, address, revealed, query, saved, known, lost>>
    BY <1>4 DEF Shows503
  <2> QED  BY <1>1, <2>1, CallFails
<1> QED  BY <1>2, <1>3, <1>4

LEMMA AppStarts ==
  ASSUME AppIdle, IsScene(given), MarksAll(given)  PROVE AppInv
<1>1. /\ address = "home" /\ revealed = FALSE /\ query = Empty
      /\ press = [i \in Press |-> NoPress] /\ saved = 0 /\ known = 0 /\ lost = 0
  BY DEF AppIdle
<1>2. /\ NoPress \in PressesOf(0) /\ NoPress.at = "idle" /\ NoPress.call = "none"
      /\ NoPress.made = 0 /\ NoPress.stage = 0
  BY DEF NoPress, PressesOf
<1>3. Empty \in QueryOf(0..0 + 1) /\ Empty.held = NoData /\ Empty.fetch = "none"
  BY DEF Empty, QueryOf, NoData
<1>4. press \in [Press -> PressesOf(saved)] /\ \A i \in Press : press[i] = NoPress
  BY <1>1, <1>2
<1>5. Cardinality(Press) \in Nat /\ MaxLost \in Nat /\ 0 <= Cardinality(Press)
  BY AppAssumption, FS_CardinalityType DEF AppAssumption
<1>6. AppTypeOK
  <2>0. "home" \in Address  BY DEF Address, App
  <2>1. address \in Address /\ revealed \in BOOLEAN  BY <1>1, <2>0
  <2>2. saved \in 0..Cardinality(Press) /\ known \in 0..saved /\ lost \in 0..MaxLost
    BY <1>1, <1>5
  <2> QED  BY <1>1, <1>3, <1>4, <2>1, <2>2 DEF AppTypeOK
<1>7. CallsAreGiven
  <2>1. {i \in Press : press[i].made > 0} = {}  BY <1>2, <1>4
  <2>2. saved = Cardinality({i \in Press : press[i].made > 0})
    BY <1>1, <2>1, FS_EmptySet
  <2> QED  BY <1>2, <1>4, <2>2 DEF CallsAreGiven
<1>8. KnownIsHeld  BY <1>1, <1>2, <1>3, <1>4 DEF KnownIsHeld, Holds, Has
<1>9. NothingOldOnScreen  BY <1>1, <1>3 DEF NothingOldOnScreen, Has
<1> QED  BY <1>6, <1>7, <1>8, <1>9 DEF AppInv

LEMMA AppKeeps ==
  ASSUME AppInv, [AppNext]_appVars  PROVE AppInv'
<1>1. CASE UNCHANGED appVars
  <2>1. UNCHANGED <<given, address, revealed, query, press, saved, known, lost>>
    BY <1>1 DEF appVars
  <2>2. query' \in QueryOf(Held) /\ lost' \in 0..MaxLost /\ address' \in Address
        /\ revealed' \in BOOLEAN
    BY <2>1, AppTypes DEF AppInv, AppTypeOK
  <2>3. \A m : Holds(query, m) => Holds(query, m)'  BY <2>1 DEF Holds
  <2>4. NothingOldOnScreen'
    BY <2>1 DEF AppInv, NothingOldOnScreen, OnScreenNow, On, Followed
  <2>5. /\ press' \in [Press -> PressesOf(saved)]
        /\ \A i \in Press : /\ press'[i].at = press[i].at /\ press'[i].call = press[i].call
                            /\ press'[i].made = press[i].made /\ press'[i].stage = press[i].stage
    BY <2>1, PressStays
  <2> QED  BY <2>1, <2>2, <2>3, <2>4, <2>5, QueryMoves
<1>2. CASE Answers  BY <1>2, AnswersKeeps
<1>3. CASE Lands  BY <1>3, LandsKeeps
<1>4. ASSUME NEW i \in Press, Made(i) \/ Returns(i) \/ Proceeds(i) \/ Shows503(i)  PROVE AppInv'
  BY <1>4, MadeKeeps, ReturnsKeeps, ProceedsKeeps, RefusedKeeps
<1>5. ASSUME NEW a \in given.at, Visit(a)  PROVE AppInv'  BY <1>5, VisitKeeps
<1>6. ASSUME NEW i \in Press, NEW d \in given.deeds, Presses(i, d.call)  PROVE AppInv'
  BY <1>6, PressesKeeps
<1>7. ASSUME NEW i \in Press, Refused(i) \/ Lose(i)  PROVE AppInv'  BY <1>7, RefusedKeeps
<1>8. CASE Reveal  BY <1>8, RevealKeeps
<1>9. CASE Poll  BY <1>9, PollKeeps
<1>10. CASE Misses  BY <1>10, MissesKeeps
<1> QED
  BY <1>1, <1>2, <1>3, <1>4, <1>5, <1>6, <1>7, <1>8, <1>9, <1>10 DEF AppNext, Moves

LEMMA ShownIsSoHolds ==
  ASSUME AppInv  PROVE ShownIsSo
<1>1. Holds(query, known) /\ NothingOldOnScreen  BY DEF AppInv, KnownIsHeld
<1> QED  BY <1>1 DEF ShownIsSo, NothingOldOnScreen, Holds
-----------------------------------------------------------------------------
(* The demo site.                                                          *)

LEMMA SeededIsOne == Cardinality(Seeded) = 1
BY FS_Singleton DEF Seeded

LEMMA RunKeysApart ==
  /\ "global" \in RunKeys /\ NoOne \notin RunKeys /\ Hit \subseteq RunKeys /\ "global" \notin Hit
BY DemoAssumption DEF DemoAssumption, RunKeys

LEMMA SiteParts ==
  ASSUME DemoTypeOK
  PROVE  DOMAIN site = {"managed", "edits", "deleted", "sessions", "flags", "flaky"}
BY DEF DemoTypeOK, FreshSite

\* The parts of the site after each kind of change.
LEMMA ManagedPut ==
  ASSUME DemoTypeOK, NEW m
  PROVE  LET s == [site EXCEPT !.managed = m]
         IN  /\ s.managed = m /\ s.edits = site.edits /\ s.deleted = site.deleted
             /\ s.flags = site.flags /\ s.flaky = site.flaky /\ DOMAIN s = DOMAIN site
BY SiteParts

LEMMA EditsPut ==
  ASSUME DemoTypeOK, NEW e
  PROVE  LET s == [site EXCEPT !.edits = e]
         IN  /\ s.managed = site.managed /\ s.edits = e /\ s.deleted = site.deleted
             /\ s.flags = site.flags /\ s.flaky = site.flaky /\ DOMAIN s = DOMAIN site
BY SiteParts

LEMMA DeletedPut ==
  ASSUME DemoTypeOK, NEW d
  PROVE  LET s == [site EXCEPT !.deleted = d]
         IN  /\ s.managed = site.managed /\ s.edits = site.edits /\ s.deleted = d
             /\ s.flags = site.flags /\ s.flaky = site.flaky /\ DOMAIN s = DOMAIN site
BY SiteParts

LEMMA SessionsPut ==
  ASSUME DemoTypeOK, NEW d
  PROVE  LET s == [site EXCEPT !.sessions = d]
         IN  /\ s.managed = site.managed /\ s.edits = site.edits /\ s.deleted = site.deleted
             /\ s.flags = site.flags /\ s.flaky = site.flaky /\ DOMAIN s = DOMAIN site
BY SiteParts

LEMMA FlagsPut ==
  ASSUME DemoTypeOK, NEW k \in RunKeys, NEW new \in [Flag -> Setting]
  PROVE  LET s == [site EXCEPT !.flags[k] = new]
         IN  /\ s.managed = site.managed /\ s.edits = site.edits /\ s.deleted = site.deleted
             /\ s.flaky = site.flaky /\ DOMAIN s = DOMAIN site
             /\ s.flags \in [RunKeys -> [Flag -> Setting]]
             /\ \A j \in RunKeys : j # k => s.flags[j] = site.flags[j]
<1> DEFINE fs == [site.flags EXCEPT ![k] = new]
           s == [site EXCEPT !.flags[k] = new]
<1>1. site.flags \in [RunKeys -> [Flag -> Setting]]  BY DEF DemoTypeOK
<1>2. s = [site EXCEPT !.flags = fs]  OBVIOUS
<1>3. fs \in [RunKeys -> [Flag -> Setting]] /\ \A j \in RunKeys : j # k => fs[j] = site.flags[j]
  BY <1>1
<1> HIDE DEF fs
<1>4. s.flags = fs /\ s.managed = site.managed /\ s.edits = site.edits
      /\ s.deleted = site.deleted /\ s.flaky = site.flaky /\ DOMAIN s = DOMAIN site
  BY <1>2, SiteParts
<1> QED  BY <1>3, <1>4

LEMMA FlakyPut ==
  ASSUME DemoTypeOK, NEW d
  PROVE  LET s == [site EXCEPT !.flaky = d]
         IN  /\ s.managed = site.managed /\ s.edits = site.edits /\ s.deleted = site.deleted
             /\ s.flags = site.flags /\ s.flaky = d /\ DOMAIN s = DOMAIN site
BY SiteParts

LEMMA UsersCleared ==
  ASSUME DemoTypeOK, NEW m, NEW d, NEW e
  PROVE  LET s == [site EXCEPT !.managed = m, !.deleted = d, !.edits = e]
         IN  /\ s.managed = m /\ s.edits = e /\ s.deleted = d
             /\ s.flags = site.flags /\ s.flaky = site.flaky /\ DOMAIN s = DOMAIN site
BY SiteParts

LEMMA FreshIsFresh ==
  /\ FreshSite.managed = <<>> /\ DOMAIN FreshSite.edits = {} /\ FreshSite.deleted = {}
  /\ FreshSite.flags \in [RunKeys -> [Flag -> Setting]] /\ FreshSite.flaky = {}
<1>1. Unset \in [Flag -> Setting]  BY DEF Unset, Setting
<1> QED  BY <1>1 DEF FreshSite

LEMMA UnsetIsSetting == Unset \in [Flag -> Setting]
BY DEF Unset, Setting

LEMMA OverIsSetting ==
  ASSUME NEW old \in [Flag -> Setting], NEW new \in [Flag -> Setting]
  PROVE  Over(old, new) \in [Flag -> Setting]
BY DEF Over

LEMMA PracticeIsSetting ==
  ASSUME NEW on \in BOOLEAN  PROVE PracticeFlags(on) \in [Flag -> Setting]
BY DEF PracticeFlags, Setting
-----------------------------------------------------------------------------
\* A list of users, by itself.
IdsOf(m) == {m[i].id : i \in 1..Len(m)}
MakerOf(m, id) == m[CHOOSE i \in 1..Len(m) : m[i].id = id].by
InOrder(m) ==
  m \in Seq([id : Nat, by : Hit]) /\ \A i \in 1..Len(m) : m[i].id = 1 + i

LEMMA ListIs ==
  ASSUME NEW m, InOrder(m)
  PROVE  /\ Len(m) \in Nat /\ IdsOf(m) = 2..Len(m) + 1
         /\ \A i \in 1..Len(m) : MakerOf(m, 1 + i) = m[i].by /\ m[i].by \in Hit
<1>0. PICK rows : rows = [id : Nat, by : Hit]  OBVIOUS
<1>00. m \in Seq(rows)  BY <1>0 DEF InOrder
<1>01. Len(m) \in Nat /\ \A i \in 1..Len(m) : m[i] \in rows  BY <1>00
<1>1. Len(m) \in Nat /\ \A i \in 1..Len(m) : m[i] \in [id : Nat, by : Hit]  BY <1>0, <1>01
<1>2. \A i \in 1..Len(m) : m[i].by \in Hit /\ m[i].id = 1 + i  BY <1>1 DEF InOrder
<1>3. IdsOf(m) = 2..Len(m) + 1
  <2>1. ASSUME NEW id \in IdsOf(m)  PROVE id \in 2..Len(m) + 1
    <3>1. PICK i \in 1..Len(m) : id = m[i].id  BY DEF IdsOf
    <3> QED  BY <1>1, <1>2, <3>1
  <2>2. ASSUME NEW id \in 2..Len(m) + 1  PROVE id \in IdsOf(m)
    <3>1. PICK i \in 1..Len(m) : i = id - 1  BY <1>1
    <3>2. id = m[i].id  BY <1>2, <3>1
    <3> QED  BY <3>2 DEF IdsOf
  <2> QED  BY <2>1, <2>2
<1>4. ASSUME NEW i \in 1..Len(m)  PROVE MakerOf(m, 1 + i) = m[i].by
  <2>1. m[i].id = 1 + i  BY <1>2
  <2>2. ASSUME NEW j \in 1..Len(m), m[j].id = 1 + i  PROVE j = i
    BY <1>1, <1>2, <2>2
  <2>3. (CHOOSE j \in 1..Len(m) : m[j].id = 1 + i) = i  BY <2>1, <2>2
  <2> QED  BY <2>3 DEF MakerOf
<1> QED  BY <1>1, <1>2, <1>3, <1>4

LEMMA ListGrows ==
  ASSUME NEW m, InOrder(m), NEW h \in Hit, NEW n, n = Append(m, [id |-> Len(m) + 2, by |-> h])
  PROVE  /\ InOrder(n) /\ IdsOf(m) \subseteq IdsOf(n)
         /\ \A id \in IdsOf(m) : MakerOf(n, id) = MakerOf(m, id)
<1> DEFINE u == [id |-> Len(m) + 2, by |-> h]
<1>1. Len(m) \in Nat /\ m \in Seq([id : Nat, by : Hit])  BY ListIs DEF InOrder
<1>2. u \in [id : Nat, by : Hit] /\ u.id = Len(m) + 2  BY <1>1
<1> HIDE DEF u
<1>3. n = Append(m, u)  BY DEF u
<1>4. /\ n \in Seq([id : Nat, by : Hit]) /\ Len(n) = Len(m) + 1
      /\ \A i \in 1..Len(m) : n[i] = m[i]
      /\ n[Len(m) + 1] = u
  BY <1>1, <1>2, <1>3
<1>5. ASSUME NEW i \in 1..Len(n)  PROVE n[i].id = 1 + i
  <2>1. CASE i \in 1..Len(m)  BY <1>4, <2>1 DEF InOrder
  <2>2. CASE i = Len(m) + 1
    <3>1. n[i].id = Len(m) + 2  BY <1>2, <1>4, <2>2
    <3> QED  BY <1>1, <2>2, <3>1
  <2> QED  BY <1>1, <1>4, <2>1, <2>2
<1>6. InOrder(n)  BY <1>4, <1>5 DEF InOrder
<1>7. IdsOf(m) = 2..Len(m) + 1 /\ IdsOf(n) = 2..Len(n) + 1  BY <1>6, ListIs
<1>8. IdsOf(m) \subseteq IdsOf(n)  BY <1>1, <1>4, <1>7
<1>9. ASSUME NEW id \in IdsOf(m)  PROVE MakerOf(n, id) = MakerOf(m, id)
  <2>1. PICK i \in 1..Len(m) : id = 1 + i
    <3>1. id - 1 \in 1..Len(m) /\ id = 1 + (id - 1)  BY <1>1, <1>7
    <3> QED  BY <3>1
  <2>2. MakerOf(m, 1 + i) = m[i].by  BY ListIs
  <2>3. i \in 1..Len(n)  BY <1>1, <1>4
  <2>4. MakerOf(n, 1 + i) = n[i].by  BY <1>6, <2>3, ListIs
  <2> QED  BY <1>4, <2>1, <2>2, <2>4
<1> QED  BY <1>6, <1>8, <1>9

LEMMA UsersAre ==
  /\ Managed = IdsOf(site.managed)
  /\ \A id : UserOf(id) = IF id \in IdsOf(site.managed) THEN MakerOf(site.managed, id) ELSE NoOne
  /\ DemoTypeOK => (NumbersInOrder <=> InOrder(site.managed))
<1>1. Managed = IdsOf(site.managed)  BY DEF Managed, IdsOf
<1>2. \A id : UserOf(id) = IF id \in IdsOf(site.managed) THEN MakerOf(site.managed, id) ELSE NoOne
  BY <1>1 DEF UserOf, MakerOf
<1>3. DemoTypeOK => (NumbersInOrder <=> InOrder(site.managed))
  BY SeededIsOne DEF DemoTypeOK, NumbersInOrder, InOrder
<1> QED  BY <1>1, <1>2, <1>3

-----------------------------------------------------------------------------
Status == {0, 200, 201, 401, 403, 404, 409, 503}

LEMMA TypesKept ==
  ASSUME DemoTypeOK, NEW h \in Hit, NEW status \in Status, Replies(h, status),
         epoch' \in Nat, epoch <= epoch', DOMAIN site' = DOMAIN site,
         site'.managed \in Seq([id : Nat, by : Hit]), site'.deleted \subseteq Managed',
         site'.flags \in [RunKeys -> [Flag -> Setting]], site'.flaky \subseteq RunKeys,
         carries' \in [Visitor -> [key : {NoOne} \cup RunKeys, sid : {NoOne} \cup Hit]],
         failed' \subseteq Hit
  PROVE  DemoTypeOK'
<1>1. /\ stage' = [stage EXCEPT ![h] = "over"] /\ said' = [said EXCEPT ![h] = status]
      /\ asked' = asked /\ saw' = saw /\ starts' = starts
  BY DEF Replies
<1>2. stage' \in [Hit -> {"sent", "waits", "over"}]  BY <1>1 DEF DemoTypeOK
<1>3. said' \in [Hit -> Status]  BY <1>1 DEF DemoTypeOK, Status
<1>4. saw' \in [Hit -> [key : RunKeys, user : {NoOne} \cup Hit, epoch : 0..epoch']]
  <2>1. epoch \in Nat /\ saw \in [Hit -> [key : RunKeys, user : {NoOne} \cup Hit, epoch : 0..epoch]]
    BY DEF DemoTypeOK
  <2>2. 0..epoch \subseteq 0..epoch'  BY <2>1
  <2>3. [key : RunKeys, user : {NoOne} \cup Hit, epoch : 0..epoch]
          \subseteq [key : RunKeys, user : {NoOne} \cup Hit, epoch : 0..epoch']
    BY <2>2
  <2> QED  BY <1>1, <2>1, <2>3
<1>5. IsSiteScene(asked)' /\ starts' \in 0..MaxStarts /\ DOMAIN site' = DOMAIN FreshSite
  BY <1>1 DEF DemoTypeOK, IsSiteScene
<1> QED  BY <1>2, <1>3, <1>4, <1>5 DEF DemoTypeOK, Status, FreshSite, Unset

LEMMA UsersKept ==
  ASSUME DemoInv, NEW h \in Hit, NEW status, Replies(h, status), stage[h] # "over",
         epoch' = epoch, site'.managed = site.managed, site'.edits = site.edits
  PROVE  NumbersInOrder' /\ EditsAreSeen' /\ Managed' = Managed
<1>1. /\ stage' = [stage EXCEPT ![h] = "over"] /\ asked' = asked /\ saw' = saw
  BY DEF Replies
<1>2. stage \in [Hit -> {"sent", "waits", "over"}]  BY DEF DemoInv, DemoTypeOK
<1>3. NumbersInOrder' /\ Managed' = Managed  BY DEF DemoInv, NumbersInOrder, Managed
<1>4. \A g : Seen(g) => Seen(g)'
  BY <1>1 DEF Seen, UserOf, Managed
<1>5. \A g \in Hit : stage'[g] = "waits" => stage[g] = "waits"  BY <1>1, <1>2
<1>6. \A g \in Hit : stage[g] = "over" => stage'[g] = "over"  BY <1>1, <1>2
<1>7. EditsAreSeen'  BY <1>1, <1>4, <1>5, <1>6 DEF DemoInv, EditsAreSeen
<1> QED  BY <1>3, <1>7

LEMMA FailsKept ==
  ASSUME DemoInv, asked' = asked, failed' = failed, site'.flaky = site.flaky
  PROVE  FailedIsKnown'
BY DEF DemoInv, FailedIsKnown, FailsOnce, OrderKey

LEMMA KeysKept ==
  ASSUME DemoInv, NEW h \in Hit, NEW status, Replies(h, status),
         \A v \in Visitor : \/ carries'[v].key = carries[v].key
                            \/ carries'[v].key \in Hit /\ By(carries'[v].key) = v
  PROVE  KeysAreOwn'
<1>1. /\ stage' = [stage EXCEPT ![h] = "over"] /\ asked' = asked /\ saw' = saw
  BY DEF Replies
<1>2. stage \in [Hit -> {"sent", "waits", "over"}]  BY DEF DemoInv, DemoTypeOK
<1>3. \A g \in Hit : stage'[g] = "waits" => stage[g] = "waits"  BY <1>1, <1>2
<1> QED  BY <1>1, <1>3 DEF DemoInv, KeysAreOwn, By

LEMMA ForceKept ==
  ASSUME NEW v \in Visitor, carries'[v].key = carries[v].key,
         NEW k, k = IF carries[v].key = NoOne THEN "global" ELSE carries[v].key,
         site'.flags[k] = site.flags[k], site'.flags["global"] = site.flags["global"]
  PROVE  InForce(v)' = InForce(v)
BY DEF InForce, ResolveFlags
LEMMA RepliesKeeps ==
  ASSUME DemoInv, NEW h \in Hit, NEW status \in Status, Replies(h, status), stage[h] # "over",
         UNCHANGED <<epoch, failed>>, DOMAIN site' = DOMAIN site, site'.managed = site.managed,
         site'.edits = site.edits, site'.deleted \subseteq Managed,
         site'.flags \in [RunKeys -> [Flag -> Setting]], site'.flaky = site.flaky,
         carries' \in [Visitor -> [key : {NoOne} \cup RunKeys, sid : {NoOne} \cup Hit]],
         \A v \in Visitor : \/ carries'[v].key = carries[v].key
                            \/ carries'[v].key \in Hit /\ By(carries'[v].key) = v
  PROVE  DemoInv'
<1>1. NumbersInOrder' /\ EditsAreSeen' /\ Managed' = Managed  BY UsersKept
<1>2. asked' = asked  BY DEF Replies
<1>3. FailedIsKnown' /\ KeysAreOwn'  BY <1>2, FailsKept, KeysKept
<1>4. /\ DemoTypeOK /\ epoch' \in Nat /\ epoch <= epoch' /\ failed' \subseteq Hit
      /\ site'.managed \in Seq([id : Nat, by : Hit]) /\ site'.flaky \subseteq RunKeys
      /\ site'.deleted \subseteq Managed'
  BY <1>1 DEF DemoInv, DemoTypeOK
<1>5. DemoTypeOK'  BY <1>4, TypesKept
<1> QED  BY <1>1, <1>3, <1>5 DEF DemoInv

\* Nobody else's flags or cookie change.
Untouched(h) ==
  \A v \in Visitor : By(h) # v => carries'[v] = carries[v] /\ InForce(v)' = InForce(v)

LEMMA FlagsUntouched ==
  ASSUME NEW h \in Hit, \A v \in Visitor : By(h) # v => carries'[v] = carries[v],
         site'.flags = site.flags
  PROVE  Untouched(h)
BY ForceKept DEF Untouched

LEMMA StillKeeps ==
  ASSUME DemoInv, NEW h \in Hit, NEW status \in Status, Replies(h, status), stage[h] # "over", Still
  PROVE  DemoInv' /\ Untouched(h)
<1>1. UNCHANGED <<carries, site, epoch, failed>>  BY DEF Still
<1>2. /\ site.deleted \subseteq Managed /\ site.flags \in [RunKeys -> [Flag -> Setting]]
      /\ carries \in [Visitor -> [key : {NoOne} \cup RunKeys, sid : {NoOne} \cup Hit]]
  BY DEF DemoInv, DemoTypeOK
<1>3. DemoInv'  BY <1>1, <1>2, RepliesKeeps
<1>4. Untouched(h)  BY <1>1, FlagsUntouched
<1> QED  BY <1>3, <1>4

LEMMA KeyOfIsKey ==
  ASSUME DemoInv, NEW h \in Hit
  PROVE  /\ RunKeyOf(h) \in RunKeys /\ OrderKey(h) \in RunKeys /\ By(h) \in Visitor
         /\ UserOf(asked[h].id) \in {NoOne} \cup Hit
         /\ asked[h].kind = "practice" =>
              RunKeyOf(h) = "global" \/ (RunKeyOf(h) \in Hit /\ By(RunKeyOf(h)) = By(h))
<1>1. /\ By(h) \in Visitor /\ asked[h].key \in {NoOne} \cup RunKeys
      /\ asked[h].kind = "practice" => asked[h].key = NoOne
  BY DEF DemoInv, DemoTypeOK, IsSiteScene, By
<1>2. /\ carries[By(h)].key \in {NoOne} \cup RunKeys
      /\ carries[By(h)].key # NoOne => carries[By(h)].key \in Hit /\ By(carries[By(h)].key) = By(h)
  BY <1>1 DEF DemoInv, DemoTypeOK, KeysAreOwn
<1>3. RunKeyOf(h) \in RunKeys /\ OrderKey(h) \in RunKeys
  BY <1>1, <1>2, RunKeysApart DEF RunKeyOf, OrderKey
<1>4. UserOf(asked[h].id) \in {NoOne} \cup Hit
  <2>1. InOrder(site.managed)  BY UsersAre DEF DemoInv
  <2>2. ASSUME NEW id \in IdsOf(site.managed)  PROVE MakerOf(site.managed, id) \in Hit
    <3>1. Len(site.managed) \in Nat /\ id \in 2..Len(site.managed) + 1  BY <2>1, ListIs
    <3>2. PICK i \in 1..Len(site.managed) : id = 1 + i
      <4>1. id - 1 \in 1..Len(site.managed) /\ id = 1 + (id - 1)  BY <3>1
      <4> QED  BY <4>1
    <3> QED  BY <2>1, <3>2, ListIs
  <2> QED  BY <2>2, UsersAre
<1>5. asked[h].kind = "practice" =>
        RunKeyOf(h) = "global" \/ (RunKeyOf(h) \in Hit /\ By(RunKeyOf(h)) = By(h))
  BY <1>1, <1>2 DEF RunKeyOf
<1> QED  BY <1>1, <1>3, <1>4, <1>5

LEMMA WaitsKeeps ==
  ASSUME DemoInv, NEW h \in Hit, stage[h] = "sent", Waits(h),
         asked[h].kind = "edit" => Exists(asked[h].id)
  PROVE  DemoInv' /\ Untouched(h)
<1> DEFINE seen == [key |-> RunKeyOf(h), user |-> UserOf(asked[h].id), epoch |-> epoch]
<1>1. /\ stage' = [stage EXCEPT ![h] = "waits"] /\ saw' = [saw EXCEPT ![h] = seen]
      /\ UNCHANGED <<carries, site, epoch, failed, asked, said, starts>>
  BY DEF Waits, Still
<1>2. /\ epoch \in Nat /\ saw \in [Hit -> [key : RunKeys, user : {NoOne} \cup Hit, epoch : 0..epoch]]
      /\ stage \in [Hit -> {"sent", "waits", "over"}]
  BY DEF DemoInv, DemoTypeOK
<1>3. /\ seen \in [key : RunKeys, user : {NoOne} \cup Hit, epoch : 0..epoch]
      /\ seen.key = RunKeyOf(h) /\ seen.user = UserOf(asked[h].id) /\ seen.epoch = epoch
  BY <1>2, KeyOfIsKey
<1> HIDE DEF seen
<1>4. /\ saw' \in [Hit -> [key : RunKeys, user : {NoOne} \cup Hit, epoch : 0..epoch]]
      /\ stage' \in [Hit -> {"sent", "waits", "over"}] /\ saw'[h] = seen
      /\ \A g \in Hit : g # h => saw'[g] = saw[g] /\ stage'[g] = stage[g]
      /\ stage'[h] = "waits"
  BY <1>1, <1>2, <1>3
<1>5. DemoTypeOK'
  BY <1>1, <1>4 DEF DemoInv, DemoTypeOK, IsSiteScene, Managed, FreshSite, Unset
<1>6. NumbersInOrder'  BY <1>1 DEF DemoInv, NumbersInOrder
<1>7. \A g \in Hit : g # h => (Seen(g)' <=> Seen(g))
  BY SMTT(60), <1>1, <1>4 DEF Seen, UserOf, Managed
<1>8. asked[h].kind = "edit" => Seen(h)'
  <2> SUFFICES ASSUME asked[h].kind = "edit"  PROVE Seen(h)'  OBVIOUS
  <2> DEFINE id == asked[h].id
  <2>1. saw'[h].user = UserOf(id)  BY <1>3, <1>4
  <2>2. site' = site /\ asked' = asked  BY <1>1
  <2>3. Managed' = Managed  BY <2>2 DEF Managed
  <2>4. UserOf(asked[h].id)' = UserOf(id)  BY <2>2, <2>3 DEF UserOf
  <2>5. id \in Seeded \/ id \in Managed  BY DEF Exists
  <2>6. asked'[h].id = id  BY <2>2
  <2> HIDE DEF id
  <2> QED  BY <2>1, <2>3, <2>4, <2>5, <2>6 DEF Seen
<1>9. EditsAreSeen'
  <2>1. ASSUME NEW g \in Hit, stage'[g] = "waits", asked'[g].kind = "edit"  PROVE Seen(g)'
    <3>1. CASE g = h  BY <1>1, <1>8, <2>1, <3>1
    <3>2. CASE g # h  BY <1>1, <1>4, <1>7, <2>1, <3>2 DEF DemoInv, EditsAreSeen
    <3> QED  BY <3>1, <3>2
  <2>2. ASSUME NEW id \in DOMAIN site'.edits
        PROVE  /\ site'.edits[id] \in Hit /\ asked'[site'.edits[id]].id = id
               /\ stage'[site'.edits[id]] = "over" /\ Seen(site.edits[id])'
    <3>1. PICK g \in Hit : /\ g = site.edits[id] /\ asked[g].id = id /\ stage[g] = "over"
                           /\ Seen(g)
      BY <1>1, <2>2 DEF DemoInv, EditsAreSeen
    <3>2. g # h  BY <3>1
    <3>3. Seen(g)' /\ stage'[g] = "over"  BY <1>4, <1>7, <3>1, <3>2
    <3>4. Seen(site.edits[id])'  BY <1>1, <3>1, <3>3 DEF Seen
    <3> QED  BY <1>1, <3>1, <3>3, <3>4
  <2> QED  BY <2>1, <2>2 DEF EditsAreSeen
<1>10. FailedIsKnown'  BY <1>1, FailsKept
<1>11. KeysAreOwn'
  <2>1. \A v \in Visitor :
          carries'[v].key # NoOne => carries'[v].key \in Hit /\ asked'[carries'[v].key].by = v
    BY <1>1 DEF DemoInv, KeysAreOwn, By
  <2>2. ASSUME NEW g \in Hit, stage'[g] = "waits", asked'[g].kind = "practice"
        PROVE  saw'[g].key = "global" \/ (saw'[g].key \in Hit /\ asked'[saw'[g].key].by = asked'[g].by)
    <3>1. CASE g = h  BY <1>1, <1>3, <1>4, <2>2, <3>1, KeyOfIsKey DEF By
    <3>2. CASE g # h  BY <1>1, <1>4, <2>2, <3>2 DEF DemoInv, KeysAreOwn, By
    <3> QED  BY <3>1, <3>2
  <2> QED  BY <2>1, <2>2 DEF KeysAreOwn, By
<1>12. Untouched(h)  BY <1>1, FlagsUntouched
<1> QED  BY <1>5, <1>6, <1>9, <1>10, <1>11, <1>12 DEF DemoInv
-----------------------------------------------------------------------------
\* The requests that do not wait, and the first part of those that do.
LEMMA CookieKeeps ==
  ASSUME DemoInv, NEW h \in Hit, NEW status \in Status, Replies(h, status), stage[h] # "over",
         NEW sid \in {NoOne} \cup Hit, carries' = [carries EXCEPT ![By(h)].sid = sid],
         UNCHANGED <<epoch, failed>>, DOMAIN site' = DOMAIN site, site'.managed = site.managed,
         site'.edits = site.edits, site'.deleted \subseteq Managed,
         site'.flags = site.flags, site'.flaky = site.flaky
  PROVE  DemoInv' /\ Untouched(h)
<1>1. /\ carries \in [Visitor -> [key : {NoOne} \cup RunKeys, sid : {NoOne} \cup Hit]]
      /\ site.flags \in [RunKeys -> [Flag -> Setting]]
  BY DEF DemoInv, DemoTypeOK
<1>2. By(h) \in Visitor  BY KeyOfIsKey
<1>3. /\ carries' \in [Visitor -> [key : {NoOne} \cup RunKeys, sid : {NoOne} \cup Hit]]
      /\ \A v \in Visitor : v # By(h) => carries'[v] = carries[v]
      /\ \A v \in Visitor : carries'[v].key = carries[v].key
  BY <1>1, <1>2
<1>4. DemoInv'  BY <1>1, <1>3, RepliesKeeps
<1>5. Untouched(h)  BY <1>3, FlagsUntouched
<1> QED  BY <1>4, <1>5

LEMMA AsksKeeps ==
  ASSUME DemoInv, NEW h \in Hit,
         AsksToCreate(h) \/ AsksToEdit(h) \/ AsksWithBody(h) \/ AsksOrders(h)
  PROVE  DemoInv' /\ Untouched(h)
<1>1. /\ stage[h] = "sent"
      /\ \/ \E status \in Status : Replies(h, status) /\ Still
         \/ Waits(h) /\ (asked[h].kind = "edit" => Exists(asked[h].id))
  <2>1. CASE AsksToCreate(h)
    <3>1. stage[h] = "sent" /\ asked[h].kind = "create"
      BY <2>1 DEF AsksToCreate, Comes
    <3>2. (Replies(h, 403) /\ Still) \/ (Replies(h, 409) /\ Still) \/ Waits(h)
      BY <2>1 DEF AsksToCreate
    <3> QED  BY <3>1, <3>2 DEF Status
  <2>2. CASE AsksToEdit(h)
    <3>1. stage[h] = "sent"  BY <2>2 DEF AsksToEdit, Comes
    <3>2. \/ Replies(h, 403) /\ Still
          \/ Replies(h, 404) /\ Still
          \/ Waits(h) /\ Exists(asked[h].id)
      BY <2>2 DEF AsksToEdit
    <3> QED  BY <3>1, <3>2 DEF Status
  <2>3. CASE AsksWithBody(h)  BY <2>3 DEF AsksWithBody, Comes
  <2>4. CASE AsksOrders(h)  BY <2>4 DEF AsksOrders, Comes
  <2> QED  BY <2>1, <2>2, <2>3, <2>4
<1>2. ASSUME NEW status \in Status, Replies(h, status), Still  PROVE DemoInv' /\ Untouched(h)
  BY <1>1, <1>2, StillKeeps
<1>3. CASE Waits(h) /\ (asked[h].kind = "edit" => Exists(asked[h].id))
  BY <1>1, <1>3, WaitsKeeps
<1> QED  BY <1>1, <1>2, <1>3

LEMMA DeletesKeeps ==
  ASSUME DemoInv, NEW h \in Hit, Deletes(h)  PROVE DemoInv' /\ Untouched(h)
<1>1. /\ stage[h] = "sent"
      /\ \/ \E status \in Status : Replies(h, status) /\ Still
         \/ /\ asked[h].id \notin Seeded /\ Exists(asked[h].id) /\ Replies(h, 200)
            /\ site' = [site EXCEPT !.deleted = site.deleted \cup {asked[h].id}]
            /\ UNCHANGED <<carries, epoch, failed>>
  <2>1. stage[h] = "sent"  BY DEF Deletes, Comes
  <2>2. \/ Replies(h, 403) /\ Still
        \/ Replies(h, 409) /\ Still
        \/ Replies(h, 404) /\ Still
        \/ /\ asked[h].id \notin Seeded /\ Exists(asked[h].id) /\ Replies(h, 200)
           /\ site' = [site EXCEPT !.deleted = site.deleted \cup {asked[h].id}]
           /\ UNCHANGED <<carries, epoch, failed>>
    BY DEF Deletes
  <2> QED  BY <2>1, <2>2 DEF Status
<1>2. ASSUME NEW status \in Status, Replies(h, status), Still  PROVE DemoInv' /\ Untouched(h)
  BY <1>1, <1>2, StillKeeps
<1>3. CASE /\ asked[h].id \notin Seeded /\ Exists(asked[h].id) /\ Replies(h, 200)
           /\ site' = [site EXCEPT !.deleted = site.deleted \cup {asked[h].id}]
           /\ UNCHANGED <<carries, epoch, failed>>
  <2>1. DemoTypeOK /\ site.deleted \subseteq Managed /\ asked[h].id \in Managed
    BY <1>3 DEF DemoInv, DemoTypeOK, Exists
  <2>2. /\ site'.managed = site.managed /\ site'.edits = site.edits
        /\ site'.deleted = site.deleted \cup {asked[h].id}
        /\ site'.flags = site.flags /\ site'.flaky = site.flaky /\ DOMAIN site' = DOMAIN site
    BY <1>3, <2>1, DeletedPut
  <2>3. site'.deleted \subseteq Managed  BY <2>1, <2>2
  <2>4. /\ carries' \in [Visitor -> [key : {NoOne} \cup RunKeys, sid : {NoOne} \cup Hit]]
        /\ site'.flags \in [RunKeys -> [Flag -> Setting]]
    BY <1>3, <2>2 DEF DemoInv, DemoTypeOK
  <2>5. 200 \in Status  BY DEF Status
  <2>6. DemoInv'  BY <1>1, <1>3, <2>2, <2>3, <2>4, <2>5, RepliesKeeps
  <2>7. Untouched(h)  BY <1>3, <2>2, FlagsUntouched
  <2> QED  BY <2>6, <2>7
<1> QED  BY <1>1, <1>2, <1>3

LEMMA SessionsKeep ==
  ASSUME DemoInv, NEW h \in Hit, LogsIn(h) \/ LogsOut(h) \/ ReadsAudit(h) \/ ReadsSession(h)
  PROVE  DemoInv' /\ Untouched(h)
<1>1. NoOne \in {NoOne} \cup Hit /\ h \in {NoOne} \cup Hit /\ DemoTypeOK
      /\ site.deleted \subseteq Managed
  BY DEF DemoInv, DemoTypeOK
<1>2. ASSUME NEW d, NEW sid \in {NoOne} \cup Hit, stage[h] # "over", Replies(h, 200),
             site' = [site EXCEPT !.sessions = d],
             carries' = [carries EXCEPT ![By(h)].sid = sid], UNCHANGED <<epoch, failed>>
      PROVE  DemoInv' /\ Untouched(h)
  <2>1. /\ site'.managed = site.managed /\ site'.edits = site.edits /\ site'.deleted = site.deleted
        /\ site'.flags = site.flags /\ site'.flaky = site.flaky /\ DOMAIN site' = DOMAIN site
    BY <1>1, <1>2, SessionsPut
  <2>2. 200 \in Status  BY DEF Status
  <2> QED  BY <1>1, <1>2, <2>1, <2>2, CookieKeeps
<1>3. ASSUME stage[h] = "sent", Replies(h, 401), LosesCookie(h)  PROVE DemoInv' /\ Untouched(h)
  <2>1. carries' = [carries EXCEPT ![By(h)].sid = NoOne] /\ UNCHANGED <<site, epoch, failed>>
    BY <1>3 DEF LosesCookie
  <2>2. 401 \in Status  BY DEF Status
  <2> QED  BY <1>1, <1>3, <2>1, <2>2, CookieKeeps
<1>4. ASSUME NEW status \in Status, stage[h] = "sent", Replies(h, status), Still
      PROVE  DemoInv' /\ Untouched(h)
  BY <1>4, StillKeeps
<1>5. CASE LogsIn(h)
  <2>1. /\ stage[h] = "waits" /\ Replies(h, 200) /\ UNCHANGED <<epoch, failed>>
        /\ site' = [site EXCEPT !.sessions = site.sessions \cup {[sid |-> h, role |-> asked[h].role]}]
        /\ carries' = [carries EXCEPT ![By(h)].sid = h]
    BY <1>5 DEF LogsIn, GoesOn
  <2> QED  BY <1>1, <1>2, <2>1
<1>6. CASE LogsOut(h)
  <2>1. /\ stage[h] = "sent" /\ Replies(h, 200) /\ UNCHANGED <<epoch, failed>>
        /\ site' = [site EXCEPT !.sessions = {s \in site.sessions : s.sid # carries[By(h)].sid}]
        /\ carries' = [carries EXCEPT ![By(h)].sid = NoOne]
    BY <1>6 DEF LogsOut, Comes
  <2> QED  BY <1>1, <1>2, <2>1
<1>7. CASE ReadsAudit(h)
  <2>1. /\ stage[h] = "sent"
        /\ \/ Replies(h, 401) /\ LosesCookie(h)
           \/ Replies(h, 401) /\ Still
           \/ Replies(h, 403) /\ Still
           \/ Replies(h, 200) /\ Still
    BY <1>7 DEF ReadsAudit, Comes
  <2>2. {200, 401, 403} \subseteq Status  BY DEF Status
  <2> QED  BY <1>3, <1>4, <2>1, <2>2
<1>8. CASE ReadsSession(h)
  <2>1. /\ stage[h] = "sent"
        /\ \/ Replies(h, 401) /\ LosesCookie(h)
           \/ Replies(h, 401) /\ Still
           \/ Replies(h, 200) /\ Still
    BY <1>8 DEF ReadsSession, Comes
  <2>2. {200, 401} \subseteq Status  BY DEF Status
  <2> QED  BY <1>3, <1>4, <2>1, <2>2
<1> QED  BY <1>5, <1>6, <1>7, <1>8
-----------------------------------------------------------------------------
\* What goes on after the wait.
LEMMA CreatesKeeps ==
  ASSUME DemoInv, NEW h \in Hit, Creates(h)  PROVE DemoInv' /\ Untouched(h)
<1> DEFINE n == Append(site.managed, [id |-> Len(site.managed) + 2, by |-> h])
<1>1. /\ stage[h] = "waits" /\ asked[h].kind = "create" /\ Replies(h, 201)
      /\ UNCHANGED <<carries, epoch, failed>>
      /\ site' = [site EXCEPT !.managed = Append(site.managed, [id |-> NextId, by |-> h])]
  BY DEF Creates, GoesOn
<1>2. InOrder(site.managed) /\ DemoTypeOK /\ epoch \in Nat  BY UsersAre DEF DemoInv, DemoTypeOK
<1>3. Len(site.managed) \in Nat  BY <1>2, ListIs
<1>4. NextId = Len(site.managed) + 2  BY <1>3, SeededIsOne DEF NextId
<1>5. /\ site'.managed = n /\ site'.edits = site.edits /\ site'.deleted = site.deleted
      /\ site'.flags = site.flags /\ site'.flaky = site.flaky /\ DOMAIN site' = DOMAIN site
  BY <1>1, <1>2, <1>4, ManagedPut
<1>6. /\ InOrder(n) /\ IdsOf(site.managed) \subseteq IdsOf(n)
      /\ \A id \in IdsOf(site.managed) : MakerOf(n, id) = MakerOf(site.managed, id)
  BY ZenonT(60), <1>2, ListGrows
<1> HIDE DEF n
<1>7. Managed' = IdsOf(n)  BY <1>5 DEF Managed, IdsOf
<1>8. \A id \in Managed : id \in Managed' /\ UserOf(id)' = UserOf(id)
  <2>1. ASSUME NEW id \in Managed  PROVE id \in Managed' /\ UserOf(id)' = UserOf(id)
    <3>1. id \in IdsOf(site.managed) /\ UserOf(id) = MakerOf(site.managed, id)  BY UsersAre
    <3>2. id \in Managed'  BY <1>6, <1>7, <3>1
    <3>3. UserOf(id)' = MakerOf(n, id)  BY <1>5, <3>2 DEF UserOf, MakerOf
    <3> QED  BY <1>6, <3>1, <3>2, <3>3
  <2> QED  BY <2>1
<1>9. /\ stage' = [stage EXCEPT ![h] = "over"] /\ asked' = asked /\ saw' = saw
  BY <1>1 DEF Replies
<1>10. \A g : Seen(g) => Seen(g)'  BY <1>1, <1>8, <1>9 DEF Seen
<1>11. stage \in [Hit -> {"sent", "waits", "over"}]  BY DEF DemoInv, DemoTypeOK
<1>12. EditsAreSeen'
  <2>1. \A g \in Hit : stage'[g] = "waits" => stage[g] = "waits"  BY <1>9, <1>11
  <2>2. \A g \in Hit : stage[g] = "over" => stage'[g] = "over"  BY <1>9, <1>11
  <2> QED  BY <1>5, <1>9, <1>10, <2>1, <2>2 DEF DemoInv, EditsAreSeen
<1>13. NumbersInOrder'  BY <1>5, <1>6, SeededIsOne DEF NumbersInOrder, InOrder, Seeded
<1>14. FailedIsKnown'  BY <1>1, <1>5, <1>9, FailsKept
<1>15. KeysAreOwn'  BY <1>1, KeysKept
<1>16. DemoTypeOK'
  <2>1. site.deleted \subseteq Managed  BY <1>2 DEF DemoTypeOK
  <2>2. site'.deleted \subseteq Managed'  BY <1>5, <1>8, <2>1
  <2>3. site'.managed \in Seq([id : Nat, by : Hit])  BY <1>5, <1>6 DEF InOrder
  <2>4. /\ epoch' \in Nat /\ epoch <= epoch' /\ failed' \subseteq Hit /\ 201 \in Status
        /\ site'.flags \in [RunKeys -> [Flag -> Setting]] /\ site'.flaky \subseteq RunKeys
        /\ carries' \in [Visitor -> [key : {NoOne} \cup RunKeys, sid : {NoOne} \cup Hit]]
    BY <1>1, <1>2, <1>5 DEF DemoTypeOK, Status
  <2> QED  BY <1>1, <1>2, <1>5, <2>2, <2>3, <2>4, TypesKept
<1>17. Untouched(h)  BY <1>1, <1>5, FlagsUntouched
<1> QED  BY <1>12, <1>13, <1>14, <1>15, <1>16, <1>17 DEF DemoInv

LEMMA EditsKeeps ==
  ASSUME DemoInv, NEW h \in Hit, Edits(h)  PROVE DemoInv' /\ Untouched(h)
<1>1. PICK id : id = asked[h].id  OBVIOUS
<1> DEFINE e == [n \in DOMAIN site.edits \cup {id} |-> IF n = id THEN h ELSE site.edits[n]]
<1>2. /\ stage[h] = "waits" /\ asked[h].kind = "edit" /\ Replies(h, 200)
      /\ UNCHANGED <<carries, epoch, failed>> /\ site' = [site EXCEPT !.edits = e]
  BY <1>1 DEF Edits, GoesOn
<1>3. /\ DOMAIN e = DOMAIN site.edits \cup {id} /\ e[id] = h
      /\ \A n \in DOMAIN site.edits : n # id => e[n] = site.edits[n]
  OBVIOUS
<1> HIDE DEF e
<1>4. DemoTypeOK /\ site.deleted \subseteq Managed  BY DEF DemoInv, DemoTypeOK
<1>5. /\ site'.managed = site.managed /\ site'.edits = e /\ site'.deleted = site.deleted
      /\ site'.flags = site.flags /\ site'.flaky = site.flaky /\ DOMAIN site' = DOMAIN site
  BY <1>2, <1>4, EditsPut
<1>6. /\ stage' = [stage EXCEPT ![h] = "over"] /\ asked' = asked /\ saw' = saw
  BY <1>2 DEF Replies
<1>7. NumbersInOrder' /\ Managed' = Managed  BY <1>5 DEF DemoInv, NumbersInOrder, Managed
<1>8. \A g : Seen(g) => Seen(g)'  BY ZenonT(60), <1>2, <1>5, <1>6 DEF Seen, UserOf, Managed
<1>9. stage \in [Hit -> {"sent", "waits", "over"}]  BY DEF DemoInv, DemoTypeOK
<1>10. EditsAreSeen'
  <2>1. \A g \in Hit : stage'[g] = "waits" => stage[g] = "waits"  BY <1>6, <1>9
  <2>2. \A g \in Hit : stage[g] = "over" => stage'[g] = "over"  BY <1>6, <1>9
  <2>3. Seen(h) /\ stage'[h] = "over"  BY <1>2, <1>6, <1>9 DEF DemoInv, EditsAreSeen
  <2>4. ASSUME NEW n \in DOMAIN site'.edits
        PROVE  /\ site'.edits[n] \in Hit /\ asked'[site'.edits[n]].id = n
               /\ stage'[site'.edits[n]] = "over" /\ Seen(site.edits[n])'
    <3>1. CASE n = id
      <4>1. site'.edits[n] = h  BY <1>3, <1>5, <3>1
      <4>2. Seen(h)'  BY <1>8, <2>3
      <4>3. Seen(site.edits[n])'  BY <4>1, <4>2 DEF Seen
      <4> QED  BY <1>1, <1>6, <2>3, <3>1, <4>1, <4>3
    <3>2. CASE n # id
      <4>1. n \in DOMAIN site.edits /\ site'.edits[n] = site.edits[n]
        BY <1>3, <1>5, <2>4, <3>2
      <4>2. PICK g \in Hit : /\ g = site.edits[n] /\ asked[g].id = n /\ stage[g] = "over"
                             /\ Seen(g)
        BY <4>1 DEF DemoInv, EditsAreSeen
      <4>3. Seen(g)'  BY <1>8, <4>2
      <4>4. Seen(site.edits[n])'  BY <4>1, <4>2, <4>3 DEF Seen
      <4> QED  BY <1>6, <2>2, <4>1, <4>2, <4>4
    <3> QED  BY <3>1, <3>2
  <2>5. \A g \in Hit : stage'[g] = "waits" /\ asked'[g].kind = "edit" => Seen(g)'
    BY <1>6, <1>8, <2>1 DEF DemoInv, EditsAreSeen
  <2> QED  BY <2>4, <2>5 DEF EditsAreSeen
<1>11. FailedIsKnown'  BY <1>2, <1>5, <1>6, FailsKept
<1>12. KeysAreOwn'  BY <1>2, KeysKept
<1>13. DemoTypeOK'
  <2>1. /\ epoch' \in Nat /\ epoch <= epoch' /\ failed' \subseteq Hit /\ 200 \in Status
        /\ site'.managed \in Seq([id : Nat, by : Hit]) /\ site'.deleted \subseteq Managed'
        /\ site'.flags \in [RunKeys -> [Flag -> Setting]] /\ site'.flaky \subseteq RunKeys
        /\ carries' \in [Visitor -> [key : {NoOne} \cup RunKeys, sid : {NoOne} \cup Hit]]
    BY <1>2, <1>4, <1>5, <1>7 DEF DemoTypeOK, Status
  <2> QED  BY <1>2, <1>4, <1>5, <2>1, TypesKept
<1>14. Untouched(h)  BY <1>2, <1>5, FlagsUntouched
<1> QED  BY <1>7, <1>10, <1>11, <1>12, <1>13, <1>14 DEF DemoInv

LEMMA FlagsWritten ==
  ASSUME DemoInv, NEW h \in Hit, Replies(h, 200), stage[h] # "over",
         NEW key \in RunKeys, NEW new \in [Flag -> Setting],
         site' = [site EXCEPT !.flags[key] = new], UNCHANGED <<epoch, failed>>,
         carries' \in [Visitor -> [key : {NoOne} \cup RunKeys, sid : {NoOne} \cup Hit]],
         \A v \in Visitor : \/ carries'[v].key = carries[v].key
                            \/ carries'[v].key \in Hit /\ By(carries'[v].key) = v
  PROVE  /\ DemoInv'
         /\ \A j \in RunKeys : j # key => site'.flags[j] = site.flags[j]
<1>1. DemoTypeOK /\ site.deleted \subseteq Managed  BY DEF DemoInv, DemoTypeOK
<1>2. /\ site'.managed = site.managed /\ site'.edits = site.edits /\ site'.deleted = site.deleted
      /\ site'.flaky = site.flaky /\ DOMAIN site' = DOMAIN site
      /\ site'.flags \in [RunKeys -> [Flag -> Setting]]
      /\ \A j \in RunKeys : j # key => site'.flags[j] = site.flags[j]
  BY <1>1, FlagsPut
<1>3. 200 \in Status  BY DEF Status
<1> QED  BY <1>1, <1>2, <1>3, RepliesKeeps

LEMMA PractisesKeeps ==
  ASSUME DemoInv, NEW h \in Hit, Practises(h)  PROVE DemoInv' /\ Untouched(h)
<1>1. /\ stage[h] = "waits" /\ asked[h].kind = "practice" /\ Replies(h, 200)
      /\ UNCHANGED <<epoch, failed>>
  BY DEF Practises, GoesOn
<1>2. PICK key : key = MintKey(h)  OBVIOUS
<1>3. key \in Hit /\ key \in RunKeys /\ By(key) = By(h)
  BY <1>1, <1>2, RunKeysApart DEF DemoInv, KeysAreOwn, MintKey
<1>4. PICK new : new = Over(site.flags[key], PracticeFlags(asked[h].on))  OBVIOUS
<1>5. new \in [Flag -> Setting]
  <2>1. site.flags[key] \in [Flag -> Setting] /\ asked[h].on \in BOOLEAN
    BY <1>3 DEF DemoInv, DemoTypeOK, IsSiteScene
  <2>2. PracticeFlags(asked[h].on) \in [Flag -> Setting]  BY <2>1, PracticeIsSetting
  <2> QED  BY <1>4, <2>1, <2>2, OverIsSetting
<1>6. site' = [site EXCEPT !.flags[key] = new] /\ carries' = [carries EXCEPT ![By(h)].key = key]
  BY <1>2, <1>4 DEF Practises, WritesFlags
<1>7. /\ carries \in [Visitor -> [key : {NoOne} \cup RunKeys, sid : {NoOne} \cup Hit]]
      /\ By(h) \in Visitor
  BY KeyOfIsKey DEF DemoInv, DemoTypeOK
<1>8. /\ carries' \in [Visitor -> [key : {NoOne} \cup RunKeys, sid : {NoOne} \cup Hit]]
      /\ \A v \in Visitor : v # By(h) => carries'[v] = carries[v]
      /\ carries'[By(h)].key = key
  BY <1>3, <1>6, <1>7
<1>9. \A v \in Visitor : \/ carries'[v].key = carries[v].key
                         \/ carries'[v].key \in Hit /\ By(carries'[v].key) = v
  BY <1>3, <1>8
<1>10. DemoInv' /\ \A j \in RunKeys : j # key => site'.flags[j] = site.flags[j]
  BY <1>1, <1>3, <1>5, <1>6, <1>8, <1>9, FlagsWritten
<1>11. ASSUME NEW v \in Visitor, By(h) # v
       PROVE  carries'[v] = carries[v] /\ InForce(v)' = InForce(v)
  <2>1. PICK k : k = IF carries[v].key = NoOne THEN "global" ELSE carries[v].key  OBVIOUS
  <2>2. /\ carries[v].key \in {NoOne} \cup RunKeys
        /\ carries[v].key # NoOne => carries[v].key \in Hit /\ By(carries[v].key) = v
    BY <1>7 DEF DemoInv, KeysAreOwn
  <2>3. k \in RunKeys /\ k # key /\ "global" # key /\ "global" \in RunKeys
    BY <1>3, <1>11, <2>1, <2>2, RunKeysApart
  <2>4. site'.flags[k] = site.flags[k] /\ site'.flags["global"] = site.flags["global"]
    BY <1>10, <2>3
  <2>5. carries'[v] = carries[v]  BY <1>8, <1>11
  <2> QED  BY <2>1, <2>4, <2>5, ForceKept
<1> QED  BY <1>10, <1>11 DEF Untouched

LEMMA HooksKeep ==
  ASSUME DemoInv, NEW h \in Hit, SetsFlags(h) \/ ClearsFlags(h)  PROVE DemoInv'
<1>1. /\ DemoTypeOK
      /\ carries \in [Visitor -> [key : {NoOne} \cup RunKeys, sid : {NoOne} \cup Hit]]
      /\ asked[h].key \in {NoOne} \cup RunKeys /\ asked[h].flags \in [Flag -> Setting]
      /\ site.flags \in [RunKeys -> [Flag -> Setting]]
  BY DEF DemoInv, DemoTypeOK, IsSiteScene
<1>2. CASE SetsFlags(h)
  <2>1. PICK key : key = IF asked[h].key = NoOne THEN "global" ELSE asked[h].key  OBVIOUS
  <2>2. PICK new : new = Over(site.flags[key], asked[h].flags)  OBVIOUS
  <2>3. /\ stage[h] = "waits" /\ Replies(h, 200) /\ UNCHANGED <<carries, epoch, failed>>
        /\ site' = [site EXCEPT !.flags[key] = new]
    BY <1>2, <2>1, <2>2 DEF SetsFlags, GoesOn, WritesFlags
  <2>4. key \in RunKeys  BY <1>1, <2>1, RunKeysApart
  <2>5. new \in [Flag -> Setting]  BY <1>1, <2>2, <2>4, OverIsSetting
  <2>6. carries' \in [Visitor -> [key : {NoOne} \cup RunKeys, sid : {NoOne} \cup Hit]]
        /\ \A v \in Visitor : carries'[v].key = carries[v].key
    BY <1>1, <2>3
  <2> QED  BY <2>3, <2>4, <2>5, <2>6, FlagsWritten
<1>3. CASE ClearsFlags(h)
  <2>1. PICK key : key = asked[h].key  OBVIOUS
  <2>2. PICK new : new = Unset  OBVIOUS
  <2>3. /\ stage[h] = "sent" /\ Replies(h, 200) /\ UNCHANGED <<carries, epoch, failed>>
        /\ site' = [site EXCEPT !.flags[key] = new] /\ key # NoOne
    BY <1>3, <2>1, <2>2 DEF ClearsFlags, Comes
  <2>4. key \in RunKeys  BY <1>1, <2>1, <2>3
  <2>5. new \in [Flag -> Setting]  BY <2>2, UnsetIsSetting
  <2>6. carries' \in [Visitor -> [key : {NoOne} \cup RunKeys, sid : {NoOne} \cup Hit]]
        /\ \A v \in Visitor : carries'[v].key = carries[v].key
    BY <1>1, <2>3
  <2> QED  BY <2>3, <2>4, <2>5, <2>6, FlagsWritten
<1> QED  BY <1>2, <1>3
-----------------------------------------------------------------------------
\* A reset: nobody of before is to be found.
LEMMA UsersReset ==
  ASSUME DemoInv, epoch' = epoch + 1, asked' = asked, saw' = saw,
         site'.managed = <<>>, DOMAIN site'.edits = {}
  PROVE  /\ NumbersInOrder' /\ EditsAreSeen' /\ Managed' = {}
         /\ site'.managed \in Seq([id : Nat, by : Hit]) /\ epoch' \in Nat /\ epoch <= epoch'
<1>1. /\ epoch \in Nat
      /\ saw \in [Hit -> [key : RunKeys, user : {NoOne} \cup Hit, epoch : 0..epoch]]
  BY DEF DemoInv, DemoTypeOK
<1>2. \A h \in Hit : saw[h].epoch \in 0..epoch  BY <1>1
<1>3. \A h \in Hit : Seen(h)'  BY <1>1, <1>2 DEF Seen
<1>4. EditsAreSeen'  BY <1>3 DEF EditsAreSeen
<1>5. site'.managed \in Seq([id : Nat, by : Hit]) /\ Len(site'.managed) = 0
  <2>1. PICK rows : rows = [id : Nat, by : Hit]  OBVIOUS
  <2>2. <<>> \in Seq(rows) /\ Len(<<>>) = 0  OBVIOUS
  <2> QED  BY <2>1, <2>2
<1>6. NumbersInOrder' /\ Managed' = {}  BY <1>5 DEF NumbersInOrder, Managed
<1> QED  BY <1>1, <1>4, <1>5, <1>6

LEMMA ResetDataKeeps ==
  ASSUME DemoInv, NEW h \in Hit, ResetData(h)  PROVE DemoInv' /\ Untouched(h)
<1>1. /\ stage[h] = "sent" /\ Replies(h, 200) /\ epoch' = epoch + 1 /\ UNCHANGED <<carries, failed>>
      /\ site' = [site EXCEPT !.managed = <<>>, !.deleted = {}, !.edits = FreshSite.edits]
  BY DEF ResetData, Comes
<1>2. DemoTypeOK  BY DEF DemoInv
<1>3. /\ site'.managed = <<>> /\ site'.edits = FreshSite.edits /\ site'.deleted = {}
      /\ site'.flags = site.flags /\ site'.flaky = site.flaky /\ DOMAIN site' = DOMAIN site
  BY <1>1, <1>2, UsersCleared
<1>4. DOMAIN site'.edits = {} /\ asked' = asked /\ saw' = saw
  BY <1>1, <1>3, FreshIsFresh DEF Replies
<1>5. /\ NumbersInOrder' /\ EditsAreSeen' /\ Managed' = {}
      /\ site'.managed \in Seq([id : Nat, by : Hit]) /\ epoch' \in Nat /\ epoch <= epoch'
  BY <1>1, <1>3, <1>4, UsersReset
<1>6. FailedIsKnown'  BY <1>1, <1>3, <1>4, FailsKept
<1>7. KeysAreOwn'  BY <1>1, KeysKept
<1>8. /\ 200 \in Status /\ failed' \subseteq Hit /\ site'.deleted \subseteq Managed'
      /\ site'.flags \in [RunKeys -> [Flag -> Setting]] /\ site'.flaky \subseteq RunKeys
      /\ carries' \in [Visitor -> [key : {NoOne} \cup RunKeys, sid : {NoOne} \cup Hit]]
  BY <1>1, <1>2, <1>3 DEF DemoTypeOK, Status
<1>9. DemoTypeOK'  BY <1>1, <1>2, <1>3, <1>5, <1>8, TypesKept
<1>10. Untouched(h)  BY <1>1, <1>3, FlagsUntouched
<1> QED  BY <1>5, <1>6, <1>7, <1>9, <1>10 DEF DemoInv

LEMMA ResetAllKeeps ==
  ASSUME DemoInv, NEW h \in Hit, ResetAll(h)  PROVE DemoInv'
<1>1. /\ stage[h] = "sent" /\ Replies(h, 200) /\ epoch' = epoch + 1 /\ UNCHANGED carries
      /\ site' = FreshSite /\ failed' = {}
  BY DEF ResetAll, Comes
<1>2. DemoTypeOK  BY DEF DemoInv
<1>3. /\ site'.managed = <<>> /\ DOMAIN site'.edits = {} /\ site'.deleted = {}
      /\ site'.flags \in [RunKeys -> [Flag -> Setting]] /\ site'.flaky = {}
      /\ DOMAIN site' = DOMAIN site
  BY <1>1, <1>2, FreshIsFresh DEF DemoTypeOK
<1>4. asked' = asked /\ saw' = saw  BY <1>1 DEF Replies
<1>5. /\ NumbersInOrder' /\ EditsAreSeen' /\ Managed' = {}
      /\ site'.managed \in Seq([id : Nat, by : Hit]) /\ epoch' \in Nat /\ epoch <= epoch'
  BY <1>1, <1>3, <1>4, UsersReset
<1>6. FailedIsKnown'  BY <1>1 DEF FailedIsKnown, FailsOnce
<1>7. KeysAreOwn'  BY <1>1, KeysKept
<1>8. /\ 200 \in Status /\ failed' \subseteq Hit /\ site'.deleted \subseteq Managed'
      /\ site'.flaky \subseteq RunKeys
      /\ carries' \in [Visitor -> [key : {NoOne} \cup RunKeys, sid : {NoOne} \cup Hit]]
  BY <1>1, <1>2, <1>3 DEF DemoTypeOK, Status
<1>9. DemoTypeOK'  BY <1>1, <1>2, <1>3, <1>5, <1>8, TypesKept
<1> QED  BY <1>5, <1>6, <1>7, <1>9 DEF DemoInv

LEMMA StartsAgainKeeps ==
  ASSUME DemoInv, StartsAgain  PROVE DemoInv'
<1>1. /\ starts < MaxStarts /\ starts' = starts + 1 /\ epoch' = epoch + 1
      /\ site' = FreshSite /\ failed' = {}
      /\ stage' = [h \in Hit |-> IF stage[h] = "waits" THEN "over" ELSE stage[h]]
      /\ UNCHANGED <<asked, saw, said, carries>>
  BY DEF StartsAgain
<1>2. DemoTypeOK  BY DEF DemoInv
<1>3. /\ site'.managed = <<>> /\ DOMAIN site'.edits = {} /\ site'.deleted = {}
      /\ site'.flags \in [RunKeys -> [Flag -> Setting]] /\ site'.flaky = {}
      /\ DOMAIN site' = DOMAIN FreshSite
  BY <1>1, FreshIsFresh
<1>4. /\ NumbersInOrder' /\ EditsAreSeen' /\ Managed' = {}
      /\ site'.managed \in Seq([id : Nat, by : Hit]) /\ epoch' \in Nat /\ epoch <= epoch'
  BY <1>1, <1>3, UsersReset
<1>5. FailedIsKnown'  BY <1>1 DEF FailedIsKnown, FailsOnce
<1>6. stage \in [Hit -> {"sent", "waits", "over"}]  BY <1>2 DEF DemoTypeOK
<1>7. /\ stage' \in [Hit -> {"sent", "waits", "over"}]
      /\ \A h \in Hit : stage'[h] # "waits"
  BY <1>1, <1>6
<1>8. KeysAreOwn'  BY <1>1, <1>7 DEF DemoInv, KeysAreOwn, By
<1>9. saw' \in [Hit -> [key : RunKeys, user : {NoOne} \cup Hit, epoch : 0..epoch']]
  <2>1. epoch \in Nat /\ saw \in [Hit -> [key : RunKeys, user : {NoOne} \cup Hit, epoch : 0..epoch]]
    BY <1>2 DEF DemoTypeOK
  <2>2. 0..epoch \subseteq 0..epoch'  BY <1>1, <2>1
  <2>3. [key : RunKeys, user : {NoOne} \cup Hit, epoch : 0..epoch]
          \subseteq [key : RunKeys, user : {NoOne} \cup Hit, epoch : 0..epoch']
    BY <2>2
  <2> QED  BY <1>1, <2>1, <2>3
<1>10. starts' \in 0..MaxStarts  BY <1>1, <1>2, DemoAssumption DEF DemoTypeOK, DemoAssumption
<1>11. /\ IsSiteScene(asked)' /\ failed' \subseteq Hit /\ site'.deleted \subseteq Managed'
       /\ site'.flaky \subseteq RunKeys
       /\ said' \in [Hit -> {0, 200, 201, 401, 403, 404, 409, 503}]
       /\ carries' \in [Visitor -> [key : {NoOne} \cup RunKeys, sid : {NoOne} \cup Hit]]
  BY <1>1, <1>2, <1>3 DEF DemoTypeOK, IsSiteScene
<1>12. DOMAIN site' = DOMAIN FreshSite'  BY <1>3 DEF FreshSite, Unset
<1>13. DemoTypeOK'  BY <1>3, <1>4, <1>7, <1>9, <1>10, <1>11, <1>12 DEF DemoTypeOK
<1> QED  BY <1>4, <1>5, <1>8, <1>13 DEF DemoInv

LEMMA AnswersOrdersKeeps ==
  ASSUME DemoInv, NEW h \in Hit, AnswersOrders(h)  PROVE DemoInv' /\ Untouched(h)
<1>1. stage[h] = "waits"  BY DEF AnswersOrders, GoesOn
<1>2. CASE OrderKey(h) \in site.flaky
  <2>1. Replies(h, 200) /\ Still  BY <1>2 DEF AnswersOrders
  <2>2. 200 \in Status  BY DEF Status
  <2> QED  BY <1>1, <2>1, <2>2, StillKeeps
<1>3. CASE OrderKey(h) \notin site.flaky
  <2>1. /\ Replies(h, 503) /\ failed' = failed \cup {h} /\ UNCHANGED <<carries, epoch>>
        /\ site' = [site EXCEPT !.flaky = site.flaky \cup {OrderKey(h)}]
    BY <1>3 DEF AnswersOrders
  <2>2. DemoTypeOK  BY DEF DemoInv
  <2>3. /\ site'.managed = site.managed /\ site'.edits = site.edits
        /\ site'.deleted = site.deleted /\ site'.flags = site.flags
        /\ site'.flaky = site.flaky \cup {OrderKey(h)} /\ DOMAIN site' = DOMAIN site
    BY <2>1, <2>2, FlakyPut
  <2>4. NumbersInOrder' /\ EditsAreSeen' /\ Managed' = Managed
    BY <1>1, <2>1, <2>3, UsersKept
  <2>5. \A g : OrderKey(g)' = OrderKey(g)  BY <2>1 DEF OrderKey, Replies
  <2>6. FailedIsKnown'
    BY <1>3, <2>1, <2>3, <2>5 DEF DemoInv, FailedIsKnown, FailsOnce
  <2>7. KeysAreOwn'  BY <2>1, KeysKept
  <2>8. OrderKey(h) \in RunKeys  BY KeyOfIsKey
  <2>9. /\ epoch' \in Nat /\ epoch <= epoch' /\ failed' \subseteq Hit /\ 503 \in Status
        /\ site'.managed \in Seq([id : Nat, by : Hit]) /\ site'.deleted \subseteq Managed'
        /\ site'.flags \in [RunKeys -> [Flag -> Setting]] /\ site'.flaky \subseteq RunKeys
        /\ carries' \in [Visitor -> [key : {NoOne} \cup RunKeys, sid : {NoOne} \cup Hit]]
    BY <2>1, <2>2, <2>3, <2>4, <2>8 DEF DemoTypeOK, Status
  <2>10. DemoTypeOK'  BY ZenonT(60), <2>1, <2>2, <2>3, <2>9, TypesKept
  <2>11. Untouched(h)  BY <2>1, <2>3, FlagsUntouched
  <2> QED  BY <2>4, <2>6, <2>7, <2>10, <2>11 DEF DemoInv
<1> QED  BY <1>2, <1>3

-----------------------------------------------------------------------------
LEMMA DemoStarts ==
  ASSUME DemoIdle, IsSiteScene(asked)  PROVE DemoInv
<1>1. /\ stage = [h \in Hit |-> "sent"] /\ said = [h \in Hit |-> 0]
      /\ saw = [h \in Hit |-> [key |-> "global", user |-> NoOne, epoch |-> 0]]
      /\ carries = [v \in Visitor |-> [key |-> NoOne, sid |-> NoOne]]
      /\ site = FreshSite /\ epoch = 0 /\ failed = {} /\ starts = 0
  BY DEF DemoIdle
<1>2. /\ site.managed = <<>> /\ DOMAIN site.edits = {} /\ site.deleted = {}
      /\ site.flags \in [RunKeys -> [Flag -> Setting]] /\ site.flaky = {}
  BY <1>1, FreshIsFresh
<1>3. site.managed \in Seq([id : Nat, by : Hit]) /\ Len(site.managed) = 0
  <2>1. PICK rows : rows = [id : Nat, by : Hit]  OBVIOUS
  <2>2. <<>> \in Seq(rows) /\ Len(<<>>) = 0  OBVIOUS
  <2> QED  BY <1>2, <2>1, <2>2
<1>4. DemoTypeOK
  <2>1. saw \in [Hit -> [key : RunKeys, user : {NoOne} \cup Hit, epoch : 0..epoch]]
    <3>1. [key |-> "global", user |-> NoOne, epoch |-> 0]
            \in [key : RunKeys, user : {NoOne} \cup Hit, epoch : 0..epoch]
      BY <1>1, RunKeysApart
    <3> QED  BY <1>1, <3>1
  <2>2. /\ stage \in [Hit -> {"sent", "waits", "over"}]
        /\ said \in [Hit -> {0, 200, 201, 401, 403, 404, 409, 503}]
        /\ carries \in [Visitor -> [key : {NoOne} \cup RunKeys, sid : {NoOne} \cup Hit]]
    BY <1>1
  <2>3. DOMAIN site = DOMAIN FreshSite /\ epoch \in Nat /\ starts \in 0..MaxStarts
    BY <1>1, DemoAssumption DEF DemoAssumption
  <2>4. site.deleted \subseteq Managed /\ site.flaky \subseteq RunKeys /\ failed \subseteq Hit
    BY <1>1, <1>2
  <2> QED  BY <1>2, <1>3, <2>1, <2>2, <2>3, <2>4 DEF DemoTypeOK
<1>5. NumbersInOrder  BY <1>3 DEF NumbersInOrder
<1>6. EditsAreSeen /\ FailedIsKnown /\ KeysAreOwn
  BY <1>1, <1>2 DEF EditsAreSeen, FailedIsKnown, FailsOnce, KeysAreOwn
<1> QED  BY <1>4, <1>5, <1>6 DEF DemoInv

LEMMA HandlesKeep ==
  ASSUME DemoInv, NEW h \in Hit, Handles(h)
  PROVE  /\ DemoInv'
         /\ asked[h].kind \notin {"setFlags", "clearFlags", "reset"} => Untouched(h)
<1>1. CASE AsksToCreate(h) \/ AsksToEdit(h) \/ AsksWithBody(h) \/ AsksOrders(h)
  BY <1>1, AsksKeeps
<1>2. CASE Creates(h)  BY <1>2, CreatesKeeps
<1>3. CASE Edits(h)  BY <1>3, EditsKeeps
<1>4. CASE Deletes(h)  BY <1>4, DeletesKeeps
<1>5. CASE LogsIn(h) \/ LogsOut(h) \/ ReadsAudit(h) \/ ReadsSession(h)
  BY <1>5, SessionsKeep
<1>6. CASE Practises(h)  BY <1>6, PractisesKeeps
<1>7. CASE SetsFlags(h) \/ ClearsFlags(h)
  <2>1. asked[h].kind \in {"setFlags", "clearFlags"}
    BY <1>7 DEF SetsFlags, ClearsFlags, GoesOn, Comes
  <2> QED  BY <1>7, <2>1, HooksKeep
<1>8. CASE ResetData(h)  BY <1>8, ResetDataKeeps
<1>9. CASE ResetAll(h)
  <2>1. asked[h].kind \in {"clearFlags", "reset"}  BY <1>9 DEF ResetAll, Comes
  <2> QED  BY <1>9, <2>1, ResetAllKeeps
<1>10. CASE AnswersOrders(h)  BY <1>10, AnswersOrdersKeeps
<1> QED
  BY <1>1, <1>2, <1>3, <1>4, <1>5, <1>6, <1>7, <1>8, <1>9, <1>10 DEF Handles

LEMMA OneIsHandled ==
  ASSUME DemoInv, NEW h \in Hit, Handles(h), NEW g \in Hit, stage'[g] # stage[g]
  PROVE  g = h
<1>1. \/ stage' = [stage EXCEPT ![h] = "over"]
      \/ stage' = [stage EXCEPT ![h] = "waits"]
  BY DEF Handles, AsksToCreate, AsksToEdit, AsksWithBody, AsksOrders, Creates, Edits, Deletes,
         LogsIn, LogsOut, ReadsAudit, ReadsSession, Practises, SetsFlags, ClearsFlags,
         ResetData, ResetAll, AnswersOrders, Waits, Replies
<1>2. stage \in [Hit -> {"sent", "waits", "over"}]  BY DEF DemoInv, DemoTypeOK
<1> QED  BY <1>1, <1>2

LEMMA DemoKeeps ==
  ASSUME DemoInv, [DemoNext]_demoVars
  PROVE  DemoInv' /\ OthersUntouched
<1>1. ASSUME NEW h \in Hit, Handles(h)  PROVE DemoInv' /\ OthersUntouched
  <2>1. DemoInv'  BY <1>1, HandlesKeep
  <2>2. ASSUME NEW g \in Hit, NEW v \in Visitor, stage[g] # stage'[g],
               asked[g].kind \notin {"setFlags", "clearFlags", "reset"}, By(g) # v
        PROVE  InForce(v)' = InForce(v) /\ carries'[v] = carries[v]
    <3>1. g = h  BY <1>1, <2>2, OneIsHandled
    <3>2. Untouched(h)  BY <1>1, <2>2, <3>1, HandlesKeep
    <3> QED  BY <2>2, <3>1, <3>2 DEF Untouched
  <2>3. OthersUntouched  BY <2>2 DEF OthersUntouched
  <2> QED  BY <2>1, <2>3
<1>2. CASE StartsAgain
  <2>1. DemoInv'  BY <1>2, StartsAgainKeeps
  <2>2. starts \in Nat /\ starts' = starts + 1
    BY <1>2, DemoAssumption DEF StartsAgain, DemoInv, DemoTypeOK, DemoAssumption
  <2>3. OthersUntouched  BY <2>2 DEF OthersUntouched
  <2> QED  BY <2>1, <2>3
<1>3. CASE UNCHANGED demoVars
  <2>1. UNCHANGED <<asked, stage, saw, said, carries, site, epoch, failed, starts>>
    BY <1>3 DEF demoVars, requestVars
  <2>2. DemoTypeOK'  BY <2>1 DEF DemoInv, DemoTypeOK, IsSiteScene, Managed, FreshSite, Unset
  <2>3. NumbersInOrder' /\ EditsAreSeen'
    <3>1. \A g : Seen(g)' <=> Seen(g)  BY <2>1 DEF Seen, UserOf, Managed
    <3> QED  BY <2>1, <3>1 DEF DemoInv, NumbersInOrder, EditsAreSeen
  <2>4. FailedIsKnown' /\ KeysAreOwn'
    BY <2>1 DEF DemoInv, FailedIsKnown, FailsOnce, OrderKey, KeysAreOwn, By
  <2>5. OthersUntouched  BY <2>1 DEF OthersUntouched
  <2> QED  BY <2>2, <2>3, <2>4, <2>5 DEF DemoInv
<1> QED  BY <1>1, <1>2, <1>3 DEF DemoNext

LEMMA DemoSafe ==
  ASSUME DemoInv  PROVE UsersKeepTheirOwn /\ FailsOnce
<1>1. \A i, j \in 1..Len(site.managed) : i # j => site.managed[i].id # site.managed[j].id
  BY SeededIsOne DEF DemoInv, NumbersInOrder
<1> QED  BY <1>1 DEF UsersKeepTheirOwn, DemoInv, EditsAreSeen, Seen, FailedIsKnown

-----------------------------------------------------------------------------
(* The four together.                                                      *)

\* Every change marks, or puts an answer in the place of, what it changes: true
\* of the pages' tables (WebPages, useMoney.ts and the handlers of each page).
PagesRefresh == \A g \in Scenes : MarksAll(g)

\* The scenes that are fixed where another part is followed are scenes too.
LEMMA WebStarts ==
  ASSUME MCInit
  PROVE  (PagesRefresh => AppInv) /\ SessionInv /\ FormInv /\ DemoInv
<1>1. AppIdle /\ SessionIdle /\ FormIdle /\ DemoIdle  BY DEF MCInit, WebIdle
<1>2. given \in Scenes /\ IsScene(given)
  <2>1. Scenes # {} /\ \A g \in Scenes : IsScene(g)  BY AppAssumption DEF AppAssumption
  <2>2. given \in Scenes \/ given = CHOOSE g \in Scenes : TRUE  BY DEF MCInit
  <2> QED  BY <2>1, <2>2
<1>3. IsSiteScene(asked)
  <2>1. SiteScenes # {} /\ \A s \in SiteScenes : IsSiteScene(s)
    BY DemoAssumption DEF DemoAssumption
  <2>2. asked \in SiteScenes \/ asked = CHOOSE s \in SiteScenes : TRUE  BY DEF MCInit
  <2> QED  BY <2>1, <2>2
<1>4. PagesRefresh => MarksAll(given)  BY <1>2 DEF PagesRefresh
<1> QED  BY <1>1, <1>2, <1>3, <1>4, AppStarts, SessionStarts, FormStarts, DemoStarts

\* What one of them does, the others do not see.
LEMMA OneMoves ==
  ASSUME [MCNext]_<<webVars, demoVars>>
  PROVE  [AppNext]_appVars /\ [SessionNext]_sessionVars /\ [FormNext]_formVars /\ [DemoNext]_demoVars
<1>1. \/ UNCHANGED <<webVars, demoVars>>
      \/ WebNext /\ UNCHANGED demoVars
      \/ DemoNext /\ UNCHANGED webVars
  BY DEF MCNext
<1>2. CASE UNCHANGED <<webVars, demoVars>>  BY <1>2 DEF webVars
<1>3. CASE WebNext /\ UNCHANGED demoVars  BY <1>3 DEF WebNext
<1>4. CASE DemoNext /\ UNCHANGED webVars  BY <1>4 DEF webVars
<1> QED  BY <1>1, <1>2, <1>3, <1>4

LEMMA SessionIsKept == Spec => []SessionInv
<1>1. MCInit => SessionInv  BY WebStarts
<1>2. SessionInv /\ [MCNext]_<<webVars, demoVars>> => SessionInv'  BY OneMoves, SessionKeeps
<1> QED  BY <1>1, <1>2, PTL DEF Spec

LEMMA FormIsKept == Spec => []FormInv
<1>1. MCInit => FormInv  BY WebStarts
<1>2. FormInv /\ [MCNext]_<<webVars, demoVars>> => FormInv'  BY OneMoves, FormKeeps
<1> QED  BY <1>1, <1>2, PTL DEF Spec

LEMMA DemoIsKept == Spec => []DemoInv
<1>1. MCInit => DemoInv  BY WebStarts
<1>2. DemoInv /\ [MCNext]_<<webVars, demoVars>> => DemoInv'  BY OneMoves, DemoKeeps
<1> QED  BY <1>1, <1>2, PTL DEF Spec

\* Every step keeps what is known of the query that is followed, of the two at
\* one browser, of the payment and of the demo site.
THEOREM WebIsKept == PagesRefresh => (Spec => []WebInv)
<1>1. PagesRefresh /\ MCInit => AppInv  BY WebStarts
<1>2. AppInv /\ [MCNext]_<<webVars, demoVars>> => AppInv'  BY OneMoves, AppKeeps
<1>3. AppInv /\ SessionInv /\ FormInv /\ DemoInv => WebInv  BY DEF WebInv
<1> QED  BY <1>1, <1>2, <1>3, SessionIsKept, FormIsKept, DemoIsKept, PTL DEF Spec

\* A page shows every change the customer was told of, and the data of who is
\* signed in, once nothing is on its way.
THEOREM PagesTellTheTruth == PagesRefresh => (Spec => []PagesAreTrue)
<1>1. WebInv => PagesAreTrue
  BY ShownIsSoHolds, NothingOfAnotherHolds, SaysWhoItIsHolds DEF WebInv, PagesAreTrue
<1> QED  BY <1>1, WebIsKept, PTL

\* What was checked is paid once, and the receipt names what was paid.
THEOREM PaidOnce == Spec => []PaidAsReviewed
<1>1. FormInv => PaidAsReviewed  BY DEF FormInv
<1> QED  BY <1>1, FormIsKept, PTL

\* Visitors and parallel tests of the demo site leave each other alone.
THEOREM SiteIsShared == Spec => SharedInPeace
<1>1. DemoInv => UsersKeepTheirOwn /\ FailsOnce  BY DemoSafe
<1>2. DemoInv /\ [MCNext]_<<webVars, demoVars>> => OthersUntouched  BY OneMoves, DemoKeeps
<1> QED  BY <1>1, <1>2, DemoIsKept, PTL DEF Spec, SharedInPeace
=============================================================================
