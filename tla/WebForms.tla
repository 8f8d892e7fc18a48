------------------------------ MODULE WebForms ------------------------------
(***************************************************************************)
(* A payment that is checked before it is sent: a transfer, a bill, or the *)
(* dialog that pays a money request.  What was checked has a key, made     *)
(* when it was shown; the server pays a key once.                          *)
(***************************************************************************)
EXTENDS Naturals, FiniteSets

CONSTANTS Click,     \* presses of Confirm
          MaxReview, \* times the details are shown for checking
          MaxCut     \* calls that may be cut off

ASSUME FormAssumption ==
  Click \subseteq Nat \ {0} /\ MaxReview \in Nat /\ MaxCut \in Nat

VARIABLES form,     \* which one it is, and the planted bugs of it that are armed
          reviews,  \* reviews so far: a review is known by its number
          review,   \* the one on screen, None if none
          click,    \* the calls
          watched,  \* the call whose state the button shows
          receipt,  \* what the receipt says
          paid,     \* the server: the payments, by key
          cut

formVars == <<form, reviews, review, click, watched, receipt, paid, cut>>

None == 0
Form == [kind : {"transfer"}, double : BOOLEAN, stale : BOOLEAN]
          \cup [kind : {"bill", "request"}, double : {FALSE}, stale : {FALSE}]
NoClick == [review |-> None, key |-> None, at |-> "idle", here |-> FALSE]

FormIdle ==
  /\ form \in Form
  /\ reviews = 0 /\ review = None /\ watched = None /\ receipt = {}
  /\ click = [c \in Click |-> NoClick]
  /\ paid = {} /\ cut = 0

UnderWay == watched # None /\ click[watched].at \in {"sent", "paid", "refused", "cut", "refreshing"}

-----------------------------------------------------------------------------
\* The details are shown for checking, with a new key; the dialog opens with one,
\* and forgets the call of before.
ToReview ==
  /\ review = None /\ receipt = {} /\ reviews < MaxReview
  /\ reviews' = reviews + 1 /\ review' = reviews + 1
  /\ watched' = IF form.kind = "request" THEN None ELSE watched
  /\ UNCHANGED <<form, click, receipt, paid, cut>>

\* A flawed version: a key for every press in any case.
KeyPerPress(c) == MaxReview + c

\* bankDoubleSubmit: a key for every press.
KeyOf(c) == IF form.double THEN MaxReview + c ELSE review

Confirm(c) ==
  /\ review # None /\ receipt = {} /\ (form.double \/ ~UnderWay)
  /\ click[c] = NoClick /\ \A d \in Click : d < c => click[d] # NoClick
  /\ click' = [click EXCEPT ![c] = [review |-> review, key |-> KeyOf(c), at |-> "sent", here |-> TRUE]]
  /\ watched' = c
  /\ UNCHANGED <<form, reviews, review, receipt, paid, cut>>

\* A flawed version: Back at any time.
BackAnytime ==
  /\ form.kind # "request" /\ review # None /\ receipt = {}
  /\ review' = None
  /\ UNCHANGED <<form, reviews, click, watched, receipt, paid, cut>>

\* Back, not while a call is under way.
Back ==
  /\ form.kind # "request" /\ review # None /\ receipt = {} /\ ~UnderWay
  /\ review' = None /\ watched' = None
  /\ UNCHANGED <<form, reviews, click, receipt, paid, cut>>

\* The dialog can be closed at any time; its call goes on.
CloseDialog ==
  /\ form.kind = "request" /\ review # None
  /\ review' = None
  /\ UNCHANGED <<form, reviews, click, watched, receipt, paid, cut>>

StartOver ==
  /\ receipt # {}
  /\ review' = None /\ receipt' = {} /\ watched' = None
  /\ UNCHANGED <<form, reviews, click, paid, cut>>

\* Another page: what the form held is gone; its calls go on.
Leave ==
  /\ review # None \/ watched # None
  /\ review' = None /\ receipt' = {} /\ watched' = None
  /\ click' = [c \in Click |-> [click[c] EXCEPT !.here = FALSE]]
  /\ UNCHANGED <<form, reviews, paid, cut>>

-----------------------------------------------------------------------------
\* The server: a key it has paid is answered again; a request is paid once.
Pays(c) ==
  /\ click[c].at = "sent"
  /\ LET before == \E p \in paid : p.key = click[c].key
         closed == form.kind = "request" /\ paid # {} IN
     /\ paid' = IF before \/ closed THEN paid ELSE paid \cup {[key |-> click[c].key, review |-> click[c].review]}
     /\ click' = [click EXCEPT ![c].at = IF closed /\ ~before THEN "refused" ELSE "paid"]
  /\ UNCHANGED <<form, reviews, review, watched, receipt, cut>>

\* It refuses: the form, the balance; a bill also when its key has been paid.
Refuses(c) ==
  /\ click[c].at = "sent"
  /\ click' = [click EXCEPT ![c].at = "refused"]
  /\ UNCHANGED <<form, reviews, review, watched, receipt, paid, cut>>

CutOff(c) ==
  /\ click[c].at \in {"sent", "paid"} /\ cut < MaxCut
  /\ cut' = cut + 1
  /\ click' = [click EXCEPT ![c].at = "cut"]
  /\ UNCHANGED <<form, reviews, review, watched, receipt, paid>>

\* The answer: the balances are asked for first, unless bankStaleBalance is armed.
Refreshes(c) ==
  /\ click[c].at = "paid" /\ ~form.stale
  /\ click' = [click EXCEPT ![c].at = "refreshing"]
  /\ UNCHANGED <<form, reviews, review, watched, receipt, paid, cut>>

\* The receipt, and the first one stays; it names the review on screen. The dialog closes.
Receipt(c) ==
  /\ click[c].at = (IF form.stale THEN "paid" ELSE "refreshing")
  /\ click' = [click EXCEPT ![c].at = "over"]
  /\ CASE ~click[c].here -> UNCHANGED <<review, receipt>>
       [] click[c].here /\ form.kind = "request" -> review' = None /\ UNCHANGED receipt
       [] click[c].here /\ form.kind # "request" ->
            /\ receipt' = IF receipt = {} THEN {[payment |-> click[c].review, says |-> review]} ELSE receipt
            /\ UNCHANGED review
  /\ UNCHANGED <<form, reviews, watched, paid, cut>>

ShowsWhy(c) ==
  /\ click[c].at \in {"refused", "cut"}
  /\ click' = [click EXCEPT ![c].at = "over"]
  /\ UNCHANGED <<form, reviews, review, watched, receipt, paid, cut>>

FormNext ==
  \/ ToReview \/ Back \/ CloseDialog \/ StartOver \/ Leave
  \/ \E c \in Click : \/ Confirm(c) \/ Pays(c) \/ Refuses(c) \/ CutOff(c)
                      \/ Refreshes(c) \/ Receipt(c) \/ ShowsWhy(c)

-----------------------------------------------------------------------------
Clicks ==
  [review : 0..MaxReview, key : Nat, here : BOOLEAN,
   at : {"idle", "sent", "paid", "refused", "cut", "refreshing", "over"}]

FormTypeOK ==
  /\ form \in Form /\ reviews \in 0..MaxReview /\ review \in 0..reviews
  /\ watched \in Click \cup {None} /\ cut \in 0..MaxCut
  /\ click \in [Click -> Clicks]
  /\ receipt \subseteq [payment : 1..MaxReview, says : 0..MaxReview]
  /\ paid \subseteq [key : Nat, review : 1..MaxReview]

\* What was checked is paid at most once, however often Confirm is pressed and
\* answers are lost, a money request once even if its dialog is opened again, and
\* a receipt names the payment that was made; without the planted bug
\* (toReview, confirm, PayDialog).
PaidAsReviewed ==
  ~form.double =>
    /\ \A p, q \in paid : p.review = q.review \/ form.kind = "request" => p = q
    /\ \A r \in receipt : r.says = r.payment /\ \E p \in paid : p.review = r.payment

\* What was checked is known by its key, and what was paid by it.
KeysNameReviews ==
  /\ \A c \in Click : click[c].at # "idle" =>
       click[c].review \in 1..reviews /\ (~form.double => click[c].key = click[c].review)
  /\ ~form.double => \A p \in paid : p.key = p.review

\* A call the server has answered yes to has its payment there, and a money
\* request has one payment at most.
AnsweredIsPaid ==
  /\ \A c \in Click : click[c].at \in {"paid", "refreshing"} =>
       \E p \in paid : p.key = click[c].key
  /\ form.kind = "request" => receipt = {} /\ \A p, q \in paid : p = q

\* The one call of the page under way is the one the button shows, for the
\* review on screen; the receipt is still to come.
OneUnderWay ==
  (~form.double /\ form.kind # "request") => \A c \in Click :
    (click[c].here /\ click[c].at \notin {"idle", "over"}) =>
      watched = c /\ review = click[c].review /\ receipt = {}

\* What every step of the form keeps.
FormInv ==
  /\ FormTypeOK /\ KeysNameReviews /\ AnsweredIsPaid /\ OneUnderWay
  /\ PaidAsReviewed
=============================================================================
