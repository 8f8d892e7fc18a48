------------------------------- MODULE WebApp -------------------------------
(***************************************************************************)
(* A browser tab: the customer goes from page to page and changes things;  *)
(* one query of the cache is followed through it all.  The server's        *)
(* records that the query shows are told apart by how many of the tab's    *)
(* changes they hold: saved changes were made, 0..saved of them are in an  *)
(* answer, one is added to it so that nothing received is NoData.          *)
(***************************************************************************)
EXTENDS WebPages, QueryCache, SequencesExt, FiniteSets

CONSTANTS Scenes,   \* what given may be
          Press,    \* the changes the customer sets going
          MaxLost   \* requests that may be lost, either way

\* A set of prefixes marks a key.
Reaches(prefixes, key) == \E p \in prefixes : IsPrefix(p, key)

IsScene(g) ==
  /\ g.retries \in BOOLEAN /\ g.at \subseteq Address
  /\ \A d \in g.deeds :
       d.call \in DOMAIN Calls \ {"none"} /\ Len(d.marks) \in Nat /\ d.waits \in BOOLEAN

ASSUME AppAssumption ==
  /\ Scenes # {} /\ \A g \in Scenes : IsScene(g)
  /\ IsFiniteSet(Press) /\ MaxLost \in Nat

VARIABLES given,     \* the query that is followed, and what the customer does
          address,   \* the page on screen
          revealed,  \* what comes later on this page has come
          query,     \* the query in the cache
          press,     \* the changes under way
          saved,     \* how many of them the server has made
          known,     \* how many the customer was told of
          lost

appVars == <<given, address, revealed, query, press, saved, known, lost>>

\* given: [key, retries, at: the addresses visited, deeds: the changes made, each with
\* what it does; times: how often at most]
Followed(a) == {w \in ShownAt[a] : w.key = given.key}
On(a, shown) == \E w \in Followed(a) : w.later => shown
OnScreenNow == On(address, revealed)

NoPress == [call |-> "none", at |-> "idle", here |-> FALSE, made |-> 0, stage |-> 0, waits |-> FALSE]

\* Nothing is done twice at once: the button is not there while its call is under way.
Pending(c) == \E i \in Press : press[i].here /\ press[i].call = c /\ press[i].at # "idle"

AppIdle ==
  /\ address = "home" /\ revealed = FALSE /\ query = Empty
  /\ press = [i \in Press |-> NoPress]
  /\ saved = 0 /\ known = 0 /\ lost = 0

-----------------------------------------------------------------------------
\* Another page: what it shows is asked for unless it is held and fresh. Calls
\* under way go on.
Visit(a) ==
  /\ a # address
  /\ address' = a /\ revealed' = FALSE
  /\ \E q \in {query, Aged(query)} :
       query' = IF On(a, FALSE) THEN Opened(q, given.retries) ELSE q
  /\ press' = [i \in Press |-> [press[i] EXCEPT !.here = FALSE]]
  /\ UNCHANGED <<given, saved, known, lost>>

\* What comes later on a page comes.
Reveal ==
  /\ ~revealed /\ \E w \in Followed(address) : w.later
  /\ revealed' = TRUE
  /\ query' = Opened(query, given.retries)
  /\ UNCHANGED <<given, address, press, saved, known, lost>>

\* The timer asks again.
Poll ==
  /\ \E w \in Followed(address) : w.polled /\ (w.later => revealed)
  /\ Idle(query)
  /\ query' = Asked(query, given.retries)
  /\ UNCHANGED <<given, address, revealed, press, saved, known, lost>>

\* The customer presses a button: it is there, its rows are, and it is not busy.
Presses(i, c) ==
  /\ press[i].at = "idle" /\ press[i].call = "none" /\ i <= given.times
  /\ \A j \in Press : j < i => press[j].call # "none"
  /\ \E p \in OnScreen[address] :
       /\ \E d \in p.does : d.call = c
       /\ given.key \in p.buttons[c] => Has(query)
  /\ ~Pending(c)
  /\ press' = [press EXCEPT ![i] = [NoPress EXCEPT !.call = c, !.at = "sent", !.here = TRUE]]
  /\ UNCHANGED <<given, address, revealed, query, saved, known, lost>>

\* A flawed version: the call is sent a second time on its own.
MadeTwice(i) ==
  /\ press[i].at = "sent"
  /\ saved' = saved + 2
  /\ press' = [press EXCEPT ![i].at = "made", ![i].made = saved + 2]
  /\ UNCHANGED <<given, address, revealed, query, known, lost>>

\* The server makes the change.
Made(i) ==
  /\ press[i].at = "sent"
  /\ saved' = saved + 1
  /\ press' = [press EXCEPT ![i].at = "made", ![i].made = saved + 1]
  /\ UNCHANGED <<given, address, revealed, query, known, lost>>

\* The call fails: it is refused, or it is lost on its way or its answer is.
Refused(i) ==
  /\ press[i].at = "sent"
  /\ press' = [press EXCEPT ![i].at = "failed"]
  /\ UNCHANGED <<given, address, revealed, query, saved, known, lost>>

Lose(i) ==
  /\ press[i].at \in {"sent", "made"} /\ lost < MaxLost
  /\ lost' = lost + 1
  /\ press' = [press EXCEPT ![i].at = "failed"]
  /\ UNCHANGED <<given, address, revealed, query, saved, known>>

\* What a component does when its call has come back; its callbacks run even if
\* it is off screen by then.
Deed(c) == CHOOSE d \in given.deeds : d.call = c

Marks(prefixes) == Reaches(prefixes, given.key)

Freed == [j \in Press |-> [press[j] EXCEPT !.waits = FALSE]]

\* One stage of it: mark, and wait for what is asked again because of it.
Stage(i, k) ==
  LET d == Deed(press[i].call)
      hit == k <= Len(d.marks) /\ Marks(d.marks[k])
      q == IF hit THEN Marked(query, OnScreenNow, given.retries) ELSE query
      last == k >= Len(d.marks)
      told == press[i].made > 0 /\ press[i].at # "failed"
      waiting == d.waits /\ hit /\ OnScreenNow
      pressed == IF hit THEN Freed ELSE press IN
  /\ query' = IF k = 1 /\ given.key \in d.puts /\ told THEN Put(q, press[i].made + 1, known > press[i].made) ELSE q
  /\ press' = [pressed EXCEPT ![i] =
       IF last /\ ~waiting THEN [press[i] EXCEPT !.at = "idle", !.waits = FALSE]
       ELSE [press[i] EXCEPT !.at = IF told THEN "marking" ELSE "failed", !.stage = k, !.waits = waiting]]
  /\ known' = IF last /\ ~waiting /\ told /\ press[i].made > known THEN press[i].made ELSE known

\* The answer comes back.
Returns(i) ==
  /\ press[i].stage = 0
  /\ \/ press[i].at = "made"
     \/ press[i].at = "failed" /\ Deed(press[i].call).even
  /\ Stage(i, 1)
  /\ UNCHANGED <<given, address, revealed, saved, lost>>

\* What it waited for has been asked again: the next stage, or the button is free.
Proceeds(i) ==
  /\ press[i].at \in {"marking", "failed"} /\ press[i].stage > 0 /\ ~press[i].waits
  /\ Stage(i, press[i].stage + 1)
  /\ UNCHANGED <<given, address, revealed, saved, lost>>

\* A flawed version: the error is shown and the button stays busy.
Shows503Only(i) ==
  /\ press[i].at = "failed" /\ press[i].stage = 0 /\ ~Deed(press[i].call).even
  /\ press' = [press EXCEPT ![i].here = FALSE]
  /\ UNCHANGED <<given, address, revealed, query, saved, known, lost>>

\* A failed call that does nothing more frees its button.
Shows503(i) ==
  /\ press[i].at = "failed" /\ press[i].stage = 0 /\ ~Deed(press[i].call).even
  /\ press' = [press EXCEPT ![i].at = "idle"]
  /\ UNCHANGED <<given, address, revealed, query, saved, known, lost>>

-----------------------------------------------------------------------------
\* The server answers the query.
Answers ==
  /\ query.fetch = "sent"
  /\ query' = Answered(query, saved + 1)
  /\ UNCHANGED <<given, address, revealed, press, saved, known, lost>>

\* The answer lands, or the request fails: whoever waited for it goes on when
\* it has landed or has failed for good.
Lands ==
  /\ query.fetch = "answered"
  /\ query' = Landed(query)
  /\ press' = Freed
  /\ UNCHANGED <<given, address, revealed, saved, known, lost>>

Misses ==
  /\ ~Idle(query) /\ lost < MaxLost
  /\ lost' = lost + 1
  /\ query' = Failed(query)
  /\ press' = IF Idle(query') THEN Freed ELSE press
  /\ UNCHANGED <<given, address, revealed, saved, known>>

\* What the network and the server owe.
Moves ==
  \/ Answers \/ Lands
  \/ \E i \in Press : Made(i) \/ Returns(i) \/ Proceeds(i) \/ Shows503(i)

AppNext ==
  \/ Moves
  \/ \E a \in given.at : Visit(a)
  \/ \E i \in Press, d \in given.deeds : Presses(i, d.call)
  \/ \E i \in Press : Refused(i) \/ Lose(i)
  \/ Reveal \/ Poll \/ Misses

\* Every request ends, by an answer or by an error of the browser.
AppFairness ==
  /\ WF_appVars(Answers \/ Lands)
  /\ \A i \in Press : WF_appVars(Made(i) \/ Returns(i) \/ Proceeds(i) \/ Shows503(i))

-----------------------------------------------------------------------------
PressesOf(most) ==
  [call : DOMAIN Calls \cup {"none"}, at : {"idle", "sent", "made", "failed", "marking"},
   here : BOOLEAN, made : 0..most, stage : Nat, waits : BOOLEAN]

AppTypeOK ==
  /\ IsScene(given) /\ address \in Address /\ revealed \in BOOLEAN
  /\ saved \in 0..Cardinality(Press) /\ known \in 0..saved /\ lost \in 0..MaxLost
  /\ query \in QueryOf(0..saved + 1) /\ press \in [Press -> PressesOf(saved)]

\* What a page shows holds every change the customer was told is done, once
\* nothing is on its way, if the change is not one of LeftToTime, which mark
\* nothing (a scene has none of those).  Not so when the last request failed, and
\* not when a mark was set while the first data, or the data of a page left, was
\* in flight: the answer then takes the mark away, older though it is (raced;
\* useRefreshMoney, onSuccess of every mutation).
ShownIsSo ==
  OnScreenNow /\ Idle(query) /\ Has(query) /\ ~query.failed /\ ~query.raced
    => query.held > known

\* A call is one of the scene's; it is counted once made.
CallsAreGiven ==
  /\ \A i \in Press :
       /\ press[i].at # "idle" => \E d \in given.deeds : d.call = press[i].call
       /\ press[i].call = "none" \/ press[i].at = "sent" => press[i].made = 0
       /\ press[i].at \in {"made", "marking"} => press[i].made > 0
       /\ press[i].at \in {"sent", "made"} => press[i].stage = 0
  /\ saved = Cardinality({i \in Press : press[i].made > 0})

\* What q holds, or will, has the first m changes, or is known not to count.
Holds(q, m) ==
  /\ q.fetch = "answered" /\ ~q.behind => q.answer > m
  /\ Has(q) /\ ~q.old /\ ~q.failed /\ ~q.raced => q.held > m

\* One of the stages so far marked the query.
Reached(i) ==
  LET d == Deed(press[i].call) IN
  \E k \in 1..press[i].stage : k <= Len(d.marks) /\ Marks(d.marks[k])

\* Every change in a scene marks the query or puts an answer in its place; one
\* that is put is not mixed with marks that come one after the other.
MarksAll(g) ==
  \A d \in g.deeds :
    /\ \/ g.key \in d.puts
       \/ \E k \in 1..Len(d.marks) : Reaches(d.marks[k], g.key)
    /\ (\E e \in g.deeds : g.key \in e.puts) => Len(d.marks) = 1 /\ ~d.waits

\* What is known is held, and so is what a call that goes on has marked.
KnownIsHeld ==
  /\ Holds(query, known)
  /\ \A i \in Press : press[i].at = "marking" =>
       /\ \A d \in given.deeds : given.key \notin d.puts
       /\ Reached(i) => Holds(query, press[i].made)
       /\ Reached(i) \/ \E k \in 1..Len(Deed(press[i].call).marks) :
            k > press[i].stage /\ Marks(Deed(press[i].call).marks[k])

\* What is old is asked again as soon as a page shows it.
NothingOldOnScreen ==
  OnScreenNow /\ Idle(query) /\ Has(query) /\ query.old => query.failed

\* What every step of the tab keeps.
AppInv == AppTypeOK /\ MarksAll(given) /\ CallsAreGiven /\ KnownIsHeld /\ NothingOldOnScreen

\* A button that was pressed is free again.
ButtonsComeBack == \A i \in Press : []<>(press[i].at = "idle")
=============================================================================
