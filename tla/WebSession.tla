----------------------------- MODULE WebSession -----------------------------
(***************************************************************************)
(* Customers who share a browser: signing in and out while queries of the  *)
(* one before are in flight.  Two queries are followed: who is signed in   *)
(* (me) and one that shows that person's data (mine).                      *)
(***************************************************************************)
EXTENDS QueryCache, FiniteSets

CONSTANTS Sign,      \* sign-ins and sign-outs set going
          MaxMissed  \* requests that may be lost

ASSUME SessionAssumption ==
  Sign \subseteq Nat /\ IsFiniteSet(Sign) /\ MaxMissed \in Nat

Person == {1, 2}
Nobody == 9
NoCookie == 0
Token == 0..Cardinality(Sign) + 1

VARIABLES screen,    \* the page: "bank" shows mine, "login", or another
          cookie,    \* the session cookie of the browser
          owner,     \* the server: whose session a token is; Nobody's if over
          issued,    \* tokens issued
          me, mine,  \* the two queries
          sentWith,  \* the cookie each query went out with
          sign,      \* sign-ins and sign-outs
          missed,
          stayed     \* the browser and the server were left apart

sessionVars == <<screen, cookie, owner, issued, me, mine, sentWith, sign, missed, stayed>>

NoSign == [kind |-> "none", who |-> Nobody, at |-> "idle", with |-> NoCookie, token |-> NoCookie]

\* useBankSession: the user, as the cache has it.
User == IF Has(me) THEN me.held ELSE Nobody
UserIn(q) == IF Has(q) THEN q.held ELSE Nobody

\* A page that shows mine asks only for somebody.
Shown(scr, q) == scr = "bank" /\ UserIn(q) # Nobody

\* Nobody's cookie belongs to nobody.
SessionIdle ==
  /\ screen = "other" /\ cookie = 1 /\ issued = 1
  /\ owner = [t \in Token |-> IF t = 1 THEN 1 ELSE Nobody]
  /\ me = [Empty EXCEPT !.held = 1] /\ mine = Empty
  /\ sentWith = [me |-> NoCookie, mine |-> NoCookie]
  /\ sign = [s \in Sign |-> NoSign]
  /\ missed = 0 /\ stayed = FALSE

\* The queries after a change of page, of the user or of the cookie: what came on
\* screen is opened; what was asked again goes out with the cookie of now.
Opens(scr, newMe, newMine, asked, with) ==
  LET cameUp == Shown(scr, newMe) /\ ~(Shown(screen, me) /\ scr = screen)
      opened == IF cameUp THEN Opened(newMine, TRUE) ELSE newMine IN
  /\ mine' = opened
  /\ sentWith' = [me |-> IF newMe.fetch = "sent" /\ me.fetch # "sent" THEN with ELSE sentWith.me,
                  mine |-> IF opened.fetch = "sent" /\ (asked \/ mine.fetch # "sent") THEN with
                           ELSE sentWith.mine]

-----------------------------------------------------------------------------
\* Another page: it looks up who is signed in again after 30 seconds, and shows
\* mine again after a minute.
Goes(scr) ==
  /\ scr # screen /\ screen' = scr
  /\ \E meAged, mineAged \in BOOLEAN :
       /\ me' = Opened(IF meAged THEN Aged(me) ELSE me, FALSE)
       /\ Opens(scr, me', IF mineAged THEN Aged(mine) ELSE mine, FALSE, cookie)
  /\ UNCHANGED <<cookie, owner, issued, sign, missed, stayed>>

Sends(s, kind, who) ==
  /\ sign[s] = NoSign /\ \A r \in Sign : r < s => sign[r] # NoSign
  /\ sign' = [sign EXCEPT ![s] = [kind |-> kind, who |-> who, at |-> "sent", with |-> cookie, token |-> NoCookie]]
  /\ UNCHANGED <<screen, cookie, owner, issued, me, mine, sentWith, missed, stayed>>

\* LoginPage, and SignUpPage for a new customer: one at a time.
SignsIn(s, p) ==
  /\ screen = "login" /\ \A r \in Sign : sign[r].kind = "in" => sign[r].at = "over"
  /\ Sends(s, "in", p)

\* UserMenu: the item is there for somebody, and is not held back by a call under way.
SignsOut(s) == User # Nobody /\ Sends(s, "out", Nobody)

\* DevicesPage: the rows offer End on other devices only; endOne provides for the
\* device in hand as well, and here it may always be asked for.
EndsThis(s) == User # Nobody /\ screen = "other" /\ Sends(s, "end", Nobody)

\* The server: a session is made, or the one of the cookie is over.
Handled(s) ==
  /\ sign[s].at = "sent"
  /\ IF sign[s].kind = "in"
     THEN /\ issued' = issued + 1
          /\ owner' = [owner EXCEPT ![issued + 1] = sign[s].who]
          /\ sign' = [sign EXCEPT ![s].at = "handled", ![s].token = issued + 1]
     ELSE /\ owner' = [owner EXCEPT ![sign[s].with] = Nobody]
          /\ sign' = [sign EXCEPT ![s].at = IF sign[s].kind = "end" /\ owner[sign[s].with] = Nobody
                                            THEN "failed" ELSE "handled"]
          /\ UNCHANGED issued
  /\ UNCHANGED <<screen, cookie, me, mine, sentWith, missed, stayed>>

NotReached(s) ==
  /\ sign[s].at \in {"sent", "handled"} /\ missed < MaxMissed
  /\ missed' = missed + 1
  /\ stayed' = (stayed \/ sign[s].kind = "out" \/ (sign[s].kind = "end" /\ sign[s].at = "handled"))
  /\ sign' = [sign EXCEPT ![s].at = "failed"]
  /\ UNCHANGED <<screen, cookie, owner, issued, me, mine, sentWith>>

\* A flawed version: the account only.
SetAccountOnly(who, scr, with) ==
  /\ me' = Put(me, who, FALSE)
  /\ Opens(scr, me', mine, FALSE, with)

\* useSetBankAccount: the account goes into the cache, and every other query of
\* the bank is marked.
SetAccount(who, scr, with) ==
  LET onScreen == Shown(screen, me) IN
  /\ me' = Put(me, who, FALSE)
  /\ Opens(scr, me', Marked(mine, onScreen, TRUE), onScreen /\ Has(mine), with)

\* The answer: its cookie first, then the account; after a sign-out even if it failed.
LandsIn(s) ==
  /\ sign[s].kind = "in" /\ sign[s].at = "handled"
  /\ cookie' = sign[s].token
  /\ screen' = "other"
  /\ SetAccount(sign[s].who, "other", cookie')
  /\ sign' = [sign EXCEPT ![s].at = "over"]
  /\ UNCHANGED <<owner, issued, missed, stayed>>

LandsOut(s) ==
  /\ sign[s].kind = "out" /\ sign[s].at \in {"handled", "failed"}
  /\ cookie' = IF sign[s].at = "handled" THEN NoCookie ELSE cookie
  /\ SetAccount(Nobody, screen, cookie')
  /\ sign' = [sign EXCEPT ![s].at = "over"]
  /\ UNCHANGED <<screen, owner, issued, missed, stayed>>

\* A flawed version: only the list of devices is asked for again.
LandsEndQuietly(s) ==
  /\ sign[s].kind = "end" /\ sign[s].at = "handled"
  /\ cookie' = NoCookie
  /\ sign' = [sign EXCEPT ![s].at = "over"]
  /\ UNCHANGED <<screen, owner, issued, me, mine, sentWith, missed, stayed>>

LandsEnd(s) ==
  /\ sign[s].kind = "end" /\ sign[s].at = "handled"
  /\ cookie' = NoCookie
  /\ me' = Marked(me, TRUE, FALSE)
  /\ sentWith' = [sentWith EXCEPT !.me = NoCookie]
  /\ sign' = [sign EXCEPT ![s].at = "over"]
  /\ UNCHANGED <<screen, owner, issued, mine, missed, stayed>>

Fails(s) ==
  /\ sign[s].kind \in {"in", "end"} /\ sign[s].at = "failed"
  /\ sign' = [sign EXCEPT ![s].at = "over"]
  /\ UNCHANGED <<screen, cookie, owner, issued, me, mine, sentWith, missed, stayed>>

-----------------------------------------------------------------------------
\* The server says who the cookie is; nobody is an answer too (getMe).
AnswersMe ==
  /\ me.fetch = "sent"
  /\ me' = Answered(me, owner[sentWith.me])
  /\ UNCHANGED <<screen, cookie, owner, issued, mine, sentWith, sign, missed, stayed>>

\* It answers with that person's data, or refuses: 401, and asked once more.
AnswersMine ==
  /\ mine.fetch = "sent"
  /\ IF owner[sentWith.mine] # Nobody
     THEN mine' = Answered(mine, owner[sentWith.mine]) /\ UNCHANGED sentWith
     ELSE /\ mine' = Failed(mine)
          /\ sentWith' = [sentWith EXCEPT !.mine = cookie]
  /\ UNCHANGED <<screen, cookie, owner, issued, me, sign, missed, stayed>>

LandsMe ==
  /\ me.fetch = "answered"
  /\ me' = Landed(me)
  /\ Opens(screen, me', mine, FALSE, cookie)
  /\ UNCHANGED <<screen, cookie, owner, issued, sign, missed, stayed>>

LandsMine ==
  /\ mine.fetch = "answered"
  /\ mine' = Landed(mine)
  /\ UNCHANGED <<screen, cookie, owner, issued, me, sentWith, sign, missed, stayed>>

SessionNext ==
  \/ \E scr \in {"bank", "login", "other"} : Goes(scr)
  \/ \E s \in Sign : SignsOut(s) \/ EndsThis(s) \/ \E p \in Person : SignsIn(s, p)
  \/ \E s \in Sign : Handled(s) \/ NotReached(s) \/ LandsIn(s) \/ LandsOut(s) \/ LandsEnd(s) \/ Fails(s)
  \/ AnswersMe \/ AnswersMine \/ LandsMe \/ LandsMine

-----------------------------------------------------------------------------
Signs ==
  [kind : {"none", "in", "out", "end"}, who : Person \cup {Nobody},
   at : {"idle", "sent", "handled", "failed", "over"}, with : Token, token : Token]

SessionTypeOK ==
  /\ screen \in {"bank", "login", "other"}
  /\ issued \in Token \ {NoCookie} /\ cookie \in 0..issued
  /\ owner \in [Token -> Person \cup {Nobody}]
  /\ me \in QueryOf(Person \cup {NoData, Nobody}) /\ Has(me)
  /\ mine \in QueryOf(Person \cup {NoData})
  /\ sentWith \in [me : 0..issued, mine : 0..issued]
  /\ sign \in [Sign -> Signs]
  /\ missed \in 0..MaxMissed /\ stayed \in BOOLEAN

\* A page shows the data of the person it says is signed in, once nothing is on
\* its way: also when two customers take turns at one browser; not so for what
\* was in flight while the account changed and came from a page left by then
\* (useSetBankAccount).
NothingOfAnother ==
  Shown(screen, me) /\ Idle(mine) /\ Has(mine) /\ ~mine.failed /\ ~mine.raced /\ ~me.raced
    => mine.held = User

\* The page says who the cookie is, once nothing is on its way; not so when a
\* sign-out was lost either way (UserMenu forgets the account all the same, also
\* one that has signed in since) or the answer of a device's end was, nor when
\* an older look-up had the last word.
SaysWhoItIs ==
  LET quiet == \A s \in Sign : sign[s].at \in {"idle", "over"} IN
  Idle(me) /\ Has(me) /\ ~me.raced /\ ~stayed /\ quiet => User = owner[cookie]

\* The person a token was issued to, and nobody without a cookie.
IsOf(t, p) ==
  \/ t = NoCookie /\ p = Nobody
  \/ t = 1 /\ p = 1
  \/ t # NoCookie /\ \E s \in Sign : sign[s].token = t /\ sign[s].who = p

\* Every sign-in has a token of its own; one that has not come back was never
\* the browser's cookie, and its session is on.
TokensAreTheirs ==
  /\ issued = 1 + Cardinality({s \in Sign : sign[s].token # NoCookie})
  /\ \A s \in Sign :
       /\ sign[s].token # NoCookie =>
            /\ sign[s].kind = "in" /\ sign[s].at \in {"handled", "failed", "over"}
            /\ sign[s].token \in 2..issued
       /\ sign[s].kind = "in" <=> sign[s].who \in Person
       /\ sign[s].kind = "none" => sign[s].at = "idle"
       /\ sign[s].kind = "in" /\ sign[s].at = "handled" =>
            /\ sign[s].token \notin {NoCookie, cookie}
            /\ owner[sign[s].token] = sign[s].who
            /\ \A r \in Sign : sign[r].with # sign[s].token
       /\ sign[s].with \in 0..issued
       /\ \A r \in Sign :
            sign[s].token = sign[r].token /\ sign[s].token # NoCookie => s = r
  /\ \A t \in Token : owner[t] # Nobody => IsOf(t, owner[t])

\* The session of the cookie is over at the server, and the browser may still
\* have the cookie.
Ending ==
  \/ stayed
  \/ \E s \in Sign : /\ sign[s].kind \in {"out", "end"} /\ sign[s].at = "handled"
                       /\ sign[s].with = cookie
Right(p) == IsOf(cookie, p) \/ (p = Nobody /\ Ending)

\* Who is signed in, as the page has it, is who the cookie is; it is looked up
\* again with the cookie of now after every change of it.
MeIsRight ==
  /\ Right(owner[cookie])
  /\ \A s \in Sign : sign[s].kind = "out" /\ sign[s].at = "failed" => stayed
  /\ ~Idle(me) /\ ~me.behind => sentWith.me = cookie
  /\ me.fetch = "answered" => me.answer # NoData
  /\ me.fetch = "answered" /\ ~me.behind => Right(me.answer)
  /\ \/ me.raced \/ Right(me.held)
     \/ cookie = NoCookie /\ ~Idle(me) /\ ~me.behind

\* Data that counts as the page's own: the cookie's, or after the device in hand
\* was ended the data of whom the page still says is signed in.
Mine(p) ==
  \/ IsOf(cookie, p)
  \/ cookie = NoCookie /\ (me.raced \/ me.held \in {Nobody, p})

MineIsMine ==
  /\ ~Idle(mine) /\ ~mine.behind => \A p \in Person : IsOf(sentWith.mine, p) => Mine(p)
  /\ mine.fetch = "answered" => mine.answer # NoData
  /\ mine.fetch = "answered" /\ ~mine.behind => Mine(mine.answer)
  /\ Has(mine) /\ ~mine.old /\ ~mine.raced /\ ~mine.failed => Mine(mine.held)
  /\ Shown(screen, me) /\ Idle(mine) /\ Has(mine) /\ mine.old => mine.failed

\* What every step of the session keeps.
SessionInv ==
  /\ SessionTypeOK /\ TokensAreTheirs /\ MeIsRight /\ MineIsMine
=============================================================================
