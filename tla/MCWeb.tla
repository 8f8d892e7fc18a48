-------------------------------- MODULE MCWeb --------------------------------
(***************************************************************************)
(* Every query of the web front end with every call that changes what it   *)
(* shows, between the page that makes the call and every other that shows  *)
(* the query; two customers at one browser; the checked payments; and the  *)
(* demo site that the same server serves, with two visitors.  A behaviour  *)
(* follows one of the four.                                                *)
(***************************************************************************)
EXTENDS WebApp, WebSession, WebForms, DemoSite

VARIABLE follows  \* "app", "session", "form" or "demo"

webVars == <<follows, appVars, sessionVars, formVars>>

WebIdle == AppIdle /\ SessionIdle /\ FormIdle

WebNext ==
  \/ follows = "app" /\ AppNext /\ UNCHANGED <<follows, sessionVars, formVars>>
  \/ follows = "session" /\ SessionNext /\ UNCHANGED <<follows, appVars, formVars>>
  \/ follows = "form" /\ FormNext /\ UNCHANGED <<follows, appVars, sessionVars>>

MCPress == {1, 2}
MCSign == {1, 2}
MCClick == {1, 2, 3}

Everything == UNION {ShownAt[a] : a \in Address}
Deeds(a) == UNION {p.does : p \in OnScreen[a]}

\* What the code leaves to a timer or to the 5 seconds a list stays fresh.
LeftToTime ==
  ({"openTicket", "replyToTicket", "solveTicket"} \X {"listMyTickets", "listInbox"})
    \cup ({"solveTicket", "chargeCard", "makeTrade", "advanceClock"} \X {"listNotifications"})
    \cup {<<"openTicket", "getTicket">>}

\* Pages that show the query; the frame is on all of them, and one stands for all.
Frame == UNION {p.shows : p \in AppLayout}
ShowersOf(w) ==
  IF \E v \in Frame : v.key = w.key THEN {"home"}
  ELSE {a \in Address : \E v \in ShownAt[a] : v.key = w.key}

\* Pages a call is made from.
MakersOf(d) ==
  IF \E p \in AppLayout : d \in p.does THEN {"bank"}
  ELSE {a \in Address : d \in Deeds(a)}

Matter(w, d) ==
  /\ d.call # "runGraphql" /\ <<d.call, w.call>> \notin LeftToTime
  /\ ChangesWhat(d.call, w.call)

\* Twice, where the two can overlap; one query stands for those that share a prefix.
Times(w, d, other) ==
  IF (other = "home" /\ d.puts = {}) \/ (d.waits /\ w.key # K("cards")) THEN 1 ELSE 2

ScenesOf(w, d) ==
  {[key |-> w.key, retries |-> w.retries, at |-> {maker, other, "home"}, deeds |-> {d},
    times |-> Times(w, d, other)] :
   maker \in MakersOf(d), other \in ShowersOf(w)}

MCScenes ==
  UNION {ScenesOf(s[1], s[2]) :
         s \in {t \in Everything \X UNION {Deeds(a) : a \in Address} : Matter(t[1], t[2])}}

-----------------------------------------------------------------------------
CONSTANTS ann, bob, h1, h2, h3, h4

\* What a request asks; what its kind has no use for stays as it is here.
Call(kind, by) ==
  [kind |-> kind, by |-> by, key |-> NoOne, id |-> 0, role |-> "none", on |-> FALSE,
   flags |-> Unset]
Of(kind, by, id) == [Call(kind, by) EXCEPT !.id = id]
ByKey(kind, by, key) == [Call(kind, by) EXCEPT !.key = key]
AsRole(by, role) == [Call("login", by) EXCEPT !.role = role]
Practice(by, on) == [Call("practice", by) EXCEPT !.on = on]
Arm(key, flags) == [ByKey("setFlags", bob, key) EXCEPT !.flags = flags]
Enforced == [Unset EXCEPT !["rbacEnforce"] = "on"]
EditorDeletes == [Enforced EXCEPT !["rbacBug"] = "editor-delete"]
OverAndRequired == [Enforced EXCEPT !["sessionExpired"] = "on", !["authRequired"] = "on"]
Locked == [Enforced EXCEPT !["adminGate"] = "locked"]

SiteScene(c1, c2, c3, c4) == h1 :> c1 @@ h2 :> c2 @@ h3 :> c3 @@ h4 :> c4

MCSiteScenes ==
  {SiteScene(Call("create", ann), Call("create", bob), Of("delete", ann, 2), Call("create", bob)),
   SiteScene(Call("create", ann), Of("edit", bob, 2), Of("delete", ann, 2), Call("create", bob)),
   SiteScene(Call("create", ann), Of("edit", bob, 2), Call("resetUsers", bob), Call("create", bob)),
   SiteScene(ByKey("orders", ann, "test"), ByKey("orders", bob, "test"),
             ByKey("orders", ann, "test"), Call("resetUsers", bob)),
   SiteScene(Call("orders", ann), Call("orders", bob), Call("reset", bob), Call("orders", ann)),
   SiteScene(Practice(ann, TRUE), Practice(ann, FALSE), Practice(bob, TRUE), Call("create", bob)),
   SiteScene(AsRole(ann, "Admin"), Arm(NoOne, Enforced), Call("create", ann), Call("logout", ann)),
   SiteScene(Call("create", bob), AsRole(ann, "Editor"), Arm(NoOne, EditorDeletes),
             Of("delete", ann, 2)),
   SiteScene(AsRole(ann, "Admin"), Arm(NoOne, OverAndRequired), Call("audit", ann),
             ByKey("clearFlags", bob, "global")),
   SiteScene(AsRole(ann, "Admin"), Arm("test", OverAndRequired), Call("audit", bob),
             ByKey("session", ann, "test")),
   SiteScene(Arm(NoOne, Locked), Call("session", bob), Call("audit", bob), Call("resetUsers", bob)),
   SiteScene(AsRole(ann, "Viewer"), Arm("test", Enforced), ByKey("edit", ann, "test"),
             ByKey("clearFlags", bob, "test")),
   SiteScene(Practice(ann, TRUE), Of("edit", bob, 1), Of("delete", bob, 1), Call("clearFlags", bob))}

MCInit ==
  /\ WebIdle
  /\ \/ follows = "app" /\ given \in Scenes
     \/ follows \in {"session", "form", "demo"} /\ given = CHOOSE g \in Scenes : TRUE
  /\ follows # "form" => form = CHOOSE f \in Form : TRUE
  /\ DemoIdle
  /\ IF follows = "demo" THEN asked \in SiteScenes ELSE asked = CHOOSE s \in SiteScenes : TRUE

MCNext ==
  \/ WebNext /\ UNCHANGED demoVars
  \/ follows = "demo" /\ DemoNext /\ UNCHANGED webVars

Spec == MCInit /\ [][MCNext]_<<webVars, demoVars>> /\ AppFairness

-----------------------------------------------------------------------------
\* What every step keeps, of each of the four: the types among it.
WebInv == AppInv /\ SessionInv /\ FormInv /\ DemoInv

\* What is on screen is so, once nothing is on its way: it holds every change the
\* customer was told is done, it is the data of the person who is signed in, and
\* that person is who the browser's cookie is (useRefreshMoney, useSetBankAccount,
\* UserMenu).
PagesAreTrue == ShownIsSo /\ NothingOfAnother /\ SaysWhoItIs
=============================================================================
