------------------------------ MODULE DemoSite ------------------------------
(***************************************************************************)
(* The demo site (src/server.js), all in memory and shared by its          *)
(* visitors and by tests that run in parallel: the users they manage,      *)
(* sessions, planted faults armed by run key, orders that fail once.  A    *)
(* handler runs up to where it waits for the request's body, or sleeps,    *)
(* and then to its end.  A user is its id, who made it and who edited it   *)
(* last; counts of requests and the legacy create-user list are left out.  *)
(***************************************************************************)
EXTENDS Naturals, Sequences, FiniteSets

CONSTANTS Visitor,
          Hit,        \* requests
          SiteScenes, \* what each asks: functions from Hit
          NoOne,     \* no run key, no session, no user
          MaxStarts   \* restarts of the server

Seeded == {1}  \* seededUsers
Flag ==
  {"rbacEnforce", "sessionExpired", "authRequired", "adminGate", "rbacBug",
   "userCreateConflict"}
Setting == {"unset", "off", "on", "true", "editor-delete", "locked"}
Planted == {"rbacBug", "userCreateConflict"}  \* those in practice.BUGS
RunKeys == {"global", "test"} \cup Hit           \* a run key that is minted is its request

\* The practice page names no run key: the cookie has the visitor's.
IsSiteScene(s) ==
  \A h \in Hit :
    /\ s[h].by \in Visitor /\ s[h].on \in BOOLEAN
    /\ s[h].key \in {NoOne} \cup RunKeys /\ s[h].flags \in [Flag -> Setting]
    /\ s[h].kind = "practice" => s[h].key = NoOne

ASSUME DemoAssumption ==
  /\ SiteScenes # {} /\ \A s \in SiteScenes : IsSiteScene(s)
  /\ NoOne \notin RunKeys /\ {"global", "test"} \cap Hit = {}
  /\ MaxStarts \in Nat

VARIABLES asked,    \* what each request asks
          stage,    \* "sent", "waits" or "over"
          saw,      \* what a request carried, and what its handler read, before it waited
          said,     \* its status
          carries,   \* each visitor's run key and session
          site,     \* runtimeState: managedUsers, editsByUserId, deletedManagedUserIds,
                    \* sessions, flagsByRunKey, flakyOrderFailuresByRunKey
          epoch,    \* resets of the users so far
          failed,   \* requests that were failed once, since the last full reset
          starts    \* restarts so far

requestVars == <<stage, saw, said>>
demoVars == <<asked, requestVars, carries, site, epoch, failed, starts>>

Unset == [f \in Flag |-> "unset"]
NoSession == [sid |-> NoOne, role |-> "none"]

FreshSite ==
  [managed |-> <<>>, edits |-> [id \in {} |-> NoOne], deleted |-> {}, sessions |-> {},
   flags |-> [k \in RunKeys |-> Unset], flaky |-> {}]

DemoIdle ==
  /\ stage = [h \in Hit |-> "sent"] /\ said = [h \in Hit |-> 0]
  /\ saw = [h \in Hit |-> [key |-> "global", user |-> NoOne, epoch |-> 0]]
  /\ carries = [v \in Visitor |-> [key |-> NoOne, sid |-> NoOne]]
  /\ site = FreshSite /\ epoch = 0 /\ failed = {} /\ starts = 0

DemoStart == DemoIdle /\ asked \in SiteScenes

-----------------------------------------------------------------------------
By(h) == asked[h].by

\* ?runKey=, else the cookie's, else "global".
RunKeyOf(h) ==
  IF asked[h].key # NoOne THEN asked[h].key
  ELSE IF carries[By(h)].key # NoOne THEN carries[By(h)].key
  ELSE "global"

\* The defaults, then the global ones, then the run key's own.
ResolveFlags(key) ==
  [f \in Flag |->
     IF site.flags[key][f] # "unset" THEN site.flags[key][f]
     ELSE IF site.flags["global"][f] # "unset" THEN site.flags["global"][f]
     ELSE "off"]

SessionOf(sid) ==
  IF \E s \in site.sessions : s.sid = sid
  THEN CHOOSE s \in site.sessions : s.sid = sid ELSE NoSession

\* An expired session counts as signed out.
RoleIn(h) ==
  IF ResolveFlags(RunKeyOf(h))["sessionExpired"] = "on" THEN "none"
  ELSE SessionOf(carries[By(h)].sid).role

May(role) ==
  CASE role = "Admin" -> {"create", "edit", "delete"}
    [] role = "Editor" -> {"edit"}
    [] OTHER -> {}

Forbidden(h, deed) ==
  ResolveFlags(RunKeyOf(h))["rbacEnforce"] = "on" /\ deed \notin May(RoleIn(h))

Managed == {site.managed[i].id : i \in 1..Len(site.managed)}
Exists(id) == id \in (Seeded \cup Managed) \ site.deleted
UserOf(id) ==
  IF id \in Managed
  THEN site.managed[CHOOSE i \in 1..Len(site.managed) : site.managed[i].id = id].by
  ELSE NoOne

-----------------------------------------------------------------------------
Replies(h, status) ==
  /\ stage' = [stage EXCEPT ![h] = "over"]
  /\ said' = [said EXCEPT ![h] = status]
  /\ UNCHANGED <<asked, saw, starts>>

Still == UNCHANGED <<carries, site, epoch, failed>>

\* What a handler has read goes with it over the wait.
Waits(h) ==
  /\ stage' = [stage EXCEPT ![h] = "waits"]
  /\ saw' = [saw EXCEPT ![h] = [key |-> RunKeyOf(h), user |-> UserOf(asked[h].id),
                                epoch |-> epoch]]
  /\ Still /\ UNCHANGED <<asked, said, starts>>

Comes(h, kinds) == stage[h] = "sent" /\ asked[h].kind \in kinds
GoesOn(h, kinds) == stage[h] = "waits" /\ asked[h].kind \in kinds

\* POST /api/users
AsksToCreate(h) ==
  /\ Comes(h, {"create"})
  /\ \/ Forbidden(h, "create") /\ Replies(h, 403) /\ Still
     \/ /\ ~Forbidden(h, "create")
        /\ ResolveFlags(RunKeyOf(h))["userCreateConflict"] = "on"
        /\ Replies(h, 409) /\ Still
     \/ /\ ~Forbidden(h, "create")
        /\ ResolveFlags(RunKeyOf(h))["userCreateConflict"] # "on" /\ Waits(h)

NextId == Cardinality(Seeded) + Len(site.managed) + 1

Creates(h) ==
  /\ GoesOn(h, {"create"}) /\ Replies(h, 201)
  /\ site' = [site EXCEPT !.managed = Append(@, [id |-> NextId, by |-> h])]
  /\ UNCHANGED <<carries, epoch, failed>>

\* PATCH /api/users/:id
AsksToEdit(h) ==
  /\ Comes(h, {"edit"})
  /\ \/ Forbidden(h, "edit") /\ Replies(h, 403) /\ Still
     \/ ~Forbidden(h, "edit") /\ ~Exists(asked[h].id) /\ Replies(h, 404) /\ Still
     \/ ~Forbidden(h, "edit") /\ Exists(asked[h].id) /\ Waits(h)

Edits(h) ==
  /\ GoesOn(h, {"edit"}) /\ Replies(h, 200)
  /\ site' = [site EXCEPT !.edits =
                [id \in DOMAIN @ \cup {asked[h].id} |-> IF id = asked[h].id THEN h ELSE @[id]]]
  /\ UNCHANGED <<carries, epoch, failed>>

\* A flawed version: a user who is deleted leaves the list, and their number
\* is given again.
DeletesRow(h) ==
  /\ Comes(h, {"delete"}) /\ ~Forbidden(h, "delete") /\ Replies(h, 200)
  /\ site' = [site EXCEPT !.managed = SelectSeq(@, LAMBDA u : u.id # asked[h].id)]
  /\ UNCHANGED <<carries, epoch, failed>>

\* DELETE /api/users/:id: seeded users never; an Editor's passes with the
\* planted fault.
Deletes(h) ==
  LET id == asked[h].id
      passes == /\ ResolveFlags(RunKeyOf(h))["rbacBug"] = "editor-delete"
                /\ RoleIn(h) = "Editor"
      refused == Forbidden(h, "delete") /\ ~passes IN
  /\ Comes(h, {"delete"})
  /\ \/ refused /\ Replies(h, 403) /\ Still
     \/ ~refused /\ id \in Seeded /\ Replies(h, 409) /\ Still
     \/ ~refused /\ id \notin Seeded /\ ~Exists(id) /\ Replies(h, 404) /\ Still
     \/ /\ ~refused /\ id \notin Seeded /\ Exists(id) /\ Replies(h, 200)
        /\ site' = [site EXCEPT !.deleted = @ \cup {id}]
        /\ UNCHANGED <<carries, epoch, failed>>

-----------------------------------------------------------------------------
\* The requests that wait for their body first.
AsksWithBody(h) == Comes(h, {"login", "practice", "setFlags"}) /\ Waits(h)

\* POST /api/login and the test hook set-session: a new session each time.
LogsIn(h) ==
  /\ GoesOn(h, {"login"}) /\ Replies(h, 200)
  /\ site' = [site EXCEPT !.sessions = @ \cup {[sid |-> h, role |-> asked[h].role]}]
  /\ carries' = [carries EXCEPT ![By(h)].sid = h]
  /\ UNCHANGED <<epoch, failed>>

LogsOut(h) ==
  /\ Comes(h, {"logout"}) /\ Replies(h, 200)
  /\ site' = [site EXCEPT !.sessions = {s \in @ : s.sid # carries[By(h)].sid}]
  /\ carries' = [carries EXCEPT ![By(h)].sid = NoOne]
  /\ UNCHANGED <<epoch, failed>>

\* The session is there and the flag says it is over.
Expired(h) ==
  /\ SessionOf(carries[By(h)].sid) # NoSession
  /\ ResolveFlags(RunKeyOf(h))["sessionExpired"] = "on"

LosesCookie(h) ==
  /\ carries' = [carries EXCEPT ![By(h)].sid = NoOne]
  /\ UNCHANGED <<site, epoch, failed>>

\* GET /api/admin/audit: an expired session loses its cookie.
ReadsAudit(h) ==
  LET flags == ResolveFlags(RunKeyOf(h))
      unknown == flags["authRequired"] = "on" /\ SessionOf(carries[By(h)].sid) = NoSession
      denied == \/ flags["rbacEnforce"] = "on" /\ RoleIn(h) # "Admin"
                \/ flags["adminGate"] = "locked" IN
  /\ Comes(h, {"audit"})
  /\ \/ Expired(h) /\ Replies(h, 401) /\ LosesCookie(h)
     \/ unknown /\ Replies(h, 401) /\ Still
     \/ ~Expired(h) /\ ~unknown /\ Replies(h, IF denied THEN 403 ELSE 200) /\ Still

\* GET /api/session: only where signing in is required is an expired one told.
ReadsSession(h) ==
  LET required == ResolveFlags(RunKeyOf(h))["authRequired"] = "on" IN
  /\ Comes(h, {"session"})
  /\ \/ required /\ Expired(h) /\ Replies(h, 401) /\ LosesCookie(h)
     \/ /\ ~(required /\ Expired(h))
        /\ Replies(h, IF required /\ RoleIn(h) = "none" THEN 401 ELSE 200) /\ Still

\* practiceFlags arms rbacBug with a value the delete does not look for.
PracticeFlags(on) ==
  [f \in Flag |-> IF f \notin Planted THEN "unset"
                  ELSE IF on /\ f = "rbacBug" THEN "true"
                  ELSE IF on THEN "on"
                  ELSE "off"]

Over(old, new) == [f \in Flag |-> IF new[f] = "unset" THEN old[f] ELSE new[f]]
WritesFlags(key, new) == site' = [site EXCEPT !.flags[key] = Over(@, new)]

\* A flawed version: a visitor without a key of their own arms everybody's.
MintKeyGlobal(h) == saw[h].key

\* A visitor without a key of their own gets one.
MintKey(h) == IF saw[h].key = "global" THEN h ELSE saw[h].key

\* POST /api/practice
Practises(h) ==
  /\ GoesOn(h, {"practice"}) /\ Replies(h, 200)
  /\ WritesFlags(MintKey(h), PracticeFlags(asked[h].on))
  /\ carries' = [carries EXCEPT ![By(h)].key = MintKey(h)]
  /\ UNCHANGED <<epoch, failed>>

\* POST /api/test/flags: the run key is in the body, or it is everybody's.
SetsFlags(h) ==
  /\ GoesOn(h, {"setFlags"}) /\ Replies(h, 200)
  /\ WritesFlags(IF asked[h].key = NoOne THEN "global" ELSE asked[h].key, asked[h].flags)
  /\ UNCHANGED <<carries, epoch, failed>>

\* DELETE /api/test/flags of one run key.
ClearsFlags(h) ==
  /\ Comes(h, {"clearFlags"}) /\ asked[h].key # NoOne /\ Replies(h, 200)
  /\ site' = [site EXCEPT !.flags[asked[h].key] = Unset]
  /\ UNCHANGED <<carries, epoch, failed>>

\* A flawed version: the orders that failed once are forgotten with the users.
ResetDataAndOrders(h) ==
  /\ Comes(h, {"resetUsers"}) /\ Replies(h, 200)
  /\ site' = [site EXCEPT !.managed = <<>>, !.deleted = {},
                          !.edits = FreshSite.edits, !.flaky = {}]
  /\ epoch' = epoch + 1 /\ UNCHANGED <<carries, failed>>

\* POST /api/test/reset-users: safe while tests run, so nothing but the users.
ResetData(h) ==
  /\ Comes(h, {"resetUsers"}) /\ Replies(h, 200)
  /\ site' = [site EXCEPT !.managed = <<>>, !.deleted = {},
                          !.edits = FreshSite.edits]
  /\ epoch' = epoch + 1 /\ UNCHANGED <<carries, failed>>

\* POST /api/test/reset, and DELETE /api/test/flags without a run key.
ResetAll(h) ==
  /\ Comes(h, {"reset", "clearFlags"})
  /\ asked[h].kind = "clearFlags" => asked[h].key = NoOne
  /\ Replies(h, 200)
  /\ site' = FreshSite /\ epoch' = epoch + 1 /\ failed' = {} /\ UNCHANGED carries

\* GET /api/orders, slow or flaky.
AsksOrders(h) == Comes(h, {"orders"}) /\ Waits(h)

OrderKey(h) == IF asked[h].key = NoOne THEN "global" ELSE asked[h].key

\* After the sleep: the first of each run key fails.
AnswersOrders(h) ==
  /\ GoesOn(h, {"orders"})
  /\ IF OrderKey(h) \in site.flaky THEN Replies(h, 200) /\ Still
     ELSE /\ Replies(h, 503)
          /\ site' = [site EXCEPT !.flaky = @ \cup {OrderKey(h)}]
          /\ failed' = failed \cup {h} /\ UNCHANGED <<carries, epoch>>

\* The server starts again, with nothing in memory; what was under way is cut.
StartsAgain ==
  /\ starts < MaxStarts /\ starts' = starts + 1
  /\ site' = FreshSite /\ epoch' = epoch + 1 /\ failed' = {}
  /\ stage' = [h \in Hit |-> IF stage[h] = "waits" THEN "over" ELSE stage[h]]
  /\ UNCHANGED <<asked, saw, said, carries>>

Handles(h) ==
  \/ AsksToCreate(h) \/ Creates(h) \/ AsksToEdit(h) \/ Edits(h) \/ Deletes(h)
  \/ AsksWithBody(h) \/ LogsIn(h) \/ LogsOut(h) \/ ReadsAudit(h) \/ ReadsSession(h)
  \/ Practises(h) \/ SetsFlags(h) \/ ClearsFlags(h) \/ ResetData(h) \/ ResetAll(h)
  \/ AsksOrders(h) \/ AnswersOrders(h)

DemoNext == (\E h \in Hit : Handles(h)) \/ StartsAgain

-----------------------------------------------------------------------------
DemoTypeOK ==
  /\ IsSiteScene(asked)
  /\ stage \in [Hit -> {"sent", "waits", "over"}]
  /\ said \in [Hit -> {0, 200, 201, 401, 403, 404, 409, 503}]
  /\ saw \in [Hit -> [key : RunKeys, user : {NoOne} \cup Hit, epoch : 0..epoch]]
  /\ carries \in [Visitor -> [key : {NoOne} \cup RunKeys, sid : {NoOne} \cup Hit]]
  /\ DOMAIN site = DOMAIN FreshSite
  /\ site.managed \in Seq([id : Nat, by : Hit]) /\ site.deleted \subseteq Managed
  /\ site.flags \in [RunKeys -> [Flag -> Setting]]
  /\ site.flaky \subseteq RunKeys /\ failed \subseteq Hit
  /\ epoch \in Nat /\ starts \in 0..MaxStarts

\* A number is one user's between two resets of the users, deleted or not; who
\* wears an edit is who was edited, unless the edit was under way at a reset.
UsersKeepTheirOwn ==
  /\ \A i, j \in 1..Len(site.managed) :
       i # j => site.managed[i].id # site.managed[j].id
  /\ \A id \in DOMAIN site.edits :
       LET h == site.edits[id] IN
       saw[h].epoch = epoch => id \in Seeded \/ (id \in Managed /\ UserOf(id) = saw[h].user)

\* One of the requests of a run key fails, however many sleep at once, so that
\* whoever tries again is served (handleOrders).
FailsOnce == \A g, h \in failed : g # h => OrderKey(g) # OrderKey(h)

\* "Turning practice mode on never changes what anybody else sees" (practice.js):
\* nor does any request, but one that names the run key or everybody, or a full
\* reset, and a visitor's own.
InForce(v) == ResolveFlags(IF carries[v].key = NoOne THEN "global" ELSE carries[v].key)
OthersUntouched ==
  \A h \in Hit, v \in Visitor :
    /\ asked[h].kind \notin {"setFlags", "clearFlags", "reset"} /\ By(h) # v
    /\ stage[h] # stage'[h] /\ starts' = starts
    => InForce(v)' = InForce(v) /\ carries'[v] = carries[v]

\* The number of a user is their place in the list, after the seeded ones.
NumbersInOrder ==
  \A i \in 1..Len(site.managed) : site.managed[i].id = Cardinality(Seeded) + i

\* Whoever is to be edited, or was, is who was seen, but for a reset.
Seen(h) ==
  saw[h].epoch = epoch =>
    asked[h].id \in Seeded \/ (asked[h].id \in Managed /\ UserOf(asked[h].id) = saw[h].user)
EditsAreSeen ==
  /\ \A h \in Hit : stage[h] = "waits" /\ asked[h].kind = "edit" => Seen(h)
  /\ \A id \in DOMAIN site.edits :
       LET h == site.edits[id] IN
       h \in Hit /\ asked[h].id = id /\ stage[h] = "over" /\ Seen(h)

FailedIsKnown == FailsOnce /\ \A h \in failed : OrderKey(h) \in site.flaky

\* A run key that a visitor carries, or a practice request has read, is theirs.
KeysAreOwn ==
  /\ \A v \in Visitor :
       carries[v].key # NoOne => carries[v].key \in Hit /\ By(carries[v].key) = v
  /\ \A h \in Hit : stage[h] = "waits" /\ asked[h].kind = "practice" =>
       saw[h].key = "global" \/ (saw[h].key \in Hit /\ By(saw[h].key) = By(h))

\* What every step of the site keeps.
DemoInv ==
  DemoTypeOK /\ NumbersInOrder /\ EditsAreSeen /\ FailedIsKnown /\ KeysAreOwn

\* What visitors and parallel tests do is theirs: users, failures, planted faults.
SharedInPeace == [][UsersKeepTheirOwn' /\ FailsOnce' /\ OthersUntouched]_demoVars
=============================================================================
