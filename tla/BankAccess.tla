----------------------------- MODULE BankAccess -----------------------------
(***************************************************************************)
(* Who may act (src/bank/accounts.js, auth.js, keys.js): signing up and    *)
(* in, the hold on wrong passwords, sessions, locked customers, API keys   *)
(* and their rate, and the accounts a customer opens.  Each statement is   *)
(* a transaction of its own, unless the comment says otherwise.            *)
(***************************************************************************)
EXTENDS DeskRows

CONSTANTS
  User, Member, Client,  \* customers, those signed up already, addresses
  Key, MaxKeys,          \* API keys; how many may be active
  Rate,                  \* RATE_LIMIT_PER_MINUTE
  MaxFailures,           \* LOGIN_MAX_FAILURES
  Starter, MaxAccounts   \* accounts everyone starts with; the most allowed

ASSUME AccessAssumption ==
  /\ User \subseteq Row
  /\ Member \subseteq User
  /\ Starter \in Nat \ {0} /\ MaxAccounts \in Nat /\ Starter <= MaxAccounts
  /\ Rate \in Nat /\ MaxFailures \in Nat \ {0} /\ MaxKeys \in Nat

\* What the routes let through.
AccessCall(c) ==
  /\ c.kind \in {"login", "register", "setStatus", "open", "newKey", "endOthers"} =>
       c.user \in User
  /\ c.kind = "login" => c.client \in Client /\ c.right \in BOOLEAN
  /\ c.kind = "setStatus" => c.to \in {"active", "locked"}
  /\ c.kind \in {"newKey", "revoke", "useKey"} => c.key \in Key
  /\ c.kind \in {"visit", "logout", "endOthers"} => c.by \in Request

VARIABLES
  member,    \* bank_users.status
  opened,    \* how many accounts each customer has
  sessions,  \* bank_sessions: the requests that opened them
  holds,     \* bank_login_holds, one row per customer and address
  keyOf,     \* bank_api_keys: active or revoked
  usage,     \* bank_api_key_usage of this minute
  passed,    \* history: requests let through this minute, by key
  announced  \* history: holds somebody was told of that still run

accessVars ==
  <<member, opened, sessions, holds, keyOf, usage, passed, announced>>

NoHold == [failures |-> 0, old |-> FALSE, held |-> FALSE]

AccessInit ==
  /\ member = [u \in User |-> IF u \in Member THEN "active" ELSE "none"]
  /\ opened = [u \in User |-> IF u \in Member THEN Starter ELSE 0]
  /\ sessions = {}
  /\ holds = [p \in User \X Client |-> NoHold]
  /\ keyOf = [k \in Key |-> "none"]
  /\ usage = [k \in Key |-> 0]
  /\ passed = [k \in Key |-> 0]
  /\ announced = {}

UserOf(r) == call[r].user

\* A request with a session or a key comes after whoever was given it was told;
\* an account is opened, and a key made, by a customer.
HasToken(r) ==
  /\ Kind(r) \in {"open", "newKey"} => member[UserOf(r)] # "none"
  /\ Kind(r) \in {"visit", "logout", "endOthers"} => outcome[call[r].by] = "done"
  /\ Kind(r) \in {"useKey", "revoke"} => keyOf[call[r].key] # "none"

Pair(r) == <<call[r].user, call[r].client>>

-----------------------------------------------------------------------------
(* Signing in.                                                             *)

\* Mutant: the hold is not looked at.
CheckHoldNever(r) ==
  /\ At(r, {"login"}, "start")
  /\ Read(r, "verify")
  /\ UNCHANGED accessVars

CheckHold(r) ==
  /\ At(r, {"login"}, "start")
  /\ IF holds[Pair(r)].held THEN Refuse(r, "held") ELSE Read(r, "verify")
  /\ UNCHANGED accessVars

\* The customer's row is read, and the password checked against it.
Verify(r) ==
  /\ At(r, {"login"}, "verify")
  /\ IF ~call[r].right THEN Read(r, "count")
     ELSE IF member[UserOf(r)] = "locked" THEN Refuse(r, "locked")
     ELSE Read(r, "clear")
  /\ UNCHANGED accessVars

\* One upsert counts the failure, starts over after a window, and clears
\* held_until.
CountFailure(r) ==
  LET p == Pair(r)
      n == IF holds[p].old THEN 1 ELSE holds[p].failures + 1
  IN
  /\ At(r, {"login"}, "count")
  /\ holds' = [holds EXCEPT ![p] = [failures |-> n, old |-> FALSE, held |-> FALSE]]
  /\ IF n < MaxFailures THEN Refuse(r, "wrong") ELSE Read(r, "hold")
  /\ UNCHANGED <<member, opened, sessions, keyOf, usage, passed, announced>>

\* A second statement starts the hold; a sign-in that has deleted the row
\* meanwhile leaves nothing to update, and the answer is an error.
StartHold(r) ==
  LET p == Pair(r) IN
  /\ At(r, {"login"}, "hold")
  /\ IF holds[p] = NoHold
       THEN Refuse(r, "error") /\ UNCHANGED <<holds, announced>>
       ELSE /\ holds' = [holds EXCEPT ![p] = [NoHold EXCEPT !.held = TRUE]]
            /\ announced' = announced \cup {p}
            /\ Refuse(r, "held")
  /\ UNCHANGED <<member, opened, sessions, keyOf, usage, passed>>

ClearHold(r) ==
  /\ At(r, {"login"}, "clear")
  /\ holds' = [holds EXCEPT ![Pair(r)] = NoHold]
  /\ Read(r, "session")
  /\ UNCHANGED <<member, opened, sessions, keyOf, usage, passed, announced>>

OpenSession(r) ==
  /\ At(r, {"login", "register"}, "session")
  /\ sessions' = sessions \cup {r}
  /\ Commit(r, NoMoney, {})
  /\ UNCHANGED <<member, opened, holds, keyOf, usage, passed, announced>>

\* LOGIN_HOLD_SECONDS pass.
HoldsRunOut ==
  /\ \E p \in DOMAIN holds : holds[p] # NoHold /\ ~holds[p].old
  /\ holds' = [p \in DOMAIN holds |->
                 IF holds[p] = NoHold THEN NoHold
                 ELSE [failures |-> holds[p].failures, old |-> TRUE, held |-> FALSE]]
  /\ announced' = {}
  /\ UNCHANGED <<member, opened, sessions, keyOf, usage, passed>>

-----------------------------------------------------------------------------
(* Signing up: the user, then the starter accounts, then the session.      *)

\* createUser, one transaction; UNIQUE (email).
CreateUser(r) ==
  LET u == UserOf(r) IN
  /\ At(r, {"register"}, "start")
  /\ IF member[u] # "none"
       THEN Refuse(r, "taken") /\ UNCHANGED member
       ELSE member' = [member EXCEPT ![u] = "active"] /\ Read(r, "starter")
  /\ UNCHANGED <<opened, sessions, holds, keyOf, usage, passed, announced>>

OpenStarters(r) ==
  /\ At(r, {"register"}, "starter")
  /\ opened' = [opened EXCEPT ![UserOf(r)] = @ + Starter]
  /\ Read(r, "session")
  /\ UNCHANGED <<member, sessions, holds, keyOf, usage, passed, announced>>

\* Mutant: everyone gets starter accounts at every start.
EnsureStartersAlways ==
  /\ opened' = [u \in User |->
                  IF member[u] # "none" THEN opened[u] + Starter ELSE 0]
  /\ UNCHANGED <<member, sessions, holds, keyOf, usage, passed, announced>>

\* The next start gives those without any account what a sign-up that broke
\* off has not (ensureStarterAccounts).
EnsureStarters ==
  /\ opened' = [u \in User |->
                  IF member[u] # "none" /\ opened[u] = 0 THEN Starter
                                                         ELSE opened[u]]
  /\ UNCHANGED <<member, sessions, holds, keyOf, usage, passed, announced>>

\* openAccount counts, then inserts.
CountAccounts(r) ==
  /\ At(r, {"open"}, "start")
  /\ IF opened[UserOf(r)] >= MaxAccounts THEN Refuse(r, "too many")
                                         ELSE Read(r, "insert")
  /\ UNCHANGED accessVars

InsertAccount(r) ==
  /\ At(r, {"open"}, "insert")
  /\ opened' = [opened EXCEPT ![UserOf(r)] = @ + 1]
  /\ Commit(r, NoMoney, {})
  /\ UNCHANGED <<member, sessions, holds, keyOf, usage, passed, announced>>

-----------------------------------------------------------------------------
(* Sessions.                                                               *)

\* findSessionUser: the session is live and the customer not locked.
ReadSession(r) ==
  LET s == call[r].by IN
  /\ At(r, {"visit"}, "start")
  /\ IF s \in sessions /\ member[UserOf(s)] = "active" THEN Read(r, "act")
                                                      ELSE Refuse(r, "signed out")
  /\ UNCHANGED accessVars

\* What the request came for.
Act(r) ==
  /\ At(r, {"visit", "useKey"}, "act")
  /\ Commit(r, NoMoney, {})
  /\ UNCHANGED accessVars

\* One DELETE: this session, or all others of the customer.
EndSessions(r) ==
  LET s == call[r].by
      gone == IF Kind(r) = "logout" THEN {s}
              ELSE {t \in sessions \ {s} : UserOf(t) = call[r].user}
  IN
  /\ At(r, {"logout", "endOthers"}, "start")
  /\ sessions' = sessions \ gone
  /\ Commit(r, NoMoney, {})
  /\ UNCHANGED <<member, opened, holds, keyOf, usage, passed, announced>>

\* updateUserByAdmin: the status is written, the row kept until COMMIT.
WriteStatus(r) ==
  /\ At(r, {"setStatus"}, "start")
  /\ Take(UserOf(r), r)
  /\ Goto(r, "commit")
  /\ Unchanged(r)
  /\ UNCHANGED accessVars

\* Mutant: the sessions are left to end by themselves.
CommitStatusOnly(r) ==
  /\ At(r, {"setStatus"}, "commit")
  /\ member' = [member EXCEPT ![UserOf(r)] = call[r].to]
  /\ Commit(r, NoMoney, {})
  /\ UNCHANGED <<opened, sessions, holds, keyOf, usage, passed, announced>>

\* Locking ends every session there is, in the same transaction.
CommitStatus(r) ==
  LET u == UserOf(r) IN
  /\ At(r, {"setStatus"}, "commit")
  /\ member' = [member EXCEPT ![u] = call[r].to]
  /\ sessions' = IF call[r].to = "locked"
                   THEN {t \in sessions : UserOf(t) # u} ELSE sessions
  /\ Commit(r, NoMoney, {})
  /\ UNCHANGED <<opened, holds, keyOf, usage, passed, announced>>

-----------------------------------------------------------------------------
(* API keys.                                                               *)

KeysOf(u) ==
  {call[r].key : r \in {q \in Request : /\ Kind(q) = "newKey" /\ UserOf(q) = u
                                        /\ outcome[q] = "done"}}
ActiveKeys(u) == {k \in KeysOf(u) : keyOf[k] = "active"}

\* Mutant: an active key is looked for after the new one is written.
CountKeysLate(r) ==
  /\ At(r, {"newKey"}, "start")
  /\ IF Cardinality(ActiveKeys(UserOf(r))) > MaxKeys THEN Refuse(r, "too many")
                                                     ELSE Read(r, "insert")
  /\ UNCHANGED accessVars

CountKeys(r) ==
  /\ At(r, {"newKey"}, "start")
  /\ IF Cardinality(ActiveKeys(UserOf(r))) >= MaxKeys THEN Refuse(r, "too many")
                                                      ELSE Read(r, "insert")
  /\ UNCHANGED accessVars

InsertKey(r) ==
  /\ At(r, {"newKey"}, "insert")
  /\ keyOf' = [keyOf EXCEPT ![call[r].key] = "active"]
  /\ Commit(r, NoMoney, {})
  /\ UNCHANGED <<member, opened, sessions, holds, usage, passed, announced>>

RevokeKey(r) ==
  LET k == call[r].key IN
  /\ At(r, {"revoke"}, "start")
  /\ IF keyOf[k] = "active"
       THEN keyOf' = [keyOf EXCEPT ![k] = "revoked"] /\ Commit(r, NoMoney, {})
       ELSE Refuse(r, "not found") /\ UNCHANGED keyOf
  /\ UNCHANGED <<member, opened, sessions, holds, usage, passed, announced>>

\* Mutant: the token is looked up, its revocation is not.
ReadKeyBlind(r) ==
  /\ At(r, {"useKey"}, "start")
  /\ IF keyOf[call[r].key] # "none" THEN Read(r, "rate") ELSE Refuse(r, "invalid")
  /\ UNCHANGED accessVars

\* findActiveByToken: the key is active and its owner not locked.
ReadKey(r) ==
  LET k == call[r].key IN
  /\ At(r, {"useKey"}, "start")
  /\ IF keyOf[k] = "active" /\ \A u \in User : k \in KeysOf(u) => member[u] = "active"
       THEN Read(r, "rate") ELSE Refuse(r, "invalid")
  /\ UNCHANGED accessVars

\* Mutant: the count before this request is compared.
CountUseLate(r) ==
  LET k == call[r].key IN
  /\ At(r, {"useKey"}, "rate")
  /\ usage' = [usage EXCEPT ![k] = @ + 1]
  /\ IF usage[k] <= Rate
       THEN Read(r, "act") /\ passed' = [passed EXCEPT ![k] = @ + 1]
       ELSE Refuse(r, "limited") /\ UNCHANGED passed
  /\ UNCHANGED <<member, opened, sessions, holds, keyOf, announced>>

\* One upsert counts the request and says whether it is within the limit.
CountUse(r) ==
  LET k == call[r].key IN
  /\ At(r, {"useKey"}, "rate")
  /\ usage' = [usage EXCEPT ![k] = @ + 1]
  /\ IF usage[k] + 1 <= Rate
       THEN Read(r, "act") /\ passed' = [passed EXCEPT ![k] = @ + 1]
       ELSE Refuse(r, "limited") /\ UNCHANGED passed
  /\ UNCHANGED <<member, opened, sessions, holds, keyOf, announced>>

\* The next minute.
MinutePasses ==
  /\ \E k \in Key : usage[k] > 0
  /\ usage' = [k \in Key |-> 0]
  /\ passed' = [k \in Key |-> 0]
  /\ UNCHANGED <<member, opened, sessions, holds, keyOf, announced>>

AccessStep(r) ==
  \/ CheckHold(r) \/ Verify(r) \/ CountFailure(r) \/ StartHold(r)
  \/ ClearHold(r) \/ OpenSession(r)
  \/ CreateUser(r) \/ OpenStarters(r) \/ CountAccounts(r) \/ InsertAccount(r)
  \/ ReadSession(r) \/ Act(r) \/ EndSessions(r)
  \/ WriteStatus(r) \/ CommitStatus(r)
  \/ CountKeys(r) \/ InsertKey(r) \/ RevokeKey(r) \/ ReadKey(r) \/ CountUse(r)

TimePasses == HoldsRunOut \/ MinutePasses

-----------------------------------------------------------------------------
AccessTypeOK ==
  /\ member \in [User -> {"none", "active", "locked"}]
  /\ opened \in [User -> Nat]
  /\ sessions \subseteq Request
  /\ holds \in [User \X Client -> [failures : Nat, old : BOOLEAN, held : BOOLEAN]]
  /\ keyOf \in [Key -> {"none", "active", "revoked"}]
  /\ usage \in [Key -> Nat] /\ passed \in [Key -> Nat]
  /\ announced \subseteq User \X Client

Done(kinds) == {r \in Request : Kind(r) \in kinds /\ outcome[r] = "done"}

\* The accounts and the active keys a customer may have are counted before a
\* new one is written, and a sign-up opens its own: requests that come one after
\* the other keep to the cap.
Adds(u) ==
  {r \in Request : Kind(r) \in {"register", "open", "newKey"} /\ UserOf(r) = u}
CapsHoldInTurn ==
  \A u \in User :
    InTurn(Begun(Adds(u))) =>
      opened[u] <= MaxAccounts /\ Cardinality(ActiveKeys(u)) <= MaxKeys

\* And there is room for what a request has counted; nobody opens an account for
\* a customer before they have signed up, and they have none when they have.
CapInv ==
  /\ CapsHoldInTurn
  /\ \A r \in Request :
       /\ At(r, {"open"}, "insert") /\ InTurn(Begun(Adds(UserOf(r))))
            => opened[UserOf(r)] < MaxAccounts
       /\ At(r, {"newKey"}, "insert") /\ InTurn(Begun(Adds(UserOf(r))))
            => Cardinality(ActiveKeys(UserOf(r))) < MaxKeys
       /\ Kind(r) = "open" /\ pc[r] # "idle" => member[UserOf(r)] # "none"
       /\ At(r, {"register"}, "starter") =>
            \A o \in before[r] : ~(Kind(o) = "open" /\ UserOf(o) = UserOf(r))

\* A hold somebody was told of stands until it runs out, as long as the log-ins
\* of that email from that address come one after the other.  (A wrong password
\* that passed the check before the hold began clears it.)
LogIns(p) == {r \in Request : Kind(r) = "login" /\ Pair(r) = p}
HoldStandsInTurn ==
  \A p \in announced : InTurn(Begun(LogIns(p))) => holds[p].held

\* And nobody is past the check of a hold that was told before they came.
HoldInv ==
  /\ HoldStandsInTurn
  /\ \A r \in Request :
       Kind(r) = "login" /\ pc[r] \in {"verify", "count", "hold", "clear"}
         /\ Pair(r) \in announced => ~InTurn(Begun(LogIns(Pair(r))))

\* However many requests come at once, a key gets at most Rate through in a
\* minute.
RateHolds == \A k \in Key : passed[k] <= Rate

\* Whoever was let through was counted.
RateInv == RateHolds /\ \A k \in Key : passed[k] <= usage[k]

\* s locked the customer u before r began, and nobody unlocked them since.
LockedBefore(u, r) ==
  \E s \in before[r] \cap Done({"setStatus"}) :
    /\ UserOf(s) = u /\ call[s].to = "locked"
    /\ \A t \in Request : Kind(t) = "setStatus" /\ UserOf(t) = u /\ call[t].to = "active"
                            => t \in before[s] \/ r \in before[t] \/ pc[t] = "idle"

\* A request that begins after its customer was locked, after its session was
\* ended, or after its key was revoked, does nothing, whatever else is under way.
StoppedMeansStopped ==
  /\ \A r \in Done({"visit"}) :
       /\ ~LockedBefore(UserOf(call[r].by), r)
       /\ ~\E s \in before[r] \cap Done({"logout"}) : call[s].by = call[r].by
  /\ \A r \in Done({"useKey"}) :
       /\ \A u \in User : call[r].key \in KeysOf(u) => ~LockedBefore(u, r)
       /\ ~\E s \in before[r] \cap Done({"revoke"}) : call[s].key = call[r].key

\* How far each of them has come: a status stands until the next one, a session
\* or a key is used by whoever was given it, and is gone once it was ended, and
\* whoever has been let in was not stopped before.
StopInv ==
  /\ \A s \in Done({"setStatus"}) :
       call[s].to = "locked" =>
         \/ member[UserOf(s)] = "locked"
         \/ \E t \in Done({"setStatus"}) :
              UserOf(t) = UserOf(s) /\ call[t].to = "active" /\ t \notin before[s]
  /\ \A r \in Request :
       /\ Kind(r) \in {"visit", "logout", "endOthers"} /\ pc[r] # "idle" =>
            outcome[call[r].by] = "done"
       /\ Kind(r) \in {"useKey", "revoke"} /\ pc[r] # "idle" => keyOf[call[r].key] # "none"
       /\ At(r, {"visit"}, "act") =>
            /\ ~LockedBefore(UserOf(call[r].by), r)
            /\ ~\E s \in before[r] \cap Done({"logout"}) : call[s].by = call[r].by
       /\ Kind(r) = "useKey" /\ pc[r] \in {"rate", "act"} =>
            /\ \A u \in User : call[r].key \in KeysOf(u) => ~LockedBefore(u, r)
            /\ ~\E s \in before[r] \cap Done({"revoke"}) : call[s].key = call[r].key
  /\ \A s \in Done({"logout"}) : call[s].by \notin sessions
  /\ \A k \in Key : keyOf[k] # "none" => \E s \in Done({"newKey"}) : call[s].key = k
  /\ \A s \in Done({"revoke"}) : keyOf[call[s].key] = "revoked"
  /\ StoppedMeansStopped

\* "Locking a user also ends all of their sessions": a locked customer has no
\* session that could come back to life with an unlock, unless the log-in that
\* opened it was under way while they were locked.
MetALock(t) ==
  \E s \in Request : /\ Kind(s) = "setStatus" /\ call[s].to = "locked"
                     /\ UserOf(s) = UserOf(t) /\ pc[s] # "idle" /\ Met(s, t)
LockEndsSessions ==
  \A t \in sessions : member[UserOf(t)] = "locked" => MetALock(t)

\* The same of a log-in or a sign-up on its way to its session.
Entering(t) ==
  \/ Kind(t) = "login" /\ pc[t] \in {"clear", "session"}
  \/ Kind(t) = "register" /\ pc[t] \in {"starter", "session"}
SessionInv ==
  /\ sessions \subseteq Done({"login", "register"})
  /\ \A t \in Request :
       (t \in sessions \/ Entering(t)) /\ member[UserOf(t)] = "locked" => MetALock(t)

\* How many accounts u has opened themselves.
More(u) == Cardinality({r \in Done({"open"}) : UserOf(r) = u})

\* "Every new customer starts funded": a sign-up that ends well has opened the
\* starter accounts, and neither a sign-up that broke off nor any number of
\* starts gives them twice.
StartersOnce ==
  \A u \in User :
    /\ opened[u] \in {More(u), Starter + More(u)}
    /\ (\E r \in Done({"register"}) : UserOf(r) = u) => opened[u] >= Starter

\* Who signs up has no starter accounts before they are opened, and nobody else
\* signs up as that customer; whoever is past that has them.
StarterInv ==
  /\ StartersOnce
  /\ \A u \in User : member[u] = "none" => opened[u] = More(u)
  /\ \A r \in Request :
       /\ At(r, {"register"}, "starter") =>
            member[UserOf(r)] # "none" /\ opened[UserOf(r)] = More(UserOf(r))
       /\ At(r, {"register"}, "session") => opened[UserOf(r)] >= Starter
       /\ \A s \in Request \ {r} :
            ~(/\ At(r, {"register"}, "starter")
              /\ At(s, {"register"}, "starter")
              /\ UserOf(r) = UserOf(s))
=============================================================================
