------------------------------ MODULE RunnerAuth ------------------------------
(***************************************************************************)
(* Accounts, sign-in and account administration of the test runner:        *)
(* src/test-runner/src/auth.js, store.js and the handlers of server.js.    *)
(*                                                                         *)
(* The process has one thread.  A handler runs without interruption to its *)
(* next await: the body of the request, or a password derivation, which    *)
(* takes a slot of the gate (module Gate).  When a derivation ends, what   *)
(* follows it in the handler runs in the same turn as the release of the   *)
(* slot.  Accounts are in a file that is replaced in one rename; sessions  *)
(* and failed attempts are in memory.                                      *)
(*                                                                         *)
(* A name stands for all its spellings.  Accounts declared in TR_USERS are *)
(* left out: no request changes them.                                      *)
(***************************************************************************)
EXTENDS Gate

CONSTANTS
  User, Address, Password,
  Call,          \* what a request may ask for
  Opening,       \* the roles accounts may have at the start, "none" for no account
  FirstPassword, \* the password of every account at the start
  MaxFailures,   \* MAX_FAILURES_PER_ADDRESS
  MaxBrake       \* MAX_FAILURES_PER_USERNAME

ASSUME AuthAssumption ==
  /\ Call \subseteq [kind : {"login", "signup", "reset", "promote", "demote", "delete"},
                     user : User, password : Password, from : Address, by : User]
  /\ FirstPassword \in Password /\ "none" \notin Password
  /\ MaxFailures \in Nat \ {0}
  /\ MaxBrake \in Nat \ {0}
  /\ \A role \in Opening :
       /\ role \in [User -> {"admin", "user", "none"}]
       /\ (\E u \in User : role[u] # "none") => \E u \in User : role[u] = "admin"

VARIABLES
  account,  \* the accounts file: password hash and role by name
  session,  \* the sessions in memory
  wrong,    \* addressFailures: by name and address
  brake,    \* usernameFailures: by name
  request

vars == <<gateVars, account, session, wrong, brake, request>>
memory == <<session, wrong, brake>>

Salt == Caller \cup User
NoHash == [password |-> "none", salt |-> "none"]
NoAccount == [hash |-> NoHash, role |-> "none"]
\* No two hashes are equal: the salt is random.
Hash == [password : Password, salt : Salt]
Exists(u) == account[u].role # "none"
NoCall == [kind |-> "none"]
NewRequest == [pc |-> "new", call |-> NoCall, hash |-> NoHash, against |-> NoHash,
               outcome |-> "none"]

\* A live session for every account there is at the start.
Init ==
  /\ GateInit
  /\ \E role \in Opening :
       /\ account = [u \in User |->
            IF role[u] = "none" THEN NoAccount
            ELSE [hash |-> [password |-> FirstPassword, salt |-> u], role |-> role[u]]]
       /\ session = {[id |-> u, user |-> u, hash |-> account[u].hash, late |-> FALSE] :
                       u \in {v \in User : role[v] # "none"}}
  /\ wrong = [u \in User |-> [a \in Address |-> 0]]
  /\ brake = [u \in User |-> 0]
  /\ request = [r \in Caller |-> NewRequest]

-----------------------------------------------------------------------------
(* Failed attempts.  A record at its threshold is blocked; the code sets    *)
(* its count to zero then, and the block ends when the count would be       *)
(* forgotten, fifteen minutes after the last failure that counted.          *)

\* Mutant: a refused attempt counts like any other.
NotedAlways(n, threshold) == n + 1

Noted(n, threshold) == IF n = threshold THEN n ELSE n + 1

\* Fifteen minutes pass without a failure that counts, or the key is evicted.
ForgetAddress(u, a) ==
  /\ wrong[u][a] > 0
  /\ wrong' = [wrong EXCEPT ![u][a] = 0]
  /\ UNCHANGED <<gateVars, account, session, brake, request>>

ForgetName(u) ==
  /\ brake[u] > 0
  /\ brake' = [brake EXCEPT ![u] = 0]
  /\ UNCHANGED <<gateVars, account, session, wrong, request>>

\* The records a name would have without its failures, from every address.
ClearFailures(u) ==
  /\ wrong' = [wrong EXCEPT ![u] = [a \in Address |-> 0]]
  /\ brake' = [brake EXCEPT ![u] = 0]

-----------------------------------------------------------------------------
(* How a request goes on. *)

At(r, pc, kinds) == request[r].pc = pc /\ request[r].call.kind \in kinds

\* Mutant: the old sessions stay.
KeptSessions(u) == session

DropSessions(u) == {s \in session : s.user # u}

IssueSession(r, u, hash) ==
  [id |-> r, user |-> u, hash |-> hash, late |-> account'[u].hash # hash]

Ends(r, outcome) ==
  request' = [request EXCEPT ![r] = [@ EXCEPT !.pc = "done", !.outcome = outcome]]

\* A handler that is answered in its first turn.
EndsAtOnce(r, c, outcome) ==
  request' = [request EXCEPT ![r] =
    [@ EXCEPT !.pc = "done", !.call = c, !.outcome = outcome, !.hash = account[c.user].hash]]

\* The password is derived: now, after a wait, or not at all.
Derives(r, c) ==
  \/ /\ Enter(r) \/ Wait(r)
     /\ request' = [request EXCEPT ![r] =
          [@ EXCEPT !.pc = "deriving", !.call = c, !.hash = account[c.user].hash]]
  \/ /\ Busy
     /\ EndsAtOnce(r, c, "busy")
     /\ UNCHANGED gateVars

GoesOn(r) ==
  /\ Resume(r)
  /\ UNCHANGED <<account, memory, request>>

\* A limiter, the sign-up mode, the invite code or the shape of a field refuses.
Refused(r) ==
  /\ UNCHANGED <<gateVars, account, memory>>
  /\ \/ /\ request[r].pc = "new"
        /\ \E c \in Call : c.kind \in {"login", "signup"} /\ EndsAtOnce(r, c, "refused")
     \/ At(r, "body", {"reset", "promote", "demote"}) /\ Ends(r, "refused")

-----------------------------------------------------------------------------
(* Signing in and signing up. *)

\* Mutant: the brake on the name is asked before the password is checked.
LoginBraked(r, c) ==
  /\ request[r].pc = "new"
  /\ c.kind = "login"
  /\ IF wrong[c.user][c.from] = MaxFailures \/ brake[c.user] = MaxBrake
       THEN EndsAtOnce(r, c, "locked") /\ UNCHANGED gateVars
       ELSE Derives(r, c)
  /\ UNCHANGED <<account, memory>>

Login(r, c) ==
  /\ request[r].pc = "new"
  /\ c.kind = "login"
  /\ IF wrong[c.user][c.from] = MaxFailures
       THEN EndsAtOnce(r, c, "locked") /\ UNCHANGED gateVars
       ELSE Derives(r, c)
  /\ UNCHANGED <<account, memory>>

\* A name without an account is checked against a hash that nothing matches.
PasswordOk(r) == request[r].hash.password = request[r].call.password

LoginSucceeds(r) ==
  /\ At(r, "deriving", {"login"})
  /\ Release(r)
  /\ PasswordOk(r)
  /\ LET u == request[r].call.user
         a == request[r].call.from
     IN  /\ wrong' = [wrong EXCEPT ![u][a] = 0]
         /\ brake' = [brake EXCEPT ![u] = 0]
         /\ UNCHANGED account
         /\ session' = session \cup {IssueSession(r, u, request[r].hash)}
  /\ Ends(r, "in")

LoginFails(r) ==
  /\ At(r, "deriving", {"login"})
  /\ Release(r)
  /\ ~ PasswordOk(r)
  /\ LET u == request[r].call.user
         a == request[r].call.from
     IN  /\ wrong' = [wrong EXCEPT ![u][a] = Noted(@, MaxFailures)]
         /\ brake' = [brake EXCEPT ![u] = Noted(@, MaxBrake)]
         /\ request' = [request EXCEPT ![r] =
              [@ EXCEPT !.pc = "done", !.against = account[u].hash,
                        !.outcome = IF MaxFailures = wrong'[u][a] THEN "locked"
                                    ELSE IF MaxBrake = brake'[u] THEN "braked" ELSE "wrong"]]
  /\ UNCHANGED <<account, session>>

Signup(r, c) ==
  /\ request[r].pc = "new"
  /\ c.kind = "signup"
  /\ IF Exists(c.user)
       THEN EndsAtOnce(r, c, "taken") /\ UNCHANGED gateVars
       ELSE Derives(r, c)
  /\ UNCHANGED <<account, memory>>

\* The name is asked again; the first account of all is an administrator's.
SignupEnds(r) ==
  /\ At(r, "deriving", {"signup"})
  /\ Release(r)
  /\ LET c == request[r].call
         hash == [password |-> c.password, salt |-> r]
     IN  IF Exists(c.user)
           THEN Ends(r, "taken") /\ UNCHANGED <<account, memory>>
           ELSE /\ account' = [account EXCEPT ![c.user] =
                     [hash |-> hash,
                      role |-> IF \E u \in User : Exists(u) THEN "user" ELSE "admin"]]
                /\ ClearFailures(c.user)
                /\ session' = session \cup {IssueSession(r, c.user, hash)}
                /\ Ends(r, "in")

\* A logout, or a session that expires.
SessionEnds(s) ==
  /\ session' = session \ {s}
  /\ UNCHANGED <<gateVars, account, wrong, brake, request>>

-----------------------------------------------------------------------------
(* Administration.  requireAdmin runs before the body is read. *)

AdminCall(c) == c.kind \in {"reset", "promote", "demote", "delete"}
SignedIn(u) == \E s \in session : s.user = u
MayAdminister(u) == SignedIn(u) /\ account[u].role = "admin"

\* currentUser ends the sessions of an account that is gone.
NotAllowed(r, c) ==
  /\ request[r].pc = "new"
  /\ AdminCall(c)
  /\ ~ MayAdminister(c.by)
  /\ session' = IF Exists(c.by) THEN session ELSE DropSessions(c.by)
  /\ EndsAtOnce(r, c, "not allowed")
  /\ UNCHANGED <<gateVars, account, wrong, brake>>

AwaitBody(r, c) ==
  /\ request[r].pc = "new"
  /\ AdminCall(c) /\ c.kind # "delete"
  /\ MayAdminister(c.by)
  /\ request' = [request EXCEPT ![r] = [@ EXCEPT !.pc = "body", !.call = c]]
  /\ UNCHANGED <<gateVars, account, memory>>

Reset(r) ==
  /\ At(r, "body", {"reset"})
  /\ Derives(r, request[r].call)
  /\ UNCHANGED <<account, memory>>

ResetEnds(r) ==
  /\ At(r, "deriving", {"reset"})
  /\ Release(r)
  /\ LET c == request[r].call
     IN  IF Exists(c.user)
           THEN /\ account' = [account EXCEPT ![c.user].hash =
                                 [password |-> c.password, salt |-> r]]
                /\ ClearFailures(c.user)
                /\ session' = DropSessions(c.user)
                /\ Ends(r, "ok")
           ELSE Ends(r, "missing") /\ UNCHANGED <<account, memory>>

Admins == {u \in User : account[u].role = "admin"}

\* Mutant: an administrator who is not oneself may always be removed.
MayRemoveOthers(c) == c.by # c.user

\* assertNotSelf and assertNotLastAdmin.
MayRemove(c) == c.by # c.user /\ Admins # {c.user}

SetRole(r) ==
  /\ At(r, "body", {"promote", "demote"})
  /\ LET c == request[r].call
     IN  IF c.kind = "demote" /\ ~ MayRemove(c)
           THEN Ends(r, "conflict") /\ UNCHANGED <<account, session>>
           ELSE IF ~ Exists(c.user)
           THEN Ends(r, "missing") /\ UNCHANGED <<account, session>>
           ELSE /\ account' = [account EXCEPT ![c.user].role =
                                 IF c.kind = "promote" THEN "admin" ELSE "user"]
                /\ session' = DropSessions(c.user)
                /\ Ends(r, "ok")
  /\ UNCHANGED <<gateVars, wrong, brake>>

Delete(r, c) ==
  /\ request[r].pc = "new"
  /\ c.kind = "delete"
  /\ MayAdminister(c.by)
  /\ IF ~ MayRemove(c)
       THEN EndsAtOnce(r, c, "conflict") /\ UNCHANGED <<account, memory>>
       ELSE IF ~ Exists(c.user)
       THEN EndsAtOnce(r, c, "missing") /\ UNCHANGED <<account, memory>>
       ELSE /\ account' = [account EXCEPT ![c.user] = NoAccount]
            /\ session' = DropSessions(c.user)
            /\ ClearFailures(c.user)
            /\ EndsAtOnce(r, c, "ok")
  /\ UNCHANGED gateVars

-----------------------------------------------------------------------------
(* What can fail. *)

\* The accounts file cannot be written: nothing that follows the write happens.
StoreFails(r) ==
  /\ \/ At(r, "deriving", {"signup", "reset"}) /\ Release(r) /\ Ends(r, "failed")
     \/ At(r, "body", {"promote", "demote"}) /\ Ends(r, "failed") /\ UNCHANGED gateVars
     \/ /\ request[r].pc = "new"
        /\ \E c \in Call : /\ c.kind = "delete" /\ MayAdminister(c.by)
                           /\ EndsAtOnce(r, c, "failed")
        /\ UNCHANGED gateVars
  /\ UNCHANGED <<account, memory>>

\* The process ends and another starts: only the accounts are kept.
ServerStops ==
  /\ GateRestart
  /\ session' = {}
  /\ wrong' = [u \in User |-> [a \in Address |-> 0]]
  /\ brake' = [u \in User |-> 0]
  /\ request' = [r \in Caller |->
       IF request[r].pc \in {"new", "done"} THEN request[r]
       ELSE [request[r] EXCEPT !.pc = "done", !.outcome = "lost"]]
  /\ UNCHANGED account

-----------------------------------------------------------------------------
Derived(r) ==
  \/ LoginSucceeds(r) \/ LoginFails(r) \/ SignupEnds(r) \/ ResetEnds(r)

Next ==
  \/ \E r \in Caller, c \in Call :
       \/ Login(r, c) \/ Signup(r, c)
       \/ NotAllowed(r, c) \/ AwaitBody(r, c) \/ Delete(r, c)
  \/ \E r \in Caller :
       \/ GoesOn(r) \/ Derived(r)
       \/ Reset(r) \/ SetRole(r)
       \/ Refused(r) \/ StoreFails(r)
  \/ \E u \in User : ForgetName(u) \/ \E a \in Address : ForgetAddress(u, a)
  \/ \E s \in session : SessionEnds(s)
  \/ ServerStops

Spec == Init /\ [][Next]_vars

\* Node goes on with what can go on, and every derivation ends.
FairSpec ==
  /\ Spec
  /\ \A r \in Caller : WF_vars(GoesOn(r)) /\ WF_vars(Derived(r))

-----------------------------------------------------------------------------
Accounts == {NoAccount} \cup [hash : Hash, role : {"admin", "user"}]
Sessions == [id : Salt, user : User, hash : Hash, late : BOOLEAN]
Outcomes == {"none", "in", "locked", "braked", "wrong", "busy", "refused", "taken",
             "not allowed", "ok", "missing", "conflict", "failed", "lost"}
Requests ==
  [pc : {"new", "body", "deriving", "done"}, call : Call \cup {NoCall},
   hash : Hash \cup {NoHash}, against : Hash \cup {NoHash}, outcome : Outcomes]

\* A request is in the gate, or its queue, exactly while a password is derived.
InGate == \A r \in Caller : request[r].pc = "deriving" <=> caller[r] # "out"

TypeOK ==
  /\ GateTypeOK
  /\ account \in [User -> Accounts]
  /\ session \subseteq Sessions
  /\ wrong \in [User -> [Address -> 0..MaxFailures]]
  /\ brake \in [User -> 0..MaxBrake]
  /\ request \in [Caller -> Requests]
  /\ \A r \in Caller : request[r].pc \in {"body", "deriving"} => request[r].call \in Call
  /\ InGate

\* Slots are counted, the queue is those who wait (createGate), with every
\* path of the handlers through the gate, refusals and failures included.
SlotsAreSafe == QueueIsWaiting /\ SlotsAreCounted

\* The handlers move the gate only as createGate does; its slots stay counted,
\* and nobody who comes passes those who wait.
GateIsKept ==
  [][/\ GateNext
     /\ SlotsAreSafe'
     /\ \A c \in Caller :
          caller[c] = "out" /\ caller'[c] = "inside" => waiting = << >>]_gateVars

\* A runner that has an account has an administrator, whoever demotes and
\* deletes whom at once on authority checked before the body was read.
AdminRemains == (\E u \in User : Exists(u)) => Admins # {}

\* "whatever that person is holding in their browser stops working now"
\* (auth.js, dropSessionsFor): a session belongs to the password the account
\* has, except for a sign-in that was being checked while the account changed.
SessionsAreCurrent ==
  \A s \in session : ~ s.late => account[s.user].hash = s.hash

Refusal(r) == request[r].outcome \in {"locked", "braked"}
Guess(r) == request[r].outcome \in {"locked", "braked", "wrong"} /\ request[r].against # NoHash

\* Wrong guesses at one password of u, made from a.
Guesses(u, a, hash) ==
  {q \in Caller : /\ Guess(q) /\ request[q].against = hash
                  /\ request[q].call.user = u /\ request[q].call.from = a}

\* "a correct password from an address that is not itself locked still works"
\* (auth.js, recordFailedAttempt): whoever is refused with the password that was
\* right when they asked has had MaxFailures wrong guesses at that very password
\* made from their own address.
OwnersGetIn ==
  \A r \in Caller :
    Refusal(r) /\ PasswordOk(r) =>
      LET c == request[r].call
      IN  Cardinality(Guesses(c.user, c.from, request[r].hash) \ {r}) >= MaxFailures

\* No request has an outcome before its answer.
AnswersComeLast ==
  \A r \in Caller : request[r].pc # "done" => request[r].outcome = "none"

\* What counts against a name at an address was a wrong guess at the password
\* the account has now.
GuessesAreCounted ==
  \A u \in User, a \in Address :
    Exists(u) => wrong[u][a] <= Cardinality(Guesses(u, a, account[u].hash))

\* The inductive invariant.
IInv ==
  /\ TypeOK
  /\ AdminRemains
  /\ SessionsAreCurrent
  /\ AnswersComeLast
  /\ GuessesAreCounted
  /\ OwnersGetIn

\* Whoever has been let into the gate, or its queue, is answered.
EveryAskIsAnswered ==
  \A r \in Caller : request[r].pc = "deriving" ~> request[r].pc = "done"
=============================================================================
