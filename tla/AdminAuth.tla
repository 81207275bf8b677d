------------------------------ MODULE AdminAuth ------------------------------
(***************************************************************************)
(* How an administrator gets in: handleSetup, handleLogin, withAuth, the   *)
(* TOTP handlers and handleLogout, over LoginLimiter, the users and the    *)
(* sessions.  Every HTTP request is a process of its own; each call of the *)
(* limiter and each database statement or transaction is one step.         *)
(*                                                                         *)
(* All requests come from one address.  A session token and a TOTP secret  *)
(* are random: each is named by the request that made it.  withNode goes   *)
(* through a second LoginLimiter in the way handleLogin does.              *)
(***************************************************************************)
EXTENDS Integers, Sequences, FiniteSets, FiniteSetsExt, Functions

CONSTANTS
  Request,      \* HTTP requests, each made once
  User,         \* user names that requests give
  Threshold,    \* failures that block a key (5)
  BlockUnit,    \* the first block, and how much each failure adds (1 minute)
  TTL,          \* loginAttemptTTL (15 minutes)
  MaxEntries,   \* maxLoginEntries
  MaxSessions,  \* maxSessionEntries
  Lifetime,     \* cfg.SessionLifetime
  MaxNow        \* bound on time

ASSUME BoundsAssumption ==
  /\ {Threshold, BlockUnit, MaxEntries, MaxSessions, Lifetime} \subseteq Nat \ {0}
  /\ {TTL, MaxNow} \subseteq Nat

VARIABLES
  req,       \* the requests
  attempts,  \* LoginLimiter.attempts
  users,     \* the users table: who exists, with their TOTP columns
  sessions,  \* the sessions table
  now,
  until,     \* the end of the last block put on a key and not lifted since
  proved     \* the secrets for which a right code was shown

vars == <<req, attempts, users, sessions, now, until, proved>>

NoSecret == "none"

\* Limiter keys: of setup, of the address, of the address with a user name.
Key == {"setup", "ip"} \cup User

\* A request that has been answered, or was cut off.
Done == [pc |-> "done", kind |-> "none", name |-> "none", code |-> NoSecret,
         good |-> FALSE, todo |-> <<>>]

Account == {"prepare", "enable", "disable", "logout"}

\* The latest end of a block: every request failed on the key at MaxNow.
MaxUntil == MaxNow + Cardinality(Request) * BlockUnit

TypeOK ==
  /\ \A r \in Request :
       /\ req[r].pc \in {"new", "allow", "count", "create", "look", "code", "fail",
                         "save", "success", "act", "write", "done"}
       /\ req[r].kind \in {"none", "setup", "login"} \cup Account
       /\ req[r].name \in User \cup Request \cup {"none"}
       /\ req[r].code \in Request \cup {NoSecret}
       /\ req[r].todo \in Seq(Key)
  /\ DOMAIN attempts \subseteq Key /\ Cardinality(DOMAIN attempts) <= MaxEntries
  /\ \A k \in DOMAIN attempts :
       attempts[k] \in [count : 1 .. Cardinality(Request), to : 0 .. MaxUntil,
                        updated : 0 .. now]
  /\ DOMAIN users \subseteq User
  /\ \A u \in DOMAIN users :
       users[u] \in [secret : Request \cup {NoSecret}, enabled : BOOLEAN]
  /\ DOMAIN sessions \subseteq Request /\ Cardinality(DOMAIN sessions) <= MaxSessions
  /\ \A t \in DOMAIN sessions : sessions[t] \in [user : User, expires : Nat]
  /\ now \in 0 .. MaxNow
  /\ until \in [Key -> 0 .. MaxUntil]
  /\ proved \subseteq Request

Init ==
  /\ req = [r \in Request |-> [Done EXCEPT !.pc = "new"]]
  /\ attempts = <<>>
  /\ users = <<>>
  /\ sessions = <<>>
  /\ now = 0
  /\ until = [k \in Key |-> 0]
  /\ proved = {}

At(r, pc) == req[r].pc = pc
Goto(r, pc) == req' = [req EXCEPT ![r].pc = pc]
Finish(r) == req' = [req EXCEPT ![r] = Done]

-----------------------------------------------------------------------------
(* LoginLimiter *)

\* BlockedTo is zero, which is never later than now, when nothing blocks.
Blocked(table, k) == k \in DOMAIN table /\ now < table[k].to

\* A mutant: an entry goes when it is old.
PrunedByAge ==
  Restrict(attempts, {k \in DOMAIN attempts : now - attempts[k].updated <= TTL})

\* pruneLocked: an entry goes when it is old and no longer blocks.
Pruned ==
  Restrict(attempts, {k \in DOMAIN attempts :
    now - attempts[k].updated <= TTL \/ now < attempts[k].to})

\* evictOldestLocked, when a new key finds the table full: the tables it may
\* leave, since entries of equal age come in any order.
Evicted(table, k) ==
  IF k \in DOMAIN table \/ Cardinality(DOMAIN table) < MaxEntries THEN {table}
  ELSE {Restrict(table, DOMAIN table \ {j}) :
          j \in {j \in DOMAIN table :
                   \A i \in DOMAIN table : table[j].updated <= table[i].updated}}

\* What Fail makes of the entry of k: a stale one starts again.
Failed(table, k) ==
  LET fresh == k \in DOMAIN table /\ now - table[k].updated <= TTL
      count == IF fresh THEN table[k].count + 1 ELSE 1
  IN  [count |-> count,
       to |-> IF count >= Threshold THEN now + (count - Threshold + 1) * BlockUnit
              ELSE IF fresh THEN table[k].to ELSE 0,
       updated |-> now]

\* LoginLimiter.Fail.  A block counts as lifted when its entry is evicted.
Fail(k) ==
  \E table \in Evicted(Pruned, k) :
    LET item == Failed(table, k)
    IN  /\ attempts' = [j \in DOMAIN table \cup {k} |-> IF j = k THEN item ELSE table[j]]
        /\ until' = [j \in Key |->
             IF j = k THEN Max({item.to, until[j]})
             ELSE IF j \in DOMAIN Pruned \ DOMAIN table THEN 0 ELSE until[j]]

\* LoginLimiter.Success.
Succeed(k) ==
  /\ attempts' = Restrict(attempts, DOMAIN attempts \ {k})
  /\ until' = [until EXCEPT ![k] = 0]

-----------------------------------------------------------------------------
(* Requests that have no session yet *)

\* loginLimitKeys; setup has one key of its own.
LimitKeys(r) ==
  IF req[r].kind = "setup" THEN <<"setup">> ELSE <<"ip", req[r].name>>

\* The head of handleSetup: UserCount, before anything is counted.
StartSetup(r, u) ==
  /\ At(r, "new")
  /\ req' = [req EXCEPT ![r] =
       IF users # <<>> THEN Done
       ELSE [Done EXCEPT !.pc = "allow", !.kind = "setup", !.name = u,
                         !.todo = <<"setup">>]]
  /\ UNCHANGED <<attempts, users, sessions, now, until, proved>>

\* handleLogin has read its body: name, whether the password is right, code.
StartLogin(r, u, good, code) ==
  /\ At(r, "new")
  /\ req' = [req EXCEPT ![r] =
       [pc |-> "allow", kind |-> "login", name |-> u, good |-> good, code |-> code,
        todo |-> <<"ip", u>>]]
  /\ UNCHANGED <<attempts, users, sessions, now, until, proved>>

\* One turn of allowLimiterKeys: LoginLimiter.Allow of one key.
Allow(r) ==
  /\ At(r, "allow")
  /\ attempts' = Pruned
  /\ LET rest == Tail(req[r].todo)
     IN  IF Blocked(Pruned, Head(req[r].todo)) THEN Finish(r)
         ELSE IF rest # <<>> THEN req' = [req EXCEPT ![r].todo = rest]
         ELSE req' = [req EXCEPT ![r].todo = <<>>,
                ![r].pc = IF req[r].kind = "setup" THEN "count" ELSE "look"]
  /\ UNCHANGED <<users, sessions, now, until, proved>>

\* handleSetup counts the request before it does any work.
CountSetup(r) ==
  /\ At(r, "count")
  /\ Fail("setup")
  /\ Goto(r, "create")
  /\ UNCHANGED <<users, sessions, now, proved>>

NewUser == [secret |-> NoSecret, enabled |-> FALSE]

\* A mutant: CreateUser, which relies on the count taken at the start.
CreateUser(r) ==
  /\ At(r, "create")
  /\ \/ /\ req[r].name \notin DOMAIN users
        /\ users' = [u \in DOMAIN users \cup {req[r].name} |->
                       IF u \in DOMAIN users THEN users[u] ELSE NewUser]
        /\ req' = [req EXCEPT ![r].pc = "success", ![r].todo = LimitKeys(r)]
     \/ /\ Finish(r)
        /\ UNCHANGED users
  /\ UNCHANGED <<attempts, sessions, now, until, proved>>

\* CreateInitialUser, in one transaction: a user only where there is none.
\* A bad body, a bad name, a bad password or a database error ends the request.
CreateInitialUser(r) ==
  /\ At(r, "create")
  /\ \/ /\ users = <<>>
        /\ users' = [u \in {req[r].name} |-> NewUser]
        /\ req' = [req EXCEPT ![r].pc = "success", ![r].todo = LimitKeys(r)]
     \/ /\ Finish(r)
        /\ UNCHANGED users
  /\ UNCHANGED <<attempts, sessions, now, until, proved>>

\* FindUserByUsername and VerifyPassword; an unknown user fails as well.
Look(r) ==
  /\ At(r, "look")
  /\ LET u == req[r].name
     IN  IF ~req[r].good \/ u \notin DOMAIN users
           THEN req' = [req EXCEPT ![r].pc = "fail", ![r].todo = LimitKeys(r)]
         ELSE Goto(r, IF users[u].enabled THEN "code" ELSE "save")
  /\ UNCHANGED <<attempts, users, sessions, now, until, proved>>

\* VerifyTOTP against the secret stored by now; an error fails as well.
CheckCode(r) ==
  /\ At(r, "code")
  /\ \/ /\ req[r].code = users[req[r].name].secret
        /\ req[r].code # NoSecret
        /\ Goto(r, "save")
     \/ req' = [req EXCEPT ![r].pc = "fail", ![r].todo = LimitKeys(r)]
  /\ UNCHANGED <<attempts, users, sessions, now, until, proved>>

\* One turn of failLogin.
FailLogin(r) ==
  /\ At(r, "fail")
  /\ Fail(Head(req[r].todo))
  /\ IF Len(req[r].todo) = 1 THEN Finish(r)
     ELSE req' = [req EXCEPT ![r].todo = Tail(@)]
  /\ UNCHANGED <<users, sessions, now, proved>>

\* One turn of successLogin, the last thing a login does; a setup calls
\* Success before it saves its session.
Success(r) ==
  /\ At(r, "success")
  /\ Succeed(Head(req[r].todo))
  /\ IF Len(req[r].todo) > 1 THEN req' = [req EXCEPT ![r].todo = Tail(@)]
     ELSE IF req[r].kind = "setup" THEN Goto(r, "save")
     ELSE Finish(r)
  /\ UNCHANGED <<users, sessions, now, proved>>

-----------------------------------------------------------------------------
(* Sessions *)

\* The transaction of SaveSession: expired rows go, the new one comes, and the
\* rows over the limit go, those that expire first.
Saved(table, r) ==
  LET live == {t \in DOMAIN table : table[t].expires > now}
      all == [t \in live \cup {r} |->
                IF t = r THEN [user |-> req[r].name, expires |-> now + Lifetime]
                ELSE table[t]]
      over == Max({Cardinality(DOMAIN all) - MaxSessions, 0})
  IN  {Restrict(all, DOMAIN all \ gone) :
         gone \in {g \in kSubset(over, DOMAIN all) :
                     \A t \in g, s \in DOMAIN all \ g : all[t].expires <= all[s].expires}}

\* NewSession and SaveSession; an error ends the request.
SaveSession(r) ==
  /\ At(r, "save")
  /\ \/ /\ sessions' \in Saved(sessions, r)
        /\ IF req[r].kind = "setup" THEN Finish(r)
           ELSE req' = [req EXCEPT ![r].pc = "success", ![r].todo = LimitKeys(r)]
     \/ Finish(r) /\ UNCHANGED sessions
  /\ UNCHANGED <<attempts, users, now, until, proved>>

\* withAuth and Store.Session for the cookie t: an expired row is deleted.
\* The handler goes on as the user of the session, whatever becomes of it.
WithAuth(r, t, kind, code) ==
  /\ At(r, "new")
  /\ LET live == t \in DOMAIN sessions /\ now < sessions[t].expires
     IN  /\ req' = [req EXCEPT ![r] =
              IF ~live THEN Done
              ELSE [Done EXCEPT !.pc = "act", !.kind = kind, !.code = code,
                      !.name = IF kind = "logout" THEN t ELSE sessions[t].user]]
         /\ sessions' = IF live THEN sessions ELSE Restrict(sessions, DOMAIN sessions \ {t})
  /\ UNCHANGED <<attempts, users, now, until, proved>>

Acts(r, kind) == At(r, "act") /\ req[r].kind = kind

\* handleLogout deletes the session it came with.
Logout(r) ==
  /\ Acts(r, "logout")
  /\ sessions' = Restrict(sessions, DOMAIN sessions \ {req[r].name})
  /\ Finish(r)
  /\ UNCHANGED <<attempts, users, now, until, proved>>

-----------------------------------------------------------------------------
(* TOTP *)

\* SetTOTPSecret writes both columns.
SetTOTPSecret(u, secret, enabled) ==
  users' = [users EXCEPT ![u] = [secret |-> secret, enabled |-> enabled]]

\* handleTOTPSetup: a new secret, which is not in use yet.
TOTPSetup(r) ==
  /\ Acts(r, "prepare")
  /\ SetTOTPSecret(req[r].name, r, FALSE)
  /\ Finish(r)
  /\ UNCHANGED <<attempts, sessions, now, until, proved>>

\* handleTOTPEnable, first half: the stored secret, checked against the code.
TOTPVerify(r) ==
  /\ Acts(r, "enable")
  /\ IF users[req[r].name].secret # NoSecret /\ users[req[r].name].secret = req[r].code
       THEN Goto(r, "write") /\ proved' = proved \cup {req[r].code}
       ELSE Finish(r) /\ UNCHANGED proved
  /\ UNCHANGED <<attempts, users, sessions, now, until>>

\* A mutant: only the flag is written.
TOTPEnableFlag(r) ==
  /\ At(r, "write")
  /\ SetTOTPSecret(req[r].name, users[req[r].name].secret, TRUE)
  /\ Finish(r)
  /\ UNCHANGED <<attempts, sessions, now, until, proved>>

\* handleTOTPEnable, second half: the secret that was read is written back.
TOTPEnable(r) ==
  /\ At(r, "write")
  /\ SetTOTPSecret(req[r].name, req[r].code, TRUE)
  /\ Finish(r)
  /\ UNCHANGED <<attempts, sessions, now, until, proved>>

\* handleTOTPDisable.
TOTPDisable(r) ==
  /\ Acts(r, "disable")
  /\ SetTOTPSecret(req[r].name, NoSecret, FALSE)
  /\ Finish(r)
  /\ UNCHANGED <<attempts, sessions, now, until, proved>>

-----------------------------------------------------------------------------
(* The world *)

InFlight(r) == req[r].pc \notin {"new", "done"}

\* Time passes in the units of blocks and TTL, minutes; a request, which waits
\* for database statements and a password hash, takes none of it.
Tick ==
  /\ now < MaxNow
  /\ \A r \in Request : ~InFlight(r)
  /\ now' = now + 1
  /\ UNCHANGED <<req, attempts, users, sessions, until, proved>>

\* The controller stops and starts: requests are cut off where they are and
\* the limiter, which is only in memory, is empty.
Restart ==
  /\ req' = [r \in Request |-> IF InFlight(r) THEN Done ELSE req[r]]
  /\ attempts' = <<>>
  /\ until' = [k \in Key |-> 0]
  /\ UNCHANGED <<users, sessions, now, proved>>

\* The secrets a client may know and send a code of; NoSecret is a wrong code.
Codes == {NoSecret} \cup proved \cup {users[u].secret : u \in DOMAIN users}

\* A cookie that is in no row is refused, and the request leaves no trace.
Start(r) ==
  \/ \E u \in User : StartSetup(r, u)
  \/ \E u \in User : StartLogin(r, u, FALSE, NoSecret)
  \/ \E u \in User, code \in Codes : StartLogin(r, u, TRUE, code)
  \/ \E t \in DOMAIN sessions, kind \in Account \ {"enable"} :
       WithAuth(r, t, kind, NoSecret)
  \/ \E t \in DOMAIN sessions, code \in Codes : WithAuth(r, t, "enable", code)

Serve(r) ==
  \/ Start(r) \/ Allow(r) \/ CountSetup(r) \/ CreateInitialUser(r) \/ Look(r)
  \/ CheckCode(r) \/ FailLogin(r) \/ Success(r) \/ SaveSession(r)
  \/ Logout(r) \/ TOTPSetup(r) \/ TOTPVerify(r) \/ TOTPEnable(r) \/ TOTPDisable(r)

Next == (\E r \in Request : Serve(r)) \/ Tick \/ Restart

Spec == Init /\ [][Next]_vars

-----------------------------------------------------------------------------
(* Properties *)

\* However many setup requests run at once, one of them creates the user: each
\* has seen an empty table, and CreateInitialUser looks again in its
\* transaction ("two concurrent setup requests cannot both become admins").
OneAdministrator == Cardinality(DOMAIN users) <= 1

\* The second factor that is in force is one its owner could produce a code
\* for, whatever setup and disable requests came between the check of the code
\* in handleTOTPEnable and its write; nobody is locked out by a secret that
\* was never scanned.
EnabledIsProved ==
  \A u \in DOMAIN users : users[u].enabled => users[u].secret \in proved

\* Once failures have blocked a key, no request that asks Allow before the
\* block ends gets on to check a password, in particular when the block is
\* longer than the life of an entry; only Success, an eviction from the full
\* table and a restart lift a block.  Requests that asked before the block
\* still finish, which is all that parallel logins can gain.
BlockHolds ==
  [][\A r \in Request :
       At(r, "allow") /\ req'[r].pc # "done" /\ req'[r].todo # req[r].todo
         => now >= until[Head(req[r].todo)]]_vars
=============================================================================
