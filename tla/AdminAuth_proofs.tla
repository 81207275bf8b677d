--------------------------- MODULE AdminAuth_proofs ---------------------------
(***************************************************************************)
(* One administrator, no second factor nobody can produce, and blocks that *)
(* hold, for any number of requests, user names and limits.                *)
(***************************************************************************)
EXTENDS AdminAuth, FiniteSetTheorems, TLAPS

\* A request's record has its fields, whatever is in them.
Fields == {"pc", "kind", "name", "code", "good", "todo"}

Shaped == DOMAIN req = Request /\ \A r \in Request : DOMAIN req[r] = Fields

\* The users table is empty or has one row.
FewUsers == \A u, v \in DOMAIN users : u = v

\* handleTOTPEnable has checked the code before it writes.
WritesAreProved == \A r \in Request : At(r, "write") => req[r].code \in proved

\* The inductive invariant about the users.
UsersInv == Shaped /\ FewUsers /\ WritesAreProved /\ EnabledIsProved


-----------------------------------------------------------------------------
(* The users *)

\* A request is replaced by another record: the shape stays, and so does what
\* is known of those that write.
LEMMA RequestStep ==
  ASSUME Shaped, WritesAreProved, NEW r \in Request, NEW q, DOMAIN q = Fields,
         req' = [req EXCEPT ![r] = q], proved \subseteq proved',
         q.pc = "write" => q.code \in proved'
  PROVE  Shaped' /\ WritesAreProved'
BY DEF Shaped, WritesAreProved, At

\* What Goto, Finish and a step with new keys put in the place of a request.
LEMMA GotoIs ==
  ASSUME Shaped, NEW r \in Request, NEW pc, Goto(r, pc)
  PROVE  \E q : /\ req' = [req EXCEPT ![r] = q] /\ DOMAIN q = Fields
                /\ q.pc = pc
                /\ \A f \in Fields \ {"pc"} : q[f] = req[r][f]
<1> DEFINE q == [req[r] EXCEPT !.pc = pc]
<1>1. req' = [req EXCEPT ![r] = q]
  BY DEF Shaped, Goto
<1>2. DOMAIN q = Fields /\ q.pc = pc /\ \A f \in Fields \ {"pc"} : q[f] = req[r][f]
  BY DEF Shaped, Fields
<1> QED
  BY <1>1, <1>2

Turn(r, pc, todo) == req' = [req EXCEPT ![r].pc = pc, ![r].todo = todo]

LEMMA DoneShape ==
  /\ DOMAIN Done = Fields /\ Done.pc = "done" /\ Done.kind = "none" /\ Done.todo = <<>>
BY DEF Done, Fields

LEMMA TodoIs ==
  ASSUME Shaped, NEW r \in Request, NEW pc, NEW todo, Turn(r, pc, todo)
  PROVE  \E q : /\ req' = [req EXCEPT ![r] = q] /\ DOMAIN q = Fields
                /\ q.pc = pc /\ q.todo = todo
                /\ \A f \in Fields \ {"pc", "todo"} : q[f] = req[r][f]
<1> DEFINE q == [req[r] EXCEPT !.pc = pc, !.todo = todo]
<1>1. req' = [req EXCEPT ![r] = q]
  BY DEF Shaped, Turn
<1>2. DOMAIN q = Fields /\ q.pc = pc /\ q.todo = todo
  BY DEF Shaped, Fields
<1>3. \A f \in Fields \ {"pc", "todo"} : q[f] = req[r][f]
  BY DEF Shaped, Fields
<1> QED
  BY <1>1, <1>2, <1>3

\* A step that leaves the users alone.
LEMMA UsersStay ==
  ASSUME UsersInv, NEW r \in Request, NEW q, DOMAIN q = Fields,
         req' = [req EXCEPT ![r] = q], proved \subseteq proved',
         q.pc = "write" => q.code \in proved', users' = users
  PROVE  UsersInv'
<1>1. Shaped' /\ WritesAreProved'
  BY RequestStep DEF UsersInv
<1> QED
  BY <1>1 DEF UsersInv, FewUsers, EnabledIsProved

LEMMA FinishKeepsUsers ==
  ASSUME UsersInv, NEW r \in Request, Finish(r), proved' = proved, users' = users
  PROVE  UsersInv'
BY UsersStay, DoneShape DEF Finish

LEMMA GotoKeepsUsers ==
  ASSUME UsersInv, NEW r \in Request, NEW pc, Goto(r, pc), pc # "write",
         proved' = proved, users' = users
  PROVE  UsersInv'
<1>1. Shaped
  BY DEF UsersInv
<1>2. PICK q : /\ req' = [req EXCEPT ![r] = q] /\ DOMAIN q = Fields
               /\ q.pc = pc
               /\ \A f \in Fields \ {"pc"} : q[f] = req[r][f]
  BY <1>1, GotoIs
<1> QED
  BY <1>2, UsersStay

LEMMA TodoKeepsUsers ==
  ASSUME UsersInv, NEW r \in Request, NEW pc, NEW todo, pc # "write",
         Turn(r, pc, todo), proved' = proved, users' = users
  PROVE  UsersInv'
<1>1. PICK q : /\ req' = [req EXCEPT ![r] = q] /\ DOMAIN q = Fields
               /\ q.pc = pc /\ q.todo = todo
               /\ \A f \in Fields \ {"pc", "todo"} : q[f] = req[r][f]
  <2>1. Shaped
    BY DEF UsersInv
  <2> QED
    BY <2>1, TodoIs
<1> QED
  BY <1>1, UsersStay

\* A step that takes the next key.
LEMMA NextKeepsUsers ==
  ASSUME UsersInv, NEW r \in Request, NEW todo, req[r].pc # "write",
         req' = [req EXCEPT ![r].todo = todo], proved' = proved, users' = users
  PROVE  UsersInv'
<1> DEFINE q == [req[r] EXCEPT !.todo = todo]
<1>1. req' = [req EXCEPT ![r] = q] /\ DOMAIN q = Fields
  BY DEF UsersInv, Shaped
<1>2. q.pc = req[r].pc
  BY DEF UsersInv, Shaped, Fields
<1> HIDE DEF q
<1> QED
  BY <1>1, <1>2, UsersStay

\* SetTOTPSecret keeps the table's rows, and a factor in force is proved when
\* the one that is written is.
LEMMA SecretStep ==
  ASSUME UsersInv, NEW r \in Request, Finish(r), proved' = proved,
         NEW u, NEW secret, NEW enabled, SetTOTPSecret(u, secret, enabled),
         enabled => secret \in proved
  PROVE  UsersInv'
<1>1. Shaped' /\ WritesAreProved'
  BY RequestStep, DoneShape DEF UsersInv, Finish
<1>2. DOMAIN users' = DOMAIN users
  BY DEF SetTOTPSecret
<1>3. \A v \in DOMAIN users : users'[v] = IF v = u THEN [secret |-> secret, enabled |-> enabled]
                                          ELSE users[v]
  BY DEF SetTOTPSecret
<1>4. EnabledIsProved'
  BY <1>2, <1>3 DEF UsersInv, EnabledIsProved
<1> QED
  BY <1>1, <1>2, <1>4 DEF UsersInv, FewUsers

\* Every step keeps the invariant.
LEMMA UsersStep == UsersInv /\ [Next]_vars => UsersInv'
<1> SUFFICES ASSUME UsersInv, [Next]_vars PROVE UsersInv'
  OBVIOUS
<1> USE DEF At, Acts
<1>1. ASSUME NEW r \in Request, NEW u \in User, StartSetup(r, u) PROVE UsersInv'
  <2> DEFINE q == [Done EXCEPT !.pc = "allow", !.kind = "setup", !.name = u, !.todo = <<"setup">>]
  <2>1. DOMAIN q = Fields /\ q.pc = "allow"
    BY DEF Done, Fields
  <2>2. req' = [req EXCEPT ![r] = IF users # <<>> THEN Done ELSE q]
    BY <1>1 DEF StartSetup
  <2> HIDE DEF q
  <2>3. users' = users /\ proved' = proved
    BY <1>1 DEF StartSetup
  <2> QED
    BY <2>1, <2>2, <2>3, UsersStay, DoneShape
<1>2. ASSUME NEW r \in Request, NEW u, NEW good, NEW code, StartLogin(r, u, good, code)
      PROVE UsersInv'
  <2> DEFINE q == [pc |-> "allow", kind |-> "login", name |-> u, good |-> good, code |-> code,
                   todo |-> <<"ip", u>>]
  <2>1. DOMAIN q = Fields /\ q.pc = "allow"
    BY DEF Fields
  <2>2. req' = [req EXCEPT ![r] = q] /\ users' = users /\ proved' = proved
    BY <1>2 DEF StartLogin
  <2> HIDE DEF q
  <2> QED
    BY <2>1, <2>2, UsersStay
<1>3. ASSUME NEW r \in Request, NEW t, NEW kind, NEW code, WithAuth(r, t, kind, code)
      PROVE UsersInv'
  <2> DEFINE name == IF kind = "logout" THEN t ELSE sessions[t].user
             q == [Done EXCEPT !.pc = "act", !.kind = kind, !.code = code, !.name = name]
  <2>1. DOMAIN q = Fields /\ q.pc = "act"
    BY DEF Done, Fields
  <2>2. \/ req' = [req EXCEPT ![r] = q]
        \/ req' = [req EXCEPT ![r] = Done]
    BY <1>3 DEF WithAuth
  <2>3. users' = users /\ proved' = proved
    BY <1>3 DEF WithAuth
  <2> HIDE DEF q
  <2> QED
    BY <2>1, <2>2, <2>3, UsersStay, DoneShape
<1>4. ASSUME NEW r \in Request, Allow(r) PROVE UsersInv'
  <2>1. users' = users /\ proved' = proved /\ req[r].pc = "allow"
    BY <1>4 DEF Allow
  <2> DEFINE pc == IF req[r].kind = "setup" THEN "count" ELSE "look"
  <2>2. \/ Finish(r)
        \/ req' = [req EXCEPT ![r].todo = Tail(req[r].todo)]
        \/ req' = [req EXCEPT ![r].todo = <<>>, ![r].pc = pc]
    BY <1>4 DEF Allow
  <2>3. CASE Finish(r)
    BY <2>1, <2>3, FinishKeepsUsers
  <2>4. CASE req' = [req EXCEPT ![r].todo = Tail(req[r].todo)]
    BY <2>1, <2>4, NextKeepsUsers
  <2>5. CASE req' = [req EXCEPT ![r].todo = <<>>, ![r].pc = pc]
    <3>1. pc # "write"
      OBVIOUS
    <3> HIDE DEF pc
    <3>2. Turn(r, pc, <<>>)
      BY <2>5 DEF UsersInv, Shaped, Turn
    <3> QED
      BY <3>1, <3>2, <2>1, TodoKeepsUsers
  <2> QED
    BY <2>2, <2>3, <2>4, <2>5
<1>5. ASSUME NEW r \in Request, CountSetup(r) PROVE UsersInv'
  BY <1>5, GotoKeepsUsers DEF CountSetup
<1>6. ASSUME NEW r \in Request, CreateInitialUser(r) PROVE UsersInv'
  <2>1. CASE Finish(r) /\ UNCHANGED users
    BY <1>6, <2>1, FinishKeepsUsers DEF CreateInitialUser
  <2>2. CASE /\ users' = [u \in {req[r].name} |-> NewUser]
             /\ Turn(r, "success", LimitKeys(r))
    <3>0. Shaped
      BY DEF UsersInv
    <3>1. PICK q : /\ req' = [req EXCEPT ![r] = q] /\ DOMAIN q = Fields
                   /\ q.pc = "success" /\ q.todo = LimitKeys(r)
                   /\ \A f \in Fields \ {"pc", "todo"} : q[f] = req[r][f]
      BY <2>2, <3>0, TodoIs
    <3>2. Shaped' /\ WritesAreProved'
      BY <1>6, <3>1, RequestStep DEF UsersInv, CreateInitialUser
    <3>3. FewUsers' /\ EnabledIsProved'
      BY <2>2 DEF FewUsers, EnabledIsProved, NewUser
    <3> QED
      BY <3>2, <3>3 DEF UsersInv
  <2> QED
    BY <1>6, <2>1, <2>2 DEF CreateInitialUser, Turn
<1>7. ASSUME NEW r \in Request, Look(r) PROVE UsersInv'
  <2>1. users' = users /\ proved' = proved
    BY <1>7 DEF Look
  <2>2. \/ Goto(r, "code") \/ Goto(r, "save")
        \/ Turn(r, "fail", LimitKeys(r))
    BY <1>7 DEF Look, Turn
  <2> QED
    BY <2>1, <2>2, GotoKeepsUsers, TodoKeepsUsers
<1>8. ASSUME NEW r \in Request, CheckCode(r) PROVE UsersInv'
  BY <1>8, GotoKeepsUsers, TodoKeepsUsers DEF CheckCode, Turn
<1>9. ASSUME NEW r \in Request, FailLogin(r) PROVE UsersInv'
  BY <1>9, FinishKeepsUsers, NextKeepsUsers DEF FailLogin
<1>10. ASSUME NEW r \in Request, Success(r) PROVE UsersInv'
  BY <1>10, FinishKeepsUsers, NextKeepsUsers, GotoKeepsUsers DEF Success
<1>11. ASSUME NEW r \in Request, SaveSession(r) PROVE UsersInv'
  BY <1>11, FinishKeepsUsers, TodoKeepsUsers DEF SaveSession, Turn
<1>12. ASSUME NEW r \in Request, Logout(r) PROVE UsersInv'
  BY <1>12, FinishKeepsUsers DEF Logout
<1>13. ASSUME NEW r \in Request, TOTPSetup(r) PROVE UsersInv'
  BY <1>13, SecretStep DEF TOTPSetup
<1>14. ASSUME NEW r \in Request, TOTPVerify(r) PROVE UsersInv'
  <2>1. CASE Goto(r, "write") /\ proved' = proved \cup {req[r].code}
    <3>1. Shaped
      BY DEF UsersInv
    <3>2. PICK q : /\ req' = [req EXCEPT ![r] = q] /\ DOMAIN q = Fields
                   /\ q.pc = "write"
                   /\ \A f \in Fields \ {"pc"} : q[f] = req[r][f]
      BY <2>1, <3>1, GotoIs
    <3>3. q.code = req[r].code
      BY <3>2 DEF Fields
    <3> QED
      BY <1>14, <2>1, <3>2, <3>3, UsersStay DEF TOTPVerify
  <2>2. CASE Finish(r) /\ UNCHANGED proved
    BY <1>14, <2>2, FinishKeepsUsers DEF TOTPVerify
  <2> QED
    BY <1>14, <2>1, <2>2 DEF TOTPVerify
<1>15. ASSUME NEW r \in Request, TOTPEnable(r) PROVE UsersInv'
  <2>1. req[r].code \in proved
    BY <1>15 DEF TOTPEnable, UsersInv, WritesAreProved
  <2> QED
    BY <1>15, <2>1, SecretStep DEF TOTPEnable
<1>16. ASSUME NEW r \in Request, TOTPDisable(r) PROVE UsersInv'
  BY <1>16, SecretStep DEF TOTPDisable
<1>17. CASE Tick
  BY <1>17 DEF Tick, UsersInv, Shaped, FewUsers, WritesAreProved, EnabledIsProved
<1>18. CASE Restart
  <2>1. /\ DOMAIN req' = Request
        /\ \A r \in Request : req'[r] = req[r] \/ req'[r] = Done
    BY <1>18 DEF Restart
  <2>2. Shaped' /\ WritesAreProved'
    BY <1>18, <2>1, DoneShape DEF UsersInv, Shaped, WritesAreProved, Restart
  <2> QED
    BY <1>18, <2>2 DEF Restart, UsersInv, FewUsers, EnabledIsProved
<1>19. CASE UNCHANGED vars
  BY <1>19 DEF vars, UsersInv, Shaped, FewUsers, WritesAreProved, EnabledIsProved
<1>20. ASSUME NEW r \in Request, Start(r) PROVE UsersInv'
  BY <1>1, <1>2, <1>3, <1>20 DEF Start
<1> QED
  BY <1>4, <1>5, <1>6, <1>7, <1>8, <1>9, <1>10, <1>11, <1>12, <1>13, <1>14, <1>15, <1>16,
     <1>17, <1>18, <1>19, <1>20 DEF Next, Serve

\* Nothing is wrong before the first request.
LEMMA UsersInit == Init => UsersInv
<1> SUFFICES ASSUME Init PROVE UsersInv
  OBVIOUS
<1>1. DOMAIN users = {}
  BY DEF Init
<1>2. DOMAIN [Done EXCEPT !.pc = "new"] = Fields /\ [Done EXCEPT !.pc = "new"].pc = "new"
  BY DEF Done, Fields
<1>3. DOMAIN req = Request /\ \A r \in Request : req[r] = [Done EXCEPT !.pc = "new"]
  BY DEF Init
<1> QED
  BY <1>1, <1>2, <1>3 DEF UsersInv, Shaped, FewUsers, WritesAreProved, EnabledIsProved, At

\* However many setup requests run at once, the users table never has a
\* second row: CreateInitialUser looks again in its transaction.
THEOREM SetupMakesOneAdministrator == Spec => []OneAdministrator
<1>1. UsersInv => OneAdministrator
  <2> SUFFICES ASSUME UsersInv PROVE Cardinality(DOMAIN users) <= 1
    BY DEF OneAdministrator
  <2>1. CASE DOMAIN users = {}
    BY <2>1, FS_EmptySet
  <2>2. CASE DOMAIN users # {}
    <3>1. PICK u \in DOMAIN users : DOMAIN users = {u}
      BY <2>2 DEF UsersInv, FewUsers
    <3> QED
      BY <3>1, FS_Singleton
  <2> QED
    BY <2>1, <2>2
<1> QED
  BY <1>1, UsersInit, UsersStep, PTL DEF Spec

\* The second factor in force is one whose code was shown, whatever set-up and
\* disable requests come between handleTOTPEnable's check and its write: what
\* it writes is the secret it checked.
THEOREM SecondFactorIsProved == Spec => []EnabledIsProved
<1>1. UsersInv => EnabledIsProved
  BY DEF UsersInv
<1> QED
  BY <1>1, UsersInit, UsersStep, PTL DEF Spec

-----------------------------------------------------------------------------
(* The limiter *)

Entry == [count : Nat, to : Nat, updated : Nat]

\* Every entry's block is what its failures make it.
Consistent(e) ==
  /\ e \in Entry /\ e.updated <= now
  /\ e.to = IF e.count >= Threshold THEN e.updated + (e.count - Threshold + 1) * BlockUnit ELSE 0

LimiterTyped ==
  /\ now \in Nat /\ until \in [Key -> Nat]
  /\ DOMAIN attempts \subseteq Key
  /\ \A k \in DOMAIN attempts : Consistent(attempts[k])

\* A block that was not lifted is still in the table.
Recorded ==
  \A k \in Key : now < until[k] => k \in DOMAIN attempts /\ until[k] <= attempts[k].to

\* The keys a request that is not logged in goes by.
KeysOf(q) == IF q.kind = "setup" THEN {"setup"} ELSE {"ip", q.name}

\* The keys left to ask Allow for, to count a failure for or to forgive.
TodoOK(q) ==
  q.pc \in {"allow", "count", "create", "look", "code", "fail", "save", "success"} =>
    /\ KeysOf(q) \subseteq Key
    /\ q.kind \in (IF q.pc \in {"count", "create"} THEN {"setup"}
                   ELSE IF q.pc \in {"look", "code", "fail"} THEN {"login"}
                   ELSE {"setup", "login"})
    /\ q.pc \in {"allow", "fail", "success"} =>
         q.todo \in (IF q.kind = "setup" THEN {<<"setup">>}
                    ELSE {<<"ip", q.name>>, <<q.name>>})

\* The keys that Allow has let a request pass and for which it may still count
\* a failure.
Passed(q) ==
  IF q.pc \in {"count", "look", "code", "fail"} THEN KeysOf(q)
  ELSE IF q.pc = "allow" /\ q.kind = "login" /\ q.todo # <<"ip", q.name>> THEN {"ip"}
  ELSE {}

\* A block of the key was put on it in this instant.
JustBlocked(k) ==
  now < until[k] => k \in DOMAIN attempts /\ attempts[k].updated = now

\* So it is with every key a request has passed: its failure will prolong the
\* block and not, as a failure long after the last one, start the count again.
PassedJustNow == \A r \in Request : \A k \in Passed(req[r]) : JustBlocked(k)

RequestsOK == \A r \in Request : TodoOK(req[r])

\* The inductive invariant about the limiter.
LimiterInv == Shaped /\ LimiterTyped /\ Recorded /\ RequestsOK /\ PassedJustNow

\* What a call of the limiter leaves true: the table is right, a block that was
\* not lifted is in it, and a block of this instant is still one.
Kept ==
  /\ LimiterTyped' /\ Recorded'
  /\ \A k \in Key : JustBlocked(k) => JustBlocked(k)'

\* What the limiter's arithmetic needs: a product is a number and grows with
\* its first factor.
LEMMA Product ==
  ASSUME NEW a \in Nat, NEW b \in Nat
  PROVE  a * b \in Nat /\ (a + 1) * b >= a * b
<1>1. a * b \in Nat
  OBVIOUS
<1>2. (a + 1) * b = a * b + b
  OBVIOUS
<1> QED
  BY <1>1, <1>2

\* The larger of two numbers.
LEMMA MaxOfTwo ==
  ASSUME NEW a \in Nat, NEW b \in Nat
  PROVE  /\ Max({a, b}) \in Nat
         /\ Max({a, b}) = IF a >= b THEN a ELSE b
<1>1. \E x \in {a, b} : \A y \in {a, b} : x >= y
  OBVIOUS
<1> QED
  BY <1>1 DEF Max

\* A table that pruneLocked, an eviction or a Success has cut down.
LEMMA RestrictIs ==
  ASSUME NEW f, NEW S, S \subseteq DOMAIN f
  PROVE  /\ DOMAIN Restrict(f, S) = S
         /\ \A k \in S : Restrict(f, S)[k] = f[k]
BY DEF Restrict

\* pruneLocked forgets no block.
LEMMA PrunedIs ==
  ASSUME LimiterTyped
  PROVE  /\ DOMAIN Pruned \subseteq DOMAIN attempts
         /\ \A k \in DOMAIN Pruned : Pruned[k] = attempts[k]
         /\ \A k \in DOMAIN attempts : now < attempts[k].to => k \in DOMAIN Pruned
BY DEF Pruned, Restrict

\* Allow's and Fail's first statement.
LEMMA PruneKeeps ==
  ASSUME LimiterTyped, Recorded, attempts' = Pruned, until' = until, now' = now
  PROVE  Kept
<1>1. LimiterTyped'
  BY PrunedIs DEF LimiterTyped, Consistent
<1>2. Recorded'
  <2> SUFFICES ASSUME NEW k \in Key, now < until[k]
               PROVE  k \in DOMAIN attempts' /\ until[k] <= attempts'[k].to
    BY DEF Recorded
  <2>1. k \in DOMAIN attempts /\ until[k] <= attempts[k].to
    BY DEF Recorded
  <2>2. now < attempts[k].to
    BY <2>1 DEF LimiterTyped, Consistent, Entry
  <2> QED
    BY <2>1, <2>2, PrunedIs
<1>3. \A k \in Key : JustBlocked(k) => JustBlocked(k)'
  BY <1>2, PrunedIs DEF JustBlocked, Recorded
<1> QED
  BY <1>1, <1>2, <1>3 DEF Kept

\* Success lifts the block together with the entry.
LEMMA SucceedKeeps ==
  ASSUME LimiterTyped, Recorded, NEW k \in Key, Succeed(k), now' = now
  PROVE  Kept
<1>1. /\ DOMAIN attempts' = DOMAIN attempts \ {k}
      /\ \A j \in DOMAIN attempts \ {k} : attempts'[j] = attempts[j]
  BY RestrictIs DEF Succeed
<1>2. until' \in [Key -> Nat] /\ until'[k] = 0 /\ \A j \in Key \ {k} : until'[j] = until[j]
  BY DEF Succeed, LimiterTyped
<1>3. LimiterTyped'
  BY <1>1, <1>2 DEF LimiterTyped, Consistent
<1>4. Recorded'
  BY <1>1, <1>2 DEF LimiterTyped, Recorded
<1>5. \A j \in Key : JustBlocked(j) => JustBlocked(j)'
  BY <1>1, <1>2 DEF LimiterTyped, JustBlocked
<1> QED
  BY <1>3, <1>4, <1>5 DEF Kept

\* The tables that evictOldestLocked may leave: at most one entry goes, never
\* the one that is about to fail.
LEMMA EvictedIs ==
  ASSUME NEW table, NEW k, NEW left \in Evicted(table, k)
  PROVE  /\ DOMAIN left \subseteq DOMAIN table
         /\ \A j \in DOMAIN left : left[j] = table[j]
         /\ k \in DOMAIN table => k \in DOMAIN left
<1>1. CASE left = table
  BY <1>1
<1>2. CASE k \notin DOMAIN table /\ \E j \in DOMAIN table : left = Restrict(table, DOMAIN table \ {j})
  BY <1>2, RestrictIs
<1> QED
  BY <1>1, <1>2 DEF Evicted

\* The entry that a failure leaves is consistent, and it ends no block of this
\* instant early.
LEMMA FailedIs ==
  ASSUME NEW table, NEW k, now \in Nat, k \in DOMAIN table => Consistent(table[k])
  PROVE  /\ Consistent(Failed(table, k)) /\ Failed(table, k).updated = now
         /\ k \in DOMAIN table /\ table[k].updated = now /\ now < table[k].to
              => table[k].to <= Failed(table, k).to
<1> DEFINE fresh == k \in DOMAIN table /\ now - table[k].updated <= TTL
           count == IF fresh THEN table[k].count + 1 ELSE 1
           to == IF count >= Threshold THEN now + (count - Threshold + 1) * BlockUnit
                 ELSE IF fresh THEN table[k].to ELSE 0
           item == Failed(table, k)
<1>1. item.count = count /\ item.to = to /\ item.updated = now /\ item = [count |-> count, to |-> to, updated |-> now]
  BY DEF Failed
<1>2. Threshold \in Nat \ {0} /\ BlockUnit \in Nat \ {0} /\ TTL \in Nat
  BY BoundsAssumption
<1>3. k \in DOMAIN table => /\ table[k].count \in Nat /\ table[k].to \in Nat
                            /\ table[k].updated \in Nat
  BY DEF Consistent, Entry
<1>4. count \in Nat
  BY <1>3
<1>5. count >= Threshold => (count - Threshold + 1) * BlockUnit \in Nat
  <2>1. count >= Threshold => count - Threshold + 1 \in Nat
    BY <1>2, <1>4
  <2> HIDE DEF count
  <2> QED
    BY <2>1, <1>2, Product
<1>6. fresh /\ count < Threshold => table[k].to = 0
  BY <1>2, <1>3 DEF Consistent
<1>7. to \in Nat /\ to = IF count >= Threshold THEN now + (count - Threshold + 1) * BlockUnit ELSE 0
  <2>1. CASE count >= Threshold
    BY <1>5, <2>1
  <2>2. CASE ~(count >= Threshold)
    BY <1>2, <1>4, <1>6, <2>2
  <2> QED
    BY <2>1, <2>2
<1>8. Consistent(item)
  <2> HIDE DEF count, to, item
  <2> QED
    BY <1>1, <1>4, <1>7 DEF Consistent, Entry
<1>9. ASSUME k \in DOMAIN table, table[k].updated = now, now < table[k].to
      PROVE  table[k].to <= to
  <2> DEFINE n == table[k].count
  <2>1. n >= Threshold /\ table[k].to = now + (n - Threshold + 1) * BlockUnit
    BY <1>3, <1>9 DEF Consistent
  <2>2. fresh /\ count = n + 1
    BY <1>2, <1>3, <1>9
  <2>3. to = now + (n + 1 - Threshold + 1) * BlockUnit
    BY <1>2, <1>3, <1>7, <2>1, <2>2
  <2>4. n - Threshold + 1 \in Nat /\ n + 1 - Threshold + 1 = (n - Threshold + 1) + 1
    BY <1>2, <1>3, <1>9, <2>1
  <2> HIDE DEF to
  <2>5. (n + 1 - Threshold + 1) * BlockUnit >= (n - Threshold + 1) * BlockUnit
    BY <1>2, <2>4, Product
  <2>6. (n + 1 - Threshold + 1) * BlockUnit \in Nat /\ (n - Threshold + 1) * BlockUnit \in Nat
    BY <1>2, <2>4, Product
  <2> QED
    BY <2>1, <2>3, <2>5, <2>6
<1> QED
  <2> HIDE DEF to, item
  <2> QED
    BY <1>1, <1>8, <1>9 DEF item

\* A failure prolongs a block of this instant and lifts none but the one whose
\* entry it evicts.
LEMMA FailKeeps ==
  ASSUME LimiterTyped, Recorded, NEW k \in Key, JustBlocked(k), Fail(k), now' = now
  PROVE  Kept
<1>1. PICK table \in Evicted(Pruned, k) :
        /\ attempts' = [j \in DOMAIN table \cup {k} |->
                          IF j = k THEN Failed(table, k) ELSE table[j]]
        /\ until' = [j \in Key |->
             IF j = k THEN Max({Failed(table, k).to, until[j]})
             ELSE IF j \in DOMAIN Pruned \ DOMAIN table THEN 0 ELSE until[j]]
  BY DEF Fail
<1> DEFINE item == Failed(table, k)
<1>2. /\ DOMAIN table \subseteq DOMAIN attempts
      /\ \A j \in DOMAIN table : table[j] = attempts[j]
      /\ \A j \in DOMAIN attempts : now < attempts[j].to /\ j \notin DOMAIN table
           => j \in DOMAIN Pruned \ DOMAIN table /\ j # k
  BY EvictedIs, PrunedIs
<1>3. \A j \in DOMAIN attempts : Consistent(attempts[j]) /\ j \in Key /\ attempts[j].to \in Nat
  BY DEF LimiterTyped, Consistent, Entry
<1>4. now \in Nat /\ \A j \in Key : until[j] \in Nat
  BY DEF LimiterTyped
<1>5. /\ Consistent(item) /\ item.updated = now /\ item.to \in Nat
      /\ k \in DOMAIN table /\ table[k].updated = now /\ now < table[k].to
           => table[k].to <= item.to
  <2>1. k \in DOMAIN table => Consistent(table[k])
    BY <1>2, <1>3
  <2>2. Consistent(item) => item.to \in Nat
    BY DEF Consistent, Entry
  <2> QED
    BY <1>4, <2>1, <2>2, FailedIs
<1>6. /\ DOMAIN attempts' = DOMAIN table \cup {k} /\ attempts'[k] = item
      /\ \A j \in DOMAIN table \ {k} : attempts'[j] = attempts[j]
  BY <1>1, <1>2
<1>7. /\ until'[k] = Max({item.to, until[k]})
      /\ \A j \in Key \ {k} :
           until'[j] = IF j \in DOMAIN Pruned \ DOMAIN table THEN 0 ELSE until[j]
  BY <1>1
<1> HIDE DEF item
<1>8. until' \in [Key -> Nat] /\ until'[k] = IF item.to >= until[k] THEN item.to ELSE until[k]
  <2>1. until'[k] \in Nat /\ until'[k] = IF item.to >= until[k] THEN item.to ELSE until[k]
    BY <1>4, <1>5, <1>7, MaxOfTwo
  <2>2. \A j \in Key : until'[j] \in Nat
    BY <1>4, <1>7, <2>1
  <2>3. DOMAIN until' = Key /\ until' = [j \in Key |-> until'[j]]
    BY <1>1
  <2> QED
    BY <2>1, <2>2, <2>3
<1>9. LimiterTyped'
  BY <1>2, <1>3, <1>4, <1>5, <1>6, <1>8 DEF LimiterTyped, Consistent
<1>10. now < until'[k] => until'[k] <= item.to
  <2>1. CASE now < until[k]
    <3>1. k \in DOMAIN attempts /\ attempts[k].updated = now /\ until[k] <= attempts[k].to
      BY <2>1 DEF JustBlocked, Recorded
    <3>2. now < attempts[k].to
      BY <1>3, <1>4, <2>1, <3>1
    <3>3. k \in DOMAIN table /\ table[k] = attempts[k]
      BY <1>2, <3>1, <3>2
    <3>4. attempts[k].to <= item.to
      BY <1>5, <3>1, <3>2, <3>3
    <3> QED
      BY <1>3, <1>4, <1>5, <1>8, <3>1, <3>4
  <2>2. CASE ~(now < until[k])
    BY <1>4, <1>5, <1>8, <2>2
  <2> QED
    BY <2>1, <2>2
<1>11. \A j \in Key \ {k} : now < until'[j] =>
          j \in DOMAIN table /\ until'[j] = until[j] /\ now < until[j]
  <2> SUFFICES ASSUME NEW j \in Key \ {k}, now < until'[j]
               PROVE  j \in DOMAIN table /\ until'[j] = until[j] /\ now < until[j]
    OBVIOUS
  <2>1. j \notin DOMAIN Pruned \ DOMAIN table /\ until'[j] = until[j]
    BY <1>4, <1>7
  <2>2. j \in DOMAIN attempts /\ until[j] <= attempts[j].to
    BY <2>1 DEF Recorded
  <2>3. now < attempts[j].to
    BY <1>3, <1>4, <2>1, <2>2
  <2> QED
    BY <1>2, <2>1, <2>2, <2>3
<1>12. Recorded'
  BY <1>2, <1>6, <1>10, <1>11 DEF Recorded
<1>13. \A j \in Key : JustBlocked(j) => JustBlocked(j)'
  BY <1>2, <1>5, <1>6, <1>11 DEF JustBlocked
<1> QED
  BY <1>9, <1>12, <1>13 DEF Kept

\* A step that leaves the limiter alone.
LEMMA StayKeeps ==
  ASSUME LimiterTyped, Recorded, attempts' = attempts, until' = until, now' = now
  PROVE  Kept
BY DEF Kept, LimiterTyped, Consistent, Recorded, JustBlocked

\* A request moves on while the limiter is kept: every key the new record has
\* passed was passed before or has no block.
LEMMA LimiterMove ==
  ASSUME LimiterInv, Kept, NEW r \in Request, NEW q, DOMAIN q = Fields,
         req' = [req EXCEPT ![r] = q], TodoOK(q),
         \A k \in Passed(q) : k \in Key /\ JustBlocked(k)
  PROVE  LimiterInv'
<1>1. DOMAIN req' = Request /\ req'[r] = q /\ \A p \in Request \ {r} : req'[p] = req[p]
  BY DEF LimiterInv, Shaped
<1>2. Shaped'
  BY <1>1 DEF LimiterInv, Shaped
<1>3. RequestsOK'
  BY SMTT(60), <1>1 DEF LimiterInv, RequestsOK, TodoOK, KeysOf
<1>4. \A p \in Request : \A k \in Passed(req[p]) : k \in Key /\ JustBlocked(k)
  BY DEF LimiterInv, RequestsOK, TodoOK, KeysOf, Passed, PassedJustNow, Key
<1>5. PassedJustNow'
  <2> SUFFICES ASSUME NEW p \in Request, NEW k \in Passed(req'[p]) PROVE JustBlocked(k)'
    BY DEF PassedJustNow, Passed, KeysOf
  <2>1. k \in Key /\ JustBlocked(k)
    BY <1>1, <1>4
  <2> QED
    BY <2>1 DEF Kept
<1> QED
  BY <1>2, <1>3, <1>5 DEF LimiterInv, Kept

\* A request ends.
LEMMA LimiterFinish ==
  ASSUME LimiterInv, Kept, NEW r \in Request, Finish(r)
  PROVE  LimiterInv'
<1>1. TodoOK(Done) /\ Passed(Done) = {}
  BY DoneShape DEF TodoOK, Passed
<1> QED
  BY <1>1, DoneShape, LimiterMove DEF Finish

\* A request goes on, with the keys it had.
LEMMA LimiterGoto ==
  ASSUME LimiterInv, Kept, NEW r \in Request, NEW pc, Goto(r, pc),
         \A q : q.pc = pc /\ q.kind = req[r].kind /\ q.name = req[r].name
           => TodoOK(q) /\ Passed(q) \subseteq Passed(req[r])
  PROVE  LimiterInv'
<1>1. Shaped
  BY DEF LimiterInv
<1>2. PICK q : /\ req' = [req EXCEPT ![r] = q] /\ DOMAIN q = Fields
               /\ q.pc = pc
               /\ \A f \in Fields \ {"pc"} : q[f] = req[r][f]
  BY <1>1, GotoIs
<1>3. TodoOK(q) /\ Passed(q) \subseteq Passed(req[r])
  BY <1>2 DEF Fields
<1>4. \A k \in Passed(req[r]) : k \in Key /\ JustBlocked(k)
  BY DEF LimiterInv, RequestsOK, TodoOK, KeysOf, Passed, PassedJustNow, Key
<1> QED
  BY <1>2, <1>3, <1>4, LimiterMove

\* A request goes on, with keys of its own to take up.
LEMMA LimiterTurn ==
  ASSUME LimiterInv, Kept, NEW r \in Request, NEW pc, NEW todo, Turn(r, pc, todo),
         \A q : q.pc = pc /\ q.todo = todo /\ q.kind = req[r].kind /\ q.name = req[r].name
           => TodoOK(q) /\ \A k \in Passed(q) : k \in Key /\ JustBlocked(k)
  PROVE  LimiterInv'
<1>1. Shaped
  BY DEF LimiterInv
<1>2. PICK q : /\ req' = [req EXCEPT ![r] = q] /\ DOMAIN q = Fields
               /\ q.pc = pc /\ q.todo = todo
               /\ \A f \in Fields \ {"pc", "todo"} : q[f] = req[r][f]
  BY <1>1, TodoIs
<1>3. TodoOK(q) /\ \A k \in Passed(q) : k \in Key /\ JustBlocked(k)
  BY <1>2 DEF Fields
<1> QED
  BY <1>2, <1>3, LimiterMove

\* A request takes up the next of its keys.
LEMMA NextIsTurn ==
  ASSUME Shaped, NEW r \in Request, NEW todo, req' = [req EXCEPT ![r].todo = todo]
  PROVE  Turn(r, req[r].pc, todo)
BY DEF Shaped, Turn, Fields

\* What the keys of a request look like.
LEMMA KeysAre ==
  ASSUME LimiterInv, NEW r \in Request
  PROVE  /\ TodoOK(req[r])
         /\ \A k \in Passed(req[r]) : k \in Key /\ JustBlocked(k)
         /\ req[r].pc \in {"allow", "fail", "success"} =>
              \/ /\ req[r].todo = <<Head(req[r].todo)>> /\ Len(req[r].todo) = 1
                 /\ Tail(req[r].todo) = <<>> /\ Head(req[r].todo) \in KeysOf(req[r])
              \/ /\ req[r].kind = "login" /\ req[r].todo = <<"ip", req[r].name>>
                 /\ Head(req[r].todo) = "ip" /\ Len(req[r].todo) = 2
                 /\ Tail(req[r].todo) = <<req[r].name>>
<1>1. /\ TodoOK(req[r])
      /\ \A k \in Passed(req[r]) : k \in Key /\ JustBlocked(k)
  BY DEF LimiterInv, RequestsOK, TodoOK, KeysOf, Passed, PassedJustNow, Key
<1>2. ASSUME req[r].pc \in {"allow", "fail", "success"}
      PROVE  \/ req[r].kind = "setup" /\ req[r].todo = <<"setup">>
             \/ req[r].kind = "login" /\ req[r].todo = <<"ip", req[r].name>>
             \/ req[r].kind = "login" /\ req[r].todo = <<req[r].name>>
  BY <1>1, <1>2 DEF TodoOK
<1>3. \A a : Head(<<a>>) = a /\ Len(<<a>>) = 1 /\ Tail(<<a>>) = <<>>
  OBVIOUS
<1>4. \A a, b : Head(<<a, b>>) = a /\ Len(<<a, b>>) = 2 /\ Tail(<<a, b>>) = <<b>>
  OBVIOUS
<1> QED
  BY <1>1, <1>2, <1>3, <1>4 DEF KeysOf

\* A key that Allow lets pass has no block that was not lifted.
LEMMA AllowedIsFree ==
  ASSUME LimiterTyped, Recorded, NEW k \in Key, ~Blocked(Pruned, k)
  PROVE  now >= until[k] /\ JustBlocked(k)
<1>1. now \in Nat /\ until[k] \in Nat
  BY DEF LimiterTyped
<1>2. ASSUME now < until[k] PROVE FALSE
  <2>1. k \in DOMAIN attempts /\ until[k] <= attempts[k].to
    BY <1>2 DEF Recorded
  <2>2. now < attempts[k].to
    BY <1>1, <1>2, <2>1 DEF LimiterTyped, Consistent, Entry
  <2> QED
    BY <2>1, <2>2, PrunedIs DEF Blocked
<1> QED
  BY <1>1, <1>2 DEF JustBlocked

\* Allow and what follows from it.
LEMMA LimiterAllow ==
  ASSUME LimiterInv, NEW r \in Request, Allow(r)
  PROVE  LimiterInv'
<1> DEFINE k == Head(req[r].todo)
           todo == req[r].todo
           pc == IF req[r].kind = "setup" THEN "count" ELSE "look"
<1>1. Kept
  BY PruneKeeps DEF LimiterInv, Allow
<1>2. /\ req[r].pc = "allow" /\ TodoOK(req[r]) /\ KeysOf(req[r]) \subseteq Key
      /\ req[r].kind \in {"setup", "login"}
  BY KeysAre DEF Allow, At, TodoOK
<1>3. \/ todo = <<k>> /\ Tail(todo) = <<>> /\ k \in KeysOf(req[r])
      \/ /\ req[r].kind = "login" /\ todo = <<"ip", req[r].name>>
         /\ k = "ip" /\ Tail(todo) = <<req[r].name>>
  BY <1>2, KeysAre
<1>4. k \in Key /\ <<req[r].name>> # <<>>
  BY <1>2, <1>3 DEF Key
<1>5. CASE Blocked(Pruned, k)
  BY <1>1, <1>5, LimiterFinish DEF Allow
<1>6. CASE ~Blocked(Pruned, k) /\ Tail(todo) # <<>>
  <2>1. req[r].kind = "login" /\ k = "ip" /\ Tail(todo) = <<req[r].name>>
    BY <1>3, <1>6
  <2>2. req' = [req EXCEPT ![r].todo = <<req[r].name>>]
    BY <1>6, <2>1 DEF Allow
  <2>3. Shaped
    BY DEF LimiterInv
  <2>4. Turn(r, "allow", <<req[r].name>>)
    BY <1>2, <2>2, <2>3, NextIsTurn
  <2>5. JustBlocked("ip")
    BY <1>4, <1>6, <2>1, AllowedIsFree DEF LimiterInv
  <2>6. ASSUME NEW q, q.pc = "allow", q.todo = <<req[r].name>>, q.kind = req[r].kind,
               q.name = req[r].name
        PROVE  TodoOK(q) /\ \A j \in Passed(q) : j \in Key /\ JustBlocked(j)
    BY <1>2, <2>1, <2>5, <2>6 DEF TodoOK, Passed, KeysOf, Key
  <2> QED
    BY <1>1, <2>4, <2>6, LimiterTurn
<1>7. CASE ~Blocked(Pruned, k) /\ Tail(todo) = <<>>
  <2>1. req' = [req EXCEPT ![r].todo = <<>>, ![r].pc = pc]
    BY <1>7 DEF Allow
  <2>2. Turn(r, pc, <<>>)
    <3> HIDE DEF pc
    <3> QED
      BY <2>1 DEF LimiterInv, Shaped, Turn
  <2>3. todo = <<k>> /\ k \in KeysOf(req[r])
    BY <1>3, <1>4, <1>7
  <2>4. JustBlocked(k)
    BY <1>4, <1>7, AllowedIsFree DEF LimiterInv
  <2>5. req[r].kind = "login" => k = req[r].name /\ JustBlocked("ip")
    <3> SUFFICES ASSUME req[r].kind = "login" PROVE k = req[r].name /\ JustBlocked("ip")
      OBVIOUS
    <3>1. <<k>> # <<"ip", req[r].name>>
      OBVIOUS
    <3>2. Passed(req[r]) = {"ip"}
      BY <1>2, <2>3, <3>1 DEF Passed
    <3>3. <<k>> = <<req[r].name>>
      BY <1>2, <2>3, <3>1 DEF TodoOK
    <3> QED
      BY <3>2, <3>3, KeysAre
  <2>6. \A j \in KeysOf(req[r]) : j \in Key /\ JustBlocked(j)
    BY <1>2, <2>3, <2>4, <2>5 DEF KeysOf
  <2>7. ASSUME NEW q, q.pc = pc, q.todo = <<>>, q.kind = req[r].kind, q.name = req[r].name
        PROVE  TodoOK(q) /\ \A j \in Passed(q) : j \in Key /\ JustBlocked(j)
    <3>1. KeysOf(q) = KeysOf(req[r])
      BY <2>7 DEF KeysOf
    <3> QED
      BY <1>2, <2>6, <2>7, <3>1 DEF TodoOK, Passed
  <2> HIDE DEF pc
  <2> QED
    BY <1>1, <2>2, <2>7, LimiterTurn
<1> QED
  BY <1>5, <1>6, <1>7

\* A record with no keys to take up and none passed.
LEMMA LimiterApart ==
  ASSUME LimiterInv, NEW r \in Request, NEW q, DOMAIN q = Fields, q.pc \in {"act", "write"},
         req' = [req EXCEPT ![r] = q], UNCHANGED <<attempts, until, now>>
  PROVE  LimiterInv'
<1>1. Kept
  BY StayKeeps DEF LimiterInv
<1>2. TodoOK(q) /\ Passed(q) = {}
  BY DEF TodoOK, Passed
<1> QED
  BY <1>1, <1>2, LimiterMove

\* The requests begin.
LEMMA LimiterStart ==
  ASSUME LimiterInv, NEW r \in Request, Start(r)
  PROVE  LimiterInv'
<1>1. ASSUME NEW u \in User, StartSetup(r, u) PROVE LimiterInv'
  <2> DEFINE q == [Done EXCEPT !.pc = "allow", !.kind = "setup", !.name = u, !.todo = <<"setup">>]
  <2>1. DOMAIN q = Fields /\ q.pc = "allow" /\ q.kind = "setup" /\ q.todo = <<"setup">>
    BY DEF Done, Fields
  <2>2. req' = [req EXCEPT ![r] = q] \/ Finish(r)
    BY <1>1 DEF StartSetup, Finish
  <2>3. Kept
    BY <1>1, StayKeeps DEF StartSetup, LimiterInv
  <2> HIDE DEF q
  <2>4. TodoOK(q) /\ Passed(q) = {}
    BY <2>1 DEF TodoOK, Passed, KeysOf, Key
  <2> QED
    BY <2>1, <2>2, <2>3, <2>4, LimiterMove, LimiterFinish
<1>2. ASSUME NEW u \in User, NEW good, NEW code, StartLogin(r, u, good, code) PROVE LimiterInv'
  <2> DEFINE q == [pc |-> "allow", kind |-> "login", name |-> u, good |-> good, code |-> code,
                   todo |-> <<"ip", u>>]
  <2>1. /\ DOMAIN q = Fields /\ q.pc = "allow" /\ q.kind = "login" /\ q.name = u
        /\ q.todo = <<"ip", u>>
    BY DEF Fields
  <2>2. req' = [req EXCEPT ![r] = q]
    BY <1>2 DEF StartLogin
  <2>3. Kept
    BY <1>2, StayKeeps DEF StartLogin, LimiterInv
  <2> HIDE DEF q
  <2>4. TodoOK(q) /\ Passed(q) = {}
    BY <2>1 DEF TodoOK, Passed, KeysOf, Key
  <2> QED
    BY <2>1, <2>2, <2>3, <2>4, LimiterMove
<1>3. ASSUME NEW t, NEW kind, NEW code, WithAuth(r, t, kind, code) PROVE LimiterInv'
  <2> DEFINE name == IF kind = "logout" THEN t ELSE sessions[t].user
             q == [Done EXCEPT !.pc = "act", !.kind = kind, !.code = code, !.name = name]
  <2>1. DOMAIN q = Fields /\ q.pc = "act"
    BY DEF Done, Fields
  <2>2. req' = [req EXCEPT ![r] = q] \/ Finish(r)
    BY <1>3 DEF WithAuth, Finish
  <2>3. UNCHANGED <<attempts, until, now>>
    BY <1>3 DEF WithAuth
  <2> HIDE DEF q
  <2>4. Kept
    BY <2>3, StayKeeps DEF LimiterInv
  <2> QED
    BY <2>1, <2>2, <2>3, <2>4, LimiterApart, LimiterFinish
<1> QED
  BY <1>1, <1>2, <1>3 DEF Start

\* Every step keeps the invariant.
LEMMA LimiterStep == LimiterInv /\ [Next]_vars => LimiterInv'
<1> SUFFICES ASSUME LimiterInv, [Next]_vars PROVE LimiterInv'
  OBVIOUS
<1>1. LimiterTyped /\ Recorded /\ Shaped
  BY DEF LimiterInv
<1>2. ASSUME UNCHANGED <<attempts, until, now>> PROVE Kept
  BY <1>1, <1>2, StayKeeps
<1> USE DEF At, Acts
<1>3. ASSUME NEW r \in Request, CountSetup(r) PROVE LimiterInv'
  <2>1. "setup" \in Passed(req[r]) /\ req[r].kind = "setup"
    BY <1>3, KeysAre DEF CountSetup, TodoOK, Passed, KeysOf
  <2>2. Kept
    BY <1>1, <1>3, <2>1, KeysAre, FailKeeps DEF CountSetup
  <2>3. ASSUME NEW q, q.pc = "create", q.kind = req[r].kind, q.name = req[r].name
        PROVE  TodoOK(q) /\ Passed(q) \subseteq Passed(req[r])
    BY <2>1, <2>3 DEF TodoOK, Passed, KeysOf, Key
  <2> QED
    BY <1>3, <2>2, <2>3, LimiterGoto DEF CountSetup
<1>4. ASSUME NEW r \in Request, CreateInitialUser(r) PROVE LimiterInv'
  <2>1. req[r].kind = "setup" /\ LimitKeys(r) = <<"setup">> /\ Kept
    BY <1>2, <1>4, KeysAre DEF CreateInitialUser, TodoOK, LimitKeys
  <2>2. ASSUME NEW q, q.pc = "success", q.todo = LimitKeys(r), q.kind = req[r].kind,
               q.name = req[r].name
        PROVE  TodoOK(q) /\ \A k \in Passed(q) : k \in Key /\ JustBlocked(k)
    BY <2>1, <2>2 DEF TodoOK, Passed, KeysOf, Key
  <2>3. Turn(r, "success", LimitKeys(r)) \/ Finish(r)
    BY <1>4 DEF CreateInitialUser, Turn
  <2> QED
    BY <2>1, <2>2, <2>3, LimiterTurn, LimiterFinish
<1>5. ASSUME NEW r \in Request, req[r].pc \in {"look", "code"}, UNCHANGED <<attempts, until, now>>,
             \/ Goto(r, "code") \/ Goto(r, "save") \/ Turn(r, "fail", LimitKeys(r))
      PROVE LimiterInv'
  <2>1. /\ req[r].kind = "login" /\ LimitKeys(r) = <<"ip", req[r].name>> /\ Kept
        /\ Passed(req[r]) = KeysOf(req[r])
        /\ \A k \in KeysOf(req[r]) : k \in Key /\ JustBlocked(k)
    BY <1>2, <1>5, KeysAre DEF TodoOK, LimitKeys, Passed
  <2>2. ASSUME NEW q, q.pc \in {"code", "save"}, q.kind = req[r].kind, q.name = req[r].name
        PROVE  TodoOK(q) /\ Passed(q) \subseteq Passed(req[r])
    <3>1. KeysOf(q) = KeysOf(req[r])
      BY <2>2 DEF KeysOf
    <3> QED
      BY <2>1, <2>2, <3>1 DEF TodoOK, Passed
  <2>3. ASSUME NEW q, q.pc = "fail", q.todo = LimitKeys(r), q.kind = req[r].kind,
               q.name = req[r].name
        PROVE  TodoOK(q) /\ \A k \in Passed(q) : k \in Key /\ JustBlocked(k)
    <3>1. KeysOf(q) = KeysOf(req[r])
      BY <2>3 DEF KeysOf
    <3> QED
      BY <2>1, <2>3, <3>1 DEF TodoOK, Passed
  <2> QED
    BY <1>5, <2>1, <2>2, <2>3, LimiterGoto, LimiterTurn
<1>6. ASSUME NEW r \in Request, Look(r) PROVE LimiterInv'
  BY <1>5, <1>6 DEF Look, Turn
<1>7. ASSUME NEW r \in Request, CheckCode(r) PROVE LimiterInv'
  BY <1>5, <1>7 DEF CheckCode, Turn
<1>8. ASSUME NEW r \in Request, FailLogin(r) PROVE LimiterInv'
  <2>1. /\ req[r].pc = "fail" /\ req[r].kind = "login"
        /\ Passed(req[r]) = KeysOf(req[r])
        /\ \A k \in KeysOf(req[r]) : k \in Key /\ JustBlocked(k)
    BY <1>8, KeysAre DEF FailLogin, TodoOK, Passed
  <2>2. Head(req[r].todo) \in KeysOf(req[r])
    BY <2>1, KeysAre DEF KeysOf
  <2>3. Kept
    BY <1>1, <1>8, <2>1, <2>2, FailKeeps DEF FailLogin
  <2>4. CASE Finish(r)
    BY <2>3, <2>4, LimiterFinish
  <2>5. CASE Len(req[r].todo) # 1
    <3>1. Tail(req[r].todo) = <<req[r].name>>
      BY <2>1, <2>5, KeysAre
    <3>2. Turn(r, "fail", <<req[r].name>>)
      BY <1>1, <1>8, <2>1, <2>5, <3>1, NextIsTurn DEF FailLogin
    <3>3. ASSUME NEW q, q.pc = "fail", q.todo = <<req[r].name>>, q.kind = req[r].kind,
                 q.name = req[r].name
          PROVE  TodoOK(q) /\ \A k \in Passed(q) : k \in Key /\ JustBlocked(k)
      <4>1. KeysOf(q) = KeysOf(req[r])
        BY <3>3 DEF KeysOf
      <4> QED
        BY <2>1, <3>3, <4>1 DEF TodoOK, Passed
    <3> QED
      BY <2>3, <3>2, <3>3, LimiterTurn
  <2> QED
    BY <1>8, <2>4, <2>5 DEF FailLogin
<1>9. ASSUME NEW r \in Request, Success(r) PROVE LimiterInv'
  <2>1. /\ req[r].pc = "success" /\ req[r].kind \in {"setup", "login"}
        /\ KeysOf(req[r]) \subseteq Key
    BY <1>9, KeysAre DEF Success, TodoOK
  <2>2. Head(req[r].todo) \in KeysOf(req[r])
    BY <2>1, KeysAre DEF KeysOf
  <2>3. Kept
    BY <1>1, <1>9, <2>1, <2>2, SucceedKeeps DEF Success
  <2>4. CASE Finish(r)
    BY <2>3, <2>4, LimiterFinish
  <2>5. CASE Len(req[r].todo) > 1
    <3>0. Len(req[r].todo) # 1
      <4>1. Len(req[r].todo) \in {1, 2}
        BY <2>1, KeysAre
      <4>2. \A n \in {1, 2} : n > 1 => n # 1
        OBVIOUS
      <4> QED
        BY <2>5, <4>1, <4>2
    <3>1. Tail(req[r].todo) = <<req[r].name>> /\ req[r].kind = "login"
      BY <2>1, <3>0, KeysAre
    <3>2. Turn(r, "success", <<req[r].name>>)
      BY <1>1, <1>9, <2>1, <2>5, <3>1, NextIsTurn DEF Success
    <3>3. ASSUME NEW q, q.pc = "success", q.todo = <<req[r].name>>, q.kind = req[r].kind,
                 q.name = req[r].name
          PROVE  TodoOK(q) /\ \A k \in Passed(q) : k \in Key /\ JustBlocked(k)
      <4>1. KeysOf(q) = KeysOf(req[r])
        BY <3>3 DEF KeysOf
      <4> QED
        BY <2>1, <3>1, <3>3, <4>1 DEF TodoOK, Passed
    <3> QED
      BY <2>3, <3>2, <3>3, LimiterTurn
  <2>6. CASE Goto(r, "save")
    <3>1. ASSUME NEW q, q.pc = "save", q.kind = req[r].kind, q.name = req[r].name
          PROVE  TodoOK(q) /\ Passed(q) \subseteq Passed(req[r])
      <4>1. KeysOf(q) = KeysOf(req[r])
        BY <3>1 DEF KeysOf
      <4> QED
        BY <2>1, <3>1, <4>1 DEF TodoOK, Passed
    <3> QED
      BY <2>3, <2>6, <3>1, LimiterGoto
  <2> QED
    BY <1>9, <2>4, <2>5, <2>6 DEF Success
<1>10. ASSUME NEW r \in Request, SaveSession(r) PROVE LimiterInv'
  <2>1. /\ req[r].kind \in {"setup", "login"} /\ KeysOf(req[r]) \subseteq Key /\ Kept
        /\ LimitKeys(r) = IF req[r].kind = "setup" THEN <<"setup">> ELSE <<"ip", req[r].name>>
    BY <1>2, <1>10, KeysAre DEF SaveSession, TodoOK, LimitKeys
  <2>2. ASSUME NEW q, q.pc = "success", q.todo = LimitKeys(r), q.kind = req[r].kind,
               q.name = req[r].name
        PROVE  TodoOK(q) /\ \A k \in Passed(q) : k \in Key /\ JustBlocked(k)
    <3>1. KeysOf(q) = KeysOf(req[r])
      BY <2>2 DEF KeysOf
    <3> QED
      BY <2>1, <2>2, <3>1 DEF TodoOK, Passed
  <2>3. Turn(r, "success", LimitKeys(r)) \/ Finish(r)
    BY <1>10 DEF SaveSession, Turn
  <2> QED
    BY <2>1, <2>2, <2>3, LimiterTurn, LimiterFinish
<1>11. ASSUME NEW r \in Request, Finish(r), UNCHANGED <<attempts, until, now>> PROVE LimiterInv'
  BY <1>2, <1>11, LimiterFinish
<1>12. ASSUME NEW r \in Request, TOTPVerify(r) PROVE LimiterInv'
  <2>1. CASE Goto(r, "write")
    <3>1. PICK q : /\ req' = [req EXCEPT ![r] = q] /\ DOMAIN q = Fields
                   /\ q.pc = "write"
                   /\ \A f \in Fields \ {"pc"} : q[f] = req[r][f]
      BY <1>1, <2>1, GotoIs
    <3> QED
      BY <1>12, <3>1, LimiterApart DEF TOTPVerify
  <2> QED
    BY <1>11, <1>12, <2>1 DEF TOTPVerify
<1>13. ASSUME NEW r \in Request, Logout(r) \/ TOTPSetup(r) \/ TOTPEnable(r) \/ TOTPDisable(r)
       PROVE LimiterInv'
  BY <1>11, <1>13 DEF Logout, TOTPSetup, TOTPEnable, TOTPDisable
<1>14. CASE Tick
  <2>1. now \in Nat /\ now' = now + 1 /\ attempts' = attempts /\ until' = until /\ req' = req
    BY <1>1, <1>14 DEF Tick, LimiterTyped
  <2>2. LimiterTyped'
    BY <1>1, <2>1 DEF LimiterTyped, Consistent, Entry
  <2>3. Recorded'
    BY <1>1, <2>1 DEF LimiterTyped, Recorded
  <2>4. \A r \in Request : Passed(req[r]) = {}
    BY <1>14 DEF Tick, InFlight, Passed
  <2>5. PassedJustNow'
    BY <2>1, <2>4 DEF PassedJustNow
  <2>6. RequestsOK' /\ Shaped'
    BY <2>1 DEF LimiterInv, RequestsOK, Shaped
  <2> QED
    BY <2>2, <2>3, <2>5, <2>6 DEF LimiterInv
<1>15. CASE Restart
  <2>1. /\ DOMAIN req' = Request
        /\ \A r \in Request : req'[r] = Done \/ (req'[r] = req[r] /\ req[r].pc \in {"new", "done"})
    BY <1>15 DEF Restart, InFlight
  <2>2. Shaped'
    BY <1>1, <2>1, DoneShape DEF Shaped
  <2>3. RequestsOK'
    BY <2>1, DoneShape DEF RequestsOK, TodoOK
  <2>4. DOMAIN attempts' = {} /\ until' = [k \in Key |-> 0] /\ now' = now
    BY <1>15 DEF Restart
  <2>5. LimiterTyped' /\ Recorded'
    BY <1>1, <2>4 DEF LimiterTyped, Recorded
  <2>6. \A r \in Request : Passed(req'[r]) = {}
    BY <2>1, DoneShape DEF Passed
  <2>7. PassedJustNow'
    BY <2>6 DEF PassedJustNow, Passed, KeysOf
  <2> QED
    BY <2>2, <2>3, <2>5, <2>7 DEF LimiterInv
<1>16. CASE UNCHANGED vars
  BY <1>16 DEF vars, LimiterInv, Shaped, LimiterTyped, Consistent, Recorded, RequestsOK,
               PassedJustNow, JustBlocked
<1> QED
  BY <1>3, <1>4, <1>6, <1>7, <1>8, <1>9, <1>10, <1>12, <1>13, <1>14, <1>15, <1>16,
     LimiterStart, LimiterAllow DEF Next, Serve

\* A request that asks Allow goes on by Allow alone.
LEMMA OnlyAllow ==
  ASSUME Shaped, NEW r \in Request, At(r, "allow"), [Next]_vars, ~Allow(r)
  PROVE  req'[r] = req[r] \/ req'[r].pc = "done"
<1> USE DEF At, Acts
<1>1. ASSUME NEW q \in Request, Serve(q), q # r PROVE req'[r] = req[r]
  <2>1. CASE Start(q)
    <3>1. ASSUME NEW u, StartSetup(q, u) PROVE req'[r] = req[r]
      BY <1>1, <3>1 DEF StartSetup, Shaped
    <3>2. ASSUME NEW u, NEW good, NEW code, StartLogin(q, u, good, code) PROVE req'[r] = req[r]
      BY <1>1, <3>2 DEF StartLogin, Shaped
    <3>3. ASSUME NEW t, NEW kind, NEW code, WithAuth(q, t, kind, code) PROVE req'[r] = req[r]
      BY <1>1, <3>3 DEF WithAuth, Shaped
    <3> QED
      BY <2>1, <3>1, <3>2, <3>3 DEF Start
  <2>2. CASE Allow(q)
    BY <1>1, <2>2 DEF Allow, Finish, Shaped
  <2>3. CASE CountSetup(q) \/ CreateInitialUser(q) \/ Look(q) \/ CheckCode(q)
    BY <1>1, <2>3 DEF CountSetup, CreateInitialUser, Look, CheckCode, Goto, Finish, Shaped
  <2>4. CASE FailLogin(q) \/ Success(q) \/ SaveSession(q)
    BY <1>1, <2>4 DEF FailLogin, Success, SaveSession, Goto, Finish, Shaped
  <2>5. CASE Logout(q) \/ TOTPSetup(q) \/ TOTPVerify(q) \/ TOTPEnable(q) \/ TOTPDisable(q)
    BY <1>1, <2>5 DEF Logout, TOTPSetup, TOTPVerify, TOTPEnable, TOTPDisable, Goto, Finish, Shaped
  <2> QED
    BY <1>1, <2>1, <2>2, <2>3, <2>4, <2>5 DEF Serve
<1>2. ~Serve(r)
  BY DEF Serve, Start, StartSetup, StartLogin, WithAuth, CountSetup, CreateInitialUser, Look,
         CheckCode, FailLogin, Success, SaveSession, Logout, TOTPSetup, TOTPVerify, TOTPEnable,
         TOTPDisable
<1>3. CASE Tick \/ UNCHANGED vars
  BY <1>3 DEF Tick, vars
<1>4. CASE Restart
  BY <1>4, DoneShape DEF Restart
<1> QED
  BY <1>1, <1>2, <1>3, <1>4 DEF Next

\* The limiter starts empty.
LEMMA LimiterInit == Init => LimiterInv
<1> SUFFICES ASSUME Init PROVE LimiterInv
  OBVIOUS
<1>1. DOMAIN [Done EXCEPT !.pc = "new"] = Fields /\ [Done EXCEPT !.pc = "new"].pc = "new"
  BY DEF Done, Fields
<1>2. DOMAIN req = Request /\ \A r \in Request : req[r] = [Done EXCEPT !.pc = "new"]
  BY DEF Init
<1>3. DOMAIN attempts = {} /\ until = [k \in Key |-> 0] /\ now = 0
  BY DEF Init
<1>4. LimiterTyped /\ Recorded
  BY <1>3 DEF LimiterTyped, Recorded
<1>5. Shaped /\ RequestsOK /\ PassedJustNow
  BY <1>1, <1>2 DEF Shaped, RequestsOK, TodoOK, PassedJustNow, Passed
<1> QED
  BY <1>4, <1>5 DEF LimiterInv

\* No request that asks Allow before a key's block ends gets on to check a
\* password, whatever failures, forgiveness and prunings of other requests come
\* between: pruneLocked keeps an entry that blocks, and a failure of a request
\* that was let in before the block prolongs it.
THEOREM BlocksHold == Spec => BlockHolds
<1> DEFINE A == \A r \in Request :
                  At(r, "allow") /\ req'[r].pc # "done" /\ req'[r].todo # req[r].todo
                    => now >= until[Head(req[r].todo)]
<1>1. LimiterInv /\ [Next]_vars => A
  <2> SUFFICES ASSUME LimiterInv, [Next]_vars, NEW r \in Request, At(r, "allow"),
                      req'[r].pc # "done", req'[r].todo # req[r].todo
               PROVE  now >= until[Head(req[r].todo)]
    OBVIOUS
  <2>1. LimiterTyped /\ Recorded /\ Shaped
    BY DEF LimiterInv
  <2>2. Allow(r)
    BY <2>1, OnlyAllow
  <2>3. Head(req[r].todo) \in Key
    BY KeysAre DEF At, TodoOK, Key
  <2>4. ~Blocked(Pruned, Head(req[r].todo))
    <3> SUFFICES ASSUME Blocked(Pruned, Head(req[r].todo)) PROVE FALSE
      OBVIOUS
    <3>1. req' = [req EXCEPT ![r] = Done]
      BY <2>2 DEF Allow, Finish
    <3> QED
      BY <2>1, <3>1, DoneShape DEF Shaped
  <2> QED
    BY <2>1, <2>3, <2>4, AllowedIsFree
<1>2. LimiterInv /\ [Next]_vars => [A]_vars
  BY <1>1
<1>3. Spec => [][A]_vars
  BY <1>2, LimiterInit, LimiterStep, PTL DEF Spec
<1> QED
  BY <1>3 DEF BlockHolds

=============================================================================
