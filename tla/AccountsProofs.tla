---------------------------- MODULE AccountsProofs ----------------------------
(***************************************************************************)
(* What holds of the accounts and tokens for any number of names, tokens   *)
(* and requests: types, unique accounts, tokens that stay out once they    *)
(* were logged out unless everything is reset, and an administrator who    *)
(* stays.                                                                  *)
(***************************************************************************)
EXTENDS Accounts, FiniteSetTheorems, TLAPS

AccountsInv == TypeOK /\ AccountsUnique

-----------------------------------------------------------------------------
(* Accounts. *)

(* A new account under a name that nobody has keeps accounts unique. *)
LEMMA CreatedUnique ==
  ASSUME users \subseteq User, AccountsUnique,
         NEW name \in Names, NEW role \in Roles,
         ~Taken(name), CreateUser(name, role)
  PROVE  users' \subseteq User /\ AccountsUnique'
<1>1. PICK id \in Ids :
        /\ ~Named(id)
        /\ users' = users \cup {[id |-> id, name |-> name, role |-> role]}
  BY DEF CreateUser
<1>2. \A u \in users : u.id # id /\ u.name # name
  BY <1>1 DEF Named, Taken
<1>3. [id |-> id, name |-> name, role |-> role] \in User
  BY DEF User
<1> QED BY <1>1, <1>2, <1>3 DEF AccountsUnique

(* Accounts that are removed leave the others unique. *)
LEMMA RemovedUnique ==
  ASSUME users \subseteq User, AccountsUnique, users' \subseteq users
  PROVE  users' \subseteq User /\ AccountsUnique'
BY DEF AccountsUnique

(* The accounts of a restart: those that were there, or the first one. *)
LEMMA BootstrappedUnique ==
  ASSUME users \subseteq User, AccountsUnique,
         NEW name \in Names \cup {None}, BootstrapAdminIfEmpty(name)
  PROVE  users' \subseteq User /\ AccountsUnique'
<1>1. CASE name # None /\ users = {}
  <2>1. CreateUser(name, "admin") /\ name \in Names /\ ~Taken(name)
    BY <1>1 DEF BootstrapAdminIfEmpty, Taken
  <2> QED BY <2>1, CreatedUnique DEF Roles
<1>2. CASE ~(name # None /\ users = {})
  BY <1>2, RemovedUnique DEF BootstrapAdminIfEmpty
<1> QED BY <1>1, <1>2

-----------------------------------------------------------------------------
(* Tokens. *)

TokensOK ==
  /\ tokens \in [Jtis -> Token \cup {None}]
  /\ blocklist \subseteq {j \in Jtis : tokens[j] # None}

(* Pruning forgets only entries whose token its expiry rejects. *)
LEMMA PrunedTokens ==
  ASSUME TokensOK, PruneExpiredTokens
  PROVE  /\ TokensOK'
         /\ \A j \in Jtis : ~Readmitted(j) => ~Readmitted(j)'
<1>1. /\ blocklist' = {j \in blocklist : ~Overdue(j)}
      /\ tokens' = [j \in Jtis |->
           IF tokens[j] # None /\ (tokens[j].life \notin Expired \/ j \in blocklist')
           THEN tokens[j] ELSE None]
  BY DEF PruneExpiredTokens, Remembered
<1>2. tokens' \in [Jtis -> Token \cup {None}]
  BY <1>1 DEF TokensOK
<1>3. ASSUME NEW j \in blocklist'
      PROVE  j \in Jtis /\ tokens'[j] # None
  BY <1>1, <1>3 DEF TokensOK
<1>4. ASSUME NEW j \in Jtis, Readmitted(j)' PROVE Readmitted(j)
  <2>1. /\ tokens'[j] # None /\ tokens'[j].loggedOut
        /\ tokens'[j].life \notin Expired /\ j \notin blocklist'
    BY <1>4 DEF Readmitted, Accepted
  <2>2. tokens'[j] = tokens[j] /\ tokens[j] # None
    BY <1>1, <2>1
  <2>3. j \notin blocklist
    BY <1>1, <2>1, <2>2 DEF Overdue, Expired
  <2> QED BY <2>1, <2>2, <2>3 DEF Readmitted, Accepted
<1> QED BY <1>2, <1>3, <1>4 DEF TokensOK

(* A token gets older and is not forgotten as long as it is listed. *)
LEMMA AgedTokens ==
  ASSUME TokensOK, UNCHANGED blocklist,
         tokens' \in [Jtis -> Token \cup {None}],
         \A j \in Jtis : j \in blocklist => tokens'[j] # None
  PROVE  TokensOK'
BY DEF TokensOK

-----------------------------------------------------------------------------
(* The invariant. *)

LEMMA AccountsInitially == ASSUME Init PROVE AccountsInv
<1>1. users \subseteq User /\ AccountsUnique
  BY DEF Init, User, Roles, AccountsUnique
<1>2. TokensOK
  BY DEF Init, TokensOK
<1>3. requests \in [Requests -> Request \cup {None}] /\ config \in Config
  BY DEF Init
<1>4. evening \in BOOLEAN
  BY Zenon DEF Init
<1> QED BY <1>1, <1>2, <1>3, <1>4 DEF AccountsInv, TypeOK, TokensOK

(* Every step keeps it. *)
LEMMA AccountsStep == ASSUME AccountsInv, [Next]_vars PROVE AccountsInv'
<1> USE DEF AccountsInv, TypeOK
<1>a. TokensOK
  BY DEF TokensOK
<1>b. ASSUME UNCHANGED <<tokens, blocklist>> PROVE TokensOK'
  BY <1>a, <1>b DEF TokensOK
<1>c. ASSUME UNCHANGED users PROVE users' \subseteq User /\ AccountsUnique'
  BY <1>c, RemovedUnique
<1>d. ASSUME NEW r \in Requests, Answered(r)
      PROVE  requests' \in [Requests -> Request \cup {None}]
  BY <1>d DEF Answered
<1>1. ASSUME NEW r \in Requests, NEW name \in Names, NEW role \in Roles,
             NEW j \in Jtis \cup {None}, Register(r, name, role, j)
      PROVE  AccountsInv'
  <2>1. [kind |-> "create", name |-> name,
         role |-> IF IsAdmin(j) THEN role ELSE "student"] \in Request
    BY DEF Request, Roles
  <2>2. requests' \in [Requests -> Request \cup {None}]
    BY <1>1, <2>1 DEF Register, Await
  <2> QED BY <1>1, <1>b, <1>c, <2>2 DEF Register, TokensOK
<1>2. ASSUME NEW r \in Requests, NEW name \in Names, NEW role \in Roles,
             DevCreate(r, name, role)
      PROVE  AccountsInv'
  <2>1. [kind |-> "create", name |-> name, role |-> role] \in Request
    BY DEF Request
  <2>2. requests' \in [Requests -> Request \cup {None}]
    BY <1>2, <2>1 DEF DevCreate, Await
  <2> QED BY <1>2, <1>b, <1>c, <2>2 DEF DevCreate, TokensOK
<1>3. ASSUME NEW r \in Requests, Hashed(r) PROVE AccountsInv'
  <2>1. requests[r].name \in Names /\ requests[r].role \in Roles
    BY <1>3 DEF Hashed, Request
  <2>2. CASE Taken(requests[r].name)
    BY <1>3, <1>b, <1>c, <1>d, <2>2 DEF Hashed, TokensOK
  <2>3. CASE ~Taken(requests[r].name)
    <3>1. CreateUser(requests[r].name, requests[r].role)
      BY <1>3, <2>3 DEF Hashed
    <3>2. users' \subseteq User /\ AccountsUnique'
      BY <2>1, <2>3, <3>1, CreatedUnique
    <3> QED BY <1>3, <1>b, <1>d, <3>2 DEF Hashed, TokensOK
  <2> QED BY <2>2, <2>3
<1>4. ASSUME NEW r \in Requests, Refused(r) PROVE AccountsInv'
  BY <1>4, <1>b, <1>c, <1>d DEF Refused, TokensOK
<1>5. ASSUME NEW r \in Requests, NEW u \in users, Login(r, u)
      PROVE  AccountsInv'
  <2>1. [kind |-> "verify", user |-> u] \in Request
    BY DEF Request
  <2>2. requests' \in [Requests -> Request \cup {None}]
    BY <1>5, <2>1 DEF Login, Await
  <2> QED BY <1>5, <1>b, <1>c, <2>2 DEF Login, TokensOK
<1>6. ASSUME NEW r \in Requests, NEW j \in Jtis, Verified(r, j)
      PROVE  AccountsInv'
  <2> DEFINE new == [sub |-> requests[r].user.id, role |-> requests[r].user.role,
                     life |-> Lifetime, loggedOut |-> FALSE]
  <2>1. requests[r].user \in User
    BY <1>6 DEF Verified, Request
  <2>2. new \in Token
    BY <2>1 DEF User, Token, Lifetime, Lives
  <2>3. tokens' = [tokens EXCEPT ![j] = new] /\ UNCHANGED blocklist /\ tokens[j] = None
    BY <1>6 DEF Verified
  <2>4. TokensOK'
    <3> HIDE DEF new
    <3>2. new # None
      BY <2>2, NoneAssumption
    <3>3. tokens' \in [Jtis -> Token \cup {None}]
      BY <2>2, <2>3
    <3>4. blocklist' \subseteq {k \in Jtis : tokens'[k] # None}
      BY <2>3, <3>2
    <3> QED BY <3>3, <3>4 DEF TokensOK
  <2> QED BY <1>6, <1>c, <1>d, <2>4 DEF Verified, TokensOK
<1>7. ASSUME NEW j \in Jtis, Logout(j) PROVE AccountsInv'
  <2>1. tokens[j] # None /\ tokens[j] \in Token
    BY <1>7 DEF Logout, Accepted
  <2>2. [tokens[j] EXCEPT !.loggedOut = TRUE] \in Token
    BY <2>1 DEF Token
  <2>3. TokensOK'
    <3>1. tokens' \in [Jtis -> Token \cup {None}]
      BY <1>7, <2>2 DEF Logout
    <3>2. blocklist' \subseteq {k \in Jtis : tokens'[k] # None}
      BY <1>7, <2>2, NoneAssumption DEF Logout
    <3> QED BY <3>1, <3>2 DEF TokensOK
  <2> QED BY <1>7, <1>c, <2>3 DEF Logout, TokensOK
<1>8. ASSUME NEW j \in Jtis, NEW u \in users, DeleteUser(j, u)
      PROVE  AccountsInv'
  <2>1. users' \subseteq User /\ AccountsUnique'
    BY <1>8, RemovedUnique DEF DeleteUser
  <2> QED BY <1>8, <1>b, <2>1 DEF DeleteUser, TokensOK
<1>9. ASSUME NEW u \in users, DevDelete(u) PROVE AccountsInv'
  <2>1. users' \subseteq User /\ AccountsUnique'
    BY <1>9, RemovedUnique DEF DevDelete
  <2> QED BY <1>9, <1>b, <2>1 DEF DevDelete, TokensOK
<1>10. ASSUME DevReset PROVE AccountsInv'
  <2>1. users' \subseteq User /\ AccountsUnique'
    BY <1>10, RemovedUnique DEF DevReset
  <2>2. tokens' \in [Jtis -> Token \cup {None}]
    BY <1>10 DEF DevReset, Remembered
  <2> QED BY <1>10, <2>1, <2>2 DEF DevReset, TokensOK
<1>11. ASSUME Evening PROVE AccountsInv'
  BY <1>11, <1>b, <1>c DEF Evening, TokensOK
<1>12. ASSUME NEW j \in Jtis, Expire(j) PROVE AccountsInv'
  <2> DEFINE aged == [tokens[j] EXCEPT !.life = "earlier today"]
  <2>1. tokens[j] \in Token /\ tokens[j] # None
    BY <1>12 DEF Expire
  <2>2. aged \in Token
    BY <2>1 DEF Token, Lives, Expired
  <2>3. tokens' = Remembered([tokens EXCEPT ![j] = aged], blocklist)
    BY <1>12 DEF Expire
  <2>4. TokensOK'
    <3> HIDE DEF aged
    <3>1. aged # None
      BY <2>2, NoneAssumption
    <3>2. tokens' \in [Jtis -> Token \cup {None}]
      BY <2>2, <2>3 DEF Remembered
    <3>3. ASSUME NEW k \in Jtis, k \in blocklist PROVE tokens'[k] # None
      BY <2>3, <3>1, <3>3, <1>a DEF Remembered, TokensOK
    <3> QED BY <1>12, <1>a, <3>2, <3>3, AgedTokens DEF Expire
  <2> QED BY <1>12, <1>c, <2>4 DEF Expire, TokensOK
<1>13. ASSUME Midnight PROVE AccountsInv'
  <2>1. ASSUME NEW k \in Jtis, tokens[k] # None
        PROVE  [tokens[k] EXCEPT !.life = NextDay(tokens[k].life)] \in Token
    <3>1. tokens[k] \in Token
      BY <2>1
    <3>2. tokens[k].life \in Lives
      BY <3>1 DEF Token
    <3>3. NextDay(tokens[k].life) \in Lives
      BY <3>2 DEF NextDay, Lives, Expired
    <3> QED BY <3>1, <3>3 DEF Token
  <2>2. tokens' = [k \in Jtis |-> IF tokens[k] = None THEN None
                     ELSE [tokens[k] EXCEPT !.life = NextDay(tokens[k].life)]]
    BY <1>13 DEF Midnight
  <2>3. TokensOK'
    <3>1. tokens' \in [Jtis -> Token \cup {None}]
      BY <2>1, <2>2
    <3>2. \A k \in Jtis : k \in blocklist => tokens'[k] # None
      BY <1>a, <2>1, <2>2, NoneAssumption DEF TokensOK
    <3> QED BY <1>13, <1>a, <3>1, <3>2, AgedTokens DEF Midnight
  <2> QED BY <1>13, <1>c, <2>3 DEF Midnight, TokensOK
<1>14. ASSUME Prune PROVE AccountsInv'
  BY <1>14, <1>a, <1>c, PrunedTokens DEF Prune, TokensOK
<1>15. ASSUME NEW b \in Names \cup {None}, Restart(b) PROVE AccountsInv'
  <2>1. users' \subseteq User /\ AccountsUnique'
    BY <1>15, BootstrappedUnique DEF Restart
  <2>2. TokensOK'
    BY <1>15, <1>a, PrunedTokens DEF Restart
  <2> QED BY <1>15, <2>1, <2>2 DEF Restart, TokensOK
<1>16. CASE UNCHANGED vars
  BY <1>16, <1>b, <1>c DEF vars, TokensOK
<1> HIDE DEF AccountsInv, TypeOK
<1>17. CASE Routes
  BY <1>17, <1>1, <1>2, <1>3, <1>4, <1>5, <1>6, <1>7, <1>8, <1>9, <1>10 DEF Routes
<1>18. CASE Clock
  BY <1>18, <1>11, <1>12, <1>13 DEF Clock
<1> QED BY <1>14, <1>15, <1>16, <1>17, <1>18 DEF Next

-----------------------------------------------------------------------------
(* Logging out.  A step that leaves the tokens and the list alone lets nobody
   in, and no other step does but the reset. *)
LEMMA NoReadmission ==
  ASSUME AccountsInv, [Next]_vars, NEW j \in Jtis, ~Readmitted(j), Readmitted(j)'
  PROVE  DevReset
<1>a. TokensOK
  BY DEF AccountsInv, TypeOK, TokensOK
<1>b. ASSUME UNCHANGED <<tokens, blocklist>> PROVE FALSE
  BY <1>b DEF Readmitted, Accepted
<1>c. tokens'[j] # None /\ tokens'[j].loggedOut
      /\ tokens'[j].life \notin Expired /\ j \notin blocklist'
  BY DEF Readmitted, Accepted
<1>1. ASSUME NEW r \in Requests, NEW k \in Jtis, Verified(r, k) PROVE FALSE
  <2> DEFINE new == [sub |-> requests[r].user.id, role |-> requests[r].user.role,
                     life |-> Lifetime, loggedOut |-> FALSE]
  <2>1. tokens' = [tokens EXCEPT ![k] = new] /\ UNCHANGED blocklist
    BY <1>1 DEF Verified
  <2>2. CASE k = j
    BY <1>a, <1>c, <2>1, <2>2 DEF TokensOK
  <2>3. CASE k # j
    <3>1. tokens'[j] = tokens[j]
      BY <1>a, <2>1, <2>3 DEF TokensOK
    <3> QED BY <1>c, <2>1, <3>1 DEF Readmitted, Accepted
  <2> QED BY <2>2, <2>3
<1>2. ASSUME NEW k \in Jtis, Logout(k) PROVE FALSE
  <2>1. k # j
    BY <1>2, <1>c DEF Logout
  <2>2. tokens'[j] = tokens[j] /\ j \notin blocklist
    BY <1>2, <1>a, <1>c, <2>1 DEF Logout, TokensOK
  <2> QED BY <1>c, <2>2 DEF Readmitted, Accepted
<1>3. ASSUME NEW k \in Jtis, Expire(k) PROVE FALSE
  <2> DEFINE aged == [tokens EXCEPT ![k].life = "earlier today"]
  <2>1. tokens' = Remembered(aged, blocklist) /\ UNCHANGED blocklist
    BY <1>3 DEF Expire
  <2>2. tokens[k] \in Token
    BY <1>a, <1>3 DEF Expire, TokensOK
  <2>3. CASE k = j
    <3>1. aged[j].life = "earlier today"
      BY <1>a, <2>2, <2>3 DEF TokensOK, Token
    <3>2. tokens'[j] = aged[j]
      BY <1>c, <2>1 DEF Remembered
    <3> QED BY <1>c, <3>1, <3>2 DEF Expired
  <2>4. CASE k # j
    <3>1. aged[j] = tokens[j]
      BY <1>a, <2>4 DEF TokensOK
    <3>2. tokens'[j] = tokens[j]
      BY <1>c, <2>1, <3>1 DEF Remembered
    <3> QED BY <1>c, <2>1, <3>2 DEF Readmitted, Accepted
  <2> QED BY <2>3, <2>4
<1>4. ASSUME Midnight PROVE FALSE
  <2>1. tokens[j] # None /\ UNCHANGED blocklist
        /\ tokens'[j] = [tokens[j] EXCEPT !.life = NextDay(tokens[j].life)]
    BY <1>4, <1>c DEF Midnight
  <2>2. tokens[j] \in Token
    BY <1>a, <2>1 DEF TokensOK
  <2>3. /\ tokens'[j].loggedOut = tokens[j].loggedOut
        /\ tokens'[j].life = NextDay(tokens[j].life)
    BY <2>1, <2>2 DEF Token
  <2>4. tokens[j].life \notin Expired
    BY <1>c, <2>2, <2>3 DEF NextDay, Expired
  <2> QED BY <1>c, <2>1, <2>3, <2>4 DEF Readmitted, Accepted
<1>5. ASSUME PruneExpiredTokens PROVE FALSE
  BY <1>5, <1>a, PrunedTokens
<1>6. CASE Routes
  BY <1>6, <1>b, <1>1, <1>2
  DEF Routes, Register, DevCreate, Hashed, Refused, Login, DeleteUser, DevDelete
<1>7. CASE Clock
  BY <1>7, <1>b, <1>3, <1>4 DEF Clock, Evening
<1>8. CASE Prune \/ \E b \in Names \cup {None} : Restart(b)
  BY <1>8, <1>5 DEF Prune, Restart
<1>9. CASE UNCHANGED vars
  BY <1>9, <1>b DEF vars
<1> QED BY <1>6, <1>7, <1>8, <1>9 DEF Next

-----------------------------------------------------------------------------
(* Theorems. *)

(* The invariant holds in every run of the app container. *)
THEOREM AccountsInvariant == Spec => []AccountsInv
BY AccountsInitially, AccountsStep, PTL DEF Spec

(* The tables and the tokens keep their types, and the blocklist names
   tokens only. *)
THEOREM AccountsTyped == Spec => []TypeOK
BY AccountsInvariant, PTL DEF AccountsInv

(* auth-service.ts and user-store.ts: whoever registers at the same time,
   no two accounts share a name or an id. *)
THEOREM NamesUnique == Spec => []AccountsUnique
BY AccountsInvariant, PTL DEF AccountsInv

(* auth-service.ts and user-store.ts: whatever expires, is pruned, logs in or
   restarts, only POST /auth/dev/reset lets a token back in that was logged
   out. *)
THEOREM LogoutIsFinal == Spec => LoggedOutStaysOut
<1>1. ASSUME AccountsInv, [Next]_vars
      PROVE  [\A j \in Jtis : ~Readmitted(j) /\ Readmitted(j)' => DevReset]_vars
  BY <1>1, NoReadmission
<1> QED BY <1>1, AccountsInvariant, PTL DEF Spec, LoggedOutStaysOut

(* More than one administrator means one besides any of them. *)
LEMMA AnotherAdmin ==
  ASSUME NEW u, Cardinality(Admins) > 1 PROVE Admins \ {u} # {}
<1> SUFFICES ASSUME Admins \ {u} = {} PROVE FALSE
  OBVIOUS
<1>1. CASE u \notin Admins
  <2>1. Admins = {}
    BY <1>1
  <2> QED BY <2>1, FS_EmptySet
<1>2. CASE u \in Admins
  <2>1. Admins = {u}
    BY <1>2
  <2>2. Cardinality({u}) = 1
    BY FS_Singleton
  <2> QED BY <2>1, <2>2
<1> QED BY <1>1, <1>2

(* The guard of DELETE /auth/users keeps an administrator, with the
   endpoints for developers closed, in every order of requests. *)
THEOREM AdminRemains == Spec => LastAdminStays
<1>1. ASSUME [Next]_vars PROVE [Admins # {} /\ ~config.devTools => Admins' # {}]_vars
  <2> SUFFICES ASSUME Next, Admins # {}, ~config.devTools PROVE Admins' # {}
    BY <1>1
  <2>1. ASSUME users \subseteq users' PROVE Admins' # {}
    BY <2>1 DEF Admins
  <2>2. ASSUME NEW name, NEW role, CreateUser(name, role) PROVE users \subseteq users'
    BY <2>2 DEF CreateUser
  <2>3. ASSUME NEW r \in Requests, Hashed(r) PROVE users \subseteq users'
    BY <2>2, <2>3 DEF Hashed
  <2>4. ASSUME NEW b \in Names \cup {None}, Restart(b) PROVE users \subseteq users'
    BY <2>2, <2>4 DEF Restart, BootstrapAdminIfEmpty
  <2>5. ASSUME NEW j \in Jtis, NEW u \in users, DeleteUser(j, u) PROVE Admins' # {}
    <3>1. users' = users \ {u} /\ Deletable(u)
      BY <2>5 DEF DeleteUser
    <3>2. Admins' = Admins \ {u}
      BY <3>1 DEF Admins
    <3>3. CASE u.role = "admin"
      BY <3>1, <3>2, <3>3, AnotherAdmin DEF Deletable
    <3>4. CASE u.role # "admin"
      BY <3>2, <3>4 DEF Admins
    <3> QED BY <3>3, <3>4
  <2>6. ASSUME NEW u \in users, DevDelete(u) PROVE FALSE
    BY <2>6 DEF DevDelete
  <2>7. ASSUME DevReset PROVE FALSE
    BY <2>7 DEF DevReset
  <2> QED
    BY <2>1, <2>3, <2>4, <2>5, <2>6, <2>7
    DEF Next, Routes, Clock, Register, DevCreate, Login, Verified, Refused,
        Logout, Evening, Midnight, Expire, Prune
<1> QED BY <1>1, PTL DEF Spec, LastAdminStays

=============================================================================
