------------------------------ MODULE Accounts ------------------------------
(***************************************************************************)
(* Accounts and tokens of the app container: the routes of                 *)
(* auth-routes.ts and dev-routes.ts around AuthService and UserStore, the  *)
(* maintenance of the blocklist and the bootstrap in main.ts.              *)
(*                                                                         *)
(* The database is synchronous, so a route is one step up to the await of  *)
(* argon2 and one step after it; what waits there is a request.  Passwords *)
(* are left out: a verification succeeds or fails.  Routes that only read  *)
(* (me, users, the lists for developers) are the operators they return.    *)
(*                                                                         *)
(* Time is kept relative to the calendar day in UTC, because the blocklist *)
(* is pruned by comparing "2024-05-01T..." with "2024-05-01 ...": 'T' is   *)
(* greater than ' ', so an entry is overdue only after its day is over.    *)
(* JWT_EXPIRY is taken to be at most a day (the default is 8h).            *)
(***************************************************************************)
EXTENDS Naturals, FiniteSets

CONSTANTS
  Ids,            (* bound: user_id values in use at a time                *)
  Names,          (* usernames                                             *)
  Jtis,           (* bound: tokens remembered by anyone at a time          *)
  Requests,       (* bound: requests waiting for argon2 at a time          *)
  None

ASSUME AccountsAssumption == None \notin Names \cup Jtis

VARIABLES
  config,         (* the environment the process was started with          *)
  users,          (* table users                                           *)
  blocklist,      (* table token_blocklist                                 *)
  tokens,         (* the tokens signed so far and not forgotten            *)
  requests,       (* what waits for argon2                                 *)
  evening         (* tokens issued now expire tomorrow                     *)

vars == <<config, users, blocklist, tokens, requests, evening>>

Roles == {"student", "admin"}
User == [id : Ids, name : Names, role : Roles]
Config == [registration : BOOLEAN, devTools : BOOLEAN]

(* When a token expires or has expired. *)
Expired == {"earlier today", "before today"}
Lives == Expired \cup {"tomorrow", "today"}

(* loggedOut is the history of the token and is read by properties only:
   POST /auth/logout sets it and nothing clears it. *)
Token == [sub : Ids, role : Roles, life : Lives, loggedOut : BOOLEAN]

Request == [kind : {"create"}, name : Names, role : Roles]
             \cup [kind : {"verify"}, user : User]

ASSUME NoneAssumption == None \notin Token \cup Request

-----------------------------------------------------------------------------
(* AuthService and UserStore. *)

Admins == {u \in users : u.role = "admin"}

(* verifyToken: the signature, the expiry and the blocklist.  The account
   is not looked up. *)
Accepted(j) ==
  /\ tokens[j] # None
  /\ tokens[j].life \notin Expired
  /\ j \notin blocklist

IsAdmin(j) == j # None /\ Accepted(j) /\ tokens[j].role = "admin"

(* The UNIQUE constraint of users.username. *)
BadTaken(name) == \E u \in Admins : u.name = name
Taken(name) == \E u \in users : u.name = name

(* randomUUID: an id that nobody has, and that no token or request names. *)
Named(id) ==
  \/ \E u \in users : u.id = id
  \/ \E j \in Jtis : tokens[j] # None /\ tokens[j].sub = id
  \/ \E r \in Requests : /\ requests[r] # None
                         /\ requests[r].kind = "verify"
                         /\ requests[r].user.id = id

CreateUser(name, role) ==
  \E id \in Ids : /\ ~Named(id)
                  /\ users' = users \cup {[id |-> id, name |-> name, role |-> role]}

(* The guard of DELETE /auth/users. *)
BadDeletable(u) == u.role = "admin" => Cardinality(users) > 1
Deletable(u) == u.role = "admin" => Cardinality(Admins) > 1

(* expires_at < datetime('now'), as strings. *)
BadOverdue(j) == tokens[j].life # "tomorrow"
SwappedOverdue(j) == tokens[j].life \notin Expired
Overdue(j) == tokens[j].life = "before today"

(* The tokens that someone can still present or that are still listed. *)
Remembered(table, list) ==
  [j \in Jtis |->
    IF table[j] # None /\ (table[j].life \notin Expired \/ j \in list)
    THEN table[j] ELSE None]

PruneExpiredTokens ==
  /\ blocklist' = {j \in blocklist : ~Overdue(j)}
  /\ tokens' = Remembered(tokens, blocklist')

(* listBlocklistEntries: expires_at > datetime('now'), as strings. *)
ListBlocklistEntries == {j \in blocklist : tokens[j].life # "before today"}

(* The expiry a token is signed with. *)
BadLifetime == "never"
Lifetime == IF evening THEN "tomorrow" ELSE "today"

-----------------------------------------------------------------------------
(* Start of the process, with BOOTSTRAP_ADMIN_USERNAME or without: the
   blocklist is pruned, and an administrator is created if there is no
   account at all.  Nobody is served before that. *)

BootstrapAdminIfEmpty(name) ==
  IF name # None /\ users = {} THEN CreateUser(name, "admin") ELSE UNCHANGED users

Restart(bootstrap) ==
  /\ config' \in Config
  /\ PruneExpiredTokens
  /\ BootstrapAdminIfEmpty(bootstrap)
  /\ requests' = [r \in Requests |-> None]
  /\ UNCHANGED evening

Init ==
  /\ config \in Config
  /\ users \in {{}} \cup {{[id |-> id, name |-> name, role |-> "admin"]} :
                           id \in Ids, name \in Names}
  /\ blocklist = {}
  /\ tokens = [j \in Jtis |-> None]
  /\ requests = [r \in Requests |-> None]
  /\ evening = FALSE

-----------------------------------------------------------------------------
(* Routes. *)

Await(r, request) ==
  /\ requests[r] = None
  /\ requests' = [requests EXCEPT ![r] = request]

Answered(r) == requests' = [requests EXCEPT ![r] = None]

(* POST /auth/register, with or without a token: whether the requester is
   an administrator is settled before the hash. *)
Register(r, name, role, j) ==
  /\ config.registration
  /\ Await(r, [kind |-> "create", name |-> name,
               role |-> IF IsAdmin(j) THEN role ELSE "student"])
  /\ UNCHANGED <<config, users, blocklist, tokens, evening>>

(* POST /auth/dev/users *)
DevCreate(r, name, role) ==
  /\ config.devTools
  /\ Await(r, [kind |-> "create", name |-> name, role |-> role])
  /\ UNCHANGED <<config, users, blocklist, tokens, evening>>

(* argon2.hash has ended; 409 if the name was taken meanwhile. *)
Hashed(r) ==
  /\ requests[r] # None
  /\ requests[r].kind = "create"
  /\ IF Taken(requests[r].name) THEN UNCHANGED users
     ELSE CreateUser(requests[r].name, requests[r].role)
  /\ Answered(r)
  /\ UNCHANGED <<config, blocklist, tokens, evening>>

(* POST /auth/login of an account that exists. *)
Login(r, u) ==
  /\ Await(r, [kind |-> "verify", user |-> u])
  /\ UNCHANGED <<config, users, blocklist, tokens, evening>>

(* argon2.verify has ended: the token is for the account as it was read. *)
Verified(r, j) ==
  /\ requests[r] # None
  /\ requests[r].kind = "verify"
  /\ tokens[j] = None
  /\ tokens' = [tokens EXCEPT ![j] =
       [sub |-> requests[r].user.id, role |-> requests[r].user.role,
        life |-> Lifetime, loggedOut |-> FALSE]]
  /\ Answered(r)
  /\ UNCHANGED <<config, users, blocklist, evening>>

Refused(r) ==
  /\ requests[r] # None
  /\ requests[r].kind = "verify"
  /\ Answered(r)
  /\ UNCHANGED <<config, users, blocklist, tokens, evening>>

(* POST /auth/logout *)
Logout(j) ==
  /\ Accepted(j)
  /\ blocklist' = blocklist \cup {j}
  /\ tokens' = [tokens EXCEPT ![j].loggedOut = TRUE]
  /\ UNCHANGED <<config, users, requests, evening>>

(* DELETE /auth/users/:user_id *)
DeleteUser(j, u) ==
  /\ IsAdmin(j)
  /\ Deletable(u)
  /\ users' = users \ {u}
  /\ UNCHANGED <<config, blocklist, tokens, requests, evening>>

(* DELETE /auth/dev/users/:user_id *)
DevDelete(u) ==
  /\ config.devTools
  /\ users' = users \ {u}
  /\ UNCHANGED <<config, blocklist, tokens, requests, evening>>

(* POST /auth/dev/reset *)
DevReset ==
  /\ config.devTools
  /\ users' = {}
  /\ blocklist' = {}
  /\ tokens' = Remembered(tokens, {})
  /\ UNCHANGED <<config, requests, evening>>

-----------------------------------------------------------------------------
(* Time.  All tokens live equally long, so those that expire tomorrow are
   the ones issued after a certain hour of the day. *)

Evening ==
  /\ ~evening
  /\ evening' = TRUE
  /\ UNCHANGED <<config, users, blocklist, tokens, requests>>

Expire(j) ==
  /\ tokens[j] # None
  /\ tokens[j].life = "today"
  /\ tokens' = Remembered([tokens EXCEPT ![j].life = "earlier today"], blocklist)
  /\ UNCHANGED <<config, users, blocklist, requests, evening>>

NextDay(life) ==
  CASE life = "tomorrow" -> "today"
    [] life = "earlier today" -> "before today"
    [] OTHER -> life

Midnight ==
  /\ evening
  /\ \A j \in Jtis : tokens[j] # None => tokens[j].life # "today"
  /\ evening' = FALSE
  /\ tokens' = [j \in Jtis |->
       IF tokens[j] = None THEN None
       ELSE [tokens[j] EXCEPT !.life = NextDay(tokens[j].life)]]
  /\ UNCHANGED <<config, users, blocklist, requests>>

(* setInterval in main.ts, every 24 hours. *)
Prune ==
  /\ PruneExpiredTokens
  /\ UNCHANGED <<config, users, requests, evening>>

-----------------------------------------------------------------------------
Clock == Evening \/ Midnight \/ \E j \in Jtis : Expire(j)

Routes ==
  \/ \E r \in Requests, name \in Names, role \in Roles :
       \/ \E j \in Jtis \cup {None} : Register(r, name, role, j)
       \/ DevCreate(r, name, role)
  \/ \E r \in Requests : \/ Hashed(r)
                         \/ Refused(r)
                         \/ \E u \in users : Login(r, u)
                         \/ \E j \in Jtis : Verified(r, j)
  \/ \E j \in Jtis : Logout(j) \/ \E u \in users : DeleteUser(j, u)
  \/ \E u \in users : DevDelete(u)
  \/ DevReset

Next == Routes \/ Clock \/ Prune \/ \E b \in Names \cup {None} : Restart(b)

Spec == Init /\ [][Next]_vars

(* argon2 ends, time passes, and the interval timer fires. *)
Fairness ==
  /\ \A r \in Requests : WF_vars(Hashed(r) \/ Refused(r) \/ \E j \in Jtis : Verified(r, j))
  /\ WF_vars(Evening)
  /\ WF_vars(Midnight)
  /\ \A j \in Jtis : WF_vars(Expire(j))
  /\ WF_vars(Prune)

FairSpec == Spec /\ Fairness

-----------------------------------------------------------------------------
(* Properties. *)

(* Types.  Every entry of the blocklist belongs to a token. *)
TypeOK ==
  /\ config \in Config
  /\ users \subseteq User
  /\ tokens \in [Jtis -> Token \cup {None}]
  /\ blocklist \subseteq {j \in Jtis : tokens[j] # None}
  /\ requests \in [Requests -> Request \cup {None}]
  /\ evening \in BOOLEAN

(* However registrations race, no username and no id is there twice. *)
AccountsUnique ==
  \A u, v \in users : u.name = v.name \/ u.id = v.id => u = v

(* Once there is an administrator there always is one, whatever
   administrators, deleted ones included, do to each other's accounts,
   unless the endpoints for developers are open. *)
LastAdminStays == [][Admins # {} /\ ~config.devTools => Admins' # {}]_vars

(* A token that was logged out and is accepted all the same. *)
Readmitted(j) == tokens[j] # None /\ tokens[j].loggedOut /\ Accepted(j)

(* A token is rejected from its logout on, across midnights, prunings and
   restarts.  The one step that lets it back in is POST /auth/dev/reset, which
   empties the blocklist and leaves the tokens signed, and which answers only
   while the endpoints for developers are open. *)
LoggedOutStaysOut ==
  [][\A j \in Jtis : ~Readmitted(j) /\ Readmitted(j)' => DevReset]_vars

(* The blocklist does not grow for ever: each entry is removed some day. *)
BlocklistDrains == \A j \in Jtis : j \in blocklist ~> j \notin blocklist

(* Tokens are not revoked with their account, and a login under way still
   gets one; but once an account is gone its tokens die out. *)
DeletedAccountsFade ==
  \A id \in Ids :
    ~(\E u \in users : u.id = id) ~>
      ~\E j \in Jtis : tokens[j] # None /\ tokens[j].sub = id /\ Accepted(j)
=============================================================================
