------------------------------- MODULE Accounts -------------------------------
(***************************************************************************)
(* Accounts and refresh tokens: register, login, refresh, logout and the   *)
(* deletion of an account, all under one email, each in a transaction of   *)
(* PostgreSQL at READ COMMITTED.                                           *)
(*                                                                         *)
(* An account is named by the request that registered it, a refresh token  *)
(* by the request that it was issued to.  Of row locks two are held while  *)
(* a transaction waits for another one: a refresh's on the token that it   *)
(* has revoked, and a deletion's on the account.  A request reads the      *)
(* locks of the others off their pc.                                       *)
(***************************************************************************)
EXTENDS Integers

CONSTANTS
    Requests,  \* the requests
    Kind,      \* Requests -> "register" | "login" | "refresh" | "logout" | "delete"
    Lifetime,  \* refresh_token_expire_days
    Horizon    \* bound: the last moment of the clock

Issuing == {"login", "refresh"}
Presenting == {"refresh", "logout"}

ASSUME KindAssumption ==
    Kind \in [Requests -> {"register", "delete"} \cup Issuing \cup Presenting]

ASSUME TimeAssumption == Lifetime \in Nat \ {0} /\ Horizon \in Nat

VARIABLES
    now,        \* the clock
    users,      \* the accounts in table users
    inactive,   \* accounts whose is_active is false
    row,        \* refresh_tokens: "none" (not there) | "live" | "revoked"
    pc,         \* per request, where it is
    presented,  \* per request, the token it comes with
    account,    \* per request, the account it works for; of a token, its user_id
    at,         \* per request, the time when it read the clock
    void        \* history: per refresh, the tokens no longer good when it arrived

tables == <<users, inactive, row>>
locals == <<presented, account, at, void>>
vars == <<now, tables, pc, locals>>

Committed == {"done", "lost"}
Ended == Committed \cup {"failed"}
PCs == {"idle", "begun", "found", "checked", "inserting", "cascading"} \cup Ended

\* What clients hold: the tokens of responses that reached them.
Received == { t \in Requests : Kind[t] \in Issuing /\ pc[t] = "done" }

\* The accounts that are or were.
Registered == { u \in Requests : Kind[u] = "register" /\ pc[u] = "done" }

\* expires_at of a token, from the time its request read.
ExpiresAt(t) == at[t] + Lifetime

\* The tokens that were issued, and revoked, removed, expired or of an inactive
\* account.
Void == { t \in Requests : /\ Kind[t] \in Issuing /\ pc[t] \in Committed
                           /\ \/ row[t] # "live"
                              \/ account[t] \in inactive
                              \/ now >= ExpiresAt(t) }

\* Row locks held by a transaction that waits or goes on.
TokenLocked(t) ==
    \E r \in Requests : pc[r] = "inserting" /\ Kind[r] = "refresh" /\ presented[r] = t
AccountLocked(u) == \E r \in Requests : pc[r] = "cascading" /\ account[r] = u

\* A request whose transaction has neither committed nor rolled back.
UnderWay(r) == pc[r] \notin {"idle"} \cup Ended

\* A refresh that waits for the account, and a deletion that waits for the token.
Blocked(r, d) ==
    /\ pc[r] = "inserting" /\ Kind[r] = "refresh"
    /\ pc[d] = "cascading" /\ account[d] = account[r]
-----------------------------------------------------------------------------
Init ==
    /\ now = 0
    /\ users = {}
    /\ inactive = {}
    /\ row = [r \in Requests |-> "none"]
    /\ pc = [r \in Requests |-> "idle"]
    /\ presented = [r \in Requests |-> r]
    /\ account = [r \in Requests |-> r]
    /\ at = [r \in Requests |-> 0]
    /\ void = [r \in Requests |-> {}]

GoTo(r, l) == pc' = [pc EXCEPT ![r] = l]

\* A commit; its response, which matters if it has tokens, can be lost.
Commit(r) == GoTo(r, "done") \/ (Kind[r] \in Issuing /\ GoTo(r, "lost"))

\* A request comes, with a refresh token its client was given if it needs one.
\* A deletion comes with an access token, whose subject is any account.
Arrive(r) ==
    /\ pc[r] = "idle"
    /\ IF Kind[r] \in Presenting
       THEN \E t \in Received : presented' = [presented EXCEPT ![r] = t]
       ELSE UNCHANGED presented
    /\ IF Kind[r] = "delete"
       THEN \E u \in Registered : account' = [account EXCEPT ![r] = u]
       ELSE UNCHANGED account
    /\ void' = [void EXCEPT ![r] = IF Kind[r] = "refresh" THEN Void ELSE {}]
    /\ GoTo(r, "begun")
    /\ UNCHANGED <<now, tables, at>>

\* create_user: get_by_email.
ReadEmail(r) ==
    /\ Kind[r] = "register" /\ pc[r] = "begun"
    /\ GoTo(r, IF users = {} THEN "checked" ELSE "failed")
    /\ UNCHANGED <<now, tables, locals>>

\* create: the INSERT waits for a deletion of the account with the email; an
\* account that is there violates the unique index.
InsertUser(r) ==
    /\ Kind[r] = "register" /\ pc[r] = "checked"
    /\ \A u \in users : ~ AccountLocked(u)
    /\ \/ users = {} /\ users' = {r} /\ Commit(r)
       \/ users # {} /\ GoTo(r, "failed") /\ UNCHANGED users
    /\ UNCHANGED <<now, inactive, row, locals>>

\* authenticate: get_by_email, then the password and the clock.
ReadUser(r) ==
    /\ Kind[r] = "login" /\ pc[r] = "begun"
    /\ \/ \E u \in users \ inactive :
            /\ account' = [account EXCEPT ![r] = u]
            /\ at' = [at EXCEPT ![r] = now]
            /\ GoTo(r, "inserting")
       \/ /\ users \ inactive = {}
          /\ GoTo(r, "failed")
          /\ UNCHANGED <<account, at>>
    /\ UNCHANGED <<now, tables, presented, void>>

\* The checks of refresh_access_token and logout on the token read.
\* Slips: a token is good at the moment it expires; a revoked one is good.
GoodAtExpiry(r) ==
    LET t == presented[r]
    IN  row[t] = "live" /\ (Kind[r] = "refresh" => now <= ExpiresAt(t))
GoodIfRevoked(r) ==
    LET t == presented[r]
    IN  row[t] # "none" /\ (Kind[r] = "refresh" => now < ExpiresAt(t))
Good(r) ==
    LET t == presented[r]
    IN  row[t] = "live" /\ (Kind[r] = "refresh" => now < ExpiresAt(t))

\* get_by_hash.  A logout that finds nothing to revoke has succeeded.
ReadToken(r) ==
    /\ Kind[r] \in {"refresh", "logout"} /\ pc[r] = "begun"
    /\ at' = [at EXCEPT ![r] = IF Kind[r] = "refresh" THEN now ELSE @]
    /\ GoTo(r, CASE Good(r) -> "found"
                 [] ~ Good(r) /\ Kind[r] = "logout" -> "done"
                 [] OTHER -> "failed")
    /\ UNCHANGED <<now, tables, presented, account, void>>

\* get_by_id of the user of the token, or of the subject of the access token
\* (get_current_active_user).
ReadOwner(r) ==
    /\ \/ /\ Kind[r] = "refresh" /\ pc[r] = "found"
          /\ account' = [account EXCEPT ![r] = account[presented[r]]]
       \/ /\ Kind[r] = "delete" /\ pc[r] = "begun"
          /\ UNCHANGED account
    /\ GoTo(r, IF account'[r] \in users \ inactive THEN "checked" ELSE "failed")
    /\ UNCHANGED <<now, tables, presented, at, void>>

\* A slip: revoke commits.
RevokeAtOnce(r) ==
    /\ Kind[r] = "refresh" /\ pc[r] = "checked"
    /\ ~ TokenLocked(presented[r])
    /\ row' = [row EXCEPT ![presented[r]] = IF @ = "none" THEN @ ELSE "revoked"]
    /\ GoTo(r, IF row[presented[r]] = "none" THEN "failed" ELSE "inserting")
    /\ UNCHANGED <<now, users, inactive, locals>>

\* The flush of a refresh, first part: the UPDATE that revokes waits for the
\* lock of the row; it fails when there is no row, and goes on when another
\* request has revoked the token meanwhile.
Revoke(r) ==
    /\ Kind[r] = "refresh" /\ pc[r] = "checked"
    /\ ~ TokenLocked(presented[r])
    /\ GoTo(r, IF row[presented[r]] = "none" THEN "failed" ELSE "inserting")
    /\ UNCHANGED <<now, tables, locals>>

\* The rows of a new token and of the one it replaces.
Issued(r) ==
    [t \in Requests |-> CASE t = r -> "live"
                          [] t # r /\ Kind[r] = "refresh" /\ t = presented[r] -> "revoked"
                          [] OTHER -> row[t]]

\* A slip: an integrity error is taken for a conflict and tried again.
InsertAgain(r) ==
    /\ Kind[r] \in Issuing /\ pc[r] = "inserting"
    /\ ~ AccountLocked(account[r])
    /\ account[r] \in users /\ row' = Issued(r) /\ Commit(r)
    /\ UNCHANGED <<now, users, inactive, locals>>

\* A slip: a table without the foreign key.
InsertUnchecked(r) ==
    /\ Kind[r] \in Issuing /\ pc[r] = "inserting"
    /\ row' = Issued(r) /\ Commit(r)
    /\ UNCHANGED <<now, users, inactive, locals>>

\* The rest of it and the commit: the INSERT of the new token, whose foreign
\* key waits for a deletion of the account and fails without the account.
InsertToken(r) ==
    /\ Kind[r] \in Issuing /\ pc[r] = "inserting"
    /\ ~ AccountLocked(account[r])
    /\ \/ account[r] \in users /\ row' = Issued(r) /\ Commit(r)
       \/ account[r] \notin users /\ GoTo(r, "failed") /\ UNCHANGED row
    /\ UNCHANGED <<now, users, inactive, locals>>

\* logout: the UPDATE and its commit.
Logout(r) ==
    /\ Kind[r] = "logout" /\ pc[r] = "found"
    /\ ~ TokenLocked(presented[r])
    /\ \/ row[presented[r]] = "none" /\ GoTo(r, "failed") /\ UNCHANGED row
       \/ /\ row[presented[r]] # "none"
          /\ row' = [row EXCEPT ![presented[r]] = "revoked"]
          /\ Commit(r)
    /\ UNCHANGED <<now, users, inactive, locals>>

\* delete_current_user: the DELETE of the account takes its lock.  A row that
\* is not there any more is deleted with success.
DeleteUser(r) ==
    /\ Kind[r] = "delete" /\ pc[r] = "checked"
    /\ ~ AccountLocked(account[r])
    /\ \/ account[r] \in users /\ GoTo(r, "cascading")
       \/ account[r] \notin users /\ Commit(r)
    /\ UNCHANGED <<now, tables, locals>>

\* A slip: the foreign key empties user_id instead (ON DELETE SET NULL).
CascadeToNull(r) ==
    /\ pc[r] = "cascading"
    /\ \A t \in Requests : TokenLocked(t) => account[t] # account[r]
    /\ users' = users \ {account[r]}
    /\ account' = [t \in Requests |-> IF account[t] = account[r] THEN "null" ELSE account[t]]
    /\ Commit(r)
    /\ UNCHANGED <<now, inactive, row, presented, at, void>>

\* ... and its foreign keys delete the tokens, waiting for those that are
\* locked; then it commits.
Cascade(r) ==
    /\ pc[r] = "cascading"
    /\ \A t \in Requests : TokenLocked(t) => account[t] # account[r]
    /\ users' = users \ {account[r]}
    /\ row' = [t \in Requests |-> IF account[t] = account[r] THEN "none" ELSE row[t]]
    /\ Commit(r)
    /\ UNCHANGED <<now, inactive, locals>>

\* The two wait for each other: PostgreSQL aborts one of them.
Deadlock(r, d) ==
    /\ Blocked(r, d)
    /\ GoTo(r, "failed") \/ GoTo(d, "failed")
    /\ UNCHANGED <<now, tables, locals>>

\* A request ends before its commit: a wrong password, an error of the
\* database, a client or a worker that is gone.  The session rolls back.
Fail(r) ==
    /\ UnderWay(r)
    /\ GoTo(r, "failed")
    /\ UNCHANGED <<now, tables, locals>>
-----------------------------------------------------------------------------
\* is_active is set to false by hand; no code of the service does it.
Deactivate ==
    /\ users \ inactive # {}
    /\ inactive' = inactive \cup users
    /\ UNCHANGED <<now, users, row, pc, locals>>

Tick ==
    /\ now < Horizon
    /\ now' = now + 1
    /\ UNCHANGED <<tables, pc, locals>>

\* The system may stop when no request is under way.
Quiet == /\ \A r \in Requests : ~ UnderWay(r)
         /\ UNCHANGED vars

Serve(r) ==
    \/ ReadEmail(r) \/ InsertUser(r) \/ ReadUser(r) \/ ReadToken(r) \/ ReadOwner(r)
    \/ Revoke(r) \/ InsertToken(r) \/ Logout(r) \/ DeleteUser(r) \/ Cascade(r)

Next == \/ \E r \in Requests : Arrive(r) \/ Serve(r) \/ Fail(r)
        \/ \E r, d \in Requests : Deadlock(r, d)
        \/ Deactivate \/ Tick \/ Quiet

Spec == Init /\ [][Next]_vars

-----------------------------------------------------------------------------
(* Properties. *)

\* Every variable has its type.
TypeOK ==
    /\ now \in Nat
    /\ users \subseteq Requests
    /\ inactive \subseteq Requests
    /\ row \in [Requests -> {"none", "live", "revoked"}]
    /\ pc \in [Requests -> PCs]
    /\ presented \in [Requests -> Requests]
    /\ account \in [Requests -> Requests]
    /\ at \in [Requests -> Nat]
    /\ void \in [Requests -> SUBSET Requests]

\* One account has the email, and every refresh token belongs to an account
\* that exists, however deletions meet logins and refreshes.
OwnersExist ==
    /\ \A u, v \in users : u = v
    /\ \A t \in Requests : row[t] # "none" => account[t] \in users

\* A refresh yields a token only from one that was still good when the request
\* arrived: what was exchanged, logged out or deleted before, or had expired, is
\* of no use, nor is a token of an account deactivated before.
SpentStaysSpent ==
    \A r \in Requests :
        Kind[r] = "refresh" /\ pc[r] \in Committed => presented[r] \notin void[r]

\* A token is lost to its client only by a logout or for a successor: refreshes
\* that fail, at whatever point, leave it as it was.
RevokedForReason ==
    \A t \in Requests : row[t] = "revoked" =>
        \E r \in Requests : /\ presented[r] = t /\ pc[r] \in Committed
                            /\ \/ Kind[r] = "logout"
                               \/ Kind[r] = "refresh" /\ row[r] # "none"

\* The next statement of a request waits for a row that another one has locked.
Waits(r) ==
    \/ Kind[r] = "register" /\ pc[r] = "checked" /\ \E u \in users : AccountLocked(u)
    \/ Kind[r] = "refresh" /\ pc[r] = "checked" /\ TokenLocked(presented[r])
    \/ Kind[r] = "logout" /\ pc[r] = "found" /\ TokenLocked(presented[r])
    \/ Kind[r] = "delete" /\ pc[r] = "checked" /\ AccountLocked(account[r])
    \/ pc[r] = "inserting" /\ AccountLocked(account[r])
    \/ pc[r] = "cascading" /\ \E t \in Requests : TokenLocked(t) /\ account[t] = account[r]

\* Refreshes and deletions that block each other are a deadlock that PostgreSQL
\* resolves, and there is no other circle of requests that wait: as long as any
\* is under way, one of them does not wait, or two are in such a deadlock.
WaitsEnd ==
    /\ (\E r \in Requests : UnderWay(r)) =>
          \/ \E r \in Requests : UnderWay(r) /\ ~ Waits(r)
          \/ \E r, d \in Requests : Blocked(r, d)
    /\ \A r, d \in Requests : Blocked(r, d) => Waits(r) /\ Waits(d)

\* A request has a statement whose condition is met: the guards of Serve.
Ready(r) ==
    \/ pc[r] = "begun"
    \/ pc[r] = "found" /\ Kind[r] = "refresh"
    \/ pc[r] = "found" /\ Kind[r] = "logout" /\ ~ TokenLocked(presented[r])
    \/ pc[r] = "checked" /\ Kind[r] = "register" /\ \A u \in users : ~ AccountLocked(u)
    \/ pc[r] = "checked" /\ Kind[r] = "refresh" /\ ~ TokenLocked(presented[r])
    \/ pc[r] = "checked" /\ Kind[r] = "delete" /\ ~ AccountLocked(account[r])
    \/ pc[r] = "inserting" /\ Kind[r] \in Issuing /\ ~ AccountLocked(account[r])
    \/ /\ pc[r] = "cascading"
       /\ \A t \in Requests : TokenLocked(t) => account[t] # account[r]

\* A request under way that no lock holds up has a statement to do.
OnlyLocksHoldUp == \A r \in Requests : UnderWay(r) /\ ~ Waits(r) => Ready(r)

\* As long as a request is under way, one can go on: nothing but a lock holds
\* one up.  No step returns to an earlier one, so every request ends.
SomeoneGoesOn ==
    /\ WaitsEnd /\ OnlyLocksHoldUp
    /\ \A r \in Requests : Ready(r) <=> ENABLED Serve(r)
    /\ \A r, d \in Requests : Blocked(r, d) => ENABLED Deadlock(r, d)
=============================================================================
