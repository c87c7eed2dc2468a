---------------------------- MODULE AccountsProofs ----------------------------
(***************************************************************************)
(* Theorems about Accounts, for any requests, lifetime and clock.          *)
(***************************************************************************)
EXTENDS Accounts, TLAPS

-----------------------------------------------------------------------------
(* Type correctness. *)

\* The types hold at the start.
LEMMA InitType == Init => TypeOK
BY TimeAssumption DEF Init, TypeOK, PCs

\* A commit keeps the type of pc and changes only the place of its request.
LEMMA CommitType ==
  ASSUME TypeOK, NEW r \in Requests, Commit(r)
  PROVE  /\ pc' \in [Requests -> PCs]
         /\ pc'[r] \in Committed
         /\ \A q \in Requests \ {r} : pc'[q] = pc[q]
BY DEF TypeOK, Commit, GoTo, PCs, Ended, Committed

\* So does any other move.
LEMMA GoToType ==
  ASSUME TypeOK, NEW r \in Requests, NEW l \in PCs, GoTo(r, l)
  PROVE  /\ pc' \in [Requests -> PCs]
         /\ pc'[r] = l
         /\ \A q \in Requests \ {r} : pc'[q] = pc[q]
BY DEF TypeOK, GoTo

\* Every step keeps the types.
LEMMA NextType == TypeOK /\ [Next]_vars => TypeOK'
<1> SUFFICES ASSUME TypeOK, [Next]_vars PROVE TypeOK'
  OBVIOUS
<1> USE DEF TypeOK, PCs, Ended, Committed, tables, locals
<1>1. ASSUME NEW r \in Requests, Arrive(r) PROVE TypeOK'
  <2>1. Received \subseteq Requests /\ Registered \subseteq Requests /\ Void \subseteq Requests
    BY DEF Received, Registered, Void
  <2> QED BY <1>1, <2>1 DEF Arrive, GoTo
<1>2. ASSUME NEW r \in Requests, ReadEmail(r) PROVE TypeOK'
  BY <1>2 DEF ReadEmail, GoTo
<1>3. ASSUME NEW r \in Requests, InsertUser(r) PROVE TypeOK'
  BY <1>3, CommitType DEF InsertUser, GoTo
<1>4. ASSUME NEW r \in Requests, ReadUser(r) PROVE TypeOK'
  <2>1. pc' \in [Requests -> PCs] /\ account' \in [Requests -> Requests]
    BY <1>4 DEF ReadUser, GoTo
  <2>2. at' \in [Requests -> Nat]
    BY <1>4 DEF ReadUser
  <2> QED BY <1>4, <2>1, <2>2 DEF ReadUser
<1>5. ASSUME NEW r \in Requests, ReadToken(r) PROVE TypeOK'
  BY <1>5 DEF ReadToken, GoTo
<1>6. ASSUME NEW r \in Requests, ReadOwner(r) PROVE TypeOK'
  BY <1>6 DEF ReadOwner, GoTo
<1>7. ASSUME NEW r \in Requests, Revoke(r) PROVE TypeOK'
  BY <1>7 DEF Revoke, GoTo
<1>8. ASSUME NEW r \in Requests, InsertToken(r) PROVE TypeOK'
  <2>1. Issued(r) \in [Requests -> {"none", "live", "revoked"}]
    BY DEF Issued
  <2> QED BY <1>8, <2>1, CommitType DEF InsertToken, GoTo
<1>9. ASSUME NEW r \in Requests, Logout(r) PROVE TypeOK'
  BY <1>9, CommitType DEF Logout, GoTo
<1>10. ASSUME NEW r \in Requests, DeleteUser(r) PROVE TypeOK'
  BY <1>10, CommitType DEF DeleteUser, GoTo
<1>11. ASSUME NEW r \in Requests, Cascade(r) PROVE TypeOK'
  BY <1>11, CommitType DEF Cascade
<1>12. ASSUME NEW r \in Requests, Fail(r) PROVE TypeOK'
  BY <1>12 DEF Fail, UnderWay, GoTo
<1>13. ASSUME NEW r \in Requests, NEW d \in Requests, Deadlock(r, d) PROVE TypeOK'
  BY <1>13 DEF Deadlock, Blocked, GoTo
<1>14. CASE Deactivate
  BY <1>14 DEF Deactivate
<1>15. CASE Tick
  BY <1>15 DEF Tick
<1>16. CASE UNCHANGED vars
  BY <1>16 DEF vars
<1> QED
  BY <1>1, <1>2, <1>3, <1>4, <1>5, <1>6, <1>7, <1>8, <1>9, <1>10, <1>11, <1>12,
     <1>13, <1>14, <1>15, <1>16 DEF Next, Serve, Quiet

\* Every variable has its type in every reachable state.
THEOREM TypeCorrect == Spec => []TypeOK
BY InitType, NextType, PTL DEF Spec
-----------------------------------------------------------------------------
(* What is true of tokens and of requests. *)

\* The places of a refresh that has found its token and its account in order.
Accepted == {"checked", "inserting"} \cup Committed

\* A row belongs to a request that has committed and to an account.
TokenInv(t) ==
    row[t] # "none" =>
        Kind[t] \in Issuing /\ pc[t] \in Committed /\ account[t] \in users

\* A request presents a token of a committed request, and what was void when it
\* arrived stays void: the clock does not go back.  A refresh finds such a token
\* only for its account to be refused.  An accepted one works for the account of
\* its token, which was not void.
RequestInv(r) ==
    /\ pc[r] = "cascading" => Kind[r] = "delete"
    /\ Kind[r] \in Presenting /\ pc[r] # "idle" =>
         /\ presented[r] # r
         /\ Kind[presented[r]] \in Issuing
         /\ pc[presented[r]] \in Committed
    /\ \A t \in void[r] :
         /\ Kind[t] \in Issuing /\ pc[t] \in Committed
         /\ row[t] # "live" \/ account[t] \in inactive \/ now >= ExpiresAt(t)
    /\ Kind[r] = "refresh" /\ pc[r] = "found" /\ presented[r] \in void[r] =>
         account[presented[r]] \in inactive
    /\ Kind[r] = "refresh" /\ pc[r] \in Accepted =>
         presented[r] \notin void[r] /\ account[r] = account[presented[r]]

RowsInv ==
    /\ OwnersExist
    /\ RevokedForReason
    /\ \A t \in Requests : TokenInv(t)
    /\ \A r \in Requests : RequestInv(r)

Inv == TypeOK /\ RowsInv

\* The invariant holds at the start.
LEMMA InitInv == Init => Inv
BY InitType DEF Init, Inv, RowsInv, OwnersExist, RevokedForReason, TokenInv, RequestInv,
                Accepted, Committed

\* A request that moves on and leaves the tables, the locals and its token's
\* request alone keeps the invariant, if it was accepted before it is now.
LEMMA MovingKeepsInv ==
  ASSUME Inv, NEW r \in Requests, pc[r] \notin {"idle"} \cup Ended,
         pc' \in [Requests -> PCs],
         \A q \in Requests \ {r} : pc'[q] = pc[q],
         pc'[r] # "found",
         pc'[r] = "cascading" => Kind[r] = "delete",
         Kind[r] = "refresh" /\ pc'[r] \in Accepted => pc[r] \in Accepted,
         UNCHANGED <<now, tables, locals>>
  PROVE  RowsInv'
<1> USE DEF Inv, RowsInv, TypeOK, tables, locals
<1>1. \A q \in Requests : pc[q] \in Committed => pc'[q] = pc[q]
  BY DEF Committed, Ended
<1>2. OwnersExist' /\ RevokedForReason'
  BY <1>1 DEF OwnersExist, RevokedForReason
<1>3. \A t \in Requests : TokenInv(t)'
  BY <1>1 DEF TokenInv
<1>4. ASSUME NEW q \in Requests PROVE RequestInv(q)'
  BY <1>1, <1>4 DEF RequestInv, Accepted, ExpiresAt
<1> QED BY <1>2, <1>3, <1>4

\* An arrival: its token is a committed request's, and what it calls void is.
LEMMA ArriveKeepsInv ==
  ASSUME Inv, TypeOK', NEW r \in Requests, Arrive(r)
  PROVE  RowsInv'
<1> USE DEF Inv, RowsInv, TypeOK, tables
<1>1. /\ pc[r] = "idle" /\ pc'[r] = "begun"
      /\ \A q \in Requests \ {r} : /\ pc'[q] = pc[q] /\ presented'[q] = presented[q]
                                   /\ void'[q] = void[q] /\ account'[q] = account[q]
      /\ UNCHANGED <<now, users, inactive, row, at>>
  BY DEF Arrive, GoTo
<1>2. \A q \in Requests : pc[q] \in Committed => pc'[q] = pc[q] /\ account'[q] = account[q]
  BY <1>1 DEF Committed
<1>3. OwnersExist'
  BY <1>1, <1>2 DEF OwnersExist, TokenInv
<1>4. RevokedForReason'
  BY <1>1, <1>2 DEF RevokedForReason, Committed
<1>5. \A t \in Requests : TokenInv(t)'
  BY <1>1, <1>2 DEF TokenInv
<1>6. ASSUME NEW q \in Requests, q # r PROVE RequestInv(q)'
  BY <1>1, <1>2, <1>6 DEF RequestInv, Accepted, ExpiresAt, Committed, Presenting
<1>7. RequestInv(r)'
  <2>1. Kind[r] \in Presenting =>
          presented'[r] # r /\ Kind[presented'[r]] \in Issuing /\ pc'[presented'[r]] \in Committed
    BY <1>1 DEF Arrive, Received, Committed
  <2>2. \A t \in void'[r] : /\ Kind[t] \in Issuing /\ pc'[t] \in Committed
                            /\ \/ row'[t] # "live"
                               \/ account'[t] \in inactive'
                               \/ now' >= at'[t] + Lifetime
    BY <1>1, <1>2 DEF Arrive, Void, ExpiresAt
  <2> QED BY <1>1, <2>1, <2>2 DEF RequestInv, Accepted, Committed, ExpiresAt
<1> QED BY <1>3, <1>4, <1>5, <1>6, <1>7

\* The reads of an account and of the clock.
LEMMA ReadingKeepsInv ==
  ASSUME Inv, TypeOK', NEW r \in Requests, ReadUser(r) \/ ReadToken(r) \/ ReadOwner(r)
  PROVE  RowsInv'
<1> USE DEF Inv, RowsInv, TypeOK, tables
<1>1. /\ pc[r] \in {"begun", "found"} /\ pc'[r] # "cascading"
      /\ \A q \in Requests \ {r} : /\ pc'[q] = pc[q] /\ at'[q] = at[q]
                                   /\ account'[q] = account[q]
      /\ UNCHANGED <<now, users, inactive, row, presented, void>>
  BY DEF ReadUser, ReadToken, ReadOwner, GoTo
<1>2. \A q \in Requests : pc[q] \in Committed =>
        q # r /\ pc'[q] = pc[q] /\ account'[q] = account[q] /\ at'[q] = at[q]
  BY <1>1 DEF Committed
<1>3. OwnersExist' /\ \A t \in Requests : TokenInv(t)'
  BY <1>1, <1>2 DEF OwnersExist, TokenInv
<1>4. RevokedForReason'
  BY <1>1, <1>2 DEF RevokedForReason
<1>5. ASSUME NEW q \in Requests, q # r PROVE RequestInv(q)'
  BY <1>1, <1>2, <1>5 DEF RequestInv, Accepted, ExpiresAt, Committed, Presenting
<1>6. RequestInv(r)'
  <2>1. /\ Kind[r] \in Presenting =>
             /\ presented[r] # r /\ Kind[presented[r]] \in Issuing
             /\ pc[presented[r]] \in Committed
        /\ \A t \in void[r] :
             /\ Kind[t] \in Issuing /\ pc[t] \in Committed
             /\ \/ row[t] # "live"
                \/ account[t] \in inactive
                \/ now >= at[t] + Lifetime
    BY <1>1 DEF RequestInv, ExpiresAt
  <2>2. CASE Kind[r] # "refresh"
    BY <1>1, <1>2, <2>1, <2>2 DEF RequestInv, ExpiresAt
  <2>3. CASE Kind[r] = "refresh" /\ ReadToken(r)
    <3>1. \/ pc'[r] = "failed"
          \/ /\ pc'[r] = "found" /\ row[presented[r]] = "live"
             /\ now < at[presented[r]] + Lifetime
      BY <2>3 DEF ReadToken, Good, GoTo, ExpiresAt
    <3>2. \A t \in void[r] : row[t] # "live" \/ account[t] \in inactive
                                          \/ now >= at'[t] + Lifetime
      BY <1>2, <2>1
    <3>3. presented[r] \in void[r] /\ pc'[r] = "found" =>
            account'[presented[r]] \in inactive
      <4>1. at[presented[r]] + Lifetime \in Nat
        BY TimeAssumption
      <4> QED BY <1>2, <2>1, <3>1, <4>1
    <3>4. pc'[r] \notin Accepted /\ pc'[r] # "cascading"
      BY <3>1 DEF Accepted, Committed
    <3> QED BY <1>1, <1>2, <2>1, <2>3, <3>2, <3>3, <3>4 DEF RequestInv, ExpiresAt
  <2>4. CASE Kind[r] = "refresh" /\ ReadOwner(r)
    <3>1. \/ pc'[r] = "failed"
          \/ /\ pc[r] = "found" /\ pc'[r] = "checked"
             /\ account'[r] = account[presented[r]]
             /\ account[presented[r]] \notin inactive
      BY <2>4 DEF ReadOwner, GoTo
    <3> QED BY <1>1, <1>2, <2>1, <2>4, <3>1
            DEF RequestInv, Accepted, Committed, ExpiresAt, Presenting
  <2> QED BY <2>2, <2>3, <2>4 DEF ReadUser
<1> QED BY <1>3, <1>4, <1>5, <1>6

\* A registration: with an account that is there already nothing is stored.
LEMMA InsertUserKeepsInv ==
  ASSUME Inv, NEW r \in Requests, InsertUser(r)
  PROVE  RowsInv'
<1> USE DEF Inv, RowsInv, TypeOK, tables, locals
<1>1. CASE users # {}
  BY <1>1, GoToType, MovingKeepsInv DEF InsertUser, PCs, Ended, Committed
<1>2. CASE users = {}
  <2>1. /\ users' = {r} /\ Kind[r] = "register" /\ pc[r] = "checked"
        /\ pc'[r] \in Committed
        /\ \A q \in Requests \ {r} : pc'[q] = pc[q]
        /\ UNCHANGED <<now, inactive, row, presented, account, at, void>>
    BY <1>2, CommitType DEF InsertUser
  <2>2. \A t \in Requests : row[t] = "none"
    BY <1>2 DEF TokenInv
  <2>3. OwnersExist' /\ RevokedForReason' /\ \A t \in Requests : TokenInv(t)'
    BY <2>1, <2>2 DEF OwnersExist, RevokedForReason, TokenInv
  <2>4. \A q \in Requests : pc[q] \in Committed => q # r /\ pc'[q] = pc[q]
    BY <2>1 DEF Committed
  <2>5. ASSUME NEW q \in Requests, q # r PROVE RequestInv(q)'
    BY <2>1, <2>4, <2>5 DEF RequestInv, Accepted, ExpiresAt
  <2>6. RequestInv(r)'
    BY <2>1, <2>4 DEF RequestInv, Committed, Presenting, ExpiresAt
  <2> QED BY <2>3, <2>5, <2>6
<1> QED BY <1>1, <1>2

\* A token is issued, and with a refresh another one revoked: the new one is
\* the reason.
LEMMA InsertTokenKeepsInv ==
  ASSUME Inv, NEW r \in Requests, InsertToken(r)
  PROVE  RowsInv'
<1> USE DEF Inv, RowsInv, TypeOK, tables, locals
<1>1. CASE account[r] \notin users
  BY <1>1, GoToType, MovingKeepsInv DEF InsertToken, PCs, Ended, Committed, Accepted
<1>2. CASE account[r] \in users
  <2>1. /\ Kind[r] \in Issuing /\ pc[r] = "inserting" /\ pc'[r] \in Committed
        /\ \A q \in Requests \ {r} : pc'[q] = pc[q]
        /\ UNCHANGED <<now, users, inactive, presented, account, at, void>>
    BY <1>2, CommitType DEF InsertToken
  <2>2. /\ row'[r] = "live"
        /\ \A t \in Requests \ {r} :
             row'[t] = IF Kind[r] = "refresh" /\ t = presented[r] THEN "revoked" ELSE row[t]
    BY <1>2 DEF InsertToken, Issued
  <2>3. pc[r] \notin Committed /\ \A q \in Requests : pc[q] \in Committed => pc'[q] = pc[q]
    BY <2>1 DEF Committed
  <2>4. Kind[r] = "refresh" =>
          /\ presented[r] # r /\ Kind[presented[r]] \in Issuing
          /\ pc[presented[r]] \in Committed /\ account[r] = account[presented[r]]
    BY <2>1 DEF RequestInv, Presenting, Accepted
  <2>5. \A t \in Requests : TokenInv(t)'
    BY <1>2, <2>1, <2>2, <2>3, <2>4 DEF TokenInv
  <2>6. OwnersExist'
    BY <2>1, <2>5 DEF OwnersExist, TokenInv
  <2>7. RevokedForReason'
    <3> SUFFICES ASSUME NEW t \in Requests, row'[t] = "revoked"
                 PROVE  \E q \in Requests : /\ presented[q] = t /\ pc'[q] \in Committed
                                            /\ \/ Kind[q] = "logout"
                                               \/ Kind[q] = "refresh" /\ row'[q] # "none"
      BY <2>1 DEF RevokedForReason
    <3>1. CASE Kind[r] = "refresh" /\ t = presented[r]
      BY <2>1, <2>2, <3>1
    <3>2. CASE row[t] = "revoked"
      <4>1. PICK q \in Requests : /\ presented[q] = t /\ pc[q] \in Committed
                                  /\ \/ Kind[q] = "logout"
                                     \/ Kind[q] = "refresh" /\ row[q] # "none"
        BY <3>2 DEF RevokedForReason
      <4> QED BY <2>2, <2>3, <4>1
    <3> QED BY <2>2, <3>1, <3>2
  <2>8. ASSUME NEW q \in Requests PROVE RequestInv(q)'
    <3>1. \A t \in void[q] : t # r /\ (row[t] # "live" => row'[t] # "live")
      BY <2>2, <2>3 DEF RequestInv
    <3>2. Kind[q] = "refresh" /\ pc'[q] \in Accepted => pc[q] \in Accepted
      BY <2>1, <2>3 DEF Accepted
    <3>3. pc'[q] \in {"found", "cascading"} => pc[q] = pc'[q]
      BY <2>1 DEF Committed
    <3>4. Kind[q] \in Presenting /\ pc'[q] # "idle" => pc[q] # "idle"
      BY <2>1
    <3> QED BY <2>1, <2>3, <3>1, <3>2, <3>3, <3>4 DEF RequestInv, ExpiresAt
  <2> QED BY <2>5, <2>6, <2>7, <2>8
<1> QED BY <1>1, <1>2

\* A logout is the reason of what it revokes.
LEMMA LogoutKeepsInv ==
  ASSUME Inv, NEW r \in Requests, Logout(r)
  PROVE  RowsInv'
<1> USE DEF Inv, RowsInv, TypeOK, tables, locals
<1>1. CASE row[presented[r]] = "none"
  BY <1>1, GoToType, MovingKeepsInv DEF Logout, PCs, Ended, Committed
<1>2. CASE row[presented[r]] # "none"
  <2>1. /\ Kind[r] = "logout" /\ pc[r] = "found" /\ pc'[r] \in Committed
        /\ \A q \in Requests \ {r} : pc'[q] = pc[q]
        /\ UNCHANGED <<now, users, inactive, presented, account, at, void>>
        /\ \A t \in Requests : row'[t] = IF t = presented[r] THEN "revoked" ELSE row[t]
    BY <1>2, CommitType DEF Logout
  <2>2. \A q \in Requests : pc[q] \in Committed => pc'[q] = pc[q]
    BY <2>1 DEF Committed
  <2>3. OwnersExist' /\ \A t \in Requests : TokenInv(t)'
    BY <1>2, <2>1, <2>2 DEF OwnersExist, TokenInv
  <2>4. RevokedForReason'
    BY <2>1, <2>2 DEF RevokedForReason
  <2>5. ASSUME NEW q \in Requests PROVE RequestInv(q)'
    <3>1. \A t \in void[q] : row[t] # "live" => row'[t] # "live"
      BY <2>1
    <3> QED BY <2>1, <2>2, <3>1 DEF RequestInv, ExpiresAt, Accepted, Committed
  <2> QED BY <2>3, <2>4, <2>5
<1> QED BY <1>1, <1>2

\* A deletion takes all rows of its account, the revoked with their successors.
LEMMA CascadeKeepsInv ==
  ASSUME Inv, NEW r \in Requests, Cascade(r)
  PROVE  RowsInv'
<1> USE DEF Inv, RowsInv, TypeOK, tables, locals
<1>1. /\ pc[r] = "cascading" /\ Kind[r] = "delete" /\ pc'[r] \in Committed
      /\ \A q \in Requests \ {r} : pc'[q] = pc[q]
      /\ UNCHANGED <<now, inactive, presented, account, at, void>>
      /\ users' = users \ {account[r]}
      /\ \A t \in Requests : row'[t] = IF account[t] = account[r] THEN "none" ELSE row[t]
  BY CommitType DEF Cascade, RequestInv
<1>2. \A q \in Requests : pc[q] \in Committed => pc'[q] = pc[q]
  BY <1>1 DEF Committed
<1>3. OwnersExist' /\ \A t \in Requests : TokenInv(t)'
  BY <1>1, <1>2 DEF OwnersExist, TokenInv
<1>4. RevokedForReason'
  <2> SUFFICES ASSUME NEW t \in Requests, row'[t] = "revoked"
               PROVE  \E q \in Requests : /\ presented[q] = t /\ pc'[q] \in Committed
                                          /\ \/ Kind[q] = "logout"
                                             \/ Kind[q] = "refresh" /\ row'[q] # "none"
    BY <1>1 DEF RevokedForReason
  <2>1. row[t] = "revoked" /\ account[t] # account[r]
    BY <1>1
  <2>2. PICK q \in Requests : /\ presented[q] = t /\ pc[q] \in Committed
                              /\ \/ Kind[q] = "logout"
                                 \/ Kind[q] = "refresh" /\ row[q] # "none"
    BY <2>1 DEF RevokedForReason
  <2>3. Kind[q] = "refresh" => account[q] = account[t]
    BY <2>2 DEF RequestInv, Accepted
  <2> QED BY <1>1, <1>2, <2>1, <2>2, <2>3
<1>5. ASSUME NEW q \in Requests PROVE RequestInv(q)'
  <2>1. \A t \in void[q] : row[t] # "live" => row'[t] # "live"
    BY <1>1
  <2> QED BY <1>1, <1>2, <2>1 DEF RequestInv, ExpiresAt, Accepted, Committed, Presenting
<1> QED BY <1>3, <1>4, <1>5

\* An account that becomes inactive makes more tokens void.
LEMMA DeactivateKeepsInv ==
  ASSUME Inv, Deactivate
  PROVE  RowsInv'
<1> USE DEF Inv, RowsInv, Deactivate, locals
<1>1. OwnersExist' /\ RevokedForReason' /\ \A t \in Requests : TokenInv(t)'
  BY DEF OwnersExist, RevokedForReason, TokenInv
<1>2. \A r \in Requests : RequestInv(r)'
  BY DEF RequestInv, ExpiresAt
<1> QED BY <1>1, <1>2

\* Every step keeps the invariant.
LEMMA NextInv == Inv /\ [Next]_vars => Inv'
<1> SUFFICES ASSUME Inv, [Next]_vars PROVE RowsInv'
  BY NextType DEF Inv
<1>0. TypeOK /\ TypeOK'
  BY NextType DEF Inv
<1>1. ASSUME NEW r \in Requests, Arrive(r) PROVE RowsInv'
  BY <1>0, <1>1, ArriveKeepsInv
<1>2. ASSUME NEW r \in Requests, ReadEmail(r) PROVE RowsInv'
  BY <1>0, <1>2, GoToType, MovingKeepsInv DEF ReadEmail, PCs, Ended, Committed
<1>3. ASSUME NEW r \in Requests, InsertUser(r) PROVE RowsInv'
  BY <1>3, InsertUserKeepsInv
<1>4. ASSUME NEW r \in Requests, ReadUser(r) \/ ReadToken(r) \/ ReadOwner(r) PROVE RowsInv'
  BY <1>0, <1>4, ReadingKeepsInv
<1>5. ASSUME NEW r \in Requests, Revoke(r) PROVE RowsInv'
  BY <1>0, <1>5, GoToType, MovingKeepsInv DEF Revoke, PCs, Ended, Committed, Accepted
<1>6. ASSUME NEW r \in Requests, InsertToken(r) PROVE RowsInv'
  BY <1>6, InsertTokenKeepsInv
<1>7. ASSUME NEW r \in Requests, Logout(r) PROVE RowsInv'
  BY <1>7, LogoutKeepsInv
<1>8. ASSUME NEW r \in Requests, DeleteUser(r) PROVE RowsInv'
  <2>1. CASE account[r] \in users
    BY <1>0, <1>8, <2>1, GoToType, MovingKeepsInv DEF DeleteUser, PCs, Ended, Committed
  <2>2. CASE account[r] \notin users
    BY <1>0, <1>8, <2>2, CommitType, MovingKeepsInv DEF DeleteUser, Ended, Committed
  <2> QED BY <2>1, <2>2
<1>9. ASSUME NEW r \in Requests, Cascade(r) PROVE RowsInv'
  BY <1>9, CascadeKeepsInv
<1>10. ASSUME NEW r \in Requests, Fail(r) PROVE RowsInv'
  BY <1>0, <1>10, GoToType, MovingKeepsInv DEF Fail, UnderWay, PCs, Ended, Committed, Accepted
<1>11. ASSUME NEW r \in Requests, NEW d \in Requests, Deadlock(r, d) PROVE RowsInv'
  BY <1>0, <1>11, GoToType, MovingKeepsInv DEF Deadlock, Blocked, PCs, Ended, Committed, Accepted
<1>12. CASE Deactivate
  BY <1>12, DeactivateKeepsInv
<1>13. CASE Tick \/ UNCHANGED vars
  <2>1. UNCHANGED <<tables, pc, locals>> /\ now' >= now
    BY <1>0, <1>13 DEF Tick, vars, TypeOK
  <2>2. OwnersExist' /\ RevokedForReason' /\ \A t \in Requests : TokenInv(t)'
    BY <2>1 DEF Inv, RowsInv, OwnersExist, RevokedForReason, TokenInv, tables, locals
  <2>3. ASSUME NEW r \in Requests PROVE RequestInv(r)'
    <3>1. \A t \in void[r] : now >= ExpiresAt(t) => now' >= ExpiresAt(t)'
      BY <1>0, <2>1, TimeAssumption DEF TypeOK, ExpiresAt, locals
    <3> QED BY <2>1, <2>3, <3>1 DEF Inv, RowsInv, RequestInv, tables, locals
  <2> QED BY <2>2, <2>3 DEF RowsInv
<1> QED
  BY <1>1, <1>2, <1>3, <1>4, <1>5, <1>6, <1>7, <1>8, <1>9, <1>10, <1>11, <1>12, <1>13
     DEF Next, Serve, Quiet

\* The invariant holds in every reachable state.
LEMMA SpecInv == Spec => []Inv
BY InitInv, NextInv, PTL DEF Spec
-----------------------------------------------------------------------------
(* The theorems. *)

\* No two accounts share the email, and no token outlives its account.
THEOREM TokensHaveOwners == Spec => []OwnersExist
<1>1. Inv => OwnersExist
  BY DEF Inv, RowsInv
<1> QED BY <1>1, SpecInv, PTL

\* No refresh that arrives after its token was exchanged, logged out, removed or
\* barred, or has expired, yields a token.
THEOREM SpentTokensAreUseless == Spec => []SpentStaysSpent
<1>1. Inv => SpentStaysSpent
  BY DEF Inv, RowsInv, RequestInv, SpentStaysSpent, Accepted
<1> QED BY <1>1, SpecInv, PTL

\* A token is revoked only by a logout or together with the issue of another.
THEOREM RevocationsHaveReasons == Spec => []RevokedForReason
<1>1. Inv => RevokedForReason
  BY DEF Inv, RowsInv
<1> QED BY <1>1, SpecInv, PTL

\* A locked token's refresh goes on, or waits for a deletion in a deadlock.
LEMMA TokenLockEnds ==
  ASSUME NEW t \in Requests, TokenLocked(t)
  PROVE  \/ \E r \in Requests : UnderWay(r) /\ ~ Waits(r)
         \/ \E r, d \in Requests : Blocked(r, d)
<1>1. PICK r \in Requests : pc[r] = "inserting" /\ Kind[r] = "refresh"
  BY DEF TokenLocked
<1>2. UnderWay(r)
  BY <1>1 DEF UnderWay, Ended, Committed
<1>3. CASE Waits(r)
  <2>1. AccountLocked(account[r])
    BY <1>1, <1>3 DEF Waits
  <2> QED BY <1>1, <2>1 DEF AccountLocked, Blocked
<1> QED BY <1>2, <1>3

\* A locked account's deletion goes on, or waits for a token that is locked.
LEMMA AccountLockEnds ==
  ASSUME NEW u, AccountLocked(u)
  PROVE  \/ \E r \in Requests : UnderWay(r) /\ ~ Waits(r)
         \/ \E r, d \in Requests : Blocked(r, d)
<1>1. PICK d \in Requests : pc[d] = "cascading"
  BY DEF AccountLocked
<1>2. UnderWay(d)
  BY <1>1 DEF UnderWay, Ended, Committed
<1>3. CASE Waits(d)
  BY <1>1, <1>3, TokenLockEnds DEF Waits
<1> QED BY <1>2, <1>3

\* Requests wait for each other in no other way than a refresh and a deletion
\* of the same account do, however many there are; and those two do.
THEOREM OnlyOneDeadlock == Spec => []WaitsEnd
<1>1. ASSUME TypeOK, NEW r \in Requests, UnderWay(r)
      PROVE  \/ \E q \in Requests : UnderWay(q) /\ ~ Waits(q)
             \/ \E q, d \in Requests : Blocked(q, d)
  <2>1. presented[r] \in Requests
    BY <1>1 DEF TypeOK
  <2> QED BY <1>1, <2>1, TokenLockEnds, AccountLockEnds DEF Waits
<1>2. ASSUME Inv, NEW r \in Requests, NEW d \in Requests, Blocked(r, d)
      PROVE  Waits(r) /\ Waits(d)
  <2>1. presented[r] \in Requests
    BY <1>2 DEF Inv, TypeOK
  <2>2. account[presented[r]] = account[d] /\ AccountLocked(account[r])
    BY <1>2 DEF Inv, RowsInv, RequestInv, Accepted, Blocked, AccountLocked
  <2>3. TokenLocked(presented[r])
    BY <1>2 DEF Blocked, TokenLocked
  <2> QED BY <1>2, <2>1, <2>2, <2>3 DEF Blocked, Waits
<1>3. Inv => WaitsEnd
  BY <1>1, <1>2 DEF Inv, WaitsEnd
<1> QED BY <1>3, SpecInv, PTL

\* The places where requests of a kind can be.
KindInv(r) ==
  /\ pc[r] = "found" => Kind[r] \in Presenting
  /\ pc[r] = "checked" => Kind[r] \in {"register", "refresh", "delete"}
  /\ pc[r] = "inserting" => Kind[r] \in Issuing

\* Every step leaves a request where its kind can be.
LEMMA NextKind ==
  ASSUME TypeOK, [Next]_vars, NEW q \in Requests, KindInv(q)
  PROVE  KindInv(q)'
<1> USE DEF TypeOK, KindInv, GoTo, Commit, Presenting, Issuing
<1>1. ASSUME NEW r \in Requests, Arrive(r) \/ Fail(r) PROVE KindInv(q)'
  BY <1>1 DEF Arrive, Fail
<1>2. ASSUME NEW r \in Requests, Serve(r) PROVE KindInv(q)'
  <2>1. CASE ReadEmail(r) \/ ReadUser(r) \/ ReadToken(r)
    BY <2>1 DEF ReadEmail, ReadUser, ReadToken
  <2>2. CASE ReadOwner(r) \/ Revoke(r) \/ DeleteUser(r)
    BY <2>2 DEF ReadOwner, Revoke, DeleteUser
  <2>3. CASE InsertUser(r) \/ InsertToken(r)
    BY <2>3 DEF InsertUser, InsertToken
  <2>4. CASE Logout(r) \/ Cascade(r)
    BY <2>4 DEF Logout, Cascade
  <2> QED BY <1>2, <2>1, <2>2, <2>3, <2>4 DEF Serve
<1>3. ASSUME NEW r \in Requests, NEW d \in Requests, Deadlock(r, d) PROVE KindInv(q)'
  BY <1>3 DEF Deadlock
<1>4. CASE Deactivate \/ Tick \/ UNCHANGED vars
  BY <1>4 DEF Deactivate, Tick, vars
<1> QED BY <1>1, <1>2, <1>3, <1>4 DEF Next, Quiet

\* Nothing but a lock on a row holds a request up, and the locks come to an end
\* as OnlyOneDeadlock says: as long as any request is under way, one has a
\* statement to do or two are in the deadlock that PostgreSQL resolves.
THEOREM SomeoneIsReady ==
  Spec => [](/\ OnlyLocksHoldUp
             /\ (\E r \in Requests : UnderWay(r)) =>
                   \/ \E r \in Requests : UnderWay(r) /\ Ready(r)
                   \/ \E r, d \in Requests : Blocked(r, d))
<1> DEFINE Kinds == \A r \in Requests : KindInv(r)
<1>1. Init => Kinds
  BY DEF Init, KindInv
<1>2. TypeOK /\ Kinds /\ [Next]_vars => Kinds'
  BY NextKind
<1>3. ASSUME TypeOK, NEW r \in Requests, KindInv(r), UnderWay(r), ~ Waits(r)
      PROVE  Ready(r)
  <2>1. pc[r] \in {"begun", "found", "checked", "inserting", "cascading"}
    BY <1>3 DEF TypeOK, PCs, UnderWay
  <2> QED BY <1>3, <2>1 DEF KindInv, Waits, Ready, Presenting
<1>4. TypeOK /\ Kinds => OnlyLocksHoldUp
  BY <1>3 DEF OnlyLocksHoldUp
<1>5. OnlyLocksHoldUp /\ WaitsEnd /\ (\E r \in Requests : UnderWay(r)) =>
        \/ \E r \in Requests : UnderWay(r) /\ Ready(r)
        \/ \E r, d \in Requests : Blocked(r, d)
  BY DEF OnlyLocksHoldUp, WaitsEnd
<1>6. Spec => []Kinds
  BY TypeCorrect, <1>1, <1>2, PTL DEF Spec
<1> QED BY TypeCorrect, OnlyOneDeadlock, <1>4, <1>5, <1>6, PTL

\* The steps a request still has at most before it.
StepsLeft(r) ==
  CASE pc[r] = "idle" -> 5
    [] pc[r] = "begun" -> 4
    [] pc[r] = "found" -> 3
    [] pc[r] = "checked" -> 2
    [] pc[r] \in {"inserting", "cascading"} -> 1
    [] OTHER -> 0

\* A request that moves comes nearer to its end, whatever the others do: with
\* SomeoneGoesOn this is why every request ends.
THEOREM RequestsGoForward ==
  Spec => [][\A r \in Requests : pc'[r] # pc[r] => StepsLeft(r)' < StepsLeft(r)]_vars
<1>1. ASSUME TypeOK, [Next]_vars, NEW r \in Requests, pc'[r] # pc[r]
      PROVE  StepsLeft(r)' < StepsLeft(r)
  <2> USE <1>1 DEF TypeOK, StepsLeft, GoTo
  <2>1. CASE Arrive(r)
    BY <2>1 DEF Arrive
  <2>2. CASE ReadEmail(r) \/ ReadUser(r) \/ ReadToken(r) \/ ReadOwner(r)
    BY <2>2 DEF ReadEmail, ReadUser, ReadToken, ReadOwner
  <2>3. CASE Revoke(r)
    BY <2>3 DEF Revoke
  <2>4. CASE InsertUser(r) \/ InsertToken(r) \/ Logout(r)
    BY <2>4 DEF InsertUser, InsertToken, Logout, Commit
  <2>5. CASE DeleteUser(r) \/ Cascade(r)
    BY <2>5 DEF DeleteUser, Cascade, Commit
  <2>6. CASE Fail(r)
    BY <2>6 DEF Fail, UnderWay, PCs, Ended, Committed
  <2>7. ASSUME NEW d \in Requests, Deadlock(r, d) \/ Deadlock(d, r)
        PROVE  StepsLeft(r)' < StepsLeft(r)
    BY <2>7 DEF Deadlock, Blocked
  <2>8. ASSUME NEW q \in Requests, q # r
        PROVE  /\ ~ (Arrive(q) \/ Serve(q) \/ Fail(q))
               /\ \A d \in Requests \ {r} : ~ (Deadlock(q, d) \/ Deadlock(d, q))
    BY <2>8 DEF Arrive, Serve, ReadEmail, InsertUser, ReadUser, ReadToken, ReadOwner,
       Revoke, InsertToken, Logout, DeleteUser, Cascade, Fail, Deadlock, Commit
  <2>9. ~ (Deactivate \/ Tick \/ UNCHANGED vars)
    BY DEF Deactivate, Tick, vars
  <2> QED BY <2>1, <2>2, <2>3, <2>4, <2>5, <2>6, <2>7, <2>8, <2>9 DEF Next, Serve, Quiet
<1>2. TypeOK /\ [Next]_vars =>
        [\A r \in Requests : pc'[r] # pc[r] => StepsLeft(r)' < StepsLeft(r)]_vars
  BY <1>1
<1> QED BY TypeCorrect, <1>2, PTL DEF Spec
=============================================================================
