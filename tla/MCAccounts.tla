------------------------------ MODULE MCAccounts ------------------------------
(* An account that is registered, used by several requests and deleted, and  *)
(* a second registration of its email.                                       *)
EXTENDS Accounts

CONSTANTS r1, r2, r3, r4, r5, r6, r7

MCKind == [r \in Requests |-> CASE r \in {r1, r2} -> "register"
                                [] r = r3 -> "login"
                                [] r \in {r4, r5} -> "refresh"
                                [] r = r6 -> "delete"
                                [] OTHER -> "logout"]
=============================================================================
