---------------------------- MODULE UsageLedger -----------------------------
(***************************************************************************)
(* What the usage lifecycle promises about one user and one daily window,  *)
(* with no keys, scripts or clocks: an account where a call is admitted    *)
(* only if the limit has room for it beside all that is held and charged,  *)
(* where only an admitted call is charged, once, and where its hold is     *)
(* given up when it is charged or dropped.  A call that fails may keep its *)
(* hold, never its room to be charged again.                               *)
(***************************************************************************)
EXTENDS UsageScripts, Totals

CONSTANTS
    Calls,     \* a finite set
    DayLimit,  \* the limit of each amount, a member of Amounts
    Requests,  \* the Amounts a call can ask to hold
    Bills      \* the Amounts a call can be charged

VARIABLES
    holds,  \* what each call holds
    bill    \* what each call was charged

ledgerVars == <<holds, bill>>

LedgerInit == /\ holds = [c \in Calls |-> Zero]
              /\ bill = [c \in Calls |-> Zero]

\* The sum of the accounts of all calls.
SumOf(account) == [d \in Dims |-> Total([c \in Calls |-> account[c][d]])]

\* The limit has room for n beside all that is charged and held; a cost limit
\* of 0 is no limit.
HasRoom(n) ==
    \A d \in Dims :
        d = "tokens" \/ DayLimit[d] # 0
            => SumOf(bill)[d] + SumOf(holds)[d] + n[d] <= DayLimit[d]

Admit(c) ==
    /\ holds[c] = Zero
    /\ bill[c] = Zero
    /\ \E n \in Requests :
        /\ HasRoom(n)
        /\ holds' = [holds EXCEPT ![c] = n]
    /\ UNCHANGED bill

Charge(c) ==
    /\ holds[c] # Zero
    /\ \E a \in Bills : bill' = [bill EXCEPT ![c] = a]
    /\ holds' = [holds EXCEPT ![c] = Zero]

Drop(c) ==
    /\ holds[c] # Zero
    /\ holds' = [holds EXCEPT ![c] = Zero]
    /\ UNCHANGED bill

LedgerNext == \E c \in Calls : Admit(c) \/ Charge(c) \/ Drop(c)

LedgerSpec == LedgerInit /\ [][LedgerNext]_ledgerVars
=============================================================================
