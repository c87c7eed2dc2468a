-------------------------- MODULE UsageRefinement ---------------------------
(***************************************************************************)
(* UsageLifecycle implements UsageLedger on a single day: the account of a *)
(* call is what it holds and what it was charged in that day's window.     *)
(***************************************************************************)
EXTENDS UsageLifecycle

AllReports == { Amount(u.input, u.output) : u \in Usages } \cup
              { Amount(i, o) : i \in Inputs, o \in FallbackOutputs }

Ledger == INSTANCE UsageLedger WITH
    DayLimit <- Limit,
    Requests <- { Amount(i, MaxOutputTokens) : i \in Inputs },
    Bills <- AllReports,
    holds <- [c \in Calls |-> Of(held[day], c)],
    bill <- [c \in Calls |-> Of(charged[day], c)]

\* Whatever store errors, crashes and disconnects happen, the lifecycle makes
\* on one day only the steps the ledger allows: the admission decided from the
\* four counters is the one the whole account would give.
ImplementsLedger == Ledger!LedgerSpec
=============================================================================
