---------------------------- MODULE UsageScripts ----------------------------
(***************************************************************************)
(* The Lua scripts of app/infrastructure/rate_limit/scripts that keep one  *)
(* user's daily usage, as operators on the values of that user's keys.     *)
(*                                                                         *)
(* The keys of a daily window hold, for tokens and for cost (in millionths *)
(* of the currency unit, COST_SCALE), what was used and what is reserved.  *)
(* An absent key counts as 0 in every script, and a script that would      *)
(* write 0 to a reserved key deletes it, so absent and 0 are one value.    *)
(* EVAL runs a script atomically: each operator is one indivisible change. *)
(***************************************************************************)
EXTENDS Naturals

Dims == {"tokens", "cost"}

Amounts == [Dims -> Nat]

Zero == [d \in Dims |-> 0]

Plus(a, b) == [d \in Dims |-> a[d] + b[d]]

\* Subtraction that stops at 0, as settle.lua and release.lua clamp it.
Minus(a, b) == [d \in Dims |-> IF a[d] > b[d] THEN a[d] - b[d] ELSE 0]

\* A cost limit of 0 switches the cost check off; tokens are always checked.
Enforced(limit, d) == d = "cost" => limit[d] > 0

\* Slips in usage.lua: reservations left out of the sum; < for <=.
FitsIgnoringReserved(used, reserved, request, limit) ==
    \A d \in Dims : Enforced(limit, d) => used[d] + request[d] <= limit[d]

FitsStrictly(used, reserved, request, limit) ==
    \A d \in Dims :
        Enforced(limit, d) => used[d] + reserved[d] + request[d] < limit[d]

\* usage.lua: what is used, what is reserved and the request fit the limit.
Fits(used, reserved, request, limit) ==
    \A d \in Dims :
        Enforced(limit, d) => used[d] + reserved[d] + request[d] <= limit[d]

\* usage.lua after a grant: SET on a reserved key that is absent, INCRBY else.
ReservedAfterReserve(reserved, request) == Plus(reserved, request)

\* A slip in settle.lua and release.lua: the reserved keys are not written back.
ReservedKept(reserved, reservation) == reserved

\* settle.lua and release.lua: the reserved keys lose the reservation.
ReservedAfterClose(reserved, reservation) == Minus(reserved, reservation)

\* A slip in settle.lua: SET of the actual usage over what was used before.
UsedOverwritten(used, actual) == actual

\* settle.lua: the used keys gain what the provider reported.
UsedAfterSettle(used, actual) == Plus(used, actual)
=============================================================================
