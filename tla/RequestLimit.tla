---------------------------- MODULE RequestLimit ----------------------------
(***************************************************************************)
(* The request limit of one user: RateLimitService.consume_request over    *)
(* RedisRateLimitStore.increment_request and request.lua.                  *)
(*                                                                         *)
(* A request reads its clock, derives from it the minute and day windows   *)
(* and the TTLs up to their ends, and sends one EVAL.  The script runs     *)
(* later, when other scripts have run, keys have expired and the windows   *)
(* may be over.  The limits are settings of the worker that serves the     *)
(* request; a deployment can change them while the counters stay.          *)
(***************************************************************************)
EXTENDS Integers, FiniteSets, Sequences, Totals

CONSTANTS
    Requests,     \* the requests of the user
    MinuteLength, \* REQUEST_WINDOW_SECONDS
    DayLength,    \* DAY_WINDOW_SECONDS
    Limits,       \* the settings [minute, day] of the deployments, in order
    Horizon,      \* bound: the clock stops there
    StoreFaults,  \* bound: how many EVALs end in RedisError
    Resends       \* bound: how many EVALs the Redis client sends again

ASSUME RequestsAssumption == IsFiniteSet(Requests)

ASSUME ClockAssumption == /\ MinuteLength \in Nat \ {0}
                          /\ DayLength \in Nat \ {0}
                          /\ Horizon \in Nat

ASSUME LimitsAssumption == /\ Limits \in Seq([minute : Nat, day : Nat])
                           /\ Limits # << >>

ASSUME FaultsAssumption == StoreFaults \in Nat /\ Resends \in Nat

Times == 0 .. Horizon

\* The two counters of a request and the length of their windows.
Spans == {"minute", "day"}

Length(s) == IF s = "minute" THEN MinuteLength ELSE DayLength

\* now // length and length - now % length.
Window(s, t) == t \div Length(s)

\* Mutants of TTL: every key lives for the minute; the difference reversed.
TTLOfTheMinute(s, t) == MinuteLength - (t % MinuteLength)
TTLReversed(s, t) == (t % Length(s)) - Length(s)

TTL(s, t) == Length(s) - (t % Length(s))

\* The first second after window w.
WindowEnd(s, w) == (w + 1) * Length(s)

Windows == 0 .. Horizon

Answered == {"admitted", "minute limit", "daily quota", "unavailable"}

VARIABLES
    now,        \* the clock, in seconds
    deployment, \* which of the Limits new requests are served with
    count,      \* per span and window, the value of the key
    expiry,     \* per span and window, when the key expires
    pc,         \* per request: "idle", "counting" or one of Answered
    asked,      \* per request, the time it read
    limit,      \* per request, the limits it is served with
    ran,        \* history: per request, how often its script counted it
    ranLate,    \* history: per span, requests counted when their window was over
    refused,    \* history: requests that got the store's refusal
    faults      \* faults that can still happen

storeVars == <<count, expiry, ran, ranLate>>
vars == <<now, deployment, storeVars, pc, asked, limit, refused, faults>>

Init ==
    /\ now = 0
    /\ deployment = 1
    /\ count = [s \in Spans |-> [w \in Windows |-> 0]]
    /\ expiry = [s \in Spans |-> [w \in Windows |-> 0]]
    /\ pc = [r \in Requests |-> "idle"]
    /\ asked = [r \in Requests |-> 0]
    /\ limit = [r \in Requests |-> Limits[1]]
    /\ ran = [r \in Requests |-> 0]
    /\ ranLate = [s \in Spans |-> {}]
    /\ refused = {}
    /\ faults = [store |-> StoreFaults, resend |-> Resends]
-----------------------------------------------------------------------------
(* request.lua *)

\* The window of request r, and the value its script reads from the key.
WindowOf(s, r) == Window(s, asked[r])

Current(s, w) == IF expiry[s][w] > now THEN count[s][w] ELSE 0

CurrentOf(s, r) == Current(s, WindowOf(s, r))

\* Mutant of Allowed: refuses only beyond the limit.
AllowedAtLimit(r) == /\ CurrentOf("minute", r) <= limit[r].minute
                     /\ CurrentOf("day", r) <= limit[r].day

\* The script refuses when a counter has reached its limit.
Allowed(r) == /\ CurrentOf("minute", r) < limit[r].minute
              /\ CurrentOf("day", r) < limit[r].day

\* Mutant of CountedValue: SET instead of INCR.
CountedValueSet(s, r) == 1

\* SET with the request's TTL on a key that is absent, INCR on one that is not.
CountedValue(s, r) == CurrentOf(s, r) + 1

ExpiryAfter(s, r) == IF CurrentOf(s, r) = 0
                     THEN now + TTL(s, asked[r])
                     ELSE expiry[s][WindowOf(s, r)]

CountRequest(r) ==
    /\ count' = [s \in Spans |->
                    [count[s] EXCEPT ![WindowOf(s, r)] = CountedValue(s, r)]]
    /\ expiry' = [s \in Spans |->
                    [expiry[s] EXCEPT ![WindowOf(s, r)] = ExpiryAfter(s, r)]]
    /\ ran' = [ran EXCEPT ![r] = @ + 1]
    /\ ranLate' = [s \in Spans |->
                    IF now < WindowEnd(s, WindowOf(s, r))
                    THEN ranLate[s] ELSE ranLate[s] \cup {r}]

RunScript(r) ==
    /\ pc[r] = "counting"
    /\ IF Allowed(r) THEN CountRequest(r) ELSE UNCHANGED storeVars
-----------------------------------------------------------------------------
(* consume_request *)

Ask(r) ==
    /\ pc[r] = "idle"
    /\ pc' = [pc EXCEPT ![r] = "counting"]
    /\ asked' = [asked EXCEPT ![r] = now]
    /\ limit' = [limit EXCEPT ![r] = Limits[deployment]]
    /\ UNCHANGED <<now, deployment, storeVars, refused, faults>>

\* Mutants of Verdict: only the minute is looked at; the day's counter is taken
\* for the minute's.
VerdictOfTheMinute(r) ==
    IF ~Allowed(r) /\ CurrentOf("minute", r) = limit[r].minute
    THEN "minute limit" ELSE "admitted"

VerdictSwapped(r) ==
    IF Allowed(r) THEN "admitted"
    ELSE IF CurrentOf("day", r) = limit[r].day THEN "minute limit"
    ELSE "daily quota"

\* What the service makes of the reply: a refusal is raised only when the
\* counter it is about equals its limit; everything else lets the request on.
Verdict(r) ==
    IF Allowed(r) THEN "admitted"
    ELSE IF CurrentOf("minute", r) = limit[r].minute THEN "minute limit"
    ELSE IF CurrentOf("day", r) = limit[r].day THEN "daily quota"
    ELSE "admitted"

Reply(r) ==
    /\ RunScript(r)
    /\ pc' = [pc EXCEPT ![r] = Verdict(r)]
    /\ refused' = IF Allowed(r) THEN refused ELSE refused \cup {r}
    /\ UNCHANGED <<now, deployment, asked, limit, faults>>

\* RedisError, before or after the script ran: HTTP 503.
StoreError(r) ==
    /\ pc[r] = "counting"
    /\ faults.store > 0
    /\ faults' = [faults EXCEPT !.store = @ - 1]
    /\ RunScript(r) \/ UNCHANGED storeVars
    /\ pc' = [pc EXCEPT ![r] = "unavailable"]
    /\ UNCHANGED <<now, deployment, asked, limit, refused>>

\* The reply is lost and the Redis client sends the same EVAL again.
Resend(r) ==
    /\ faults.resend > 0
    /\ faults' = [faults EXCEPT !.resend = @ - 1]
    /\ RunScript(r)
    /\ UNCHANGED <<now, deployment, pc, asked, limit, refused>>
-----------------------------------------------------------------------------
(* The environment. *)

Tick ==
    /\ now < Horizon
    /\ now' = now + 1
    /\ UNCHANGED <<deployment, storeVars, pc, asked, limit, refused, faults>>

\* The service is deployed again with the next settings.
Deploy ==
    /\ deployment + 1 \in DOMAIN Limits
    /\ deployment' = deployment + 1
    /\ UNCHANGED <<now, storeVars, pc, asked, limit, refused, faults>>

Done == /\ \A r \in Requests : pc[r] \in Answered
        /\ UNCHANGED vars

Next == \/ \E r \in Requests : Ask(r) \/ Reply(r) \/ StoreError(r) \/ Resend(r)
        \/ Tick
        \/ Deploy
        \/ Done

Spec == Init /\ [][Next]_vars
-----------------------------------------------------------------------------
(* Properties. *)

TypeOK ==
    /\ now \in Times
    /\ deployment \in DOMAIN Limits
    /\ count \in [Spans -> [Windows -> Nat]]
    /\ expiry \in [Spans -> [Windows -> Nat]]
    /\ pc \in [Requests -> {"idle", "counting"} \cup Answered]
    /\ asked \in [Requests -> Times]
    /\ limit \in [Requests -> [minute : Nat, day : Nat]]
    /\ ran \in [Requests -> Nat]
    /\ ranLate \in [Spans -> SUBSET Requests]
    /\ refused \subseteq Requests
    /\ faults \in [store : Nat, resend : Nat]

\* A counter is not lost while its window lasts: a key that counted something
\* lives to the end of its window, although its TTL was computed from a clock
\* read before the script ran.
KeysOutliveWindows ==
    \A s \in Spans, w \in Windows :
        count[s][w] > 0 => expiry[s][w] >= WindowEnd(s, w)

\* How often the requests of window w were counted.
Counted(s, w) ==
    Total([r \in Requests |-> IF WindowOf(s, r) = w THEN ran[r] ELSE 0])

\* While a window lasts its counter is the number of times its requests were
\* counted: none is lost, none is counted in another window.
CountersExact ==
    \A s \in Spans, w \in Windows :
        now < WindowEnd(s, w) => Current(s, w) = Counted(s, w)

\* Requests of a window that went on, having been counted while it lasted.
InTime(s, w) ==
    { r \in Requests : /\ pc[r] = "admitted"
                       /\ WindowOf(s, r) = w
                       /\ r \notin ranLate[s] }

\* The settings have not changed since the counters were empty.
Steady == deployment = 1

\* The limit, under settings that stay: of the requests of a minute or a day
\* that are counted before it is over, no more go on than the limit allows.
LimitsKept ==
    Steady => \A s \in Spans, w \in Windows :
        InTime(s, w) # {} =>
            \E r \in InTime(s, w) : Cardinality(InTime(s, w)) <= limit[r][s]

\* A request the store refused does not go on to the provider.
RefusedDoNotGoOn == \A r \in refused : pc[r] # "admitted"

\* Under settings that stay, consume_request turns every refusal of the store
\* into one of its own, although it only raises for a counter that equals the limit.
RefusedStop == Steady => RefusedDoNotGoOn

\* A request is turned away only when its own window has used up the limit.
RefusalIsDue ==
    [][\A r \in Requests :
        /\ pc'[r] = "minute limit" /\ pc[r] # pc'[r]
             => Counted("minute", WindowOf("minute", r)) >= limit[r].minute
        /\ pc'[r] = "daily quota" /\ pc[r] # pc'[r]
             => Counted("day", WindowOf("day", r)) >= limit[r].day]_vars
=============================================================================
