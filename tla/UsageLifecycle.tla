--------------------------- MODULE UsageLifecycle ---------------------------
(***************************************************************************)
(* The usage lifecycle of one user's provider calls: reservation, provider *)
(* call with its retries, settlement or release.                           *)
(*                                                                         *)
(* A call is one use of RateLimitService.check_cost_token_limit and of     *)
(* what follows it in one of the three places that make it:                *)
(*   "chat"     an iteration of ConversationOrchestrator._generate_with_tools *)
(*   "summary"  ConversationSummaryService.summarize                       *)
(*   "stream"   ConversationOrchestrator.stream_message                    *)
(* The calls of one user run concurrently (several chats, several workers) *)
(* and meet only in the Redis counters of the user.  Between asking the    *)
(* store and the store evaluating the script anything may happen: the      *)
(* window a call read from its clock can be over when its script runs.     *)
(***************************************************************************)
EXTENDS UsageScripts, Totals

CONSTANTS
    Calls,               \* the provider calls of the user
    Kind,                \* Calls -> "chat" | "summary" | "stream"
    Inputs,              \* the input token estimates a call can have
    MaxOutputTokens,     \* settings.ai.max_output_tokens
    MaxTokensPerRequest, \* settings.ai.max_tokens_per_request
    TokensPerDay,        \* settings.ai.max_tokens_per_day
    CostPerDay,          \* settings.ai.max_estimated_cost_per_day, scaled
    InputCost,           \* input_cost_per_1k_tokens, scaled
    OutputCost,          \* output_cost_per_1k_tokens, scaled
    Usages,              \* [input, output] a provider may report
    FallbackOutputs,     \* estimate_tokens of an answer without usage
    MaxProviderRetries,  \* ConversationOrchestrator.MAX_PROVIDER_RETRIES
    LastDay,             \* bound: the clock stops in this daily window
    Faults               \* bound: how many faults of each sort can happen

FaultSorts == {"store", "resend", "disconnect", "crash"}

ASSUME CallsAssumption == /\ IsFiniteSet(Calls)
                          /\ Kind \in [Calls -> {"chat", "summary", "stream"}]

ASSUME NumbersAssumption ==
    /\ Inputs \subseteq Nat
    /\ FallbackOutputs \subseteq Nat \ {0}
    /\ Usages \subseteq [input : Nat, output : Nat]
    /\ MaxOutputTokens \in Nat
    /\ MaxTokensPerRequest \in Nat
    /\ TokensPerDay \in Nat
    /\ CostPerDay \in Nat
    /\ InputCost \in Nat
    /\ OutputCost \in Nat
    /\ MaxProviderRetries \in Nat

ASSUME BoundsAssumption == /\ LastDay \in Nat \ {0}
                           /\ Faults \in [FaultSorts -> Nat]

Days == 1 .. LastDay

Limit == [d \in Dims |-> IF d = "tokens" THEN TokensPerDay ELSE CostPerDay]

\* Tokens and cost of a call: estimate_cost, scaled and cut to an integer.
Amount(input, output) ==
    [d \in Dims |-> IF d = "tokens"
                    THEN input + output
                    ELSE (input * InputCost + output * OutputCost) \div 1000]

\* A call that has returned, raised or is gone.
Ended == {"settled", "released", "refused", "unavailable", "empty", "gone"}

\* A call that waits for the reply to an EVAL.
AtStore == {"reserving", "settling", "releasing"}

PCs == {"idle", "calling", "backoff", "yielding"} \cup AtStore \cup Ended

VARIABLES
    day,       \* the clock: int(time.time()) // DAY_WINDOW_SECONDS
    used,      \* per window, the keys day:token and day:cost
    reserved,  \* per window, the keys day:token_reserved and day:cost_reserved
    pc,        \* per call, where it is
    input,     \* per call, its input token estimate
    window,    \* per call, the window its last store operation computed
    attempt,   \* per call, how many provider attempts failed
    chunks,    \* per call, what its stream brought: "none" | "empty" | "content"
    actual,    \* per call, the amounts it settles
    held,      \* history: per window and amount, what each call has reserved
               \* there and not closed there
    charged,   \* history: per window and amount, what each call was charged
    foreign,   \* history: windows where a call closed what it did not hold there
    faults     \* faults that can still happen

storeVars == <<used, reserved, held, charged, foreign>>
callVars == <<pc, input, window, attempt, chunks, actual>>
vars == <<day, storeVars, callVars, faults>>

\* The reservation of a call: UsageReservation(tokens, cost).
Reservation(c) == Amount(input[c], MaxOutputTokens)

Init ==
    /\ day = 1
    /\ used = [w \in Days |-> Zero]
    /\ reserved = [w \in Days |-> Zero]
    /\ pc = [c \in Calls |-> "idle"]
    /\ input = [c \in Calls |-> 0]
    /\ window = [c \in Calls |-> 1]
    /\ attempt = [c \in Calls |-> 0]
    /\ chunks = [c \in Calls |-> "none"]
    /\ actual = [c \in Calls |-> Zero]
    /\ held = [w \in Days |-> [d \in Dims |-> [c \in Calls |-> 0]]]
    /\ charged = [w \in Days |-> [d \in Dims |-> [c \in Calls |-> 0]]]
    /\ foreign = {}
    /\ faults = Faults
-----------------------------------------------------------------------------
(* The application's side. *)

GoTo(c, l) == pc' = [pc EXCEPT ![c] = l]

\* A store operation starts: it reads the clock and sends the EVAL.
AskStore(c, l) == /\ GoTo(c, l)
                  /\ window' = [window EXCEPT ![c] = day]

\* check_cost_token_limit up to the call of the store.
Begin(c) ==
    /\ pc[c] = "idle"
    /\ \E i \in Inputs :
        /\ input' = [input EXCEPT ![c] = i]
        /\ \/ /\ i + MaxOutputTokens > MaxTokensPerRequest
              /\ GoTo(c, "refused")
              /\ UNCHANGED window
           \/ /\ i + MaxOutputTokens <= MaxTokensPerRequest
              /\ AskStore(c, "reserving")
    /\ UNCHANGED <<day, storeVars, attempt, chunks, actual, faults>>

\* The usage a call settles: the provider's report, or the estimates.
ReportedUsage(c) ==
    { Amount(u.input, u.output) : u \in Usages } \cup
    { Amount(input[c], o) : o \in FallbackOutputs }

StartSettling(c) ==
    /\ AskStore(c, "settling")
    /\ \E a \in ReportedUsage(c) : actual' = [actual EXCEPT ![c] = a]

\* provider.generate returns: usage is settled, except that a summary
\* without content returns before its settlement and without a release.
Answer(c) ==
    /\ pc[c] = "calling"
    /\ Kind[c] \in {"chat", "summary"}
    /\ \/ StartSettling(c)
       \/ /\ Kind[c] = "summary"
          /\ GoTo(c, "empty")
          /\ UNCHANGED <<window, actual>>
    /\ UNCHANGED <<day, storeVars, input, attempt, chunks, faults>>

\* A slip: one attempt more than MAX_PROVIDER_RETRIES allows.
MayRetryOnceMore(c) == /\ Kind[c] # "summary"
                       /\ chunks[c] = "none"
                       /\ attempt[c] <= MaxProviderRetries

\* A transient provider error is retried, except for a summary and for a
\* stream that has already brought a chunk.
MayRetry(c) == /\ Kind[c] # "summary"
               /\ chunks[c] = "none"
               /\ attempt[c] < MaxProviderRetries

TransientError(c) ==
    /\ pc[c] = "calling"
    /\ \/ /\ MayRetry(c)
          /\ GoTo(c, "backoff")
          /\ UNCHANGED window
       \/ /\ ~MayRetry(c)
          /\ AskStore(c, "releasing")
    /\ UNCHANGED <<day, storeVars, input, attempt, chunks, actual, faults>>

\* A slip: the attempt is not counted.
RetryForever(c) ==
    /\ pc[c] = "backoff"
    /\ GoTo(c, "calling")
    /\ UNCHANGED <<day, storeVars, input, window, attempt, chunks, actual, faults>>

\* asyncio.sleep(2 ** attempt) is over.
Retry(c) ==
    /\ pc[c] = "backoff"
    /\ attempt' = [attempt EXCEPT ![c] = @ + 1]
    /\ GoTo(c, "calling")
    /\ UNCHANGED <<day, storeVars, input, window, chunks, actual, faults>>

\* A slip: the exception is raised without the release.
ProviderErrorKeeping(c) ==
    /\ pc[c] = "calling"
    /\ GoTo(c, "released")
    /\ UNCHANGED <<day, storeVars, input, window, attempt, chunks, actual, faults>>

\* Any other exception of the provider: the reservation is released.
ProviderError(c) ==
    /\ pc[c] = "calling"
    /\ AskStore(c, "releasing")
    /\ UNCHANGED <<day, storeVars, input, attempt, chunks, actual, faults>>

\* A chunk of the stream: with content the generator yields to the client.
Chunk(c) ==
    /\ pc[c] = "calling"
    /\ Kind[c] = "stream"
    /\ \/ /\ chunks' = [chunks EXCEPT ![c] = "content"]
          /\ GoTo(c, "yielding")
       \/ /\ chunks[c] = "none"
          /\ chunks' = [chunks EXCEPT ![c] = "empty"]
          /\ UNCHANGED pc
    /\ UNCHANGED <<day, storeVars, input, window, attempt, actual, faults>>

\* The response has sent the chunk and asks the generator for the next.
Resume(c) ==
    /\ pc[c] = "yielding"
    /\ GoTo(c, "calling")
    /\ UNCHANGED <<day, storeVars, input, window, attempt, chunks, actual, faults>>

\* The stream is over: settle what it brought, release if it brought nothing.
EndOfStream(c) ==
    /\ pc[c] = "calling"
    /\ Kind[c] = "stream"
    /\ \/ /\ chunks[c] = "content"
          /\ StartSettling(c)
       \/ /\ chunks[c] # "content"
          /\ AskStore(c, "releasing")
          /\ UNCHANGED actual
    /\ UNCHANGED <<day, storeVars, input, attempt, chunks, faults>>
-----------------------------------------------------------------------------
(* The store's side: the script of a waiting call runs in its window. *)

\* The books of one window: of each amount, the share of each call.
Books == [Dims -> [Calls -> Nat]]

\* The books of a window, with v of each amount for call c.
Book(books, c, v) == [d \in Dims |-> [books[d] EXCEPT ![c] = v[d]]]

\* What the books of a window say of call c.
Of(books, c) == [d \in Dims |-> books[d][c]]

Granted(c) ==
    Fits(used[window[c]], reserved[window[c]], Reservation(c), Limit)

RunReserve(c) ==
    /\ pc[c] = "reserving"
    /\ \/ /\ Granted(c)
          /\ reserved' = [reserved EXCEPT
                ![window[c]] = ReservedAfterReserve(@, Reservation(c))]
          /\ held' = [held EXCEPT
                ![window[c]] = Book(@, c, Plus(Of(@, c), Reservation(c)))]
       \/ /\ ~Granted(c)
          /\ UNCHANGED <<reserved, held>>
    /\ UNCHANGED <<used, charged, foreign>>

\* Call c holds its whole reservation in window w.
Holds(c, w) == \A d \in Dims : held[w][d][c] >= Reservation(c)[d]

\* The reserved keys of the window lose the call's reservation, whether it
\* was made in this window or not.
CloseReservation(c) ==
    LET w == window[c] IN
    /\ reserved' = [reserved EXCEPT
            ![w] = ReservedAfterClose(@, Reservation(c))]
    /\ held' = [held EXCEPT
            ![w] = Book(@, c, Minus(Of(@, c), Reservation(c)))]
    /\ foreign' = IF Holds(c, w) THEN foreign ELSE foreign \cup {w}

RunSettle(c) ==
    /\ pc[c] = "settling"
    /\ CloseReservation(c)
    /\ used' = [used EXCEPT ![window[c]] = UsedAfterSettle(@, actual[c])]
    /\ charged' = [charged EXCEPT
            ![window[c]] = Book(@, c, Plus(Of(@, c), actual[c]))]

\* A slip: a released reservation is charged.
RunReleaseCharging(c) ==
    /\ pc[c] = "releasing"
    /\ CloseReservation(c)
    /\ used' = [used EXCEPT ![window[c]] = UsedAfterSettle(@, Reservation(c))]
    /\ charged' = [charged EXCEPT
            ![window[c]] = Book(@, c, Plus(Of(@, c), Reservation(c)))]

RunRelease(c) ==
    /\ pc[c] = "releasing"
    /\ CloseReservation(c)
    /\ UNCHANGED <<used, charged>>

RunScript(c) == RunReserve(c) \/ RunSettle(c) \/ RunRelease(c)

\* Where a call goes on when the reply reaches it.
AfterReply(c) ==
    CASE pc[c] = "reserving" -> IF Granted(c) THEN "calling" ELSE "refused"
      [] pc[c] = "settling"  -> "settled"
      [] pc[c] = "releasing" -> "released"

Reply(c) ==
    /\ RunScript(c)
    /\ GoTo(c, AfterReply(c))
    /\ UNCHANGED <<day, input, window, attempt, chunks, actual, faults>>
-----------------------------------------------------------------------------
(* Faults. *)

Suffer(sort) == /\ faults[sort] > 0
                /\ faults' = [faults EXCEPT ![sort] = @ - 1]

\* A script in flight when its caller gives up runs all the same, or never.
RunsOrNot(c) == RunScript(c) \/ UNCHANGED storeVars

\* RedisError: RateLimitStoreUnavailableError, then HTTP 503, ends the call.
StoreError(c) ==
    /\ Suffer("store")
    /\ pc[c] \in AtStore
    /\ RunsOrNot(c)
    /\ GoTo(c, "unavailable")
    /\ UNCHANGED <<day, input, window, attempt, chunks, actual>>

\* The reply is lost and the Redis client sends the same EVAL again.
Resend(c) ==
    /\ Suffer("resend")
    /\ RunScript(c)
    /\ UNCHANGED <<day, callVars>>

\* The client of a stream goes away.  The await of a provider chunk raises
\* CancelledError, which is handled; the generator suspended at its yield is
\* closed with GeneratorExit, which is not; nor is it handled by a store
\* operation or by the summary made before the stream.
Disconnect(c) ==
    /\ Suffer("disconnect")
    /\ Kind[c] \in {"stream", "summary"}
    /\ pc[c] \notin Ended \cup {"idle"}
    /\ \/ /\ Kind[c] = "stream"
          /\ pc[c] \in {"calling", "backoff"}
          /\ AskStore(c, "releasing")
          /\ UNCHANGED storeVars
       \/ /\ Kind[c] = "stream" => pc[c] \notin {"calling", "backoff"}
          /\ RunsOrNot(c)
          /\ GoTo(c, "gone")
          /\ UNCHANGED window
    /\ UNCHANGED <<day, input, attempt, chunks, actual>>

\* The worker that runs the call dies.
Crash(c) ==
    /\ Suffer("crash")
    /\ pc[c] \notin Ended \cup {"idle"}
    /\ RunsOrNot(c)
    /\ GoTo(c, "gone")
    /\ UNCHANGED <<day, input, window, attempt, chunks, actual>>
-----------------------------------------------------------------------------
(* Time. *)

Midnight ==
    /\ day < LastDay
    /\ day' = day + 1
    /\ UNCHANGED <<storeVars, callVars, faults>>

\* A key lives at least to the end of its window (EX) and is then dropped.
Expire(w) ==
    /\ w < day
    /\ \E d \in Dims :
        \/ /\ used[w][d] > 0
           /\ used' = [used EXCEPT ![w][d] = 0]
           /\ UNCHANGED reserved
        \/ /\ reserved[w][d] > 0
           /\ reserved' = [reserved EXCEPT ![w][d] = 0]
           /\ UNCHANGED used
    /\ UNCHANGED <<day, held, charged, foreign, callVars, faults>>

\* Every call has ended: nothing is left to do on the last day.
AllEnded == /\ \A c \in Calls : pc[c] \in Ended
            /\ UNCHANGED vars
-----------------------------------------------------------------------------
Work(c) == \/ Begin(c) \/ Answer(c) \/ TransientError(c) \/ Retry(c)
           \/ ProviderError(c) \/ Chunk(c) \/ Resume(c) \/ EndOfStream(c)
           \/ Reply(c)

Fault(c) == StoreError(c) \/ Resend(c) \/ Disconnect(c) \/ Crash(c)

Next == \/ \E c \in Calls : Work(c) \/ Fault(c)
        \/ Midnight
        \/ \E w \in Days : Expire(w)
        \/ AllEnded

Spec == Init /\ [][Next]_vars

\* provider.generate ends within request_timeout_seconds, a sleep ends and
\* the store replies; a stream may stay silent forever (no timeout there).
Fairness ==
    \A c \in Calls :
        /\ WF_vars(Reply(c))
        /\ WF_vars(Retry(c))
        /\ WF_vars(Kind[c] # "stream" /\
                   (Answer(c) \/ TransientError(c) \/ ProviderError(c)))

FairSpec == Spec /\ Fairness
-----------------------------------------------------------------------------
(* Properties. *)

\* The values of the variables.
TypeOK ==
    /\ day \in Days
    /\ used \in [Days -> Amounts]
    /\ reserved \in [Days -> Amounts]
    /\ pc \in [Calls -> PCs]
    /\ input \in [Calls -> Nat]
    /\ window \in [Calls -> Days]
    /\ attempt \in [Calls -> 0 .. MaxProviderRetries]
    /\ chunks \in [Calls -> {"none", "empty", "content"}]
    /\ actual \in [Calls -> Amounts]
    /\ held \in [Days -> Books]
    /\ charged \in [Days -> Books]
    /\ foreign \subseteq Days
    /\ faults \in [FaultSorts -> Nat]

\* A reserved key never counts more than the calls hold in its window,
\* whatever faults happen and whichever windows the calls close in: no
\* quota is lost to a reservation that nobody made or that was closed.
NoPhantomReservation ==
    \A w \in Days, d \in Dims : reserved[w][d] <= Total(held[w][d])

\* The keys of the current window are exact: the used keys are the sum of
\* what the settlements charged, and, unless a call closed here what it did
\* not hold here, the reserved keys are the sum of what the calls hold.
CountersExact ==
    \A d \in Dims :
        /\ used[day][d] = Total(charged[day][d])
        /\ day \notin foreign => reserved[day][d] = Total(held[day][d])

\* How far the calls' charges of a window exceed their reservations.
Overrun(w, d) ==
    Total([c \in Calls |-> Minus(Of(charged[w], c), Reservation(c))[d]])

\* The daily quota: what is used and what is reserved exceeds the limit only
\* by what providers used beyond their reservations (no closing from another
\* window having disturbed the reserved keys).
DailyQuota ==
    \A d \in Dims :
        Enforced(Limit, d) /\ day \notin foreign
            => used[day][d] + reserved[day][d] <= Limit[d] + Overrun(day, d)

\* A reservation is refused only when the limit has no room beside what was
\* charged and what the calls still hold in its window.
RefusedOnlyWhenFull ==
    [][\A c \in Calls :
        pc[c] = "reserving" /\ pc'[c] = "refused"
            => \E d \in Dims :
                /\ Enforced(Limit, d)
                /\ Total(charged[window[c]][d]) + Total(held[window[c]][d])
                       + Reservation(c)[d] > Limit[d]]_vars

Resent == faults["resend"] < Faults["resend"]

\* Unless an EVAL was sent twice, a call is charged at most once and in one
\* window, its retries included: its actual usage if it settled, nothing if it
\* was refused or released.
ChargedOnce ==
    ~ Resent =>
    \A c \in Calls :
        /\ pc[c] = "settled" =>
             \E w \in Days : /\ Of(charged[w], c) = actual[c]
                              /\ \A v \in Days \ {w} : Of(charged[v], c) = Zero
        /\ pc[c] \notin {"settled", "unavailable", "gone"} =>
             \A w \in Days : Of(charged[w], c) = Zero

\* A call that settled, released or was refused holds nothing.
NothingHeldAfterClosing ==
    \A c \in Calls :
        pc[c] \in {"settled", "released", "refused"} =>
            \A w \in Days : Of(held[w], c) = Zero

\* A call that came back with the provider's answer holds nothing, also when
\* the answer is empty.
NothingHeldAfterAnswer ==
    \A c \in Calls :
        pc[c] \in {"settled", "released", "refused", "empty"} =>
            \A w \in Days : Of(held[w], c) = Zero

\* A stream whose client went away while it was being sent holds nothing.
NothingHeldAfterDisconnect ==
    \A c \in Calls :
        pc[c] = "gone" /\ chunks[c] = "content" =>
            \A w \in Days : Of(held[w], c) = Zero

\* The reservations of concurrent calls are independent: what the calls hold
\* in the current window is counted there.
ReservationsIndependent ==
    \A d \in Dims : reserved[day][d] >= Total(held[day][d])

\* Every call of provider.generate ends: retries are bounded, and no call waits
\* for another one.
GenerateCallsEnd ==
    \A c \in Calls : Kind[c] # "stream" =>
        (pc[c] # "idle" ~> pc[c] \in Ended)

\* What a chat holds in a window is given back, or the window ends, unless an
\* EVAL was sent twice: a reservation made twice is closed once.
HeldUntilClosed ==
    \A c \in Calls, w \in Days :
        Kind[c] = "chat" =>
            (Of(held[w], c) # Zero ~> Of(held[w], c) = Zero \/ day > w \/ Resent)
=============================================================================
