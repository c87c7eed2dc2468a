# A specification of chatbot-api

chatbot-api is a FastAPI service: a user talks to a language model in chats that
are kept in PostgreSQL, and how often and how much is bounded by counters in
Redis.  This directory holds a TLA+ model of the parts of it whose correctness
depends on what happens between two awaits: the models, the TLC runs that check
them on small instances, and proofs, checked by TLAPS, that hold for every value
of the constants.

Paths are relative to the repository (`app/...`, `tests/...`).

## 1. The system

| Component | State it keeps | Operations | Interacts with |
|---|---|---|---|
| Rate limit store (`app/infrastructure/rate_limit`) | per user, six kinds of Redis keys: requests of a minute and of a day; per day the used and the reserved tokens and cost; all with an expiry | `increment_request`, `reserve_usage`, `settle_usage`, `release_usage`: each reads the clock, computes windows and TTLs and sends one EVAL | Redis, the rate limit service |
| Rate limit service (`app/services/rate_limit.py`) | its limits and prices (settings) | `consume_request`, `check_cost_token_limit`, `record_provider_usage`, `release_usage` | the store, the orchestrator, the summary service |
| Conversation orchestrator (`app/services/conversation.py`) | per request: the conversation in memory, the reservation, the buffer of a stream | `send_message` (with a tool loop), `stream_message` (a generator), retries with backoff | every other service, the provider |
| Conversation summary (`app/services/conversation_summary.py`) | none | `summarize`: one more provider call with its own reservation | rate limit service, provider |
| Context builder (`app/services/conversation_context.py`) | none | `build`: what of a history fits the context window, what is omitted, whether to summarise | orchestrator |
| Chats and messages (`app/services/chat.py`, `message.py`, their repositories and models) | rows of `chats` (with the summary) and `messages` | create, read, edit, delete | the database session of the request |
| Authentication (`app/services/auth.py`, `app/dependencies/auth.py`) | rows of `refresh_tokens` | login, refresh (rotation), logout, the check of every request | users, JWT |
| Users (`app/services/user.py`) | rows of `users` | register, read, update, delete | the database session |
| Providers (`app/providers`) | none | `generate`, `generate_stream`: a conversation in the terms of an SDK and back, mapping of SDK errors | Ollama, Gemini |
| Tools (`app/tools`) | none | registry, card validator | orchestrator |
| Settings, sessions, error handlers, migrations | configuration | start-up | all |

What is hard in it:

* **Concurrency.** A user's requests run concurrently, in one worker or in
  several, and meet in the Redis keys and in the rows of a chat.  Every `await`
  is a point where another request goes on.
* **Time.** Windows are computed from the clock of the worker before a script is
  sent; a script may run when its window is over, and a provider call lasts long
  enough to cross midnight.
* **Failure.** The store can fail before or after a script ran; the Redis client
  sends a command again when its reply is lost; a worker can die; the client of
  a stream can go away at any suspension point; providers fail, transiently or
  not, and answer without usage or without content.
* **Accounting across failure.** A reservation has to be closed exactly once on
  every path, whatever the path is.

`PROJECT.json` lists these hazards one by one, each with the line where it bites
and the properties that watch it.

What makes each component correct:

* Store and service: counters are exact while their window lasts; a limit is
  never passed except by what a provider used beyond its reservation; a refusal
  is due; nothing a refusal stops goes on; a key lives as long as its window.
* Usage lifecycle: one reservation per provider call, retries included; a
  settlement or a release for each; one charge, the actual usage; nothing held
  after the call has closed; every call ends.
* Chats and messages: an answer is stored only after its usage is settled, at
  most once per request, after the question it answers, never in a deleted chat.
* Context and summary: the question asked is in the context it is answered from,
  unless requests overlap; what is sent is the longest tail that fits; a summary has no
  hole, whichever of two concurrent ones is stored last.
* Answering: text and usage of an answer are of one attempt; what is stored is what
  the client was given; every result stands at the place of its call; every turn is
  paid for before anything is made of it; the verdict on a card is that of Luhn.
* Refresh tokens: a token that was exchanged, logged out or expired is of no use to
  a later request; a refresh that fails takes nothing away; tokens have owners.

## 2. The modules

| Module | What it is |
|---|---|
| `Totals` | the sum of a function over a finite set, in a form that can be proved about |
| `UsageScripts` | the effect of `usage.lua`, `settle.lua` and `release.lua` on the values of a user's keys |
| `UsageLifecycle` | the provider calls of one user: reservation, retries, stream, settlement, release, faults, midnight, expiry |
| `UsageLedger` | the abstract specification: an account of holds and charges with a limit |
| `UsageRefinement` | the mapping from `UsageLifecycle` to `UsageLedger` |
| `RequestLimit` | `consume_request` over `request.lua`: windows, TTLs, expiry, lost replies, changed limits |
| `Conversation` | the requests on one chat, their transactions, the history, the context, the summary, the tool loop |
| `ChatLog` | the abstract specification of a chat: a log in which every entry takes its place once |
| `ChatRefinement` | the mapping from `Conversation` to `ChatLog` |
| `ContextWindow` | the context builder: units of messages, the budget, the selection, as operators |
| `Answering` | one answer over either provider: retries, tool calls, what a provider makes of a conversation and of a reply, the event stream, what is stored |
| `AnswerTurns` | the abstract specification: a bounded number of turns, each paid for, then one answer or a failure |
| `CardValidator` | the tool, as operators, beside the definition of the algorithm of Luhn |
| `Accounts` | registration, login, refresh, logout, deletion, with the row locks they meet in |
| `MCUsageLifecycle`, `MCUsageLedger`, `MCRequestLimit`, `MCConversation`, `MCContextWindow`, `MCAnswering`, `MCAccounts` | instances for TLC |
| `TotalsProofs`, `UsageLifecycleProofs`, `UsageRefinementProofs`, `RequestLimitProofs`, `ContextWindowProofs`, `ConversationProofs`, `AnsweringProofs`, `AccountsProofs` | theorems |

`UsageLifecycle`, `Conversation` and `Answering` look at the orchestrator for three
purposes: the first counts and forgets what is said; the second keeps the history
of a chat and knows of a provider call only whether it is settled; the third
follows one answer, between the context that was built and the row that is
stored, and knows of usage only which call reported it.  They meet in `Settle` of
`Conversation` and `Record` of `Answering`, which are a `settle_usage` of
`UsageLifecycle`, and in the `Generate` of `Conversation`, which is all that
`Answering` does between `Reserve` and `Record`.

### UsageScripts and UsageLifecycle

A *call* is one use of `check_cost_token_limit` and what follows it, in one of
the three places of the code: an iteration of `_generate_with_tools` ("chat"),
`summarize` ("summary"), `stream_message` ("stream").  A request with a summary
and two tool iterations is three calls, one after the other; that they are in
sequence is not used, so any number of calls of any kinds may be concurrent.

| State | Code |
|---|---|
| `day`, `window[c]` | `int(time.time()) // DAY_WINDOW_SECONDS`, now and when `c` last computed its keys |
| `used`, `reserved` | `day:token`, `day:cost`, `day:token_reserved`, `day:cost_reserved` of each window |
| `pc[c]` | where the coroutine of the call is suspended |
| `input`, `attempt`, `chunks`, `actual` | its locals: estimate, retry counter, what the stream brought, what it settles |
| `held`, `charged`, `foreign` | history: what each call reserved and did not close, what it was charged, windows where a reservation was closed that was not made there |

`AskStore` is the code from `now = int(time.time())` to the await of the EVAL;
`Reply` is the script and the code after the await.  Between them the clock may
pass midnight, other scripts run, and the call can be cancelled or die.  `Reply`
merges the evaluation of the script with the receipt of its reply, as nothing
of the call can be seen between the two except by a fault, and the faults
(`StoreError`, `Crash`, `Disconnect`, `Resend`) choose whether the script runs.

Three simplifications are made: an absent key and a key with value 0 are one
value (every script treats them alike); the price arithmetic is exact, where the
code computes a float that it scales by 1,000,000 and cuts (`Amount` cuts too);
a cancelled stream awaits its release to the end (a second cancellation during
the release is the `Disconnect` of a call at the store).  A summary may be
cancelled like a stream, because it can be part of one; one that belongs to
`send_message` cannot, so `Disconnect` allows a little more than the code.
When the store fails in the reservation or the release of a summary, the summary is
given up and its request goes on; when it fails in the settlement of one, or in any
operation for a chat or a stream, the request ends with 503.  For the account both are
the end of the call.

### RequestLimit

The two counters of one user's requests.  A request reads the clock (`Ask`) and
its script runs later (`Reply`), perhaps after its window is over; keys expire
by their expiry time, read against the clock when a script runs.  `Deploy`
changes the limits while the counters stay.

### Conversation

| State | Code |
|---|---|
| `chat`, `summary`, `messages` | the row of `chats`, its column `summary`, its rows in `messages` |
| `Connected`, `PoolSize` | the sessions with an open transaction, which hold a connection of the engine's pool; its size with the overflow |
| `clock`, `begin[r]`, the field `created` | when the transaction of a request's session began; `created_at` is filled in by `now()`, which is that time |
| `pc[r]` | the await at which the request is suspended |
| `seen`, `context`, `text`, `turns` | its locals: the history it read, what of it is sent, the summary that goes with it, the iterations of `_generate_with_tools` |
| `owed[r]` | whether a provider call of it is answered and not settled |
| `known`, `removed` | history variables: what was in the chat when the request arrived, what the user deleted |

A request goes through `Arrive` (the session's first statement), `Ask`
(`consume_request`, `get_chat`, the insert of the question and its commit),
`Refresh` (which begins the next transaction), `ReadHistory`, `Choose` (`build`),
if something is omitted `StartSummary`, `EndSummary`, another `Refresh` and
`Reread`, then `Generate` and `Settle` once or, with tools, several times, and
`Answer`.  `Arrive` and `Refresh` need a connection; a session gives its own back at a
commit, and a `Refresh` that finds none for as long as the pool lets it wait (30 s by
SQLAlchemy's default) raises (`Starve`).  `Fail` may take the place of any step.  `DeleteMessage` and
`DeleteChat` belong to other requests of the user.  A "post" is
`create_user_message` alone, through the messages API.

Abstractions: the check that the chat exists and the insert are one step, as the
foreign key makes them; a statement sees what is committed when it starts (READ
COMMITTED, PostgreSQL's default, which the code does not change); a summary is the set of
messages it was made of; a message takes as many tokens as its role says; two
transactions never begin at the same microsecond.  Left out: titles,
`create_chat`, and the new text of an edited message.  FastAPI closes the session
of a stream when the response is over, so a stream holds its connection to its end.

### ContextWindow

`Build` is `ConversationContextBuilder.build` over token counts.  The builder tells
messages apart by identity; here a message is its position in the history, and a
list of messages, which the builder always leaves in their order, is a set of
positions.  Its two loops are recursive functions: `Began`, forward over the
positions, is `_message_units`; `Taken`, backward over them, is
`_select_recent_units`.  `Extend` gives the builder a longer history, `Summarize` a
summary of what it omitted, as the orchestrator does.  Histories that come from the
database hold no tool messages today; the builder takes them, and so does the
module.  `Conversation` has the selection without tools in one line (`Recent`); that
the two agree is a theorem.

### Answering, AnswerTurns and CardValidator

| State | Code |
|---|---|
| `mode`, `provider` | the endpoint, `send_message` or `stream_message`; the provider of the settings |
| `conversation` | `conversation` of `_generate_with_tools`, which the tool loop extends |
| `turn`, `attempt`, `started` | the iteration, the `attempt` of the two retry loops and the `started` of the stream's |
| `response`, `buffer`, `usage` | the `LLMResponse`; the chunks and the last reported usage of a stream, each with the attempt it is from |
| `events` | what an event source on the client makes of the frames |
| `stored`, `outcome` | the text of the stored row; what the client was told |

`Reply` is an SDK's reply with everything the provider and the schemas make of it
(`ResponseTo`, `Accepted`); `Contents`, `Instruction` and `Sendable` are what the
provider makes of the conversation before it asks.  A list comprehension with a
condition is `AtPlaces`, the elements at some places in their order.  That a context
holds no tool's part in a conversation and no blank system message
(`ContextAssumption`) is what `build` and `get_llm_messages` make of the rows.  A text is one of five that
the code tells apart: none, empty, blank, one line, several lines.  A result is
the verdict on a card.  `AnswerTurns` is what the endpoints promise of this: no
more turns than `MAX_TOOL_ITERATIONS`, none that is not paid for, an answer once
and last.

`CardValidator` has the total of the tool, digit by digit from the right, and
the algorithm of Luhn as the standard for card numbers states it, as a check
digit over the payload.

### Accounts

| State | Code |
|---|---|
| `users`, `inactive` | the rows of `users` with the one email the module is about, and those whose `is_active` is false |
| `row[t]` | a row of `refresh_tokens`: not there, live, revoked; `account[t]` is its `user_id`, `ExpiresAt(t)` its `expires_at` |
| `pc`, `presented`, `account`, `at` | where a request is, the token it came with, the user it works for, the `now` it read |
| `void[r]` | history: the tokens that were revoked, removed, expired or of an inactive account when the refresh `r` arrived |

A refresh reads its token (`ReadToken`), then the user (`ReadOwner`); `revoke` and
`create` only mark objects, and the flush at `commit` sends the UPDATE (`Revoke`)
and the INSERT (`InsertToken`), between which the transaction holds the row of the
old token.  A deletion holds the row of the account (`DeleteUser`) while its
foreign keys delete the tokens (`Cascade`).  The two can wait for each other;
`Deadlock` is PostgreSQL aborting one.  `Waits` says which request waits for a lock,
`Blocked` which two wait for each other.  A response with tokens can be lost: its
client cannot present them.  A deletion comes with an access token, from a login
that need not be one of the requests.  Nothing in the code sets `is_active` to
false, yet three places test it: `Deactivate` is an operator.  Left out:
passwords, the expiry of access tokens, `update_current_user`.

### UsageLedger

What the lifecycle promises with no keys, windows or clocks: `Admit` if the
limit has room beside everything held and charged, `Charge` once, `Drop`.
`UsageRefinement` maps a call's account to what it holds and was charged; every
step of the lifecycle on one day is a step of the ledger or stutters, which is
checked and proved.  Over several days each window keeps a ledger of its own until a
call has crossed into it, which is proved.  Calls that cross midnight and scripts that
are sent twice break it: see section 4 and `ResendsCostOneEach` in section 5.

### ChatLog

What a chat promises with no transactions, clocks or contexts: `Ask` puts a
question behind all that was there when its request arrived, `Answer` puts the answer
behind that and behind the question, neither into a deleted chat, each once; `Remove`
takes a question, `Delete` everything; and whatever has its place keeps it.  An entry
need not be put at the end: of requests that overlap the later insert can have
the earlier stamp, and then it is read before messages that others have
seen already.  `ChatRefinement` maps a message to its request and role, and the order of
the stamps to the order of the log.

## 3. The runs

Every run states its constants in its `.cfg`.  A request costs 1 or 2 tokens of
input and up to 2 of output, a token half a unit of cost (so that the cut to an
integer shows), and the daily limits hold about two reservations: a third call
is refused or not depending on what the others did.  One retry
(`MaxProviderRetries = 1`) shows both a retried and a last attempt.

| Run | Instance | Question |
|---|---|---|
| `one_day` | a stream, a chat, a summary; one store error, one crash, one disconnect; fairness | is everything reserved given back or charged, are the counters exact whether or not a script that failed ran, does every call end, is it the abstract ledger |
| `two_days` | a stream and a chat, two days, keys that expire, an EVAL sent twice; fairness | do the counters still agree with what happened, is the quota kept, is a call charged once, is what is held given back |
| `requests` | three requests, a minute of 2 s, a day of 4 s, one store error, one EVAL sent twice, a deployment that lowers one limit and raises the other | the request limits, exactness and life of the counters |
| `context` | all histories of up to 5 messages of seven sorts, a window of 7 tokens of which 1 is reserved, summaries of 1 or 2 tokens | does the builder select what it should, and never bring back what was summarised |
| `chat` | a send, a stream and a post, two of them at a time; a window that holds one question; one request that fails, or one message deleted, and the deletion of the chat | is the chat the log it promises, through deletions too; order of the history, the question in its context, summaries that overwrite each other and have no hole |
| `chat_pool` | a send, a stream and a post, two at a time, over a pool of one connection, a window of five tokens, two turns, failures and deletions anywhere; fairness | does every request end, also when a silent stream keeps the connection; settlement before the answer |
| `answering` | one answer over either provider, by either endpoint; two turns, two retries, up to two calls and two chunks, four arguments of a tool | is an answer of one attempt, stored as it was given, with its results in their places |
| `accounts` | two registrations, a login, two refreshes, a logout, a deletion; the clock passes one lifetime | who can still use which token, and does anything block for good |
| `midnight_flaw`, `summary_flaw`, `stream_flaw`, `request_flaw` | two or three actors each | see section 4 |

Deadlock is checked in every run but `context`, whose histories end at their
bound; elsewhere the `AllEnded`, `Done` and `Quiet` steps mark the states where the system
may stop.

Bounds and why they are enough: with two or three calls all pairs of kinds meet
in every order; one fault of a sort puts it at every point of every call; two
days give a before and an after midnight, and a third day would only repeat
them; a minute of two seconds and a day of two minutes give every position of a
script relative to both windows' ends.  In `Conversation` two requests at a time
(`Concurrency`) give every interleaving of two transactions, and a third request
comes before, between or after them.  It is needed: for a summary to be lost two
requests have to summarise at once, of a history in which one has omitted more than
the other.  A window of two tokens holds one question (2) or two answers (1 each), so
every request but the first has something to omit.  With three requests the run `chat`
allows one mishap while the chat lives (`FewMishaps`: a request that fails or a message
that is deleted), so that it stays in reach; more of them only make the histories
shorter, and what `chat` checks is proved without that bound (section 5).  The tool loop has one turn there
and two in `chat_pool`, which has no such bound; its window of five tokens takes
two questions, so that a request may or may not have to summarise.  A pool of one
connection lets one request shut out all others; more only delay that.  In
`Answering` two turns show one that goes on and one that may not, two calls have an
order, and two retries have a middle.  Its card numbers have four digits: one is
valid, in one a digit is wrong, in one a 9 and a 0 have changed places, which Luhn
does not find, and one is too short.  Five messages with
sizes around the budget give a context of zero to five units, units that are too
large alone, and tool results on either side of the cut.  In `Accounts` every pair
of the operations on a token meets (refresh with refresh, with logout, with
deletion), and a second registration shows what of an old account is left.

Fairness, in `one_day` and `two_days` (`FairSpec` of `UsageLifecycle`): a reply of the store, the end of a
backoff sleep, and the end of `provider.generate`, which runs under
`request_timeout_seconds`.  A stream has no such bound (a provider that stays
silent in the middle of a stream is waited for), so the liveness properties are
about `generate` calls; nothing is assumed of midnight or of key expiry.  In
`chat_pool` (`FairSpec` of `Conversation`): each step of a request that has begun,
a stream's provider excepted, and the end of the time a session waits for a
connection; that the user sends another request is not assumed, nor is any other
failure or deletion, and nothing is said of a request that is not yet connected.
`answering` has safety properties only.  `accounts` assumes no fairness: that blocked
requests do not block for good is an invariant there (`SomeoneGoesOn`): a request
that does not wait is `Ready`, which says by its guards that its next step is enabled,
two in a deadlock are taken out of it, and there is always one or the other
(`WaitsEnd`).

## 4. Where the code and its documents disagree

Four runs are expected to violate their property.

* `midnight_flaw`: `settle_usage` and `release_usage` compute the daily window
  anew, so a call that crosses midnight subtracts its reservation from keys
  where it made none, and the reservation of another call there is lost while it
  is in use.  The quota of the new day can then be passed by as much.
* `summary_flaw`: a summary answer without content returns between reservation
  and settlement; the reservation stays until the day is over, and the tokens the
  provider used are not recorded.
* `stream_flaw`: only `asyncio.CancelledError` releases the reservation of a
  stream, and only inside the provider's stream.  When the client goes away while
  a chunk is being sent, the generator is suspended at `yield` and is closed with
  `GeneratorExit`.
* `request_flaw`: `consume_request` lets a refused request on when the counter is
  above its limit, which it is after a deployment lowered the limit.

Things a reader of the models should know, which contradict no document:

* Two requests on one chat at once read the same summary, and the later `update_summary`
  overwrites the other's: what the first one summarised beyond the other is then in no
  summary.  `SummaryHasNoHole` says what is left of the promise: it is lost at the end of
  what is summarised only, so it is still omitted next time and taken up again then, and
  no summary has a message without all that is before it for certain.
* A question can be missing in the context it is answered from when a request that overlaps
  stores a message behind it before the history is read.  `QuestionConsidered` says that
  messages that were there when the request arrived never push it out.
* The context is built again with the new summary, which takes room in it.  A
  message that fitted before and does not fit now is in neither the summary nor
  the context of that answer; `OnlyGrowthSqueezes` says that this is the only way.
* `summary_trigger_tokens` has no effect of its own: `_update_summary_if_needed`
  returns unless something is omitted, and an omission alone sets
  `should_summarize`.
* With the default settings a context may hold 6144 estimated tokens, and a
  request of more than 3952 is over `max_tokens_per_request` once
  `max_output_tokens` is added.  A chat that has grown past that is refused from
  then on, as it is never large enough to be summarised.
* Refreshes that overlap may both succeed, and then there are two sessions; a
  refresh that overlaps a logout may leave one.  `SpentStaysSpent` is about a
  refresh that arrives after the other request has committed.  A client whose
  response is lost has to log in again, as its old token is revoked by then.
* A stream answers with status 200 before it consumes a request or finds the chat:
  404, 429 and 503 never reach the client of a stream, for whom it breaks off.  One that
  is neither closed nor ended by an error event says nothing of what is stored
  (`StoredIsWhatClientSaw` is about the other two).
* A frame of the event stream is `data: ` and the chunk: of a chunk of several lines
  an event source keeps the first (`Frame`).  The stored answer has them all.
* A stream of blank chunks only is stored as an answer, while a blank answer of
  `send_message` is refused; a stream in which the model only calls tools ends as
  `AI_EMPTY_RESPONSE`, its reservation released, although usage was reported.
* Gemini's `generate` hands an empty text beside tool calls to a schema that refuses
  it, and Ollama's a blank one: a reply that used tokens ends as an error of the
  application, released and not charged.  Ollama's counters count as 0 when missing.
* The calls of the last turn are executed and their results thrown away: there is
  no turn left to use them in.
* Nothing raises `LLMProviderRateLimitError`.  Ollama's stream has no time limit, and
  Gemini's bounds the opening of a stream and not its chunks.

## 5. What is proved

`tlapm` checks every proof with no assumption but the named ASSUMEs on constants:
sets of calls and requests are finite, amounts, limits and bounds are naturals,
windows have a positive length.  Where a theorem is about some instances only (one
day, no script sent twice, one request at a time) its statement says so.

* `UsageLifecycleProofs`.  The invariant joins type correctness with facts about
  where a call is (`actual` is an amount the call may settle, a call that has not
  begun holds and was charged nothing) and with the book-keeping invariant: for
  each window and amount, `reserved <= Total(held)`, and, in the current window,
  `used = Total(charged)` and `reserved = Total(held)` unless a foreign
  reservation was closed there.  It is needed because what a script does to a
  key is a change of a sum over all calls; the lemmas of `TotalsProofs` say how a
  sum moves when one call's share does.  From it follow `NoPhantoms`,
  `CountersAreExact` and `RefusalsAreDue`.  `QuotaIsKept` needs one
  more conjunct, that used and reserved exceed the limit only by overruns, which
  is preserved because a settlement turns a reservation into a charge of at most
  the reservation plus its overrun.  `CallsGoForward`: a `generate` call that moves has
  fewer moves left than before (`CallsLeft`), at most four and two for each retry,
  whatever fails; it needs that no attempt is counted before the reservation is made,
  and that a sleeping call has one left.
* `RequestLimitProofs`.  `KeysLive` rests on `TTLReachesEnd`: the TTL computed at
  `t` reaches exactly to the end of the window of `t`, so a script that runs later
  sets an expiry that is no earlier.  Hence in a window that lasts no count is
  lost, and the counter is the number of counted requests (`CountersAreExact`).
  While the limits have not changed (`Steady`) a counter never passes its limit, so a
  refusing counter equals it, and the service's test for equality catches every
  refusal (`RefusalsHold`); and the requests let on in time are counted ones
  (`LimitsAreKept`).  After a deployment `request_flaw` shows both false.
* `UsageRefinementProofs`.  Every step runs the script of one call once or is quiet
  (`CallShape`), unless an EVAL is sent twice.  So a call is charged once and in
  one window (`EveryCallChargedOnce`), with any faults and over any days.

  What a call holds has an invariant of its own (`PlaceInv`): a granted call has its
  whole reservation in one window, not later than the one it last read from the
  clock, and after it has closed it has nothing, or the whole of it in an earlier
  window.  It is needed because a close says nothing of where the reservation was made;
  with it the notes on foreign closes are about calls that crossed midnight
  and about nothing else (`HeldInv`).  From it: only midnight strands what a settled or
  released call held (`StrandedOnlyByMidnight`), only a call that crossed into a window
  disturbs its counters (`DisturbedOnlyByMidnight`), and on a day into which none has
  crossed the counters are exact and the quota is kept (`ExactUnlessCrossed`).  These
  three say that what `midnight_flaw` shows is the one way to lose count.

  Every window implements the ledger as long as it is the current one and no call
  has crossed into it (`EveryDayRefinesLedger`): a granted reservation found room
  beside all that is held and charged, because the counters are the sums of the
  accounts.  With one day (`OneDay`) that is forever (`LifecycleRefinesLedger`), and a
  call that has closed holds nothing (`NothingStaysHeld`).  The refinements need that a
  reservation is never nothing (`SomethingReserved`): the ledger tells a call that holds
  from one that does not by the amount.  With the default of `max_output_tokens`,
  2048, it is so.

  `ResendsCostOneEach` is about the case the others leave out.  What a call holds is
  its reservation, and what it was charged is its usage, a whole number of times, at
  most once more than EVALs were sent again; and in one window.  Its invariant
  (`SentInv`) counts: until a call has its reply, all that has run of its script is what
  was sent once more.
* `ConversationProofs`.  Type correctness, and `AnswersFollow`, `OrderIsRealTime`,
  `DeletedIsEmpty`, `AnswersAreSettled` for any number of requests.  The invariant
  (`Inv`) says of every message where its request must be and that its stamp is
  not later than the request's transaction (`MessageInv`), and of every request
  that its transaction began after all it found and that an answer is at hand only
  when its calls are settled (`RequestInv`).  It is needed because nothing in the
  order of stamps alone says that a new transaction is begun between question and
  answer.  The lemmas go by what a step does to the history: nothing, remove, ask,
  answer.

  `ChatRefinesLog`: for any number of requests, whatever fails and is deleted, the
  chat implements `ChatLog`.  It needs that an entry tells a message: a request
  has one question and one answer at most, ever (`EntryInv`), so that the order of
  stamps is an order of entries; that stamps are distinct (`StampsInv`), so that an
  insert takes exactly one place (`OrderGrows`); and that what a request found, and its
  own question, are older than its transaction (`PastIsOlder`).

  `QuestionsAreConsidered` has an invariant of its own (`HistoryInv`): no two messages
  have the same stamp, as a transaction inserts at most one and begins at a time
  of its own; a request that has read the history has seen its question unless
  it was deleted; and what a context leaves out is older than something in it.
  The last rests on `NewestIsRecent`: a non-empty history has a newest message
  (by the well-foundedness of the naturals, as the stamps are bounded by the
  clock), and the selection takes it whatever its size.  That what takes the place of a
  question is of a request that overlaps follows from `RealTimeOrder`: what was known is
  older.

  `SummariesHaveNoHoles` is about requests that read one summary and overwrite each
  other's.  A set of messages is closed if it has with a message all that is before it
  and still in the chat (`Closed`).  The invariant (`HoleInv`) says so of the summary, of
  every request's copy of it, of the history it has seen and, while it summarises, of what
  it leaves out.  It is needed because the new summary is put together of two sets
  from different times.  What is left out is closed because a message before it is older
  (`OlderInv`) and a tail that does not fit has no longer tail that does
  (`RestIsClosed`); and what is closed stays so because a new message is
  before nothing that was there (`PrecedesStays`).

  Two more theorems say what a property alone does not.  `RequestsGoForward`: a
  request that moves has fewer moves left than before (`MovesLeft`), at most eleven
  and two for each iteration of the tool loop; this is the half of `RequestsEnd` that
  can be proved, the other half being that a request is not starved of its moves.
  `AloneNothingIsLost`: with one request of the user at a time (`Concurrency = 1`) a
  summary only grows and a message is always stored behind all that are there.  Both
  are false as soon as two requests overlap, which `send_message` and
  `stream_message` do not prevent: the instance of the run `chat` violates both.
* `ContextWindowProofs`, for any history and any settings that `__init__` accepts.
  `TypeCorrect`, and, without the bounds of the run `context`, its four properties:
  `LongestTailSelected`, `WindowKept`, `NothingComesBack`, `OnlyGrowthOmits`.  What a
  loop has done after each pass is proved by induction over the passes: that units
  begin where no result is attached to a call (`UnitsBeginAtStarts`), and that what is taken is
  at every pass everything from some start on, with the break exactly where the
  budget ends (`TakenFrom`, kept by `TakeStep`).  `LongestTail` makes of this the
  definition of the property, in which neither loop occurs.  `NothingComesBack` needs
  that a longer history leaves the older units as they were and no more room for
  them (`Appended`).

  `ChatSelectsTheSame` ties the two modules that have a context: for a history whose
  rows are those of a chat in the order of `created_at`, what `Conversation` calls
  the context of a request (`Recent`) is what `Build` selects, beside any summary.  So the
  invariants of `Conversation` about contexts are about the builder.
* `AnsweringProofs`, for any context and bounds.  Nothing that was kept of an attempt
  is there when another can follow (`Fresh`), from which `AttemptsAreNotMixed`; what
  is shown is what is kept, and is what is stored (`ClientSawWhatIsStored`); and every
  step is one of `AnswerTurns` or stutters (`AnsweringRefines`), as a turn is left
  wherever one can begin (`TurnInHand`).  The conversation begins with the context
  (`ContextFirst`), and a turn whose calls were executed is followed by their results,
  one by one (`CallsAnswered`); from these `AnsweringTypeCorrect` and
  `RequestsAreWhole`, over either provider, as every message is in the contents or
  the instruction and in its order.

  The arithmetic of the tool is about numbers of any length.  The verdict is that of
  Luhn (`VerdictOfLuhn`): the total is the payload's sum and the check digit.  Two
  numbers that differ in one digit are not both valid (`SingleErrorsDetected`), nor
  two that differ by a swap of neighbours, 0 and 9 excepted (`SwapsDetected`).
  `VerdictsAreLuhn` is the first of these for every result in a conversation.
* `AccountsProofs`.  `TokensHaveOwners`, `SpentTokensAreUseless` and
  `RevocationsHaveReasons`, for any requests.  The invariant
  needs of each request (`RequestInv`) that what was void when it arrived is
  still void (an expired token, too, as the clock does not go back), that an accepted refresh works for the account of its token (so a
  deletion that takes a successor takes the revoked token as well), and of each
  row (`TokenInv`) that its request has committed, so a committed token never
  becomes live again.  `OnlyOneDeadlock` follows every wait to its end: whoever holds
  a token's row goes on or waits for a deletion, whoever holds an account goes on or
  waits for a token, so the only circle is a refresh and a deletion of one account.
  `SomeoneIsReady` adds that nothing but a lock holds a request up: as long as one is
  under way, one has a statement to do that no lock delays, or two are in that
  circle.  It needs that a request is only at places its kind can come to (`KindInv`).
  `RequestsGoForward` says that no request returns to where it was.

A loop of the code over a list is a recursive function over positions (`Began`,
`Taken`, `Kept`, the sums of `CardValidator`).  That such a function exists, and
induction over it, are lemmas of `TotalsProofs` in terms of sets (`Recursion`,
`Induction`), from the well-foundedness of the order on the naturals.  The sum of a
function over a set is the number of its units, so that it needs no recursion.

Left to TLC: that what must happen does happen under fairness (`GenerateCallsEnd`,
`HeldUntilClosed`, `RequestsEnd`), of which the theorems named `...GoForward` are the
part that is not temporal; in `SomeoneGoesOn`, that ENABLED of a step is what
`Ready` says of its guards, the rest of it being proved (`SomeoneIsReady`); and the four runs
that find a property violated.

## 6. What is not modelled, and the plan

`PROJECT.json` lists every component with its status.  Left out for good:

* JWT and password hashing, error responses and their wording, start-up, migrations: calls into
  libraries or translation of data, with no state that two operations share.  The
  SDKs of the providers are external.
* `amount.lua`, `increment_tokens`, `increment_cost`, `delete_user` and the readers of
  the store: nothing in the application calls them.
* `create_chat`, titles, `update_current_user`: single rows that nothing else reads.
* Reading the settings from the environment: their values are constants.

In order:

1. Edits: the text of a message as a version, and which version an answer and a
   summary were made from.
2. Users side by side: two users on one store and one pool.
