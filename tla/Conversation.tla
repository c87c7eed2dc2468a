---------------------------- MODULE Conversation ----------------------------
(***************************************************************************)
(* One chat and the requests on it: send_message, stream_message, and the  *)
(* creation of a message without an answer.  Every step is what a request  *)
(* does between two awaits that others can interleave with; the database   *)
(* is read at READ COMMITTED, a statement at a time.                       *)
(*                                                                         *)
(* A message is the request it belongs to, its role and created_at, which  *)
(* is now() of PostgreSQL: the begin of the transaction that inserts it.   *)
(* A summary is the set of messages it was made of.  What usage costs is   *)
(* the matter of UsageLifecycle; here a provider call is owed or settled.  *)
(* What of a history is sent is the matter of ContextWindow; here it is    *)
(* the longest tail that fits.                                             *)
(***************************************************************************)
EXTENDS Integers, FiniteSets, Totals

CONSTANTS
    Requests,          \* the requests on the chat
    Kind,              \* Requests -> "send" | "stream" | "post"
    Concurrency,       \* how many requests the user has under way at a time
    PoolSize,          \* connections of the engine's pool
    Window,            \* tokens of the context window left to messages
    SummaryTokens,     \* tokens a summary takes of it
    MessageTokens,     \* role -> tokens of a message
    MaxToolIterations  \* ConversationOrchestratorService.MAX_TOOL_ITERATIONS

Roles == {"user", "assistant"}

ASSUME RequestsAssumption ==
    /\ IsFiniteSet(Requests)
    /\ Kind \in [Requests -> {"send", "stream", "post"}]

ASSUME SizesAssumption ==
    /\ Window \in Nat \ {0}
    /\ SummaryTokens \in Nat
    /\ MessageTokens \in [Roles -> Nat \ {0}]
    /\ MaxToolIterations \in Nat \ {0}
    /\ Concurrency \in Nat \ {0}
    /\ PoolSize \in Nat \ {0}

VARIABLES
    chat,      \* the row of the chat: "live" | "deleted"
    messages,  \* its rows in messages
    summary,   \* its column summary
    clock,     \* begins of transactions so far
    pc,        \* per request, where it is
    begin,     \* per request, the begin of its transaction
    seen,      \* per request, the history it read last
    context,   \* per request, the messages of its context
    text,      \* per request, the summary in its context
    turns,     \* per request, the provider calls of its answer
    owed,      \* per request, whether a provider call is not settled
    known,     \* history: per request, the messages there when it arrived
    removed    \* history: the messages the user deleted

rows == <<chat, messages, summary, removed>>
locals == <<pc, begin, seen, context, text, turns, owed, known>>
vars == <<rows, clock, locals>>

Ended == {"done", "failed"}

PCs == {"idle", "begun", "asked", "reading", "choosing", "omitting",
        "summarizing", "stored", "rereading", "generating", "settling",
        "answering"} \cup Ended

InFlight == { r \in Requests : pc[r] \notin {"idle"} \cup Ended }

\* After a commit, and before the statement that follows it, a session has no
\* connection.
Detached == {"asked", "stored"}

\* The requests that hold a connection, in an open transaction: while the
\* provider answers, too.
Connected == { r \in Requests : pc[r] \notin {"idle"} \cup Detached \cup Ended }

PoolHasRoom == Cardinality(Connected) < PoolSize
-----------------------------------------------------------------------------
(* The context. *)

Since(ms, m) == { n \in ms : n.created >= m.created }

Weight(ms) == Total([m \in ms |-> MessageTokens[m.role]])

\* A slip: not even the newest message is taken when it does not fit.
RecentThatFit(ms, room) == { m \in ms : Weight(Since(ms, m)) <= room }

\* The longest tail of a history that fits, and at least the newest message.
Recent(ms, room) ==
    { m \in ms : Since(ms, m) = {m} \/ Weight(Since(ms, m)) <= room }

\* The budget build leaves to messages beside a summary.
Room(sum) == IF sum = {} THEN Window
             ELSE IF SummaryTokens < Window THEN Window - SummaryTokens ELSE 1
-----------------------------------------------------------------------------
Init ==
    /\ chat = "live"
    /\ messages = {}
    /\ summary = {}
    /\ clock = 0
    /\ pc = [r \in Requests |-> "idle"]
    /\ begin = [r \in Requests |-> 0]
    /\ seen = [r \in Requests |-> {}]
    /\ context = [r \in Requests |-> {}]
    /\ text = [r \in Requests |-> {}]
    /\ turns = [r \in Requests |-> 0]
    /\ owed = [r \in Requests |-> FALSE]
    /\ known = [r \in Requests |-> {}]
    /\ removed = {}

GoTo(r, l) == pc' = [pc EXCEPT ![r] = l]

\* A slip: the session stays in its first transaction.
BeginOnce(r) ==
    /\ clock' = clock + 1
    /\ begin' = [begin EXCEPT ![r] = IF @ = 0 THEN clock + 1 ELSE @]

\* The first statement of a transaction.
BeginTransaction(r) == /\ clock' = clock + 1
                       /\ begin' = [begin EXCEPT ![r] = clock + 1]

\* created_at of a message that a request inserts now.
\* A slip: the time at which the application was started.
StartTime(r) == 0
CreatedAt(r) == begin[r]

Row(r, role) == [of |-> r, role |-> role, created |-> CreatedAt(r)]

\* A slip: no check, and a table without the foreign key.
InsertUnchecked(r, role, l) ==
    /\ messages' = messages \cup {Row(r, role)}
    /\ GoTo(r, l)

\* _create_message up to its commit.  The check for the chat and the foreign
\* key, which locks the row of the chat, are one: without the chat the request
\* ends with 404 or with an integrity error, and nothing is stored.
Insert(r, role, l) ==
    \/ /\ chat = "live"
       /\ messages' = messages \cup {Row(r, role)}
       /\ GoTo(r, l)
    \/ /\ chat = "deleted"
       /\ GoTo(r, "failed")
       /\ UNCHANGED messages
-----------------------------------------------------------------------------
(* The steps of a request. *)

\* get_current_user reads the user: the transaction begins.
Arrive(r) ==
    /\ pc[r] = "idle"
    /\ Cardinality(InFlight) < Concurrency
    /\ PoolHasRoom
    /\ BeginTransaction(r)
    /\ known' = [known EXCEPT ![r] = messages]
    /\ GoTo(r, "begun")
    /\ UNCHANGED <<rows, seen, context, text, turns, owed>>

\* consume_request, get_chat and create_user_message.
Ask(r) ==
    /\ pc[r] = "begun"
    /\ Insert(r, "user", "asked")
    /\ UNCHANGED <<chat, summary, removed, clock, begin, seen, context, text,
                   turns, owed, known>>

\* refresh after a commit: the next transaction begins, on a connection of its
\* own, with a read of the row, which may be gone.
Refresh(r) ==
    /\ pc[r] \in Detached
    /\ PoolHasRoom
    /\ LET found == IF pc[r] = "asked"
                    THEN \E m \in messages : m.of = r /\ m.role = "user"
                    ELSE chat = "live"
           next == CASE pc[r] = "stored" -> "rereading"
                     [] pc[r] = "asked" /\ Kind[r] = "post" -> "done"
                     [] OTHER -> "reading"
       IN  GoTo(r, IF found THEN next ELSE "failed")
    /\ BeginTransaction(r)
    /\ UNCHANGED <<rows, seen, context, text, turns, owed, known>>

\* get_llm_messages.
ReadHistory(r) ==
    /\ pc[r] = "reading"
    /\ seen' = [seen EXCEPT ![r] = messages]
    /\ GoTo(r, "choosing")
    /\ UNCHANGED <<rows, clock, begin, context, text, turns, owed, known>>

\* get_summary and build; whether something is omitted decides what is next.
Choose(r) ==
    /\ pc[r] = "choosing"
    /\ \/ /\ chat = "live"
          /\ LET recent == Recent(seen[r], Room(summary))
             IN  /\ context' = [context EXCEPT ![r] = recent]
                 /\ GoTo(r, IF recent = seen[r] THEN "generating" ELSE "omitting")
          /\ text' = [text EXCEPT ![r] = summary]
       \/ /\ chat = "deleted"
          /\ GoTo(r, "failed")
          /\ UNCHANGED <<context, text>>
    /\ UNCHANGED <<rows, clock, begin, seen, turns, owed, known>>

\* The existing summary is read once more before the provider is asked.
StartSummary(r) ==
    /\ pc[r] = "omitting"
    /\ \/ /\ chat = "live"
          /\ text' = [text EXCEPT ![r] = summary]
          /\ GoTo(r, "summarizing")
       \/ /\ chat = "deleted"
          /\ GoTo(r, "failed")
          /\ UNCHANGED text
    /\ UNCHANGED <<rows, clock, begin, seen, context, turns, owed, known>>

\* What a new summary is made of: the existing one and the omitted messages.
\* A slip: what the summary of the chat has by now is not summarised again.
NotYetSummarized(r) ==
    text[r] \cup { m \in seen[r] \ context[r] : m \notin summary }
NewSummary(r) == text[r] \cup (seen[r] \ context[r])

\* summarize returns a new summary, which is stored over whatever is there, or
\* the existing one: it failed, was empty, or said nothing new.
EndSummary(r) ==
    /\ pc[r] = "summarizing"
    /\ \/ /\ chat = "live"
          /\ text' = [text EXCEPT ![r] = NewSummary(r)]
          /\ summary' = NewSummary(r)
          /\ GoTo(r, "stored")
       \/ /\ chat = "deleted"
          /\ GoTo(r, "failed")
          /\ UNCHANGED <<text, summary>>
       \/ /\ GoTo(r, "rereading")
          /\ UNCHANGED <<text, summary>>
    /\ UNCHANGED <<chat, messages, removed, clock, begin, seen, context, turns,
                   owed, known>>

\* The context is built again from a fresh read and the summary at hand.
Reread(r) ==
    /\ pc[r] = "rereading"
    /\ seen' = [seen EXCEPT ![r] = messages]
    /\ context' = [context EXCEPT ![r] = Recent(messages, Room(text[r]))]
    /\ GoTo(r, "generating")
    /\ UNCHANGED <<rows, clock, begin, text, turns, owed, known>>

\* A slip: the calls of the tool loop are counted down.
CountDown(r) == turns' = [turns EXCEPT ![r] = @ - 1]

\* One more iteration of the loop.
CountTurn(r) == turns' = [turns EXCEPT ![r] = @ + 1]

\* The provider has answered, or its stream is at its end.
Generate(r) ==
    /\ pc[r] = "generating"
    /\ CountTurn(r)
    /\ owed' = [owed EXCEPT ![r] = TRUE]
    /\ GoTo(r, "settling")
    /\ UNCHANGED <<rows, clock, begin, seen, context, text, known>>

\* record_provider_usage.  Then there is content; or send_message runs the
\* tools that were called and asks again, unless it has used its iterations.
Settle(r) ==
    /\ pc[r] = "settling"
    /\ owed' = [owed EXCEPT ![r] = FALSE]
    /\ \/ GoTo(r, "answering")
       \/ /\ Kind[r] = "send"
          /\ GoTo(r, IF turns[r] < MaxToolIterations THEN "generating" ELSE "failed")
    /\ UNCHANGED <<rows, clock, begin, seen, context, text, turns, known>>

\* A slip: a stream is stored when its last chunk is there.
AnswerEarly(r) ==
    /\ pc[r] = "answering" \/ (pc[r] = "settling" /\ Kind[r] = "stream")
    /\ Insert(r, "assistant", "done")
    /\ UNCHANGED <<chat, summary, removed, clock, begin, seen, context, text,
                   turns, owed, known>>

\* create_assistant_message, in the transaction that has been open since the
\* last refresh.  The read of the row after its commit changes nothing more.
Answer(r) ==
    /\ pc[r] = "answering"
    /\ Insert(r, "assistant", "done")
    /\ UNCHANGED <<chat, summary, removed, clock, begin, seen, context, text,
                   turns, owed, known>>

\* A request that waits can end there: refused by a limit, an error of the
\* database, the store, the provider or a tool, an answer without content, a
\* client gone, a worker killed.  Its transaction is rolled back.
Fail(r) ==
    /\ pc[r] \notin {"idle"} \cup Ended
    /\ GoTo(r, "failed")
    /\ UNCHANGED <<rows, clock, begin, seen, context, text, turns, owed, known>>

\* A slip: a session waits for a connection without a time limit.
WaitForever(r) == FALSE

\* One of its ends: the pool had no connection for as long as a session waits.
Starve(r) ==
    /\ pc[r] \in Detached
    /\ ~ PoolHasRoom
    /\ Fail(r)
-----------------------------------------------------------------------------
(* Requests that delete. *)

\* delete_message, of a message of the user; others are immutable.
DeleteMessage ==
    /\ \E m \in messages :
        /\ m.role = "user"
        /\ messages' = messages \ {m}
        /\ removed' = removed \cup {m}
    /\ UNCHANGED <<chat, summary, clock, locals>>

\* delete_chat: the foreign key takes the messages with the chat.
DeleteChat ==
    /\ chat = "live"
    /\ chat' = "deleted"
    /\ messages' = {}
    /\ summary' = {}
    /\ removed' = removed \cup messages
    /\ UNCHANGED <<clock, locals>>

Done == /\ \A r \in Requests : pc[r] \in Ended
        /\ UNCHANGED vars

\* The service's own steps; of a stream the provider's part is not bounded.
Serve(r) ==
    \/ Ask(r) \/ Refresh(r) \/ ReadHistory(r) \/ Choose(r) \/ StartSummary(r)
    \/ EndSummary(r) \/ Reread(r) \/ Settle(r) \/ Answer(r) \/ Starve(r)
    \/ Kind[r] # "stream" /\ Generate(r)

Step(r) ==
    \/ Arrive(r) \/ Ask(r) \/ Refresh(r) \/ ReadHistory(r) \/ Choose(r)
    \/ StartSummary(r) \/ EndSummary(r) \/ Reread(r) \/ Generate(r)
    \/ Settle(r) \/ Answer(r) \/ Fail(r)

Next == (\E r \in Requests : Step(r)) \/ DeleteMessage \/ DeleteChat \/ Done

Spec == Init /\ [][Next]_vars

FairSpec == Spec /\ \A r \in Requests : WF_vars(Serve(r))
-----------------------------------------------------------------------------
(* Properties. *)

Rows == [of : Requests, role : Roles, created : Nat]

\* Every variable has its type.
TypeOK ==
    /\ chat \in {"live", "deleted"}
    /\ messages \subseteq Rows
    /\ summary \subseteq Rows
    /\ clock \in Nat
    /\ pc \in [Requests -> PCs]
    /\ begin \in [Requests -> Nat]
    /\ seen \in [Requests -> SUBSET Rows]
    /\ context \in [Requests -> SUBSET Rows]
    /\ text \in [Requests -> SUBSET Rows]
    /\ turns \in [Requests -> Nat]
    /\ owed \in [Requests -> BOOLEAN]
    /\ known \in [Requests -> SUBSET Rows]
    /\ removed \subseteq Rows

\* In the history, which is ordered by created_at, an answer comes after the
\* question it answers, although both are stamped with the begin of a
\* transaction and not with the time they are stored.
AnswerFollowsQuestion ==
    \A q, a \in messages :
        q.of = a.of /\ q.role = "user" /\ a.role = "assistant"
            => q.created < a.created

\* What was in the chat when a request arrived comes before everything the
\* request adds: requests made one after the other are in their order, however
\* long the earlier ones took.
RealTimeOrder ==
    \A m \in messages : \A n \in known[m.of] : n.created < m.created

\* A deleted chat has no messages, whoever is still at work on it.
NothingInDeletedChat == chat = "deleted" => messages = {}

\* README, Persistence Ordering: an answer is stored only when the provider's
\* calls for it are settled.
AnswersSettled ==
    \A m \in messages : m.role = "assistant" => turns[m.of] > 0 /\ ~ owed[m.of]

\* A request is answered from a context with its question, unless the user
\* deleted the question, or a message took its place that is newer and was not
\* there when the request arrived: only requests that overlap push it out.
QuestionConsidered ==
    \A r \in Requests : \A q \in messages \cup removed :
        /\ q.of = r /\ q.role = "user"
        /\ pc[r] \in {"generating", "settling", "answering"}
        => \/ q \in context[r] \cup removed
           \/ \E m \in context[r] \ known[r] : m.created > q.created

\* What is before a message for certain: what its request found in the chat,
\* and of an answer the question.
Precedes(n, m) ==
    \/ n \in known[m.of]
    \/ n.of = m.of /\ n.role = "user" /\ m.role = "assistant"

\* No summary has a hole, neither that of the chat nor one that is sent with a
\* context: with a message it has all that is before it and still there.  Two
\* requests at once overwrite each other's summary, but what is lost by that is
\* at the end, and no later summary goes past it without taking it up again.
SummaryHasNoHole ==
    \A s \in {summary} \cup { text[r] : r \in Requests } :
        \A m \in s, n \in messages : Precedes(n, m) => n \in s

\* A request other than a stream is answered or fails: the tool loop ends, and
\* slow streams that hold every connection stop nobody for good.
RequestsEnd ==
    \A r \in Requests : Kind[r] # "stream" =>
        (pc[r] = "begun" ~> pc[r] \in Ended)
=============================================================================
