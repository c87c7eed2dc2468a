---------------------------- MODULE ContextWindow ----------------------------
(***************************************************************************)
(* ConversationContextBuilder: which messages of a history are sent to the *)
(* provider and which are omitted, as a history grows and is summarised.   *)
(*                                                                         *)
(* A message is its role, whether it carries tool calls, and its estimated *)
(* tokens.  The builder compares messages by identity; here a message is   *)
(* named by its position in the history, and a list of messages, which the *)
(* builder always leaves in their order, is the set of their positions.    *)
(***************************************************************************)
EXTENDS Integers, Sequences, FiniteSets, Totals

CONSTANTS
    MaxTokens,            \* settings.ai.context_window
    ReserveTokens,        \* settings.ai.reserve_tokens
    SummaryTriggerTokens, \* settings.ai.summary_trigger_tokens
    PromptTokens,         \* the tokens of the system prompt
    Messages,             \* the messages a history is made of
    SummaryTokens,        \* the tokens a summary can take
    MaxLength             \* bound: the longest history

\* What __init__ demands of the settings.
ASSUME SettingsAssumption ==
    /\ MaxTokens \in Nat \ {0}
    /\ ReserveTokens \in 0 .. MaxTokens - 1
    /\ SummaryTriggerTokens \in Nat \ {0}

ASSUME MessagesAssumption ==
    /\ PromptTokens \in Nat
    /\ SummaryTokens \subseteq Nat \ {0}
    /\ \A m \in Messages : /\ m.role \in {"system", "user", "assistant", "tool"}
                           /\ m.calls => m.role = "assistant"
                           /\ m.tokens \in Nat \ {0}

VARIABLES
    history,   \* the messages given to build, oldest first
    summary,   \* the tokens of the summary given to build, 0 for none
    context    \* the ContextBuildResult of the two

vars == <<history, summary, context>>
-----------------------------------------------------------------------------
Role(msgs, p) == msgs[p].role

\* estimate_message_tokens summed over some positions of a history.
Tokens(msgs, ps) == Total([p \in ps |-> msgs[p].tokens])

\* conversation_messages and existing_system_messages.
Conversation(msgs) == { p \in DOMAIN msgs : Role(msgs, p) # "system" }
SystemMessages(msgs) == DOMAIN msgs \ Conversation(msgs)

\* The prompt, the summary and the system messages of the history.
SystemTokens(msgs, sum) == PromptTokens + sum + Tokens(msgs, SystemMessages(msgs))

\* max(1, ...) of the budget.
AtLeastOne(n) == IF n > 1 THEN n ELSE 1

\* Slips: the summary is not counted; its tokens are given to the messages.
BudgetWithoutSummary(msgs, sum) ==
    AtLeastOne(MaxTokens - ReserveTokens - SystemTokens(msgs, 0))
BudgetPlusSummary(msgs, sum) ==
    AtLeastOne(MaxTokens - ReserveTokens - SystemTokens(msgs, 0) + sum)

Budget(msgs, sum) == AtLeastOne(MaxTokens - ReserveTokens - SystemTokens(msgs, sum))

\* The loop of _message_units: where the unit began that is the last one when
\* position p has been seen, given the last one before it.  A message that calls
\* tools takes the tool results that follow it; any other is a unit of its own.
LastUnit(msgs, p, last) ==
    IF \/ Role(msgs, p) = "system"
       \/ Role(msgs, p) = "tool" /\ last # 0 /\ msgs[last].calls
    THEN last
    ELSE p

\* For every position, where the last unit up to it began; 0 for none.
Began(msgs) ==
    LET began[p \in 0 .. Len(msgs)] ==
            IF p = 0 THEN 0 ELSE LastUnit(msgs, p, began[p - 1])
    IN  began

\* The unit that begins at p; there is none where no unit begins.
Unit(msgs, p) == { q \in Conversation(msgs) : Began(msgs)[q] = p }

\* The messages of the units that begin after p.
Newer(msgs, p) == { q \in Conversation(msgs) : Began(msgs)[q] > p }

\* The break of the loop of _select_recent_units.
\* FullBefore is a slip: not even the newest unit is taken if it does not fit.
FullBefore(msgs, taken, unit, budget) == Tokens(msgs, taken \cup unit) > budget
Full(msgs, taken, unit, budget) ==
    taken # {} /\ Tokens(msgs, taken \cup unit) > budget

\* A slip: a unit that does not fit is passed over, and older ones are taken.
Skips(msgs, taken, p, budget) == Full(msgs, taken, Unit(msgs, p), budget)

\* Whether the loop is broken off at the unit that begins at p, or was before.
Breaks(msgs, taken, p, budget) ==
    taken # Newer(msgs, p) \/ Full(msgs, taken, Unit(msgs, p), budget)

\* The loop's body.
Take(msgs, taken, p, budget) ==
    IF Breaks(msgs, taken, p, budget) THEN taken ELSE taken \cup Unit(msgs, p)

\* What is taken of the units that begin among the last n positions, the newest
\* first.
Taken(msgs, budget) ==
    LET taken[n \in 0 .. Len(msgs)] ==
            IF n = 0 THEN {} ELSE Take(msgs, taken[n - 1], Len(msgs) + 1 - n, budget)
    IN  taken

SelectRecentUnits(msgs, budget) == Taken(msgs, budget)[Len(msgs)]

\* build: the ContextBuildResult.
Build(msgs, sum) ==
    LET conversation == Conversation(msgs)
        selected == SelectRecentUnits(msgs, Budget(msgs, sum))
        omitted == conversation \ selected
    IN  [selected  |-> selected,
         omitted   |-> omitted,
         estimated |-> SystemTokens(msgs, sum) + Tokens(msgs, selected),
         shouldSummarize |->
            \/ Tokens(msgs, conversation) >= SummaryTriggerTokens
            \/ omitted # {}]
-----------------------------------------------------------------------------
Init == /\ history = <<>>
        /\ summary = 0
        /\ context = Build(<<>>, 0)

\* The conversation goes on by a message.
Extend ==
    /\ Len(history) < MaxLength
    /\ \E m \in Messages :
        LET longer == Append(history, m)
        IN  history' = longer /\ context' = Build(longer, summary)
    /\ UNCHANGED summary

\* The orchestrator summarises what the context omits, and builds again.
Summarize ==
    /\ context.shouldSummarize
    /\ context.omitted # {}
    /\ \E tokens \in SummaryTokens :
        summary' = tokens /\ context' = Build(history, tokens)
    /\ UNCHANGED history

Next == Extend \/ Summarize

Spec == Init /\ [][Next]_vars
-----------------------------------------------------------------------------
(* Properties. *)

\* The summary is one that can be had, and the context is that of the history.
TypeOK ==
    /\ history \in Seq(Messages)
    /\ summary \in {0} \cup SummaryTokens
    /\ context = Build(history, summary)

\* Whole units: a tool result is never separated from the call before it.
Attached(msgs, p) ==
    /\ Role(msgs, p) = "tool"
    /\ \E c \in Conversation(msgs) :
        /\ c < p
        /\ msgs[c].calls
        /\ \A q \in Conversation(msgs) : c < q /\ q < p => Role(msgs, q) = "tool"

\* The positions of a conversation where a context may begin.
Starts(msgs) == { p \in Conversation(msgs) : ~ Attached(msgs, p) }

From(msgs, p) == { q \in Conversation(msgs) : q >= p }

\* Whether the budget holds everything from p on.
Fits(msgs, p, budget) == Tokens(msgs, From(msgs, p)) <= budget

\* p begins the longest tail in whole units that the budget holds, or the last
\* unit if it holds none.
BeginsLongestTail(msgs, p, budget) ==
    IF \E q \in Starts(msgs) : Fits(msgs, q, budget)
    THEN /\ Fits(msgs, p, budget)
         /\ \A q \in Starts(msgs) : Fits(msgs, q, budget) => p <= q
    ELSE \A q \in Starts(msgs) : q <= p

\* What is sent is the longest tail of the conversation, in whole units, that
\* the budget holds, and the newest unit when it holds none; what is omitted is
\* everything before it (_select_recent_units against its purpose).
SelectsLongestTail ==
    /\ context.omitted = Conversation(history) \ context.selected
    /\ IF Conversation(history) = {}
       THEN context.selected = {}
       ELSE \E p \in Starts(history) :
              /\ BeginsLongestTail(history, p, Budget(history, summary))
              /\ context.selected = From(history, p)

\* The request sent to the provider, prompt and summary included, leaves the
\* reserved part of the window free, unless it is down to its newest unit.
WithinWindow ==
    \/ context.estimated <= MaxTokens - ReserveTokens
    \/ \A p, q \in context.selected : Began(history)[p] = Began(history)[q]

\* While the summary does not change, a message once omitted is never sent
\* again: what was given to the summary does not come back into the context.
OmittedStayOmitted ==
    [][summary' = summary => context.omitted \subseteq context'.omitted]_vars

\* The context that is built again after a summary omits more than the first
\* one only if the summary has grown: only then is a message in neither.
OnlyGrowthSqueezes ==
    [][history' = history /\ summary' <= summary =>
        context'.omitted \subseteq context.omitted]_vars
=============================================================================
