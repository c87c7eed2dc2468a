------------------------------ MODULE Answering ------------------------------
(***************************************************************************)
(* One answer: the tool loop of send_message, or stream_message, between   *)
(* the context that was built and the answer that is stored, over Gemini   *)
(* or Ollama.  The retries, what a provider makes of a reply and of a      *)
(* conversation, the card validator, and the frames of the event stream.   *)
(*                                                                         *)
(* A text is one of five that the code treats differently.  Every step     *)
(* that waits can fail.  What is reserved and charged is the matter of     *)
(* UsageLifecycle; here a turn is paid for or not.                         *)
(***************************************************************************)
EXTENDS CardValidator

CONSTANTS
    Context,            \* the messages of the context
    Arguments,          \* the arguments a model may call a tool with
    MaxCalls,           \* bound: calls in a reply
    MaxChunks,          \* bound: chunks with text in a stream
    MaxToolIterations,  \* ConversationOrchestratorService.MAX_TOOL_ITERATIONS
    MaxProviderRetries  \* ConversationOrchestratorService.MAX_PROVIDER_RETRIES

Texts == {"none", "empty", "blank", "line", "lines"}

\* A text Python takes for true.
Truthy(text) == text \notin {"none", "empty"}

\* str_strip_whitespace of the schemas.
Stripped(text) == IF text = "blank" THEN "empty" ELSE text

\* get_tool_registry.
Registered == {"validate_bank_card"}

Names == Registered \cup {"unknown", ""}

Calls == [name : Names, argument : Arguments]

Results == {"valid", "invalid"}

Message(role, text, calls, name) ==
    [role |-> role, text |-> text, calls |-> calls, name |-> name]

Messages == [role : {"system", "user", "assistant", "tool"},
             text : Texts \cup Results, calls : Seq(Calls), name : Names]

\* build makes a context of the prompt and the summary, if they say something,
\* and of what get_llm_messages reads: questions and answers, never a tool's
\* part in them.
ASSUME ContextAssumption ==
    /\ Context \in Seq(Messages)
    /\ \A i \in DOMAIN Context :
        /\ Context[i].role # "tool"
        /\ Context[i].role = "system" => Truthy(Context[i].text)
        /\ Context[i].text \in Texts
        /\ Context[i].calls = << >>
        /\ Context[i].name = ""

ASSUME BoundsAssumption ==
    /\ MaxCalls \in Nat
    /\ MaxChunks \in Nat
    /\ MaxToolIterations \in Nat \ {0}
    /\ MaxProviderRetries \in Nat

Attempts == 0 .. MaxProviderRetries

VARIABLES
    mode,         \* "send" | "stream"
    provider,     \* "gemini" | "ollama"
    pc,           \* where the answer is
    conversation, \* the messages the next request will have
    turn,         \* turns that gave something to pay for
    attempt,      \* of the turn, as range counts it
    started,      \* whether a stream has yielded a chunk
    response,     \* of the turn: its text and its calls
    buffer,       \* the texts of the stream, with the attempt they are from
    usage,        \* the attempt of the reported usage, as a set; or none
    events,       \* the data the client's event source gave to it
    stored,       \* the texts of the stored answer
    outcome       \* "open" | "complete" | "error" | "aborted"

vars == <<mode, provider, pc, conversation, turn, attempt, started, response,
          buffer, usage, events, stored, outcome>>

Ended == {"done", "failed"}

PCs == {"reserving", "calling", "sleeping", "releasing", "recording",
        "tooling", "storing", "refreshing"} \cup Ended

NoResponse == [text |-> "none", calls |-> << >>]

\* The endpoints, and the providers the settings can choose.
Modes == {"send", "stream"}
Providers == {"gemini", "ollama"}

Init ==
    /\ mode \in Modes
    /\ provider \in Providers
    /\ pc = "reserving"
    /\ conversation = Context
    /\ turn = 0
    /\ attempt = 0
    /\ started = FALSE
    /\ response = NoResponse
    /\ buffer = << >>
    /\ usage = {}
    /\ events = << >>
    /\ stored = << >>
    /\ outcome = "open"
-----------------------------------------------------------------------------
(* The providers. *)

\* A loop over s that keeps the elements at some places, in their order: what
\* it has when it has seen the first n.
Kept(s, places) ==
    LET kept[n \in 0 .. Len(s)] ==
            IF n = 0 THEN << >>
            ELSE IF n \in places THEN Append(kept[n - 1], s[n]) ELSE kept[n - 1]
    IN  kept

AtPlaces(s, places) == Kept(s, places)[Len(s)]

\* What a provider takes of a message; neither takes the id of a call.
Taken(m, role) ==
    [role |-> role, text |-> m.text,
     calls |-> IF m.role = "assistant" THEN m.calls ELSE << >>,
     name |-> IF m.role = "tool" THEN m.name ELSE ""]

OllamaMessages ==
    [i \in DOMAIN conversation |-> Taken(conversation[i], conversation[i].role)]

\* A slip: the role is the model's for everything the user did not write.
GeminiRoleOfWriter(role) == IF role = "user" THEN "user" ELSE "model"

\* Gemini has no role for the results of tools.
GeminiRole(role) == IF role = "assistant" THEN "model" ELSE "user"

\* Gemini's contents leave out the system messages.
GeminiContents ==
    LET rest == AtPlaces(conversation,
                         { i \in DOMAIN conversation : conversation[i].role # "system" })
    IN  [i \in DOMAIN rest |-> Taken(rest[i], GeminiRole(rest[i].role))]

\* Beside them: the system messages that say something, and all the tools.
GeminiConfig ==
    [instruction |-> AtPlaces(conversation,
                              { i \in DOMAIN conversation :
                                  /\ conversation[i].role = "system"
                                  /\ Truthy(conversation[i].text) }),
     tools |-> Registered]

Contents == IF provider = "gemini" THEN GeminiContents ELSE OllamaMessages

Instruction == IF provider = "gemini" THEN GeminiConfig.instruction ELSE << >>

\* Gemini needs the name of the tool a result is from.
Sendable ==
    provider = "gemini" =>
        \A i \in DOMAIN conversation :
            conversation[i].role = "tool" => conversation[i].name # ""

\* What Gemini's generate makes of a reply: a call without a name is dropped,
\* and the text is handed on as it came, even when it is empty.
GeminiResponse(text, calls) ==
    [text |-> Stripped(text),
     calls |-> AtPlaces(calls, { i \in DOMAIN calls : calls[i].name # "" })]

\* What Ollama's generate makes of it: every call is kept, an empty text is none.
OllamaResponse(text, calls) ==
    [text |-> IF Truthy(text) THEN Stripped(text) ELSE "none", calls |-> calls]

ResponseTo(text, calls) ==
    IF provider = "gemini" THEN GeminiResponse(text, calls)
                           ELSE OllamaResponse(text, calls)

\* Neither a text nor calls is an error of the provider; a text that is empty
\* when stripped, and a call without a name, is refused by the schemas.
Accepted(text, calls) ==
    LET r == ResponseTo(text, calls)
    IN  /\ Truthy(text) \/ r.calls # << >>
        /\ r.text # "empty"
        /\ \A i \in DOMAIN r.calls : r.calls[i].name # ""

\* The usage of a response: Ollama's counters are taken for 0 when missing.
Reports == IF provider = "ollama" THEN {{attempt}} ELSE {{}, {attempt}}

\* generate_stream yields a chunk with a text or with usage, and no other.
Yielded(text, reported) == Truthy(text) \/ reported # {}
-----------------------------------------------------------------------------
(* The tools. *)

\* ToolRegistry.get.
Found(name) == name \in Registered

\* The tool of the call is there, and takes the argument.
Executable(call) == Found(call.name) /\ WellFormed(call.argument)

Result(call) ==
    Message("tool", IF IsValid(call.argument) THEN "valid" ELSE "invalid",
            << >>, call.name)

\* A slip: the results in the order in which the calls were popped.
ResultsPopped(calls) ==
    [i \in DOMAIN calls |-> Result(calls[Len(calls) + 1 - i])]

ResultsOf(calls) == [i \in DOMAIN calls |-> Result(calls[i])]
-----------------------------------------------------------------------------
(* The event stream. *)

\* A frame is "data: ", the text and a blank line: of a text of several lines
\* the client is given the first.
Frame(text) == IF text = "lines" THEN "line" ELSE text
-----------------------------------------------------------------------------
(* The steps. *)

GoTo(l) == pc' = l

\* What a request's service is built with.
Fixed == <<mode, provider>>
Written == <<stored, outcome>>
Streamed == <<started, buffer, events>>

\* check_cost_token_limit lets the next turn on, and the provider is asked.
Reserve ==
    /\ pc = "reserving"
    /\ GoTo(IF Sendable THEN "calling" ELSE "releasing")
    /\ attempt' = 0
    /\ started' = FALSE
    /\ usage' = {}
    /\ UNCHANGED <<Fixed, conversation, turn, response, buffer, events, Written>>

\* generate returns a response, or raises on the reply.
Reply ==
    /\ pc = "calling"
    /\ mode = "send"
    /\ \E text \in Texts, n \in 0 .. MaxCalls : \E calls \in [1 .. n -> Calls] :
        IF Accepted(text, calls)
        THEN /\ response' = ResponseTo(text, calls)
             /\ usage' \in Reports
             /\ turn' = turn + 1
             /\ GoTo("recording")
        ELSE /\ GoTo("releasing")
             /\ UNCHANGED <<response, usage, turn>>
    /\ UNCHANGED <<Fixed, conversation, attempt, Streamed, Written>>

\* A slip: a chunk that brings usage only does not count as the start.
StartedByText(text) == started \/ Truthy(text)

StartedBy(text) == TRUE

\* A chunk is yielded; its text, if it has one, is kept and sent.
Chunk ==
    /\ pc = "calling"
    /\ mode = "stream"
    /\ \E text \in Texts, reported \in {{}, {attempt}} :
        /\ Yielded(text, reported)
        /\ started' = StartedBy(text)
        /\ usage' = IF reported = {} THEN usage ELSE reported
        /\ IF Truthy(text)
           THEN /\ Len(buffer) < MaxChunks
                /\ buffer' = Append(buffer, [text |-> text, attempt |-> attempt])
                /\ events' = Append(events, Frame(text))
           ELSE UNCHANGED <<buffer, events>>
    /\ UNCHANGED <<Fixed, pc, conversation, turn, attempt, response, Written>>

\* The stream is at its end: there is an answer, or nothing to pay for.
EndStream ==
    /\ pc = "calling"
    /\ mode = "stream"
    /\ IF buffer = << >>
       THEN GoTo("releasing") /\ UNCHANGED turn
       ELSE GoTo("recording") /\ turn' = turn + 1
    /\ UNCHANGED <<Fixed, conversation, attempt, response, usage, Streamed, Written>>

\* A transient error is waited for and tried again, unless the client has
\* been given a part of the answer.
Retried == ~ started /\ attempt < MaxProviderRetries

Timeout ==
    /\ pc = "calling"
    /\ GoTo(IF Retried THEN "sleeping" ELSE "releasing")
    /\ UNCHANGED <<Fixed, conversation, turn, attempt, response, usage, Streamed, Written>>

Retry ==
    /\ pc = "sleeping"
    /\ attempt' = attempt + 1
    /\ started' = FALSE
    /\ GoTo("calling")
    /\ UNCHANGED <<Fixed, conversation, turn, response, buffer, usage, events, Written>>

\* Any other error of the provider, before, in or after a stream.
ProviderError ==
    /\ pc = "calling"
    /\ GoTo("releasing")
    /\ UNCHANGED <<Fixed, conversation, turn, attempt, response, usage, Streamed, Written>>

\* A slip: nothing ends the stream behind the error event.
ReleaseAndGoOn ==
    /\ pc = "releasing"
    /\ outcome' = "error"
    /\ GoTo("storing")
    /\ UNCHANGED <<Fixed, conversation, turn, attempt, response, usage, Streamed, stored>>

\* release_usage; then the exception goes on to the client, or an error event.
Release ==
    /\ pc = "releasing"
    /\ outcome' = "error"
    /\ GoTo("failed")
    /\ UNCHANGED <<Fixed, conversation, turn, attempt, response, usage, Streamed, stored>>

\* record_provider_usage.  A response without calls is the answer.
Record ==
    /\ pc = "recording"
    /\ IF mode = "send" /\ response.calls # << >>
       THEN GoTo("tooling") /\ UNCHANGED outcome
       ELSE IF mode = "stream" \/ Truthy(response.text)
       THEN GoTo("storing") /\ UNCHANGED outcome
       ELSE GoTo("failed") /\ outcome' = "error"
    /\ UNCHANGED <<Fixed, conversation, turn, attempt, response, usage, Streamed, stored>>

\* A slip: one iteration more than range gives.
TurnsLeftOffByOne == turn <= MaxToolIterations

TurnsLeft == turn < MaxToolIterations

\* The calls of a response are kept in the conversation and executed in their
\* order.  One that cannot be executed ends the answer, as does the last turn.
RunTools ==
    /\ pc = "tooling"
    /\ conversation' = IF \A i \in DOMAIN response.calls : Executable(response.calls[i])
                       THEN conversation
                            \o << Message("assistant",
                                          IF response.text = "none" THEN "empty"
                                                                    ELSE response.text,
                                          response.calls, "") >>
                            \o ResultsOf(response.calls)
                       ELSE conversation
    /\ IF conversation' # conversation /\ TurnsLeft
       THEN GoTo("reserving") /\ UNCHANGED outcome
       ELSE GoTo("failed") /\ outcome' = "error"
    /\ UNCHANGED <<Fixed, turn, attempt, response, usage, Streamed, stored>>

\* create_assistant_message up to its commit.
Store ==
    /\ pc = "storing"
    /\ stored' = IF mode = "send" THEN << response.text >>
                 ELSE [i \in DOMAIN buffer |-> buffer[i].text]
    /\ GoTo("refreshing")
    /\ UNCHANGED <<Fixed, conversation, turn, attempt, response, usage, Streamed, outcome>>

\* The stored row is read again; the answer is returned, or the stream closed.
Refresh ==
    /\ pc = "refreshing"
    /\ outcome' = "complete"
    /\ GoTo("done")
    /\ UNCHANGED <<Fixed, conversation, turn, attempt, response, usage, Streamed, stored>>

\* A request that waits can end there: a limit, an error of the store or the
\* database, the chat gone, the client gone, the worker killed.  A stream has
\* begun its response by then and breaks off, without an error event.
Break ==
    /\ pc \notin Ended
    /\ outcome' \in IF mode = "send" THEN {"error", "aborted"} ELSE {"aborted"}
    /\ GoTo("failed")
    /\ UNCHANGED <<Fixed, conversation, turn, attempt, response, usage, Streamed, stored>>

Over == pc \in Ended /\ UNCHANGED vars

Next ==
    \/ Reserve \/ Reply \/ Chunk \/ EndStream \/ Timeout \/ Retry
    \/ ProviderError \/ Release \/ Record \/ RunTools \/ Store \/ Refresh
    \/ Break \/ Over

Spec == Init /\ [][Next]_vars
-----------------------------------------------------------------------------
(* Properties. *)

\* Every variable has its type.
TypeOK ==
    /\ mode \in Modes
    /\ provider \in Providers
    /\ pc \in PCs
    /\ conversation \in Seq(Messages)
    /\ turn \in 0 .. MaxToolIterations
    /\ attempt \in Attempts
    /\ started \in BOOLEAN
    /\ response \in [text : Texts, calls : Seq(Calls)]
    /\ buffer \in Seq([text : Texts, attempt : Attempts])
    /\ usage \subseteq Attempts
    /\ events \in Seq(Texts)
    /\ stored \in Seq(Texts)
    /\ outcome \in {"open", "complete", "error", "aborted"}

\* Whatever is tried again, what an answer is made of and the usage it is
\* charged with are of one attempt: _stream_with_retry never adds the text of
\* a second call to what the client has read of a first, and stream_message
\* never keeps the usage of a call whose text it does not have.
AnswerOfOneAttempt ==
    /\ \A i \in DOMAIN buffer : buffer[i].attempt = attempt
    /\ usage \subseteq {attempt}

\* What the client knows and what the chat holds are the same: an answer that
\* was returned, or a stream that was closed, is stored; no stream with an
\* error event is; and of a stored stream the client was given every chunk, as
\* far as a frame holds it.
StoredIsWhatClientSaw ==
    /\ outcome = "complete" => stored # << >>
    /\ mode = "stream" /\ stored # << >>
         => /\ outcome # "error"
            /\ events = [i \in DOMAIN stored |-> Frame(stored[i])]

\* A provider gets the whole conversation: no message is lost between the
\* contents and the instruction, and the calls of a turn of the model are
\* followed at once by as many results, each with the name of the call at its
\* place, and no result stands anywhere else.  Neither provider is sent the id
\* of a call: the order is all that says which result is whose.
RequestIsWhole ==
    pc = "calling" =>
        /\ Len(Contents) + Len(Instruction) = Len(conversation)
        /\ \A i \in DOMAIN Contents :
            LET calls == Contents[i].calls
                IsResult(k) == Contents[k].text \in Results
            IN  calls # << >> =>
                    /\ Contents[i].role \in {"model", "assistant"}
                    /\ i + Len(calls) <= Len(Contents)
                    /\ \A k \in 1 .. Len(calls) :
                        /\ IsResult(i + k)
                        /\ Contents[i + k].role \in {"user", "tool"}
                        /\ Contents[i + k].name = calls[k].name
                    /\ i + Len(calls) < Len(Contents)
                        => ~ IsResult(i + Len(calls) + 1)

\* The verdict at the place of a call is that of the algorithm of Luhn on the
\* number the model called the tool with.
VerdictIsLuhn ==
    \A i \in DOMAIN conversation :
        \A k \in DOMAIN conversation[i].calls :
            conversation[i + k].text =
                IF IsLuhn(conversation[i].calls[k].argument) THEN "valid"
                                                             ELSE "invalid"
-----------------------------------------------------------------------------
(* What it implements. *)

Phase ==
    CASE stored # << >> -> "answered"
      [] pc = "failed" -> "failed"
      [] pc = "recording" -> "owing"
      [] pc = "storing" -> "answering"
      [] OTHER -> "asking"

Turns == INSTANCE AnswerTurns WITH
    MaxTurns <- MaxToolIterations,
    phase <- Phase,
    turns <- turn

\* The loop, the retries and the stream make only the steps AnswerTurns allows:
\* no more turns than MAX_TOOL_ITERATIONS, every one settled before its tools
\* run or its text is stored, and nothing after a failure.
ImplementsTurns == Turns!TurnsSpec
=============================================================================
