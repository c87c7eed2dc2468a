------------------------ MODULE ConversationProofs ------------------------
(***************************************************************************)
(* Theorems about Conversation, for any number of requests of any kinds,   *)
(* any sizes and any limit on the requests under way.                      *)
(***************************************************************************)
EXTENDS ChatRefinement, TotalsProofs

-----------------------------------------------------------------------------
(* Type correctness. *)

\* A context is a part of the history it is chosen from.
LEMMA RecentIsPart ==
  ASSUME NEW ms, NEW room
  PROVE  Recent(ms, room) \subseteq ms
BY DEF Recent

\* What a request inserts is a row.
LEMMA RowType ==
  ASSUME TypeOK, NEW r \in Requests, NEW role \in Roles
  PROVE  Row(r, role) \in Rows
BY DEF TypeOK, Row, CreatedAt, Rows

\* The start of the service has the types.
LEMMA InitType == Init => TypeOK
BY DEF Init, TypeOK, PCs, Rows

\* Every step keeps the types.
LEMMA NextType == TypeOK /\ [Next]_vars => TypeOK'
<1> SUFFICES ASSUME TypeOK, [Next]_vars
             PROVE  TypeOK'
  OBVIOUS
<1> USE DEF TypeOK
<1>1. ASSUME NEW r \in Requests, Arrive(r)
      PROVE  TypeOK'
  BY <1>1 DEF Arrive, BeginTransaction, GoTo, PCs, rows
<1>2. ASSUME NEW r \in Requests, Ask(r)
      PROVE  TypeOK'
  <2>1. Row(r, "user") \in Rows
    BY RowType DEF Roles
  <2> QED BY <1>2, <2>1 DEF Ask, Insert, GoTo, PCs, Ended
<1>3. ASSUME NEW r \in Requests, Refresh(r)
      PROVE  TypeOK'
  <2>1. \E l \in PCs : GoTo(r, l)
    BY <1>3 DEF Refresh, PCs, Ended
  <2> QED BY <1>3, <2>1 DEF Refresh, BeginTransaction, GoTo, rows
<1>4. ASSUME NEW r \in Requests, ReadHistory(r)
      PROVE  TypeOK'
  BY <1>4 DEF ReadHistory, GoTo, PCs, rows
<1>5. ASSUME NEW r \in Requests, Choose(r)
      PROVE  TypeOK'
  <2>1. \E l \in PCs : GoTo(r, l)
    BY <1>5 DEF Choose, PCs, Ended
  <2>2. Recent(seen[r], Room(summary)) \subseteq Rows
    BY RecentIsPart
  <2>3. context' \in [Requests -> SUBSET Rows] /\ text' \in [Requests -> SUBSET Rows]
    BY <1>5, <2>2 DEF Choose
  <2> QED BY <1>5, <2>1, <2>3 DEF Choose, GoTo, rows
<1>6. ASSUME NEW r \in Requests, StartSummary(r)
      PROVE  TypeOK'
  BY <1>6 DEF StartSummary, GoTo, PCs, Ended, rows
<1>7. ASSUME NEW r \in Requests, EndSummary(r)
      PROVE  TypeOK'
  <2>1. NewSummary(r) \subseteq Rows
    BY DEF NewSummary
  <2> QED BY <1>7, <2>1 DEF EndSummary, GoTo, PCs, Ended
<1>8. ASSUME NEW r \in Requests, Reread(r)
      PROVE  TypeOK'
  <2>1. Recent(messages, Room(text[r])) \subseteq Rows
    BY RecentIsPart
  <2> QED BY <1>8, <2>1 DEF Reread, GoTo, PCs, rows
<1>9. ASSUME NEW r \in Requests, Generate(r)
      PROVE  TypeOK'
  BY <1>9 DEF Generate, CountTurn, GoTo, PCs, rows
<1>10. ASSUME NEW r \in Requests, Settle(r)
       PROVE  TypeOK'
  BY <1>10 DEF Settle, GoTo, PCs, Ended, rows
<1>11. ASSUME NEW r \in Requests, Answer(r)
       PROVE  TypeOK'
  <2>1. Row(r, "assistant") \in Rows
    BY RowType DEF Roles
  <2> QED BY <1>11, <2>1 DEF Answer, Insert, GoTo, PCs, Ended
<1>12. ASSUME NEW r \in Requests, Fail(r)
       PROVE  TypeOK'
  BY <1>12 DEF Fail, GoTo, PCs, Ended, rows
<1>13. CASE DeleteMessage
  BY <1>13 DEF DeleteMessage, locals
<1>14. CASE DeleteChat
  BY <1>14 DEF DeleteChat, locals
<1>15. CASE UNCHANGED vars
  BY <1>15 DEF vars, rows, locals
<1> QED
  BY <1>1, <1>2, <1>3, <1>4, <1>5, <1>6, <1>7, <1>8, <1>9, <1>10, <1>11, <1>12,
     <1>13, <1>14, <1>15 DEF Next, Step, Done

\* Every variable has its type in every reachable state.
THEOREM TypeCorrect == Spec => []TypeOK
BY InitType, NextType, PTL DEF Spec
-----------------------------------------------------------------------------
(* Where the messages of a request can be, and how they are stamped. *)

\* The places of a request after the refresh that follows its question.
After == {"reading", "choosing", "omitting", "summarizing", "stored",
          "rereading", "generating", "settling", "answering"}

\* A request that has not asked has no messages, one with an answer is done,
\* and a question is older than the transaction that will store its answer.
MessageInv(m) ==
    /\ pc[m.of] \notin {"idle", "begun"}
    /\ m.role = "assistant" => pc[m.of] = "done" /\ turns[m.of] > 0 /\ ~ owed[m.of]
    /\ m.role = "user" /\ pc[m.of] \in After => m.created < begin[m.of]
    /\ m.created <= clock

\* Nothing is stamped later than the clock, and a transaction begins after
\* everything that its request found.  An answer is at hand only if settled.
RequestInv(r) ==
    /\ begin[r] <= clock
    /\ \A n \in known[r] : n.created < begin[r]
    /\ pc[r] = "settling" => turns[r] > 0
    /\ pc[r] = "answering" => turns[r] > 0 /\ ~ owed[r]

OrderInv ==
    /\ \A m \in messages : MessageInv(m)
    /\ \A r \in Requests : RequestInv(r)
    /\ AnswerFollowsQuestion
    /\ RealTimeOrder

Inv == TypeOK /\ NothingInDeletedChat /\ OrderInv

\* The invariant holds at the start.
LEMMA InitInv == Init => Inv
BY InitType DEF Init, Inv, NothingInDeletedChat, OrderInv, RequestInv,
                AnswerFollowsQuestion, RealTimeOrder

\* A deleted chat stays empty.
LEMMA DeletedStaysEmpty ==
  TypeOK /\ NothingInDeletedChat /\ [Next]_vars => NothingInDeletedChat'
<1> SUFFICES ASSUME TypeOK, NothingInDeletedChat, [Next]_vars, chat' = "deleted"
             PROVE  messages' = {}
  BY DEF NothingInDeletedChat
<1>1. CASE chat = "live" /\ DeleteChat
  BY <1>1 DEF DeleteChat
<1>2. CASE chat = "deleted"
  <2>1. messages = {}
    BY <1>2 DEF NothingInDeletedChat
  <2> QED
    BY <1>2, <2>1 DEF Next, Step, Done, Arrive, Ask, Refresh, ReadHistory, Choose,
       StartSummary, EndSummary, Reread, Generate, Settle, Answer, Fail, Insert,
       DeleteMessage, DeleteChat, rows, vars
<1>3. CASE chat = "live" /\ ~ DeleteChat
  BY <1>3 DEF Next, Step, Done, Arrive, Ask, Refresh, ReadHistory, Choose,
     StartSummary, EndSummary, Reread, Generate, Settle, Answer, Fail,
     DeleteMessage, rows, vars
<1> QED BY <1>1, <1>2, <1>3 DEF TypeOK

\* A step that only moves a request on, and leaves its transaction, its turns
\* and what is stored as they are, keeps the invariant.
LEMMA MovingKeepsInv ==
  ASSUME Inv, TypeOK', NEW r \in Requests, NEW l \in PCs,
         GoTo(r, l), pc[r] \notin Ended,
         l \notin {"idle", "begun", "settling", "answering"},
         l \in After => pc[r] \in After,
         UNCHANGED <<messages, clock, begin, turns, owed, known>>
  PROVE  OrderInv'
<1> USE DEF Inv, OrderInv, TypeOK
<1>1. \A q \in Requests : pc'[q] = IF q = r THEN l ELSE pc[q]
  BY DEF GoTo
<1>2. ASSUME NEW m \in messages
      PROVE  MessageInv(m)'
  <2>1. m.of \in Requests /\ MessageInv(m)
    BY DEF Rows
  <2> QED BY <1>1, <2>1 DEF MessageInv, Ended
<1>3. \A q \in Requests : RequestInv(q)'
  BY <1>1 DEF RequestInv
<1>4. AnswerFollowsQuestion' /\ RealTimeOrder'
  BY DEF AnswerFollowsQuestion, RealTimeOrder
<1> QED BY <1>2, <1>3, <1>4

\* Messages that go away, while all requests stay where they are, leave the
\* invariant true.
LEMMA RemovingKeepsInv ==
  ASSUME Inv, messages' \subseteq messages, UNCHANGED <<clock, locals>>
  PROVE  OrderInv'
BY DEF Inv, OrderInv, MessageInv, RequestInv, AnswerFollowsQuestion, RealTimeOrder,
       locals

\* A question: it is the first message of its request, and its transaction
\* began after everything that the request found.
LEMMA AskKeepsInv ==
  ASSUME Inv, TypeOK', NEW r \in Requests, Ask(r)
  PROVE  OrderInv'
<1> USE DEF Inv, OrderInv, TypeOK
<1>1. CASE chat = "deleted"
  BY <1>1, MovingKeepsInv DEF Ask, Insert, PCs, Ended, After
<1>2. CASE chat = "live"
  <2>0. PICK q \in Rows : q = Row(r, "user")
    BY RowType DEF Roles
  <2>1. /\ messages' = messages \cup {q}
        /\ \A s \in Requests : pc'[s] = IF s = r THEN "asked" ELSE pc[s]
        /\ pc[r] = "begun"
        /\ UNCHANGED <<clock, begin, turns, owed, known>>
    BY <1>2, <2>0 DEF Ask, Insert, GoTo
  <2>2. q.of = r /\ q.role = "user" /\ q.created = begin[r]
    BY <2>0 DEF Row, CreatedAt
  <2>3. \A m \in messages : m.of \in Requests /\ m.of # r /\ MessageInv(m)
    BY <2>1 DEF MessageInv, Rows
  <2>4. \A m \in messages : MessageInv(m)'
    BY <2>1, <2>3 DEF MessageInv
  <2>5. MessageInv(q)'
    BY <2>1, <2>2 DEF MessageInv, RequestInv, After
  <2>6. \A s \in Requests : RequestInv(s)'
    BY <2>1 DEF RequestInv
  <2>7. AnswerFollowsQuestion'
    BY <2>1, <2>2, <2>3 DEF AnswerFollowsQuestion
  <2>8. \A n \in known[r] : n.created < q.created
    BY <2>2 DEF RequestInv
  <2>9. RealTimeOrder'
    BY <2>1, <2>2, <2>8 DEF RealTimeOrder
  <2> QED BY <2>1, <2>4, <2>5, <2>6, <2>7, <2>9
<1> QED BY <1>1, <1>2

\* An answer: it is stored in a transaction that began after its question was
\* there, with nothing owed.
LEMMA AnswerKeepsInv ==
  ASSUME Inv, TypeOK', NEW r \in Requests, Answer(r)
  PROVE  OrderInv'
<1> USE DEF Inv, OrderInv, TypeOK
<1>1. CASE chat = "deleted"
  BY <1>1, MovingKeepsInv DEF Answer, Insert, PCs, Ended, After
<1>2. CASE chat = "live"
  <2>0. PICK a \in Rows : a = Row(r, "assistant")
    BY RowType DEF Roles
  <2>1. /\ messages' = messages \cup {a}
        /\ \A s \in Requests : pc'[s] = IF s = r THEN "done" ELSE pc[s]
        /\ pc[r] = "answering"
        /\ UNCHANGED <<clock, begin, turns, owed, known>>
    BY <1>2, <2>0 DEF Answer, Insert, GoTo
  <2>2. a.of = r /\ a.role = "assistant" /\ a.created = begin[r]
    BY <2>0 DEF Row, CreatedAt
  <2>3. \A m \in messages :
          /\ m.of \in Requests /\ m.role \in Roles /\ MessageInv(m)
          /\ m.of = r => m.role = "user" /\ m.created < begin[r]
    BY <2>1 DEF MessageInv, Rows, Roles, After
  <2>4. \A m \in messages : MessageInv(m)'
    BY <2>1, <2>3 DEF MessageInv, After
  <2>5. MessageInv(a)'
    BY <2>1, <2>2 DEF MessageInv, RequestInv
  <2>6. \A s \in Requests : RequestInv(s)'
    BY <2>1 DEF RequestInv
  <2>7. AnswerFollowsQuestion'
    BY <2>1, <2>2, <2>3 DEF AnswerFollowsQuestion
  <2>8. \A n \in known[r] : n.created < a.created
    BY <2>2 DEF RequestInv
  <2>9. RealTimeOrder'
    BY <2>1, <2>2, <2>8 DEF RealTimeOrder
  <2> QED BY <2>1, <2>4, <2>5, <2>6, <2>7, <2>9
<1> QED BY <1>1, <1>2

\* A new transaction begins later than everything stored and everything found.
LEMMA RefreshKeepsInv ==
  ASSUME Inv, TypeOK', NEW r \in Requests, Refresh(r)
  PROVE  OrderInv'
<1> USE DEF Inv, OrderInv, TypeOK
<1>1. /\ clock' = clock + 1
      /\ \A s \in Requests : begin'[s] = IF s = r THEN clock + 1 ELSE begin[s]
      /\ UNCHANGED <<messages, turns, owed, known>>
      /\ pc[r] \in {"asked", "stored"}
  BY DEF Refresh, Detached, BeginTransaction, rows
<1>2. \E l \in {"rereading", "reading", "done", "failed"} : GoTo(r, l)
  BY DEF Refresh
<1>3. /\ \A s \in Requests \ {r} : pc'[s] = pc[s]
      /\ pc'[r] \in {"rereading", "reading", "done", "failed"}
  BY <1>2 DEF GoTo
<1>4. \A m \in messages : m.of \in Requests /\ m.created \in Nat /\ MessageInv(m)
  BY DEF Rows
<1>5. \A m \in messages : MessageInv(m)'
  BY <1>1, <1>3, <1>4 DEF MessageInv
<1>6. \A s \in Requests : \A n \in known[s] : n.created \in Nat
  BY DEF Rows
<1>7. \A s \in Requests : RequestInv(s)'
  BY <1>1, <1>3, <1>6 DEF RequestInv
<1>8. AnswerFollowsQuestion' /\ RealTimeOrder'
  BY <1>1 DEF AnswerFollowsQuestion, RealTimeOrder
<1> QED BY <1>1, <1>5, <1>7, <1>8

\* An arriving request finds only messages older than its transaction.
LEMMA ArriveKeepsInv ==
  ASSUME Inv, TypeOK', NEW r \in Requests, Arrive(r)
  PROVE  OrderInv'
<1> USE DEF Inv, OrderInv, TypeOK
<1>1. /\ clock' = clock + 1
      /\ \A s \in Requests : begin'[s] = IF s = r THEN clock + 1 ELSE begin[s]
      /\ \A s \in Requests : known'[s] = IF s = r THEN messages ELSE known[s]
      /\ \A s \in Requests : pc'[s] = IF s = r THEN "begun" ELSE pc[s]
      /\ UNCHANGED <<messages, turns, owed>>
      /\ pc[r] = "idle"
  BY DEF Arrive, BeginTransaction, GoTo, rows
<1>2. \A m \in messages : /\ m.of \in Requests /\ m.created \in Nat
                          /\ MessageInv(m) /\ m.of # r
  BY <1>1 DEF Rows, MessageInv
<1>3. \A m \in messages : MessageInv(m)'
  BY <1>1, <1>2 DEF MessageInv
<1>4. \A s \in Requests : \A n \in known[s] : n.created \in Nat
  BY DEF Rows
<1>5. \A m \in messages : m.created < clock + 1
  BY <1>2 DEF MessageInv
<1>6. \A s \in Requests : RequestInv(s)'
  BY <1>1, <1>4, <1>5 DEF RequestInv
<1>7. AnswerFollowsQuestion' /\ RealTimeOrder'
  BY <1>1, <1>2 DEF AnswerFollowsQuestion, RealTimeOrder
<1> QED BY <1>1, <1>3, <1>6, <1>7

\* The provider has answered: one more turn, owed until it is settled.
LEMMA GenerateKeepsInv ==
  ASSUME Inv, TypeOK', NEW r \in Requests, Generate(r)
  PROVE  OrderInv'
<1> USE DEF Inv, OrderInv, TypeOK
<1>1. /\ \A s \in Requests : pc'[s] = IF s = r THEN "settling" ELSE pc[s]
      /\ \A s \in Requests : turns'[s] = IF s = r THEN turns[s] + 1 ELSE turns[s]
      /\ \A s \in Requests \ {r} : owed'[s] = owed[s]
      /\ UNCHANGED <<messages, clock, begin, known>>
      /\ pc[r] = "generating"
  BY DEF Generate, CountTurn, GoTo, rows
<1>2. \A m \in messages : m.of \in Requests /\ MessageInv(m)
  BY DEF Rows
<1>3. \A m \in messages : MessageInv(m)'
  BY <1>1, <1>2 DEF MessageInv, After
<1>4. \A s \in Requests : RequestInv(s)'
  BY <1>1 DEF RequestInv
<1>5. AnswerFollowsQuestion' /\ RealTimeOrder'
  BY <1>1 DEF AnswerFollowsQuestion, RealTimeOrder
<1> QED BY <1>1, <1>3, <1>4, <1>5

\* A settled call owes nothing, whatever the request does next.
LEMMA SettleKeepsInv ==
  ASSUME Inv, TypeOK', NEW r \in Requests, Settle(r)
  PROVE  OrderInv'
<1> USE DEF Inv, OrderInv, TypeOK
<1>1. /\ \A s \in Requests : owed'[s] = IF s = r THEN FALSE ELSE owed[s]
      /\ UNCHANGED <<messages, clock, begin, turns, known>>
      /\ pc[r] = "settling"
  BY DEF Settle, rows
<1>2. \E l \in {"answering", "generating", "failed"} : GoTo(r, l)
  BY DEF Settle
<1>3. /\ \A s \in Requests \ {r} : pc'[s] = pc[s]
      /\ pc'[r] \in {"answering", "generating", "failed"}
  BY <1>2 DEF GoTo
<1>4. \A m \in messages : m.of \in Requests /\ MessageInv(m)
  BY DEF Rows
<1>5. \A m \in messages : MessageInv(m)'
  BY <1>1, <1>3, <1>4 DEF MessageInv, After
<1>6. \A s \in Requests : RequestInv(s)'
  BY <1>1, <1>3 DEF RequestInv
<1>7. AnswerFollowsQuestion' /\ RealTimeOrder'
  BY <1>1 DEF AnswerFollowsQuestion, RealTimeOrder
<1> QED BY <1>1, <1>5, <1>6, <1>7

\* Every step keeps the invariant.
LEMMA NextInv == Inv /\ [Next]_vars => Inv'
<1> SUFFICES ASSUME Inv, [Next]_vars
             PROVE  OrderInv'
  BY NextType, DeletedStaysEmpty DEF Inv
<1>1. TypeOK'
  BY NextType DEF Inv
<1>2. ASSUME NEW r \in Requests, ReadHistory(r)
      PROVE  OrderInv'
  BY <1>1, <1>2, MovingKeepsInv DEF ReadHistory, PCs, Ended, After, rows
<1>3. ASSUME NEW r \in Requests, Choose(r)
      PROVE  OrderInv'
  <2>1. \E l \in {"generating", "omitting", "failed"} : GoTo(r, l)
    BY <1>3 DEF Choose
  <2> QED BY <1>1, <1>3, <2>1, MovingKeepsInv DEF Choose, PCs, Ended, After, rows
<1>4. ASSUME NEW r \in Requests, StartSummary(r)
      PROVE  OrderInv'
  <2>1. \E l \in {"summarizing", "failed"} : GoTo(r, l)
    BY <1>4 DEF StartSummary
  <2> QED BY <1>1, <1>4, <2>1, MovingKeepsInv DEF StartSummary, PCs, Ended, After, rows
<1>5. ASSUME NEW r \in Requests, EndSummary(r)
      PROVE  OrderInv'
  <2>1. \E l \in {"stored", "rereading", "failed"} : GoTo(r, l)
    BY <1>5 DEF EndSummary
  <2> QED BY <1>1, <1>5, <2>1, MovingKeepsInv DEF EndSummary, PCs, Ended, After
<1>6. ASSUME NEW r \in Requests, Reread(r)
      PROVE  OrderInv'
  BY <1>1, <1>6, MovingKeepsInv DEF Reread, PCs, Ended, After, rows
<1>7. ASSUME NEW r \in Requests, Fail(r)
      PROVE  OrderInv'
  BY <1>1, <1>7, MovingKeepsInv DEF Fail, PCs, Ended, After, rows
<1>8. CASE DeleteMessage
  BY <1>8, RemovingKeepsInv DEF DeleteMessage
<1>9. CASE DeleteChat
  BY <1>9, RemovingKeepsInv DEF DeleteChat
<1>10. CASE UNCHANGED vars
  BY <1>10, RemovingKeepsInv DEF vars, rows
<1> QED
  BY <1>1, <1>2, <1>3, <1>4, <1>5, <1>6, <1>7, <1>8, <1>9, <1>10, ArriveKeepsInv,
     AskKeepsInv, RefreshKeepsInv, GenerateKeepsInv, SettleKeepsInv, AnswerKeepsInv
  DEF Next, Step, Done

\* Everything the invariant says holds in every reachable state.
LEMMA InvHolds == Spec => []Inv
BY InitInv, NextInv, PTL DEF Spec
-----------------------------------------------------------------------------
\* An answer comes after its question in the history (create_assistant_message
\* inserts in a transaction that began after the commit of the question).
THEOREM AnswersFollow == Spec => []AnswerFollowsQuestion
<1>1. Inv => AnswerFollowsQuestion
  BY DEF Inv, OrderInv
<1> QED BY InvHolds, <1>1, PTL

\* Requests made one after the other are in their order in the history.
THEOREM OrderIsRealTime == Spec => []RealTimeOrder
<1>1. Inv => RealTimeOrder
  BY DEF Inv, OrderInv
<1> QED BY InvHolds, <1>1, PTL

\* A deleted chat has no messages (the foreign key of messages.chat_id).
THEOREM DeletedIsEmpty == Spec => []NothingInDeletedChat
<1>1. Inv => NothingInDeletedChat
  BY DEF Inv
<1> QED BY InvHolds, <1>1, PTL

\* Persistence ordering: no answer is stored before its usage is settled.
THEOREM AnswersAreSettled == Spec => []AnswersSettled
<1>1. Inv => AnswersSettled
  BY DEF Inv, OrderInv, MessageInv, AnswersSettled
<1> QED BY InvHolds, <1>1, PTL
-----------------------------------------------------------------------------
(* A question is in the context it is answered from. *)

\* Every message the chat ever had.
Ever == messages \cup removed

\* The newest message of a history is in the context, whatever its size; so
\* what is not in the context is older than something that is.
LEMMA NewestIsRecent ==
  ASSUME NEW ms \in SUBSET Rows, NEW room, NEW bound \in Nat,
         \A m \in ms : m.created <= bound,
         \A m, n \in ms : m.created = n.created => m = n,
         NEW q \in ms
  PROVE  \/ q \in Recent(ms, room)
         \/ \E m \in Recent(ms, room) : m.created > q.created
<1> DEFINE T == { bound - m.created : m \in ms }
<1>1. \A m \in ms : m.created \in Nat
  BY DEF Rows
<1>2. T \subseteq Nat
  BY <1>1
<1>3. T # {}
  OBVIOUS
<1>4. PICK x \in T : \A y \in T : ~ (<<y, x>> \in OpToRel(<, Nat))
  <2> HIDE DEF T
  <2> QED BY <1>2, <1>3, WFMin, NatLessThanWellFounded, Zenon
<1>5. PICK m \in ms : x = bound - m.created
  BY <1>4
<1>6. \A n \in ms : n.created <= m.created
  <2> SUFFICES ASSUME NEW n \in ms
               PROVE  n.created <= m.created
    OBVIOUS
  <2>1. ~ (bound - n.created < bound - m.created)
    <3>1. <<bound - n.created, x>> \notin OpToRel(<, Nat)
      BY <1>4
    <3>2. bound - n.created \in Nat /\ x \in Nat
      BY <1>2, <1>4
    <3> QED BY <3>1, <3>2, <1>5 DEF OpToRel
  <2> QED BY <2>1, <1>1
<1>7. Since(ms, m) = {m}
  BY <1>1, <1>6 DEF Since
<1>8. m \in Recent(ms, room)
  BY <1>7 DEF Recent
<1>9. q = m \/ m.created > q.created
  BY <1>1, <1>6
<1> QED BY <1>8, <1>9

\* No two messages, and no two transactions, have the same stamp; and the
\* message that a transaction inserts is its last.
StampsInv ==
    /\ \A m \in Ever : m.created <= clock
    /\ \A m, n \in Ever : m.created = n.created => m = n
    /\ \A m \in Ever, r \in Requests :
        m.created = begin[r] /\ pc[r] # "idle"
            => m.of = r /\ pc[r] \in {"asked"} \cup Ended
    /\ \A r, s \in Requests :
        pc[r] # "idle" /\ pc[s] # "idle" /\ begin[r] = begin[s] => r = s
    /\ \A r \in Requests : begin[r] <= clock

\* The places of a request that has read the history since its last refresh,
\* and those where its context is the one it is answered from.
HasRead == {"choosing", "omitting", "summarizing", "stored", "rereading",
            "generating", "settling", "answering"}
Answered == {"generating", "settling", "answering"}

\* A request has seen its question, and all it has seen are messages.
SeenInv(r) ==
    pc[r] \in HasRead =>
        /\ seen[r] \subseteq Ever
        /\ \A q \in Ever : q.of = r /\ q.role = "user" => q \in seen[r] \cup removed

\* What its context leaves out is older than something in it.
ContextInv(r) ==
    pc[r] \in Answered =>
        \A q \in seen[r] : \/ q \in context[r]
                           \/ \E m \in context[r] : m.created > q.created

HistoryInv == /\ TypeOK
              /\ StampsInv
              /\ \A r \in Requests : SeenInv(r) /\ ContextInv(r)

\* The ways of a step with the messages and the stamps: it inserts one, it
\* begins a transaction, or it does neither.
Inserts(r) ==
    /\ \E role \in Roles :
        /\ messages' = messages \cup {Row(r, role)}
        /\ role = "user" => pc[r] = "begun"
    /\ pc[r] \in {"begun", "answering"}
    /\ \E l \in {"asked", "done"} : GoTo(r, l)
    /\ UNCHANGED <<clock, begin, removed, seen, context>>

Begins(r) ==
    /\ UNCHANGED <<messages, removed, seen, context>>
    /\ BeginTransaction(r)
    /\ \E l \in {"begun", "reading", "rereading", "done", "failed"} :
        /\ GoTo(r, l)
        /\ l = "rereading" => pc[r] \in HasRead

Moves(r) ==
    /\ UNCHANGED <<messages, removed, clock, begin>>
    /\ pc[r] \notin {"idle"} \cup Ended
    /\ \E l \in PCs \ {"idle", "asked", "done"} :
        /\ GoTo(r, l)
        /\ pc[r] = "asked" => l = "failed"
        /\ \/ seen'[r] = messages
           \/ seen'[r] = seen[r] /\ (l \in HasRead => pc[r] \in HasRead)
        /\ l \in Answered =>
             \/ pc[r] \in Answered /\ UNCHANGED <<seen, context>>
             \/ \E room : context'[r] = Recent(seen'[r], room)
    /\ \A s \in Requests \ {r} : seen'[s] = seen[s] /\ context'[s] = context[s]

Removes == /\ messages' \cup removed' = Ever
           /\ removed \subseteq removed'
           /\ UNCHANGED <<clock, begin, pc, seen, context>>

\* Every step is one of them.
LEMMA StepShape ==
  ASSUME TypeOK, [Next]_vars
  PROVE  (\E r \in Requests : Inserts(r) \/ Begins(r) \/ Moves(r)) \/ Removes
<1> USE DEF TypeOK
<1>1. ASSUME NEW r \in Requests, Arrive(r)
      PROVE  Begins(r)
  BY <1>1 DEF Arrive, Begins, rows
<1>2. ASSUME NEW r \in Requests, Refresh(r)
      PROVE  Begins(r)
  BY <1>2 DEF Refresh, Detached, Begins, HasRead, rows
<1>3. ASSUME NEW r \in Requests, Ask(r)
      PROVE  Inserts(r) \/ Moves(r)
  BY <1>3 DEF Ask, Insert, Inserts, Moves, Roles, PCs, Ended, HasRead, Answered
<1>4. ASSUME NEW r \in Requests, Answer(r)
      PROVE  Inserts(r) \/ Moves(r)
  BY <1>4 DEF Answer, Insert, Inserts, Moves, Roles, PCs, Ended, HasRead, Answered
<1>5. ASSUME NEW r \in Requests, ReadHistory(r)
      PROVE  Moves(r)
  BY <1>5 DEF ReadHistory, Moves, PCs, Ended, Answered, rows
<1>6. ASSUME NEW r \in Requests, Choose(r)
      PROVE  Moves(r)
  <2>1. CASE chat = "live"
    <3>1. PICK l \in {"generating", "omitting"} : GoTo(r, l)
      BY <1>6, <2>1 DEF Choose
    <3>2. /\ context'[r] = Recent(seen'[r], Room(summary))
          /\ pc[r] = "choosing"
          /\ UNCHANGED <<messages, removed, clock, begin, seen>>
          /\ \A s \in Requests \ {r} : context'[s] = context[s]
      BY <1>6, <2>1 DEF Choose, rows
    <3> QED BY <3>1, <3>2 DEF Moves, PCs, Ended, HasRead
  <2>2. CASE chat = "deleted"
    BY <1>6, <2>2 DEF Choose, Moves, PCs, Ended, HasRead, Answered, rows
  <2> QED BY <2>1, <2>2
<1>7. ASSUME NEW r \in Requests, Reread(r)
      PROVE  Moves(r)
  <2>1. /\ context'[r] = Recent(seen'[r], Room(text[r])) /\ seen'[r] = messages
        /\ pc[r] = "rereading"
        /\ UNCHANGED <<messages, removed, clock, begin>>
        /\ \A s \in Requests \ {r} : context'[s] = context[s] /\ seen'[s] = seen[s]
    BY <1>7 DEF Reread, rows
  <2> QED BY <1>7, <2>1 DEF Reread, Moves, PCs, Ended
<1>8. ASSUME NEW r \in Requests,
             StartSummary(r) \/ EndSummary(r) \/ Generate(r) \/ Settle(r) \/ Fail(r)
      PROVE  Moves(r)
  <2>1. \/ \E l \in PCs \ ({"idle", "asked", "done"} \cup Answered) :
              GoTo(r, l) /\ (l \in HasRead => pc[r] \in HasRead)
        \/ pc[r] \in Answered /\ \E l \in Answered : GoTo(r, l)
    BY <1>8 DEF StartSummary, EndSummary, Generate, Settle, Fail, PCs, Ended,
       HasRead, Answered
  <2>2. /\ UNCHANGED <<messages, removed, clock, begin, seen, context>>
        /\ pc[r] \notin {"idle"} \cup Ended
        /\ pc[r] = "asked" => GoTo(r, "failed")
    BY <1>8 DEF StartSummary, EndSummary, Generate, Settle, Fail, Ended, rows
  <2>3. CASE pc[r] = "asked"
    BY <2>2, <2>3 DEF Moves, PCs, Ended, HasRead, Answered
  <2>4. CASE pc[r] # "asked"
    BY <2>1, <2>2, <2>4 DEF Moves, PCs, Ended, HasRead, Answered
  <2> QED BY <2>3, <2>4
<1>9. CASE DeleteMessage \/ DeleteChat \/ UNCHANGED vars
  BY <1>9 DEF DeleteMessage, DeleteChat, Removes, Ever, vars, rows, locals
<1> QED BY <1>1, <1>2, <1>3, <1>4, <1>5, <1>6, <1>7, <1>8, <1>9 DEF Next, Step, Done

\* A place of a request after a step that is its own, or is another's.
LEMMA PlaceAfter ==
  ASSUME TypeOK, NEW r \in Requests, NEW l, GoTo(r, l)
  PROVE  pc'[r] = l /\ \A s \in Requests \ {r} : pc'[s] = pc[s]
BY DEF TypeOK, GoTo

\* The stamps stay distinct.
LEMMA StampsKept ==
  ASSUME TypeOK, TypeOK', StampsInv, [Next]_vars
  PROVE  StampsInv'
<1> USE DEF TypeOK
<1>0. /\ \A m \in Ever : m.created \in Nat /\ m.of \in Requests
      /\ \A m \in Ever' : m.created \in Nat /\ m.of \in Requests
      /\ Ever \subseteq Rows
  BY DEF Ever, Rows
<1>1. ASSUME NEW r \in Requests, Inserts(r)
      PROVE  StampsInv'
  <2>1. PICK role \in Roles : messages' = messages \cup {Row(r, role)}
    BY <1>1 DEF Inserts
  <2>2. PICK k : k = Row(r, role)
    OBVIOUS
  <2>3. k.of = r /\ k.created = begin[r]
    BY <2>2 DEF Row, CreatedAt
  <2>4. Ever' = Ever \cup {k}
    BY <1>1, <2>1, <2>2 DEF Ever, Inserts
  <2>5. PICK l \in {"asked", "done"} : GoTo(r, l)
    BY <1>1 DEF Inserts
  <2>6. /\ pc'[r] = l /\ \A s \in Requests \ {r} : pc'[s] = pc[s]
        /\ pc[r] \in {"begun", "answering"}
        /\ UNCHANGED <<clock, begin>>
    BY <1>1, <2>5, PlaceAfter DEF Inserts
  <2>7. \A m \in Ever : m.created # begin[r]
    BY <2>6 DEF StampsInv, Ended
  <2>8. k.created <= clock
    BY <2>3 DEF StampsInv
  <2>9. \A m, n \in Ever' : m.created = n.created => m = n
    BY <2>3, <2>4, <2>7 DEF StampsInv
  <2>10. \A m \in Ever', s \in Requests :
           m.created = begin[s] /\ pc'[s] # "idle"
             => m.of = s /\ pc'[s] \in {"asked"} \cup Ended
    <3> SUFFICES ASSUME NEW m \in Ever', NEW s \in Requests,
                        m.created = begin[s], pc'[s] # "idle"
                 PROVE  m.of = s /\ pc'[s] \in {"asked"} \cup Ended
      OBVIOUS
    <3>1. pc[s] # "idle"
      BY <2>6
    <3>2. CASE m = k
      BY <2>3, <2>5, <2>6, <3>1, <3>2 DEF StampsInv, Ended
    <3>3. CASE m \in Ever
      BY <2>5, <2>6, <2>7, <3>1, <3>3 DEF StampsInv
    <3> QED BY <2>4, <3>2, <3>3
  <2>11. \A s, t \in Requests :
           pc'[s] # "idle" /\ pc'[t] # "idle" /\ begin[s] = begin[t] => s = t
    BY <2>6 DEF StampsInv
  <2> HIDE DEF TypeOK
  <2> QED BY <2>4, <2>6, <2>8, <2>9, <2>10, <2>11 DEF StampsInv
<1>2. ASSUME NEW r \in Requests, Begins(r)
      PROVE  StampsInv'
  <2>1. PICK l \in {"begun", "reading", "rereading", "done", "failed"} : GoTo(r, l)
    BY <1>2 DEF Begins
  <2>2. /\ pc'[r] = l /\ \A s \in Requests \ {r} : pc'[s] = pc[s]
        /\ clock' = clock + 1
        /\ begin'[r] = clock + 1 /\ \A s \in Requests \ {r} : begin'[s] = begin[s]
        /\ Ever' = Ever
    BY <1>2, <2>1, PlaceAfter DEF Begins, BeginTransaction, Ever
  <2>3. \A m \in Ever : m.created <= clock
    BY DEF StampsInv
  <2>4. \A s \in Requests : begin[s] <= clock
    BY DEF StampsInv
  <2>5. \A m \in Ever : m.created # begin'[r]
    BY <1>0, <2>2, <2>3
  <2>6. \A s \in Requests \ {r} : begin[s] # begin'[r]
    BY <2>2, <2>4
  <2>7. \A m \in Ever, s \in Requests :
          m.created = begin'[s] /\ pc'[s] # "idle"
            => m.of = s /\ pc'[s] \in {"asked"} \cup Ended
    BY <2>2, <2>5 DEF StampsInv
  <2>8. \A s, t \in Requests :
          pc'[s] # "idle" /\ pc'[t] # "idle" /\ begin'[s] = begin'[t] => s = t
    BY <2>2, <2>6 DEF StampsInv
  <2>9. \A m \in Ever : m.created <= clock'
    BY <1>0, <2>2, <2>3
  <2>10. \A s \in Requests : begin'[s] <= clock'
    BY <2>2, <2>4
  <2>11. \A m, n \in Ever : m.created = n.created => m = n
    BY DEF StampsInv
  <2> HIDE DEF TypeOK
  <2> QED BY <2>2, <2>7, <2>8, <2>9, <2>10, <2>11 DEF StampsInv
<1>3. ASSUME NEW r \in Requests, Moves(r)
      PROVE  StampsInv'
  <2>1. PICK l \in PCs \ {"idle", "asked", "done"} : GoTo(r, l)
    BY <1>3 DEF Moves
  <2>2. /\ pc'[r] = l /\ \A s \in Requests \ {r} : pc'[s] = pc[s]
        /\ pc[r] \notin {"idle"} \cup Ended
        /\ UNCHANGED <<clock, begin>>
        /\ Ever' = Ever
    BY <1>3, <2>1, PlaceAfter DEF Moves, Ever
  <2>3. pc[r] = "asked" => l = "failed"
    <3>1. PICK k \in PCs : GoTo(r, k) /\ (pc[r] = "asked" => k = "failed")
      BY <1>3 DEF Moves
    <3> QED BY <2>2, <3>1, PlaceAfter
  <2>4. \A m \in Ever, s \in Requests :
          m.created = begin[s] /\ pc'[s] # "idle"
            => m.of = s /\ pc'[s] \in {"asked"} \cup Ended
    BY <2>2, <2>3 DEF StampsInv, Ended
  <2>5. \A s, t \in Requests :
          pc'[s] # "idle" /\ pc'[t] # "idle" /\ begin[s] = begin[t] => s = t
    BY <2>2 DEF StampsInv
  <2> HIDE DEF TypeOK
  <2> QED BY <2>2, <2>4, <2>5 DEF StampsInv
<1>4. CASE Removes
  <2> HIDE DEF TypeOK
  <2>1. Ever' = Ever /\ UNCHANGED <<clock, begin, pc>>
    BY <1>4 DEF Removes, Ever
  <2> QED BY <2>1 DEF StampsInv
<1> QED BY <1>1, <1>2, <1>3, <1>4, StepShape

\* A request has seen its question after every step.
LEMMA SeenKept ==
  ASSUME TypeOK, TypeOK', [Next]_vars, \A r \in Requests : SeenInv(r)
  PROVE  \A r \in Requests : SeenInv(r)'
<1> USE DEF TypeOK
<1> SUFFICES ASSUME NEW s \in Requests, pc'[s] \in HasRead
             PROVE  /\ seen'[s] \subseteq Ever'
                    /\ \A q \in Ever' : q.of = s /\ q.role = "user"
                                         => q \in seen'[s] \cup removed'
  BY DEF SeenInv
<1>1. ASSUME NEW r \in Requests, Inserts(r)
      PROVE  /\ seen'[s] \subseteq Ever'
             /\ \A q \in Ever' : q.of = s /\ q.role = "user"
                                  => q \in seen'[s] \cup removed'
  <2>1. PICK role \in Roles : messages' = messages \cup {Row(r, role)}
    BY <1>1 DEF Inserts
  <2>2. PICK k : k = Row(r, role)
    OBVIOUS
  <2>3. k.of = r
    BY <2>2 DEF Row
  <2>4. Ever' = Ever \cup {k}
    BY <1>1, <2>1, <2>2 DEF Ever, Inserts
  <2>5. PICK l \in {"asked", "done"} : GoTo(r, l)
    BY <1>1 DEF Inserts
  <2>6. s # r /\ pc[s] \in HasRead /\ UNCHANGED <<seen, removed>>
    BY <1>1, <2>5, PlaceAfter DEF Inserts, HasRead
  <2> QED BY <2>3, <2>4, <2>6 DEF SeenInv
<1>2. ASSUME NEW r \in Requests, Begins(r)
      PROVE  /\ seen'[s] \subseteq Ever'
             /\ \A q \in Ever' : q.of = s /\ q.role = "user"
                                  => q \in seen'[s] \cup removed'
  <2>1. PICK l \in {"begun", "reading", "rereading", "done", "failed"} :
          GoTo(r, l) /\ (l = "rereading" => pc[r] \in HasRead)
    BY <1>2 DEF Begins
  <2>2. pc[s] \in HasRead
    BY <2>1, PlaceAfter DEF HasRead
  <2>3. Ever' = Ever /\ UNCHANGED <<seen, removed>>
    BY <1>2 DEF Begins, Ever
  <2> QED BY <2>2, <2>3 DEF SeenInv
<1>3. ASSUME NEW r \in Requests, Moves(r)
      PROVE  /\ seen'[s] \subseteq Ever'
             /\ \A q \in Ever' : q.of = s /\ q.role = "user"
                                  => q \in seen'[s] \cup removed'
  <2>1. PICK l \in PCs : /\ GoTo(r, l)
                         /\ \/ seen'[r] = messages
                            \/ seen'[r] = seen[r] /\ (l \in HasRead => pc[r] \in HasRead)
    BY <1>3 DEF Moves
  <2>2. /\ pc'[r] = l
        /\ \A t \in Requests \ {r} : pc'[t] = pc[t] /\ seen'[t] = seen[t]
    BY <1>3, <2>1, PlaceAfter DEF Moves
  <2>3. Ever' = Ever /\ UNCHANGED <<messages, removed>>
    BY <1>3 DEF Moves, Ever
  <2>4. CASE seen'[s] = messages
    BY <2>3, <2>4 DEF Ever
  <2>5. CASE seen'[s] = seen[s] /\ pc[s] \in HasRead
    BY <2>3, <2>5 DEF SeenInv
  <2> QED BY <2>1, <2>2, <2>4, <2>5
<1>4. CASE Removes
  <2>1. /\ Ever' = Ever /\ removed \subseteq removed'
        /\ pc[s] \in HasRead /\ UNCHANGED seen
    BY <1>4 DEF Removes, Ever
  <2> QED BY <2>1 DEF SeenInv
<1> QED BY <1>1, <1>2, <1>3, <1>4, StepShape

\* A context that is built anew has the newest message of what was seen.
LEMMA ContextKept ==
  ASSUME HistoryInv, StampsInv', TypeOK', [Next]_vars,
         \A r \in Requests : SeenInv(r)'
  PROVE  \A r \in Requests : ContextInv(r)'
<1> USE DEF TypeOK
<1> SUFFICES ASSUME NEW s \in Requests, pc'[s] \in Answered
             PROVE  ContextInv(s)'
  BY DEF ContextInv
<1>0. TypeOK /\ ContextInv(s)
  BY DEF HistoryInv
<1>1. ASSUME pc[s] \in Answered, seen'[s] = seen[s], context'[s] = context[s]
      PROVE  ContextInv(s)'
  BY <1>0, <1>1 DEF ContextInv
<1>2. ASSUME NEW r \in Requests, Inserts(r)
      PROVE  ContextInv(s)'
  <2>1. PICK l \in {"asked", "done"} : GoTo(r, l)
    BY <1>2 DEF Inserts
  <2> QED BY <1>0, <1>1, <1>2, <2>1, PlaceAfter DEF Inserts, Answered
<1>3. ASSUME NEW r \in Requests, Begins(r)
      PROVE  ContextInv(s)'
  <2>1. PICK l \in {"begun", "reading", "rereading", "done", "failed"} : GoTo(r, l)
    BY <1>3 DEF Begins
  <2> QED BY <1>0, <1>1, <1>3, <2>1, PlaceAfter DEF Begins, Answered
<1>4. ASSUME NEW r \in Requests, Moves(r)
      PROVE  ContextInv(s)'
  <2>1. PICK l \in PCs :
          /\ GoTo(r, l)
          /\ l \in Answered =>
               \/ pc[r] \in Answered /\ UNCHANGED <<seen, context>>
               \/ \E room : context'[r] = Recent(seen'[r], room)
    BY <1>4 DEF Moves
  <2>2. /\ pc'[r] = l /\ \A t \in Requests \ {r} : pc'[t] = pc[t]
        /\ \A t \in Requests \ {r} : seen'[t] = seen[t] /\ context'[t] = context[t]
    BY <1>0, <1>4, <2>1, PlaceAfter DEF Moves
  <2>3. CASE s # r
    BY <1>1, <2>2, <2>3
  <2>4. CASE s = r /\ pc[r] \in Answered /\ UNCHANGED <<seen, context>>
    BY <1>1, <2>4
  <2>5. ASSUME NEW room, s = r, context'[r] = Recent(seen'[r], room)
        PROVE  ContextInv(s)'
    <3>1. seen'[s] \subseteq Ever'
      BY DEF SeenInv, HasRead, Answered
    <3>2. /\ \A m \in seen'[s] : m.created <= clock'
          /\ \A m, n \in seen'[s] : m.created = n.created => m = n
      BY <3>1 DEF StampsInv
    <3>3. seen'[s] \in SUBSET Rows /\ clock' \in Nat
      OBVIOUS
    <3>4. \A q \in seen'[s] : \/ q \in Recent(seen'[s], room)
                              \/ \E m \in Recent(seen'[s], room) : m.created > q.created
      BY <3>2, <3>3, NewestIsRecent
    <3> QED BY <2>5, <3>4 DEF ContextInv
  <2> QED BY <2>1, <2>2, <2>3, <2>4, <2>5
<1>5. CASE Removes
  BY <1>1, <1>5 DEF Removes
<1> QED BY <1>0, <1>2, <1>3, <1>4, <1>5, StepShape

\* The invariant of the history holds at the start.
LEMMA InitHistory == Init => HistoryInv
BY InitType DEF Init, HistoryInv, StampsInv, SeenInv, ContextInv, Ever, HasRead, Answered

\* Every step keeps it.
LEMMA NextHistory == HistoryInv /\ [Next]_vars => HistoryInv'
BY NextType, StampsKept, SeenKept, ContextKept DEF HistoryInv

\* A request is answered from a context with its question, unless the user
\* deleted it or a newer message of a request that overlaps took its place
\* (build keeps the newest unit; what was there before is older).
THEOREM QuestionsAreConsidered == Spec => []QuestionConsidered
<1>1. Spec => []HistoryInv
  BY InitHistory, NextHistory, PTL DEF Spec
<1>2. Inv /\ HistoryInv => QuestionConsidered
  <2> SUFFICES ASSUME Inv, HistoryInv, NEW r \in Requests, NEW q \in Ever,
                      q.of = r, q.role = "user", pc[r] \in Answered
               PROVE  \/ q \in context[r] \cup removed
                      \/ \E m \in context[r] \ known[r] : m.created > q.created
    BY DEF QuestionConsidered, Ever, Answered
  <2>1. SeenInv(r) /\ ContextInv(r)
    BY DEF HistoryInv
  <2>2. q \in seen[r] \cup removed
    BY <2>1 DEF SeenInv, HasRead, Answered
  <2>3. q \in messages => \A n \in known[r] : ~ (n.created > q.created)
    <3>1. q \in messages => \A n \in known[r] : n.created < q.created
      BY DEF Inv, OrderInv, RealTimeOrder
    <3>2. q.created \in Nat /\ \A n \in known[r] : n.created \in Nat
      BY DEF Inv, TypeOK, Ever, Rows
    <3> QED BY <3>1, <3>2
  <2>4. q \in removed \/ q \in context[r] \/ \E m \in context[r] : m.created > q.created
    BY <2>1, <2>2 DEF ContextInv
  <2> QED BY <2>3, <2>4 DEF Ever
<1> QED BY InvHolds, <1>1, <1>2, PTL
-----------------------------------------------------------------------------
(* Requests come to an end. *)

\* The tool loop has turns left while it asks the provider.
TurnsInv(r) ==
  /\ pc[r] \notin {"generating", "settling", "answering"} \cup Ended => turns[r] = 0
  /\ pc[r] = "generating" => turns[r] < MaxToolIterations
  /\ pc[r] = "settling" => turns[r] <= MaxToolIterations

\* The moves a request still has at most before it.
MovesLeft(r) ==
  LET loop == 2 * (MaxToolIterations - turns[r])
  IN  CASE pc[r] = "idle"        -> loop + 11
        [] pc[r] = "begun"       -> loop + 10
        [] pc[r] = "asked"       -> loop + 9
        [] pc[r] = "reading"     -> loop + 8
        [] pc[r] = "choosing"    -> loop + 7
        [] pc[r] = "omitting"    -> loop + 6
        [] pc[r] = "summarizing" -> loop + 5
        [] pc[r] = "stored"      -> loop + 4
        [] pc[r] = "rereading"   -> loop + 3
        [] pc[r] = "generating"  -> loop + 2
        [] pc[r] = "settling"    -> loop + 3
        [] pc[r] = "answering"   -> 1
        [] OTHER                 -> 0

\* A step that moves a request keeps its loop bounded and brings it nearer to
\* its end.
LEMMA StepForward ==
  ASSUME TypeOK, NEW r \in Requests, TurnsInv(r), Step(r)
  PROVE  TurnsInv(r)' /\ MovesLeft(r)' < MovesLeft(r)
<1> USE SizesAssumption DEF TypeOK, TurnsInv, MovesLeft, GoTo, Ended
<1>1. CASE Arrive(r)
  BY <1>1 DEF Arrive
<1>2. CASE Ask(r)
  BY <1>2 DEF Ask, Insert
<1>3. CASE Refresh(r)
  BY <1>3 DEF Refresh, Detached
<1>4. CASE ReadHistory(r)
  BY <1>4 DEF ReadHistory
<1>5. CASE Choose(r)
  BY <1>5 DEF Choose
<1>6. CASE StartSummary(r)
  BY <1>6 DEF StartSummary
<1>7. CASE EndSummary(r)
  BY <1>7 DEF EndSummary
<1>8. CASE Reread(r)
  BY <1>8 DEF Reread
<1>9. CASE Generate(r)
  BY <1>9 DEF Generate, CountTurn
<1>10. CASE Settle(r)
  BY <1>10 DEF Settle
<1>11. CASE Answer(r)
  BY <1>11 DEF Answer, Insert
<1>12. CASE Fail(r)
  <2>1. pc[r] \in PCs \ ({"idle"} \cup Ended) /\ pc'[r] = "failed" /\ turns'[r] = turns[r]
    BY <1>12 DEF Fail
  <2>2. MovesLeft(r)' = 0
    BY <2>1
  <2>3. MovesLeft(r) > 0
    BY <2>1 DEF PCs
  <2> HIDE DEF MovesLeft
  <2> QED BY <2>1, <2>2, <2>3
<1> QED BY <1>1, <1>2, <1>3, <1>4, <1>5, <1>6, <1>7, <1>8, <1>9, <1>10, <1>11, <1>12
        DEF Step

\* No other request's step does anything to it.
LEMMA OthersStay ==
  ASSUME TypeOK, [Next]_vars, NEW r \in Requests, ~ Step(r)
  PROVE  pc'[r] = pc[r] /\ turns'[r] = turns[r]
<1>1. ASSUME NEW q \in Requests, q # r, Step(q)
      PROVE  pc'[r] = pc[r] /\ turns'[r] = turns[r]
  BY <1>1 DEF TypeOK, Step, Arrive, Ask, Refresh, ReadHistory, Choose, StartSummary,
     EndSummary, Reread, Generate, CountTurn, Settle, Answer, Fail, Insert, GoTo
<1>2. CASE DeleteMessage \/ DeleteChat \/ UNCHANGED vars
  BY <1>2 DEF DeleteMessage, DeleteChat, vars, locals
<1> QED BY <1>1, <1>2 DEF Next, Done

\* A request that moves comes nearer to its end, however others interleave: it
\* has at most eleven moves and two for each iteration of the tool loop.
THEOREM RequestsGoForward ==
  Spec => [][\A r \in Requests : pc'[r] # pc[r] => MovesLeft(r)' < MovesLeft(r)]_vars
<1> DEFINE Bounded == TypeOK /\ \A r \in Requests : TurnsInv(r)
           Forward == \A r \in Requests : pc'[r] # pc[r] => MovesLeft(r)' < MovesLeft(r)
<1>1. Init => Bounded
  BY InitType DEF Init, TurnsInv
<1>2. Bounded /\ [Next]_vars => Bounded'
  <2>1. ASSUME Bounded, [Next]_vars, NEW r \in Requests
        PROVE  TurnsInv(r)'
    <3>1. CASE Step(r)
      BY <2>1, <3>1, StepForward
    <3>2. CASE ~ Step(r)
      BY <2>1, <3>2, OthersStay DEF TurnsInv
    <3> QED BY <3>1, <3>2
  <2> QED BY <2>1, NextType
<1>3. Bounded /\ [Next]_vars => [Forward]_vars
  BY StepForward, OthersStay
<1> QED BY <1>1, <1>2, <1>3, PTL DEF Spec
-----------------------------------------------------------------------------
(* A user who has one request under way at a time. *)

\* A step leaves the summary and the messages to a request that is under way, or
\* to a deletion.
SummaryGrows == chat' = "live" => summary \subseteq summary'

AppendsOnly == \A m \in messages' \ messages : \A n \in messages : n.created < m.created

\* One request is under way; the summary it works on is that of the chat; and
\* what it stores next is the newest message.
AloneInv ==
  /\ \A r, s \in InFlight : r = s
  /\ \A r \in Requests : pc[r] = "summarizing" /\ chat = "live" => text[r] = summary
  /\ \A r \in Requests : pc[r] \in {"begun"} \cup After =>
       \A m \in messages : m.created < begin[r]

\* A request arrives when none is under way, and its transaction is the latest.
LEMMA ArriveAlone ==
  ASSUME Concurrency = 1, Inv, AloneInv, NEW r \in Requests, Arrive(r)
  PROVE  AloneInv'
<1> USE DEF Inv, TypeOK
<1>1. InFlight = {}
  <2>1. IsFiniteSet(InFlight)
    BY RequestsAssumption, FS_Subset DEF InFlight
  <2>2. Cardinality(InFlight) \in Nat /\ Cardinality(InFlight) < 1
    BY <2>1, FS_CardinalityType DEF Arrive
  <2> QED BY <2>1, <2>2, FS_EmptySet
<1>2. /\ pc'[r] = "begun" /\ begin'[r] = clock + 1
      /\ \A s \in Requests \ {r} : pc'[s] = pc[s] /\ begin'[s] = begin[s]
      /\ UNCHANGED <<chat, messages, summary, text>>
  BY DEF Arrive, BeginTransaction, GoTo, rows
<1>3. \A s \in Requests \ {r} : pc'[s] \in {"idle"} \cup Ended
  BY <1>1, <1>2 DEF InFlight
<1>4. \A m \in messages : m.created \in Nat /\ m.created <= clock
  BY DEF OrderInv, MessageInv, Rows
<1> QED BY <1>2, <1>3, <1>4 DEF AloneInv, InFlight, Ended, After

\* Every step keeps a request alone.
LEMMA StayAlone ==
  ASSUME Concurrency = 1, Inv, AloneInv, [Next]_vars
  PROVE  AloneInv'
<1> USE DEF Inv, TypeOK
<1>1. ASSUME NEW r \in Requests, Arrive(r)
      PROVE  AloneInv'
  BY <1>1, ArriveAlone
<1>2. ASSUME NEW r \in Requests, Step(r), ~ Arrive(r)
      PROVE  AloneInv'
  <2>1. /\ r \in InFlight
        /\ \A s \in Requests \ {r} : /\ pc'[s] = pc[s] /\ begin'[s] = begin[s]
                                     /\ text'[s] = text[s]
        /\ UNCHANGED chat
    BY <1>2 DEF InFlight, Detached, Ended, Step, Ask, Refresh, BeginTransaction, ReadHistory,
       Choose, StartSummary, EndSummary, Reread, Generate, Settle, Answer, Fail,
       Insert, GoTo, rows
  <2>2. \A s \in Requests \ {r} : pc'[s] \in {"idle"} \cup Ended
    BY <2>1 DEF AloneInv, InFlight
  <2>3. \A s, t \in InFlight' : s = t
    BY <2>2 DEF InFlight
  <2>4. pc'[r] = "summarizing" /\ chat' = "live" => text'[r] = summary'
    BY <1>2, <2>1 DEF Step, Ask, Refresh, ReadHistory, Choose, StartSummary, EndSummary,
       Reread, Generate, Settle, Answer, Fail, Insert, GoTo, rows, AloneInv
  <2>5. pc'[r] \in {"begun"} \cup After => \A m \in messages' : m.created < begin'[r]
    <3>1. CASE Refresh(r)
      <4>1. begin'[r] = clock + 1 /\ UNCHANGED messages
        BY <3>1 DEF Refresh, BeginTransaction, rows
      <4>2. \A m \in messages : m.created \in Nat /\ m.created <= clock
        BY DEF OrderInv, MessageInv, Rows
      <4> QED BY <4>1, <4>2
    <3>2. CASE Ask(r) \/ Answer(r)
      BY <3>2 DEF Ask, Answer, Insert, GoTo, Ended, After
    <3>3. CASE ~ Refresh(r) /\ ~ Ask(r) /\ ~ Answer(r)
      <4>1. /\ pc'[r] \in {"begun"} \cup After => pc[r] \in {"begun"} \cup After
            /\ UNCHANGED <<messages, begin>>
        BY <1>2, <3>3 DEF Step, ReadHistory, Choose, StartSummary, EndSummary, Reread,
           Generate, Settle, Fail, GoTo, rows, After, Ended
      <4> QED BY <4>1 DEF AloneInv
    <3> QED BY <3>1, <3>2, <3>3
  <2>6. \A s \in Requests \ {r} : pc'[s] \notin {"summarizing", "begun"} \cup After
    BY <2>2 DEF Ended, After
  <2> QED BY <2>3, <2>4, <2>5, <2>6 DEF AloneInv
<1>3. CASE DeleteMessage \/ UNCHANGED vars
  BY <1>3 DEF DeleteMessage, AloneInv, InFlight, vars, rows, locals
<1>4. CASE DeleteChat
  BY <1>4 DEF DeleteChat, AloneInv, InFlight, locals
<1> QED BY <1>1, <1>2, <1>3, <1>4 DEF Next, Done

\* With one request of the user under way at a time, no message is lost from
\* the summary of a chat, and its history only grows at its end, whatever
\* fails: both need requests that overlap, which nothing in send_message and
\* stream_message prevents.
THEOREM AloneNothingIsLost ==
  ASSUME Concurrency = 1
  PROVE  Spec => [][SummaryGrows /\ AppendsOnly]_vars
<1>1. Init => AloneInv
  BY DEF Init, AloneInv, InFlight, After
<1>2. ASSUME Inv, AloneInv, [Next]_vars
      PROVE  SummaryGrows /\ AppendsOnly
  <2> USE <1>2 DEF Inv, TypeOK
  <2>1. ASSUME NEW r \in Requests, Step(r)
        PROVE  SummaryGrows /\ AppendsOnly
    <3>1. SummaryGrows
      <4>1. CASE EndSummary(r)
        BY <4>1 DEF EndSummary, NewSummary, AloneInv, SummaryGrows
      <4>2. CASE ~ EndSummary(r)
        BY <2>1, <4>2 DEF Step, Arrive, Ask, Refresh, ReadHistory, Choose, StartSummary,
           Reread, Generate, Settle, Answer, Fail, rows, SummaryGrows
      <4> QED BY <4>1, <4>2
    <3>2. AppendsOnly
      <4>1. ASSUME NEW role \in Roles, messages' = messages \cup {Row(r, role)},
                   pc[r] \in {"begun", "answering"}
            PROVE  AppendsOnly
        BY <4>1 DEF Row, CreatedAt, AppendsOnly, AloneInv, After
      <4>2. CASE Ask(r) \/ Answer(r)
        BY <4>1, <4>2 DEF Ask, Answer, Insert, Roles, AppendsOnly
      <4>3. CASE ~ (Ask(r) \/ Answer(r))
        BY <2>1, <4>3 DEF Step, Arrive, Refresh, ReadHistory, Choose, StartSummary,
           EndSummary, Reread, Generate, Settle, Fail, rows, AppendsOnly
      <4> QED BY <4>2, <4>3
    <3> QED BY <3>1, <3>2
  <2>2. CASE DeleteMessage \/ DeleteChat \/ UNCHANGED vars
    BY <2>2 DEF DeleteMessage, DeleteChat, vars, rows, SummaryGrows, AppendsOnly
  <2> QED BY <1>2, <2>1, <2>2 DEF Next, Done
<1>3. Inv /\ AloneInv /\ [Next]_vars => AloneInv'
  BY StayAlone
<1>4. Inv /\ AloneInv /\ [Next]_vars => [SummaryGrows /\ AppendsOnly]_vars
  BY <1>2
<1> QED BY InvHolds, <1>1, <1>3, <1>4, PTL DEF Spec
-----------------------------------------------------------------------------
(* The chat is a log. *)

\* A message is known by its entry: a request has one question and one answer
\* at most, ever, and what it found in the chat was there.
EntryInv ==
  /\ \A m \in Ever : /\ pc[m.of] \notin {"idle", "begun"}
                     /\ m.role = "assistant" => pc[m.of] = "done"
  /\ \A m, n \in Ever : EntryOf(m) = EntryOf(n) => m = n
  /\ \A r \in Requests : known[r] \subseteq Ever

\* A request comes to a place where it has no question only from "idle", and
\* leaves its end for nothing.
LEMMA PlacesOnly ==
  ASSUME TypeOK, NEW r \in Requests, Step(r)
  PROVE  /\ pc[r] \notin Ended
         /\ pc'[r] # "idle" /\ (pc'[r] = "begun" => pc[r] = "idle")
         /\ \A s \in Requests \ {r} : pc'[s] = pc[s]
BY DEF TypeOK, Step, Arrive, Ask, Refresh, Detached, ReadHistory, Choose, StartSummary,
   EndSummary, Reread, Generate, Settle, Answer, Fail, Insert, GoTo, Ended

\* What is inserted is the first with its entry.
LEMMA InsertKeepsEntries ==
  ASSUME TypeOK, EntryInv, NEW r \in Requests, NEW role \in Roles,
         messages' = messages \cup {Row(r, role)}, UNCHANGED <<removed, known>>,
         \/ role = "user" /\ pc[r] = "begun" /\ GoTo(r, "asked")
         \/ role = "assistant" /\ pc[r] = "answering" /\ GoTo(r, "done")
  PROVE  EntryInv'
<1>1. PICK k : k = Row(r, role)
  OBVIOUS
<1>2. k.of = r /\ k.role = role /\ Ever' = Ever \cup {k}
  BY <1>1 DEF Row, Ever
<1>3. \A m \in Ever : m.of \in Requests
  BY DEF TypeOK, Ever, Rows
<1>4. \A m \in Ever : EntryOf(m) # EntryOf(k)
  BY <1>2 DEF EntryInv, EntryOf
<1>5. \A m, n \in Ever' : EntryOf(m) = EntryOf(n) => m = n
  BY <1>2, <1>4 DEF EntryInv
<1>6. \A m \in Ever' : /\ pc'[m.of] \notin {"idle", "begun"}
                       /\ m.role = "assistant" => pc'[m.of] = "done"
  <2>1. pc'[r] \in {"asked", "done"} /\ (role = "assistant" => pc'[r] = "done")
    BY PlaceAfter
  <2>2. \A s \in Requests \ {r} : pc'[s] = pc[s]
    BY PlaceAfter
  <2>3. \A m \in Ever : m.of = r => pc[r] = "answering" /\ m.role # "assistant"
    BY DEF EntryInv
  <2> QED BY <1>2, <1>3, <2>1, <2>2, <2>3 DEF EntryInv
<1>7. \A s \in Requests : known'[s] \subseteq Ever'
  BY <1>2 DEF EntryInv
<1> QED BY <1>5, <1>6, <1>7 DEF EntryInv

\* Every step keeps the entries apart.
LEMMA NextEntries ==
  ASSUME TypeOK, TypeOK', EntryInv, [Next]_vars
  PROVE  EntryInv'
<1>0. \A m \in Ever : m.of \in Requests
  BY DEF TypeOK, Ever, Rows
<1>1. ASSUME NEW r \in Requests, Step(r), Ever' = Ever, known' = known \/ Arrive(r)
      PROVE  EntryInv'
  <2>1. \A m \in Ever : /\ pc'[m.of] \notin {"idle", "begun"}
                        /\ m.role = "assistant" => pc'[m.of] = "done"
    BY <1>0, <1>1, PlacesOnly DEF EntryInv, Ended
  <2>2. \A s \in Requests : known'[s] \subseteq Ever
    BY <1>1 DEF EntryInv, TypeOK, Arrive, Ever
  <2> QED BY <1>1, <2>1, <2>2 DEF EntryInv
<1>2. ASSUME NEW r \in Requests, Step(r), chat = "live", Ask(r) \/ Answer(r)
      PROVE  EntryInv'
  BY <1>2, InsertKeepsEntries DEF Ask, Answer, Insert, Roles
<1>3. ASSUME NEW r \in Requests, Step(r), ~ (chat = "live" /\ (Ask(r) \/ Answer(r)))
      PROVE  EntryInv'
  <2>1. Ever' = Ever /\ (known' = known \/ Arrive(r))
    BY <1>3 DEF Step, Arrive, Ask, Refresh, ReadHistory, Choose, StartSummary,
       EndSummary, Reread, Generate, Settle, Answer, Fail, Insert, rows, Ever
  <2> QED BY <1>1, <1>3, <2>1
<1>4. CASE DeleteMessage \/ DeleteChat \/ UNCHANGED vars
  <2>1. Ever' = Ever /\ UNCHANGED <<pc, known>>
    BY <1>4 DEF DeleteMessage, DeleteChat, vars, rows, locals, Ever
  <2> QED BY <2>1 DEF EntryInv
<1> QED BY <1>2, <1>3, <1>4 DEF Next, Done

\* What is in the order of some messages.
LEMMA OrderMembers ==
  ASSUME NEW ms, NEW p
  PROVE  p \in OrderOf(ms) <=>
           \E m, n \in ms : m.created < n.created /\ p = <<EntryOf(m), EntryOf(n)>>
<1>1. ASSUME p \in OrderOf(ms)
      PROVE  \E m, n \in ms : m.created < n.created /\ p = <<EntryOf(m), EntryOf(n)>>
  <2>1. PICK q \in ms \X ms : /\ q[1].created < q[2].created
                              /\ p = <<EntryOf(q[1]), EntryOf(q[2])>>
    BY <1>1 DEF OrderOf
  <2> QED BY <2>1
<1>2. ASSUME NEW m \in ms, NEW n \in ms, m.created < n.created,
             p = <<EntryOf(m), EntryOf(n)>>
      PROVE  p \in OrderOf(ms)
  <2>1. PICK q \in ms \X ms : q = <<m, n>>
    OBVIOUS
  <2>2. q[1] = m /\ q[2] = n
    BY <2>1
  <2> QED BY <1>2, <2>2 DEF OrderOf
<1> QED BY <1>1, <1>2

\* The entries of the messages older than a stamp.
LowerThan(ms, stamp) == EntriesOf({ m \in ms : m.created < stamp })

\* Of messages known by their entries, the older ones are those with the older
\* entries.
LEMMA LowerMembers ==
  ASSUME NEW ms, NEW stamp, \A m, n \in ms : EntryOf(m) = EntryOf(n) => m = n,
         NEW m \in ms
  PROVE  EntryOf(m) \in LowerThan(ms, stamp) <=> m.created < stamp
BY DEF LowerThan, EntriesOf

\* A message with a stamp of its own takes a place in the order of the others.
LEMMA OrderGrows ==
  ASSUME NEW ms \in SUBSET Rows, NEW k \in Rows,
         \A m, n \in ms : EntryOf(m) = EntryOf(n) => m = n,
         \A m \in ms : m.created # k.created
  PROVE  OrderOf(ms \cup {k}) =
           OrderOf(ms) \cup (LowerThan(ms, k.created) \X {EntryOf(k)})
             \cup ({EntryOf(k)} \X (EntriesOf(ms) \ LowerThan(ms, k.created)))
<1> DEFINE lower == LowerThan(ms, k.created)
           upper == EntriesOf(ms) \ lower
<1>0. /\ \A m \in ms : m.created \in Nat
      /\ k.created \in Nat
  BY DEF Rows
<1>1. \A e : e \in lower <=> \E m \in ms : m.created < k.created /\ e = EntryOf(m)
  BY DEF LowerThan, EntriesOf
<1>2. \A e : e \in upper <=> \E m \in ms : k.created < m.created /\ e = EntryOf(m)
  <2>1. \A m \in ms : EntryOf(m) \in lower <=> m.created < k.created
    BY LowerMembers
  <2>2. \A m \in ms : ~ (m.created < k.created) <=> k.created < m.created
    BY <1>0
  <2>3. \A e : e \in EntriesOf(ms) <=> \E m \in ms : e = EntryOf(m)
    BY DEF EntriesOf
  <2> HIDE DEF lower
  <2> QED BY <2>1, <2>2, <2>3
<1>3. ~ (k.created < k.created)
  BY <1>0
<1> HIDE DEF lower, upper
<1>4. ASSUME NEW p
      PROVE  p \in OrderOf(ms \cup {k}) <=>
               \/ p \in OrderOf(ms)
               \/ p \in lower \X {EntryOf(k)}
               \/ p \in {EntryOf(k)} \X upper
  <2>1. p \in OrderOf(ms \cup {k}) <=>
          \/ p \in OrderOf(ms)
          \/ \E m \in ms : m.created < k.created /\ p = <<EntryOf(m), EntryOf(k)>>
          \/ \E n \in ms : k.created < n.created /\ p = <<EntryOf(k), EntryOf(n)>>
    <3>1. p \in OrderOf(ms \cup {k}) <=>
            \E m, n \in ms \cup {k} :
              m.created < n.created /\ p = <<EntryOf(m), EntryOf(n)>>
      BY OrderMembers
    <3>2. p \in OrderOf(ms) <=>
            \E m, n \in ms : m.created < n.created /\ p = <<EntryOf(m), EntryOf(n)>>
      BY OrderMembers
    <3> QED BY <1>3, <3>1, <3>2
  <2>2. p \in lower \X {EntryOf(k)} <=>
          \E m \in ms : m.created < k.created /\ p = <<EntryOf(m), EntryOf(k)>>
    <3>1. p \in lower \X {EntryOf(k)} <=> \E e \in lower : p = <<e, EntryOf(k)>>
      OBVIOUS
    <3> QED BY <1>1, <3>1
  <2>3. p \in {EntryOf(k)} \X upper <=>
          \E n \in ms : k.created < n.created /\ p = <<EntryOf(k), EntryOf(n)>>
    <3>1. p \in {EntryOf(k)} \X upper <=> \E e \in upper : p = <<EntryOf(k), e>>
      OBVIOUS
    <3> QED BY <1>2, <3>1
  <2> QED BY <2>1, <2>2, <2>3
<1>5. OrderOf(ms \cup {k}) =
        OrderOf(ms) \cup (lower \X {EntryOf(k)}) \cup ({EntryOf(k)} \X upper)
  <2>1. \A p : p \in OrderOf(ms \cup {k}) <=>
               p \in OrderOf(ms) \cup (lower \X {EntryOf(k)}) \cup ({EntryOf(k)} \X upper)
    BY <1>4
  <2> QED BY <2>1
<1> QED BY <1>5 DEF lower, upper

\* What an insert does to the log: the entry takes the place of its stamp.
LEMMA InsertPuts ==
  ASSUME TypeOK, StampsInv, EntryInv, NEW r \in Requests, NEW role \in Roles,
         messages' = messages \cup {Row(r, role)},
         pc[r] \in {"begun", "answering"}, NEW past,
         \A m \in messages : EntryOf(m) \in past => m.created < begin[r]
  PROVE  Log!Put(<<r, role>>, past)
<1>1. PICK k \in Rows : k = Row(r, role)
  BY RowType
<1>2. EntryOf(k) = <<r, role>> /\ k.created = begin[r] /\ messages' = messages \cup {k}
  BY <1>1 DEF Row, CreatedAt, EntryOf
<1>3. \A m \in messages : m.created # k.created
  BY <1>2 DEF StampsInv, Ever, Ended
<1>4. \A m, n \in messages : EntryOf(m) = EntryOf(n) => m = n
  BY DEF EntryInv, Ever
<1> DEFINE lower == LowerThan(messages, begin[r])
<1>5. \A m \in messages : EntryOf(m) \in lower <=> m.created < begin[r]
  BY <1>4, LowerMembers
<1>6. lower \in SUBSET EntriesOf(messages)
  BY DEF LowerThan, EntriesOf
<1>7. OrderOf(messages') = OrderOf(messages) \cup (lower \X {<<r, role>>})
                             \cup ({<<r, role>>} \X (EntriesOf(messages) \ lower))
  BY <1>2, <1>3, <1>4, OrderGrows DEF TypeOK
<1>8. EntriesOf(messages') = EntriesOf(messages) \cup {<<r, role>>}
  BY <1>2 DEF EntriesOf
<1> HIDE DEF lower
<1>9. past \cap EntriesOf(messages) \subseteq lower
  BY <1>5 DEF EntriesOf
<1>10. \A p \in OrderOf(messages) : p[2] \in lower => p[1] \in lower
  <2> SUFFICES ASSUME NEW p \in OrderOf(messages), p[2] \in lower
               PROVE  p[1] \in lower
    OBVIOUS
  <2>1. PICK m \in messages, n \in messages :
          m.created < n.created /\ p = <<EntryOf(m), EntryOf(n)>>
    BY OrderMembers
  <2>2. n.created < begin[r]
    BY <1>5, <2>1
  <2>3. m.created \in Nat /\ n.created \in Nat /\ begin[r] \in Nat
    BY DEF TypeOK, Rows
  <2> QED BY <1>5, <2>1, <2>2, <2>3
<1> QED BY <1>6, <1>7, <1>8, <1>9, <1>10 DEF Log!Put

\* The stage of the log follows the place of the request.
LEMMA StageMoves ==
  ASSUME TypeOK, NEW r \in Requests, NEW l, GoTo(r, l)
  PROVE  Log!Reach(r, StageAt(l))
BY PlaceAfter DEF Log!Reach

LEMMA StageStays ==
  ASSUME TypeOK, NEW r \in Requests, NEW l, GoTo(r, l), StageAt(l) = StageAt(pc[r])
  PROVE  UNCHANGED [s \in Requests |-> StageAt(pc[s])]
BY PlaceAfter
\* A request that only moves on ends in the log, or nothing happens there.
LEMMA MovesInLog ==
  ASSUME TypeOK, NEW r \in Requests, NEW l \in PCs \ {"idle", "begun"}, GoTo(r, l),
         pc[r] \notin {"idle"} \cup Ended, pc[r] = "begun" => l = "failed",
         UNCHANGED <<chat, messages, known>>
  PROVE  [Log!LogNext]_(Log!logVars)
<1>1. CASE l \in Ended
  <2>1. StageAt(pc[r]) \in {"arrived", "asked"} /\ StageAt(l) = "over"
    BY <1>1 DEF StageAt, Ended
  <2>2. Log!Reach(r, "over")
    BY <2>1, StageMoves
  <2>3. Log!Finish(r)
    BY <2>1, <2>2 DEF Log!Finish
  <2> QED BY <2>3 DEF Log!LogNext
<1>2. CASE l \notin Ended
  <2>1. StageAt(l) = StageAt(pc[r])
    BY <1>2 DEF StageAt, Ended
  <2>2. UNCHANGED [s \in Requests |-> StageAt(pc[s])]
    BY <2>1, StageStays
  <2> QED BY <2>2 DEF Log!logVars
<1> QED BY <1>1, <1>2

\* An arriving request notes what is in the log.
LEMMA ArrivesInLog ==
  ASSUME TypeOK, NEW r \in Requests, Arrive(r)
  PROVE  Log!Arrive(r)
<1>1. /\ pc[r] = "idle" /\ GoTo(r, "begun") /\ UNCHANGED <<chat, messages>>
      /\ known' = [known EXCEPT ![r] = messages]
  BY DEF Arrive, rows
<1>2. StageAt("idle") = "new" /\ StageAt("begun") = "arrived"
  BY DEF StageAt, Ended
<1>3. Log!Reach(r, "arrived")
  BY <1>1, <1>2, StageMoves
<1>4. [s \in Requests |-> EntriesOf(known'[s])]
        = [[s \in Requests |-> EntriesOf(known[s])] EXCEPT ![r] = EntriesOf(messages)]
  BY <1>1 DEF TypeOK
<1> QED BY <1>1, <1>2, <1>3, <1>4 DEF Log!Arrive

\* What a request found, and of it the question, is older than its transaction.
LEMMA PastIsOlder ==
  ASSUME Inv, EntryInv, NEW r \in Requests, pc[r] \in {"begun", "answering"},
         NEW m \in messages
  PROVE  /\ EntryOf(m) \in EntriesOf(known[r]) => m.created < begin[r]
         /\ EntryOf(m) = <<r, "user">> => m.created < begin[r]
<1>1. ASSUME EntryOf(m) \in EntriesOf(known[r])
      PROVE  m.created < begin[r]
  <2>1. PICK n \in known[r] : EntryOf(m) = EntryOf(n)
    BY <1>1 DEF EntriesOf
  <2>2. n = m
    BY <2>1 DEF EntryInv, Ever
  <2> QED BY <2>2 DEF Inv, OrderInv, RequestInv
<1>2. ASSUME EntryOf(m) = <<r, "user">>
      PROVE  m.created < begin[r]
  BY <1>2 DEF EntryOf, Inv, OrderInv, MessageInv, After
<1> QED BY <1>1, <1>2

\* A question and an answer take their places, or the chat is gone.
LEMMA AsksInLog ==
  ASSUME Inv, HistoryInv, EntryInv, NEW r \in Requests, Ask(r)
  PROVE  [Log!LogNext]_(Log!logVars)
<1>0. TypeOK /\ StampsInv /\ pc[r] = "begun" /\ UNCHANGED <<chat, known>>
  BY DEF Inv, HistoryInv, Ask
<1>1. CASE chat = "deleted"
  BY <1>0, <1>1, MovesInLog DEF Ask, Insert, PCs, Ended
<1>2. CASE chat = "live"
  <2>1. messages' = messages \cup {Row(r, "user")} /\ GoTo(r, "asked")
    BY <1>2 DEF Ask, Insert
  <2>2. Log!Put(<<r, "user">>, EntriesOf(known[r]))
    BY <1>0, <2>1, InsertPuts, PastIsOlder DEF Roles
  <2>3. StageAt("begun") = "arrived" /\ StageAt("asked") = "asked"
    BY DEF StageAt, Ended
  <2>4. Log!Reach(r, "asked")
    BY <1>0, <2>1, <2>3, StageMoves
  <2>5. Log!Ask(r)
    BY <1>0, <1>2, <2>2, <2>3, <2>4 DEF Log!Ask, Log!Question
  <2> QED BY <2>5 DEF Log!LogNext
<1> QED BY <1>0, <1>1, <1>2 DEF TypeOK

LEMMA AnswersInLog ==
  ASSUME Inv, HistoryInv, EntryInv, NEW r \in Requests, Answer(r)
  PROVE  [Log!LogNext]_(Log!logVars)
<1>0. TypeOK /\ StampsInv /\ pc[r] = "answering" /\ UNCHANGED <<chat, known>>
  BY DEF Inv, HistoryInv, Answer
<1>1. CASE chat = "deleted"
  BY <1>0, <1>1, MovesInLog DEF Answer, Insert, PCs, Ended
<1>2. CASE chat = "live"
  <2>1. messages' = messages \cup {Row(r, "assistant")} /\ GoTo(r, "done")
    BY <1>2 DEF Answer, Insert
  <2>2. \A m \in messages :
          EntryOf(m) \in EntriesOf(known[r]) \cup {<<r, "user">>} => m.created < begin[r]
    BY <1>0, PastIsOlder
  <2>3. Log!Put(<<r, "assistant">>, EntriesOf(known[r]) \cup {<<r, "user">>})
    BY <1>0, <2>1, <2>2, InsertPuts DEF Roles
  <2>4. StageAt("answering") = "asked" /\ StageAt("done") = "over"
    BY DEF StageAt, Ended
  <2>5. Log!Reach(r, "over")
    BY <1>0, <2>1, <2>4, StageMoves
  <2>6. Log!Answer(r)
    BY <1>0, <1>2, <2>3, <2>4, <2>5 DEF Log!Answer, Log!Question, Log!Reply
  <2> QED BY <2>6 DEF Log!LogNext
<1> QED BY <1>0, <1>1, <1>2 DEF TypeOK

\* Messages that are left keep their order.
LEMMA LeftKeepOrder ==
  ASSUME EntryInv, NEW left, left \subseteq messages
  PROVE  OrderOf(left) = OrderOf(messages) \cap (EntriesOf(left) \X EntriesOf(left))
<1>1. \A m \in messages : EntryOf(m) \in EntriesOf(left) <=> m \in left
  BY DEF EntryInv, Ever, EntriesOf
<1>2. ASSUME NEW p
      PROVE  p \in OrderOf(left) <=>
               p \in OrderOf(messages) /\ p \in EntriesOf(left) \X EntriesOf(left)
  <2>1. p \in OrderOf(left) <=>
          \E m, n \in left : m.created < n.created /\ p = <<EntryOf(m), EntryOf(n)>>
    BY OrderMembers
  <2>2. p \in OrderOf(messages) <=>
          \E m, n \in messages : m.created < n.created /\ p = <<EntryOf(m), EntryOf(n)>>
    BY OrderMembers
  <2>3. \A m, n \in messages :
          <<EntryOf(m), EntryOf(n)>> \in EntriesOf(left) \X EntriesOf(left)
            <=> m \in left /\ n \in left
    BY <1>1
  <2> QED BY <2>1, <2>2, <2>3
<1>3. \A p : p \in OrderOf(left) <=>
               p \in OrderOf(messages) \cap (EntriesOf(left) \X EntriesOf(left))
  BY <1>2
<1> QED BY <1>3

LEMMA RemovesInLog ==
  ASSUME TypeOK, EntryInv, DeleteMessage
  PROVE  \E r \in Requests : Log!Remove(r)
<1>1. PICK m \in messages : m.role = "user" /\ messages' = messages \ {m}
  BY DEF DeleteMessage
<1>2. UNCHANGED <<chat, pc, known>>
  BY DEF DeleteMessage, locals
<1>3. m.of \in Requests /\ EntryOf(m) = <<m.of, "user">>
  BY <1>1 DEF TypeOK, Rows, EntryOf
<1>4. EntriesOf(messages') = EntriesOf(messages) \ {<<m.of, "user">>}
  BY <1>1, <1>3 DEF EntryInv, Ever, EntriesOf
<1>5. OrderOf(messages') = OrderOf(messages)
                             \cap (EntriesOf(messages') \X EntriesOf(messages'))
  BY <1>1, LeftKeepOrder
<1>6. Log!Remove(m.of)
  BY <1>2, <1>4, <1>5 DEF Log!Remove, Log!Keep, Log!Question
<1> QED BY <1>3, <1>6

LEMMA DeletesInLog ==
  ASSUME DeleteChat
  PROVE  Log!Delete
<1>1. chat = "live" /\ chat' = "deleted" /\ messages' = {} /\ UNCHANGED <<pc, known>>
  BY DEF DeleteChat, locals
<1>2. EntriesOf(messages') = {} /\ OrderOf(messages') = {}
  BY <1>1 DEF EntriesOf, OrderOf
<1> QED BY <1>1, <1>2 DEF Log!Delete, Log!Keep

\* Every step of the chat is one of the log, or changes nothing there.
LEMMA StepOfLog ==
  ASSUME Inv, HistoryInv, EntryInv, [Next]_vars
  PROVE  [Log!LogNext]_(Log!logVars)
<1>0. TypeOK
  BY DEF Inv
<1>1. ASSUME NEW r \in Requests, Step(r), ~ Arrive(r), ~ Ask(r), ~ Answer(r)
      PROVE  [Log!LogNext]_(Log!logVars)
  <2>1. /\ \E l \in PCs \ {"idle", "begun"} :
             GoTo(r, l) /\ (pc[r] = "begun" => l = "failed")
        /\ pc[r] \notin {"idle"} \cup Ended
        /\ UNCHANGED <<chat, messages, known>>
    BY <1>1 DEF Step, Refresh, Detached, ReadHistory, Choose, StartSummary, EndSummary,
       Reread, Generate, Settle, Fail, PCs, Ended, rows
  <2> QED BY <1>0, <2>1, MovesInLog
<1>2. ASSUME NEW r \in Requests, Arrive(r)
      PROVE  [Log!LogNext]_(Log!logVars)
  BY <1>0, <1>2, ArrivesInLog DEF Log!LogNext
<1>3. CASE DeleteMessage
  BY <1>0, <1>3, RemovesInLog DEF Log!LogNext
<1>4. CASE DeleteChat
  BY <1>4, DeletesInLog DEF Log!LogNext
<1>5. CASE UNCHANGED vars
  BY <1>5 DEF vars, rows, locals, Log!logVars
<1> QED BY <1>1, <1>2, <1>3, <1>4, <1>5, AsksInLog, AnswersInLog DEF Next, Done

\* The service implements the log: send_message, stream_message, the creation
\* of messages and the deletions change a chat as ChatLog allows, for any
\* number of requests at once and whatever fails.
THEOREM ChatRefinesLog == Spec => ImplementsChatLog
<1>1. Init => Log!LogInit
  <2> SUFFICES ASSUME Init
               PROVE  Log!LogInit
    OBVIOUS
  <2>1. EntriesOf(messages) = {} /\ OrderOf(messages) = {}
    BY DEF Init, EntriesOf, OrderOf
  <2>2. [r \in Requests |-> EntriesOf(known[r])] = [r \in Requests |-> {}]
    BY DEF Init, EntriesOf
  <2>3. [r \in Requests |-> StageAt(pc[r])] = [r \in Requests |-> "new"]
    BY DEF Init, StageAt, Ended
  <2> QED BY <2>1, <2>2, <2>3 DEF Init, Log!LogInit
<1>2. Init => EntryInv
  BY DEF Init, EntryInv, Ever
<1>3. Spec => []HistoryInv
  BY InitHistory, NextHistory, PTL DEF Spec
<1>4. Inv /\ Inv' /\ EntryInv /\ [Next]_vars => EntryInv'
  BY NextEntries DEF Inv
<1>5. Inv /\ HistoryInv /\ EntryInv /\ [Next]_vars => [Log!LogNext]_(Log!logVars)
  BY StepOfLog
<1> QED BY InvHolds, <1>1, <1>2, <1>3, <1>4, <1>5, PTL
        DEF Spec, ImplementsChatLog, Log!LogSpec
-----------------------------------------------------------------------------
(* Summaries have no holes. *)

\* With a message, all that is before it and still in the chat.
Closed(S) == \A m \in S, n \in messages : Precedes(n, m) => n \in S

\* Precedes and Closed after a step, of messages and sets from before it.
PrecedesNext(n, m) ==
    \/ n \in known'[m.of]
    \/ n.of = m.of /\ n.role = "user" /\ m.role = "assistant"
ClosedNext(S) == \A m \in S, n \in messages' : PrecedesNext(n, m) => n \in S

\* What a summary is to take up.
Left(r) == seen[r] \ context[r]

\* What is before a message is older, a removed one too; and a question is older
\* than the transaction that will store its answer.
OlderInv ==
    /\ \A q \in Ever : q.role = "user" /\ pc[q.of] \in After => q.created < begin[q.of]
    /\ \A m, n \in Ever : Precedes(n, m) => n.created < m.created

\* What a request has at hand has no holes, what it leaves out has none either.
PartsInv(r) ==
    /\ text[r] \subseteq Ever /\ Closed(text[r])
    /\ seen[r] \subseteq Ever /\ Closed(seen[r])
    /\ pc[r] \in {"omitting", "summarizing"} => Closed(Left(r))

HoleInv ==
    /\ IsFiniteSet(Ever)
    /\ OlderInv
    /\ summary \subseteq Ever /\ Closed(summary)
    /\ \A r \in Requests : PartsInv(r)

\* The size of a part of a history is at most that of the whole.
LEMMA WeightOfPart ==
  ASSUME NEW B \in SUBSET Rows, IsFiniteSet(B), NEW A, A \subseteq B
  PROVE  Weight(A) \in Nat /\ Weight(B) \in Nat /\ Weight(A) <= Weight(B)
<1> DEFINE f == [m \in A |-> MessageTokens[m.role]]
           g == [m \in B |-> MessageTokens[m.role]]
<1>1. \A m \in B : MessageTokens[m.role] \in Nat
  BY SizesAssumption DEF Rows
<1>2. f \in [A -> Nat] /\ g \in [B -> Nat]
  BY <1>1
<1>3. IsFiniteSet(A)
  BY FS_Subset
<1>4. Total(f) \in Nat /\ Total(g) \in Nat /\ IsFiniteSet(Units(g))
  BY <1>2, <1>3, TotalIsNat
<1>5. Units(f) \subseteq Units(g)
  BY DEF Units
<1>6. Total(f) <= Total(g)
  BY <1>4, <1>5, FS_Subset DEF Total
<1> QED BY <1>4, <1>6 DEF Weight

\* What a context leaves out of a history without holes has none: it is the older
\* part, since a tail that fits has no longer tail that does not.
LEMMA RestIsClosed ==
  ASSUME TypeOK, IsFiniteSet(Ever), OlderInv, NEW ms \in SUBSET Ever, Closed(ms),
         NEW room \in Nat
  PROVE  Closed(ms \ Recent(ms, room))
<1>1. Ever \subseteq Rows /\ messages \subseteq Ever
  BY DEF TypeOK, Ever
<1>2. SUFFICES ASSUME NEW m \in ms \ Recent(ms, room), NEW n \in messages,
                      Precedes(n, m), n \in Recent(ms, room)
               PROVE  FALSE
  BY DEF Closed
<1>3. n \in ms /\ m \in Since(ms, n) /\ m # n /\ Since(ms, m) \subseteq Since(ms, n)
  <2>1. n.created < m.created
    BY <1>1, <1>2 DEF OlderInv
  <2>2. n \in ms
    BY <1>2 DEF Recent
  <2>3. \A k \in ms : k.created \in Nat
    BY <1>1 DEF Rows
  <2> QED BY <2>1, <2>2, <2>3 DEF Since
<1>4. Weight(Since(ms, n)) <= room
  BY <1>2, <1>3 DEF Recent
<1>5. IsFiniteSet(Since(ms, n)) /\ Since(ms, n) \in SUBSET Rows
  BY <1>1, FS_Subset DEF Since
<1>6. Weight(Since(ms, m)) <= room
  BY <1>3, <1>4, <1>5, WeightOfPart
<1> QED BY <1>2, <1>6 DEF Recent

\* The ways of a step with the messages: none is new, or one is, of a request
\* that has not put it in before.
LEMMA Newcomer ==
  ASSUME Inv, HistoryInv, EntryInv, [Next]_vars
  PROVE  \/ Ever' = Ever /\ messages' \subseteq messages
         \/ \E r \in Requests, role \in Roles :
              /\ Ever' = Ever \cup {Row(r, role)}
              /\ messages' = messages \cup {Row(r, role)}
              /\ Row(r, role) \notin Ever
              /\ IF role = "user" THEN Ask(r) /\ pc'[r] = "asked"
                                  ELSE Answer(r) /\ pc'[r] = "done"
<1> USE DEF Inv, TypeOK
<1>1. ASSUME NEW r \in Requests, NEW role \in Roles, pc[r] \in {"begun", "answering"}
      PROVE  Row(r, role) \notin Ever
  BY <1>1 DEF HistoryInv, StampsInv, Row, CreatedAt, Ended
<1>2. ASSUME NEW r \in Requests, Ask(r), chat = "live"
      PROVE  /\ messages' = messages \cup {Row(r, "user")}
             /\ Ever' = Ever \cup {Row(r, "user")}
             /\ pc[r] = "begun" /\ pc'[r] = "asked"
  BY <1>2 DEF Ask, Insert, GoTo, Ever
<1>3. ASSUME NEW r \in Requests, Answer(r), chat = "live"
      PROVE  /\ messages' = messages \cup {Row(r, "assistant")}
             /\ Ever' = Ever \cup {Row(r, "assistant")}
             /\ pc[r] = "answering" /\ pc'[r] = "done"
  BY <1>3 DEF Answer, Insert, GoTo, Ever
<1>4. ASSUME NEW r \in Requests, Step(r), ~ (chat = "live" /\ (Ask(r) \/ Answer(r)))
      PROVE  UNCHANGED <<messages, removed>>
  BY <1>4 DEF Step, Arrive, Ask, Refresh, ReadHistory, Choose, StartSummary, EndSummary,
     Reread, Generate, Settle, Answer, Fail, Insert, rows
<1>5. CASE DeleteMessage \/ DeleteChat \/ UNCHANGED vars
  BY <1>5 DEF DeleteMessage, DeleteChat, vars, rows, Ever
<1>6. "user" \in Roles /\ "assistant" \in Roles
  BY DEF Roles
<1> QED BY <1>1, <1>2, <1>3, <1>4, <1>5, <1>6 DEF Next, Done, Ever

\* What a request found in the chat is the same for as long as it is there.
LEMMA KnownStays ==
  ASSUME Inv, EntryInv, [Next]_vars, NEW m \in Ever
  PROVE  known'[m.of] = known[m.of]
<1> USE DEF Inv, TypeOK
<1>1. m.of \in Requests /\ pc[m.of] # "idle"
  BY DEF EntryInv, Ever, Rows
<1>2. ASSUME NEW r \in Requests, Arrive(r)
      PROVE  known'[m.of] = known[m.of]
  BY <1>1, <1>2 DEF Arrive
<1>3. ASSUME NEW r \in Requests, Step(r), ~ Arrive(r)
      PROVE  UNCHANGED known
  BY <1>3 DEF Step, Ask, Refresh, ReadHistory, Choose, StartSummary, EndSummary,
     Reread, Generate, Settle, Answer, Fail
<1> QED BY <1>2, <1>3 DEF Next, Done, DeleteMessage, DeleteChat, vars, locals

\* A newcomer is before nothing that was there, and nothing else changes its
\* place.
LEMMA PrecedesStays ==
  ASSUME Inv, HistoryInv, EntryInv, [Next]_vars, NEW m \in Ever, NEW n \in Ever',
         PrecedesNext(n, m)
  PROVE  n \in Ever /\ Precedes(n, m) /\ (n \in messages' => n \in messages)
<1>1. Precedes(n, m)
  BY KnownStays DEF Precedes, PrecedesNext
<1>2. CASE Ever' = Ever /\ messages' \subseteq messages
  BY <1>1, <1>2
<1>3. ASSUME NEW r \in Requests, NEW role \in Roles,
             Ever' = Ever \cup {Row(r, role)}, messages' = messages \cup {Row(r, role)},
             Row(r, role) \notin Ever,
             IF role = "user" THEN Ask(r) ELSE Answer(r)
      PROVE  n # Row(r, role)
  <2> SUFFICES ASSUME n = Row(r, role) PROVE FALSE
    OBVIOUS
  <2>1. m.of \in Requests
    BY DEF Inv, TypeOK, Ever, Rows
  <2>2. n \notin known[m.of]
    BY <1>3, <2>1 DEF EntryInv
  <2>3. m.of = r /\ m.role = "assistant" /\ role = "user"
    BY <1>1, <2>2 DEF Precedes, Row
  <2> QED BY <1>3, <2>3 DEF EntryInv, Ask
<1> QED BY <1>1, <1>2, <1>3, Newcomer

\* So a set that has no holes has none after a step.
LEMMA ClosedStays ==
  ASSUME Inv, HistoryInv, EntryInv, [Next]_vars, NEW S \in SUBSET Ever, Closed(S)
  PROVE  ClosedNext(S)
<1> SUFFICES ASSUME NEW m \in S, NEW n \in messages', PrecedesNext(n, m)
             PROVE  n \in S
  BY DEF ClosedNext
<1>1. n \in Ever'
  BY DEF Ever
<1>2. n \in messages /\ Precedes(n, m)
  BY <1>1, PrecedesStays
<1> QED BY <1>2 DEF Closed

\* A request is at work in the transaction it was in, or in the latest of all.
LEMMA SameOrLatest ==
  ASSUME TypeOK, [Next]_vars, NEW r \in Requests, pc'[r] \in After
  PROVE  \/ pc[r] \in After /\ begin'[r] = begin[r]
         \/ begin'[r] = clock + 1
<1> USE DEF TypeOK
<1>1. ASSUME NEW s \in Requests, Step(s), s # r
      PROVE  pc'[r] = pc[r] /\ begin'[r] = begin[r]
  BY <1>1 DEF Step, Arrive, Ask, Refresh, BeginTransaction, ReadHistory, Choose,
     StartSummary, EndSummary, Reread, Generate, Settle, Answer, Fail, Insert, GoTo
<1>2. CASE Arrive(r) \/ Refresh(r)
  BY <1>2 DEF Arrive, Refresh, BeginTransaction
<1>3. CASE Step(r) /\ ~ Arrive(r) /\ ~ Refresh(r)
  BY <1>3 DEF Step, Ask, ReadHistory, Choose, StartSummary, EndSummary, Reread, Generate,
     Settle, Answer, Fail, Insert, GoTo, After, Ended
<1>4. CASE DeleteMessage \/ DeleteChat \/ UNCHANGED vars
  BY <1>4 DEF DeleteMessage, DeleteChat, vars, locals
<1> QED BY <1>1, <1>2, <1>3, <1>4 DEF Next, Done

\* Every step keeps the ages.
LEMMA NextOlder ==
  ASSUME Inv, HistoryInv, EntryInv, OlderInv, [Next]_vars
  PROVE  OlderInv'
<1>0. /\ \A q \in Ever : /\ q.of \in Requests /\ q.created \in Nat
                         /\ q.created <= clock
      /\ clock \in Nat
  BY DEF Inv, TypeOK, HistoryInv, StampsInv, Ever, Rows
<1>1. ASSUME NEW q \in Ever, q.role = "user", pc'[q.of] \in After
      PROVE  q.created < begin'[q.of]
  <2>1. CASE pc[q.of] \in After /\ begin'[q.of] = begin[q.of]
    BY <1>1, <2>1 DEF OlderInv
  <2>2. CASE begin'[q.of] = clock + 1
    BY <1>0, <2>2
  <2> QED BY <1>0, <1>1, <2>1, <2>2, SameOrLatest DEF Inv
<1>2. ASSUME NEW m \in Ever, NEW n \in Ever', PrecedesNext(n, m)
      PROVE  n.created < m.created
  BY <1>2, PrecedesStays DEF OlderInv
<1>3. CASE Ever' = Ever
  BY <1>1, <1>2, <1>3 DEF OlderInv, Precedes, PrecedesNext
<1>4. ASSUME NEW r \in Requests, NEW role \in Roles, Ever' = Ever \cup {Row(r, role)},
             Row(r, role) \notin Ever,
             IF role = "user" THEN Ask(r) /\ pc'[r] = "asked"
                              ELSE Answer(r) /\ pc'[r] = "done"
      PROVE  OlderInv'
  <2>1. PICK k : k = Row(r, role)
    OBVIOUS
  <2>2. k.of = r /\ k.role = role /\ k.created = begin[r] /\ known'[r] = known[r]
    BY <1>4, <2>1 DEF Row, CreatedAt, Ask, Answer
  <2>3. ASSUME NEW n \in Ever', PrecedesNext(n, k)
        PROVE  n.created < k.created
    <3>1. CASE n \in known[r]
      BY <2>2, <3>1 DEF Inv, OrderInv, RequestInv
    <3>2. CASE n.of = r /\ n.role = "user" /\ role = "assistant"
      <4>1. n \in Ever
        BY <1>4, <2>1, <2>2, <3>2
      <4>2. pc[r] = "answering"
        BY <1>4, <3>2 DEF Answer
      <4> QED BY <2>2, <3>2, <4>1, <4>2 DEF OlderInv, After
    <3> QED BY <2>2, <2>3, <3>1, <3>2 DEF PrecedesNext
  <2>4. k.role = "user" => pc'[k.of] \notin After
    BY <1>4, <2>2 DEF After
  <2>5. \A m, n \in Ever' : PrecedesNext(n, m) => n.created < m.created
    BY <1>2, <1>4, <2>1, <2>3
  <2>6. \A q \in Ever' : q.role = "user" /\ pc'[q.of] \in After => q.created < begin'[q.of]
    BY <1>1, <1>4, <2>1, <2>4
  <2> QED BY <2>5, <2>6 DEF OlderInv, Precedes, PrecedesNext
<1> QED BY <1>3, <1>4, Newcomer

\* A new summary has no hole: the old one has none, and neither has what it
\* takes up.
LEMMA NewSummaryIsClosed ==
  ASSUME HoleInv, NEW r \in Requests, pc[r] = "summarizing"
  PROVE  NewSummary(r) \subseteq Ever /\ Closed(NewSummary(r))
<1>1. /\ text[r] \subseteq Ever /\ Closed(text[r])
      /\ Left(r) \subseteq Ever /\ Closed(Left(r))
  BY DEF HoleInv, PartsInv, Left
<1> QED BY <1>1 DEF NewSummary, Left, Closed

\* Where the summaries of a step come from.
LEMMA SummariesFrom ==
  ASSUME TypeOK, [Next]_vars, NEW s \in Requests
  PROVE  /\ \/ summary' \in {summary, {}}
            \/ \E r \in Requests : pc[r] = "summarizing" /\ summary' = NewSummary(r)
         /\ \/ text'[s] \in {text[s], summary}
            \/ pc[s] = "summarizing" /\ text'[s] = NewSummary(s)
         /\ seen'[s] \in {seen[s], messages}
         /\ pc'[s] \in {"omitting", "summarizing"} =>
              /\ seen'[s] = seen[s]
              /\ \/ pc[s] \in {"omitting", "summarizing"} /\ context'[s] = context[s]
                 \/ context'[s] = Recent(seen[s], Room(summary))
<1> USE DEF TypeOK
<1>1. ASSUME NEW r \in Requests, Step(r), r # s
      PROVE  /\ pc'[s] = pc[s] /\ text'[s] = text[s] /\ seen'[s] = seen[s]
             /\ context'[s] = context[s]
  BY <1>1 DEF Step, Arrive, Ask, Refresh, ReadHistory, Choose, StartSummary, EndSummary,
     Reread, Generate, Settle, Answer, Fail, Insert, GoTo
<1>2. ASSUME NEW r \in Requests, EndSummary(r)
      PROVE  /\ pc[r] = "summarizing" /\ pc'[r] \notin {"omitting", "summarizing"}
             /\ summary' = summary \/ summary' = NewSummary(r)
             /\ text'[r] \in {text[r], NewSummary(r)} /\ seen'[r] = seen[r]
  BY <1>2 DEF EndSummary, GoTo
<1>3. ASSUME NEW r \in Requests, Step(r), ~ EndSummary(r)
      PROVE  /\ summary' = summary
             /\ text'[r] \in {text[r], summary}
  BY <1>3 DEF Step, Arrive, Ask, Refresh, ReadHistory, Choose, StartSummary,
     Reread, Generate, Settle, Answer, Fail, Insert, GoTo, rows
<1>4. ASSUME NEW r \in Requests, Step(r), ~ EndSummary(r)
      PROVE  /\ seen'[r] \in {seen[r], messages}
             /\ pc'[r] \in {"omitting", "summarizing"} =>
                  /\ seen'[r] = seen[r]
                  /\ \/ pc[r] \in {"omitting", "summarizing"} /\ context'[r] = context[r]
                     \/ context'[r] = Recent(seen[r], Room(summary))
  BY <1>4 DEF Step, Arrive, Ask, Refresh, ReadHistory, Choose, StartSummary,
     Reread, Generate, Settle, Answer, Fail, Insert, GoTo, Ended
<1>5. CASE DeleteMessage \/ DeleteChat \/ UNCHANGED vars
  BY <1>5 DEF DeleteMessage, DeleteChat, vars, rows, locals
<1>6. ASSUME NEW r \in Requests, Step(r)
      PROVE  \/ summary' \in {summary, {}}
             \/ pc[r] = "summarizing" /\ summary' = NewSummary(r)
  BY <1>2, <1>3, <1>6
<1>7. CASE Step(s)
  BY <1>2, <1>3, <1>4, <1>6, <1>7
<1>8. ASSUME NEW r \in Requests, Step(r), r # s
      PROVE  /\ text'[s] = text[s] /\ seen'[s] = seen[s]
             /\ pc'[s] \in {"omitting", "summarizing"} =>
                  pc[s] \in {"omitting", "summarizing"} /\ context'[s] = context[s]
  BY <1>1, <1>8
<1>9. CASE \E r \in Requests : Step(r) /\ r # s
  BY <1>6, <1>8, <1>9
<1> QED BY <1>5, <1>7, <1>9 DEF Next, Done

\* Every step keeps summaries without holes.
LEMMA NextHole ==
  ASSUME Inv, HistoryInv, EntryInv, HoleInv, [Next]_vars
  PROVE  HoleInv'
<1>0. Inv /\ HistoryInv /\ EntryInv /\ [Next]_vars /\ TypeOK /\ OlderInv /\ IsFiniteSet(Ever)
  BY DEF Inv, HoleInv
<1>1. Ever \subseteq Ever' /\ IsFiniteSet(Ever')
  BY <1>0, Newcomer, FS_AddElement
<1>2. OlderInv'
  BY <1>0, NextOlder
<1>3. \A S \in SUBSET Ever : Closed(S) => ClosedNext(S)
  BY <1>0, ClosedStays
<1>4. {} \in SUBSET Ever /\ Closed({}) /\ messages \in SUBSET Ever /\ Closed(messages)
  BY DEF Closed, Ever
<1>5. summary \in SUBSET Ever /\ Closed(summary)
  BY DEF HoleInv
<1>6. summary' \subseteq Ever' /\ ClosedNext(summary')
  <2>1. summary' \in SUBSET Ever /\ ClosedNext(summary')
    <3>1. CASE summary' \in {summary, {}}
      BY <1>3, <1>4, <1>5, <3>1
    <3>2. ASSUME NEW r \in Requests, pc[r] = "summarizing", summary' = NewSummary(r)
          PROVE  summary' \in SUBSET Ever /\ ClosedNext(summary')
      BY <1>3, <3>2, NewSummaryIsClosed
    <3>3. CASE Requests = {}
      BY <1>0, <3>1, <3>3 DEF Next, Done, DeleteMessage, DeleteChat, vars, rows
    <3>4. CASE Requests # {}
      BY <1>0, <3>1, <3>2, <3>4, SummariesFrom
    <3> QED BY <3>3, <3>4
  <2> QED BY <1>1, <2>1
<1>7. ASSUME NEW r \in Requests
      PROVE  PartsInv(r)'
  <2>1. /\ text[r] \in SUBSET Ever /\ Closed(text[r])
        /\ seen[r] \in SUBSET Ever /\ Closed(seen[r])
        /\ pc[r] \in {"omitting", "summarizing"} => Closed(Left(r))
    BY DEF HoleInv, PartsInv
  <2>2. text'[r] \in SUBSET Ever /\ ClosedNext(text'[r])
    <3>1. CASE text'[r] \in {text[r], summary}
      BY <1>3, <1>5, <2>1, <3>1
    <3>2. CASE pc[r] = "summarizing" /\ text'[r] = NewSummary(r)
      BY <1>3, <3>2, NewSummaryIsClosed
    <3> QED BY <1>0, <3>1, <3>2, SummariesFrom
  <2>3. seen'[r] \in SUBSET Ever /\ ClosedNext(seen'[r])
    BY <1>0, <1>3, <1>4, <2>1, SummariesFrom
  <2>4. ASSUME pc'[r] \in {"omitting", "summarizing"}
        PROVE  ClosedNext(seen'[r] \ context'[r])
    <3>1. CASE pc[r] \in {"omitting", "summarizing"} /\ seen'[r] = seen[r]
               /\ context'[r] = context[r]
      <4>1. Left(r) \in SUBSET Ever
        BY <2>1 DEF Left
      <4> QED BY <1>3, <2>1, <3>1, <4>1 DEF Left
    <3>2. CASE seen'[r] = seen[r] /\ context'[r] = Recent(seen[r], Room(summary))
      <4>1. Room(summary) \in Nat
        BY SizesAssumption DEF Room
      <4>2. Closed(seen[r] \ Recent(seen[r], Room(summary)))
        BY <1>0, <2>1, <4>1, RestIsClosed
      <4> QED BY <1>3, <2>1, <3>2, <4>2
    <3> QED BY <1>0, <2>4, <3>1, <3>2, SummariesFrom
  <2> QED BY <1>1, <2>2, <2>3, <2>4
          DEF PartsInv, Left, Closed, ClosedNext, Precedes, PrecedesNext
<1> QED BY <1>1, <1>2, <1>6, <1>7
        DEF HoleInv, Closed, ClosedNext, Precedes, PrecedesNext

\* No summary has a hole, for any number of requests at once and whichever of two
\* summaries is stored last (update_summary overwrites what is there): what build
\* leaves out of a history is all that is older than something in the context.
THEOREM SummariesHaveNoHoles == Spec => []SummaryHasNoHole
<1>1. Init => EntryInv /\ HoleInv
  BY FS_EmptySet DEF Init, EntryInv, HoleInv, OlderInv, PartsInv, Closed, Ever
<1>2. Spec => []HistoryInv
  BY InitHistory, NextHistory, PTL DEF Spec
<1>3. Inv /\ Inv' /\ EntryInv /\ [Next]_vars => EntryInv'
  BY NextEntries DEF Inv
<1>4. Inv /\ HistoryInv /\ EntryInv /\ HoleInv /\ [Next]_vars => HoleInv'
  BY NextHole
<1>5. HoleInv => SummaryHasNoHole
  BY DEF HoleInv, PartsInv, Closed, SummaryHasNoHole
<1> QED BY InvHolds, <1>1, <1>2, <1>3, <1>4, <1>5, PTL DEF Spec
=============================================================================
