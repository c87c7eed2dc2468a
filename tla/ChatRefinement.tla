--------------------------- MODULE ChatRefinement ---------------------------
(***************************************************************************)
(* Conversation implements ChatLog: an entry is a message without its      *)
(* stamp, and the stamps, which are the begins of transactions, are the    *)
(* order of the log.                                                       *)
(***************************************************************************)
EXTENDS Conversation

EntryOf(m) == <<m.of, m.role>>

EntriesOf(ms) == { EntryOf(m) : m \in ms }

OrderOf(ms) ==
    { <<EntryOf(p[1]), EntryOf(p[2])>> :
        p \in { q \in ms \X ms : q[1].created < q[2].created } }

StageAt(place) == CASE place = "idle"  -> "new"
                    [] place = "begun" -> "arrived"
                    [] place \in Ended -> "over"
                    [] OTHER           -> "asked"

Log == INSTANCE ChatLog WITH
    state   <- chat,
    entries <- EntriesOf(messages),
    before  <- OrderOf(messages),
    behind  <- [r \in Requests |-> EntriesOf(known[r])],
    stage   <- [r \in Requests |-> StageAt(pc[r])]

\* However requests interleave, fail and are stamped, and whatever is deleted
\* meanwhile, the messages of a chat change as the log allows: each takes its
\* place once, in an order that those who came before can rely on.
ImplementsChatLog == Log!LogSpec
=============================================================================
