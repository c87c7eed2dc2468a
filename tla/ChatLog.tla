------------------------------- MODULE ChatLog -------------------------------
(***************************************************************************)
(* What a chat promises to those who write to it, with no transactions,    *)
(* clocks, contexts or providers: a log in which every request puts its    *)
(* question once and its answer once at most, somewhere behind all that    *)
(* was there when it arrived, the answer behind its question.  What has    *)
(* its place keeps it.  Only questions are removed one by one, and nothing *)
(* is put into a chat that is deleted.                                     *)
(***************************************************************************)

CONSTANT Requests

VARIABLES
    state,    \* "live" | "deleted"
    entries,  \* the entries: pairs of a request and a role
    before,   \* the pairs of entries of which the first comes before the second
    behind,   \* per request, the entries there when it arrived
    stage     \* per request, "new" | "arrived" | "asked" | "over"

logVars == <<state, entries, before, behind, stage>>

Question(r) == <<r, "user">>
Reply(r) == <<r, "assistant">>

LogInit ==
    /\ state = "live"
    /\ entries = {}
    /\ before = {}
    /\ behind = [r \in Requests |-> {}]
    /\ stage = [r \in Requests |-> "new"]

\* An entry takes a place: behind what is past and the entries before that.
Put(e, past) ==
    \E lower \in SUBSET entries :
        /\ past \cap entries \subseteq lower
        /\ \A p \in before : p[2] \in lower => p[1] \in lower
        /\ entries' = entries \cup {e}
        /\ before' = before \cup (lower \X {e}) \cup ({e} \X (entries \ lower))

Reach(r, s) == stage' = [stage EXCEPT ![r] = s]

Arrive(r) ==
    /\ stage[r] = "new"
    /\ behind' = [behind EXCEPT ![r] = entries]
    /\ Reach(r, "arrived")
    /\ UNCHANGED <<state, entries, before>>

Ask(r) ==
    /\ stage[r] = "arrived" /\ state = "live"
    /\ Put(Question(r), behind[r])
    /\ Reach(r, "asked")
    /\ UNCHANGED <<state, behind>>

Answer(r) ==
    /\ stage[r] = "asked" /\ state = "live"
    /\ Put(Reply(r), behind[r] \cup {Question(r)})
    /\ Reach(r, "over")
    /\ UNCHANGED <<state, behind>>

\* A request ends with nothing more in the log.
Finish(r) ==
    /\ stage[r] \in {"arrived", "asked"}
    /\ Reach(r, "over")
    /\ UNCHANGED <<state, entries, before, behind>>

\* The entries that are left keep their order.
Keep(left) ==
    /\ entries' = left
    /\ before' = before \cap (left \X left)
    /\ UNCHANGED <<behind, stage>>

Remove(r) == Keep(entries \ {Question(r)}) /\ UNCHANGED state

Delete == state = "live" /\ state' = "deleted" /\ Keep({})

LogNext == \/ \E r \in Requests : Arrive(r) \/ Ask(r) \/ Answer(r) \/ Finish(r) \/ Remove(r)
           \/ Delete

LogSpec == LogInit /\ [][LogNext]_logVars
=============================================================================
