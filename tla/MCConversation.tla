--------------------------- MODULE MCConversation ---------------------------
(* A few requests on one chat; a question takes two tokens, an answer one.    *)
EXTENDS ChatRefinement

CONSTANTS r1, r2, r3

MCKind == [r \in Requests |-> CASE r = r1 -> "send" [] r = r2 -> "stream"
                                  [] r = r3 -> "post"]
MCMessageTokens == [role \in Roles |-> IF role = "user" THEN 2 ELSE 1]

\* Bound: while the chat lives, one request fails or one message is deleted.
FewMishaps ==
    chat = "live" =>
        Cardinality({ r \in Requests : pc[r] = "failed" }) + Cardinality(removed) <= 1
=============================================================================
